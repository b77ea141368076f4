---------------------------- MODULE MCReservations ----------------------------
EXTENDS Reservations, TLC

CONSTANTS o1, o2, o3, c1, c2, d1

Narrow == [global |-> 2, account |-> 2, goal |-> 1, units |-> 2, task |-> 1]
Heavy  == [global |-> 3, account |-> 2, goal |-> 2, units |-> 3, task |-> 2]

\* Two attempts of two goals under one account; o3 is held under o1's attempt again.
AllGoals    == (o1 :> "g1") @@ (o2 :> "g2") @@ (o3 :> "g1") @@ (c1 :> "g1") @@ (c2 :> "g1") @@ (d1 :> "g1")
AllAttempts == (o1 :> "a1") @@ (o2 :> "a2") @@ (o3 :> "a1") @@ (c1 :> "a1") @@ (c2 :> "a1") @@ (d1 :> "a1")
AllParents  == (o1 :> None) @@ (o2 :> None) @@ (o3 :> None) @@ (c1 :> o1) @@ (c2 :> o1) @@ (d1 :> c1)

OwnGoals    == [o \in Owners |-> AllGoals[o]]
OwnAccounts == [o \in Owners |-> "local"]
OwnAttempts == [o \in Owners |-> AllAttempts[o]]
OwnParents  == [o \in Owners |-> AllParents[o]]
TwoPolicies == {Narrow, Heavy}
=============================================================================
