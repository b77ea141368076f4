----------------------------- MODULE EffectGate -----------------------------
(***************************************************************************)
(* What durable dispatch delivery promises about one external effect,      *)
(* whatever jobs, workers and reconcilers exist behind it: the intent is   *)
(* recorded before the effect may be claimed; the claim is decided once,   *)
(* for ever, either way; a claimed effect takes place at most once and a   *)
(* refused one never.                                                      *)
(***************************************************************************)
EXTENDS Naturals

VARIABLES intent,    \* the durable intent has been recorded
          gate,      \* "open" | "claimed" | "refused"
          performed  \* times the effect has taken place

gateVars == <<intent, gate, performed>>

Init == /\ intent = FALSE
        /\ gate = "open"
        /\ performed = 0

Record == /\ ~intent
          /\ intent' = TRUE
          /\ UNCHANGED <<gate, performed>>

Claim == /\ intent
         /\ gate = "open"
         /\ gate' = "claimed"
         /\ UNCHANGED <<intent, performed>>

Refuse == /\ gate = "open"
          /\ gate' = "refused"
          /\ UNCHANGED <<intent, performed>>

Perform == /\ gate = "claimed"
           /\ performed = 0
           /\ performed' = 1
           /\ UNCHANGED <<intent, gate>>

Next == Record \/ Claim \/ Refuse \/ Perform

Spec == Init /\ [][Next]_gateVars
=============================================================================
