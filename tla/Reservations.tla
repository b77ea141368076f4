---------------------------- MODULE Reservations ----------------------------
(***************************************************************************)
(* Capacity ownership of supervised runs:                                  *)
(*   lib/shoestring/cobbler/reservations.ex           hold, limits, fence  *)
(*   lib/shoestring/cobbler/reservation_policy.ex     the limits           *)
(*   lib/shoestring/cobbler/reservation_reconciler.ex settlement           *)
(*   lib/shoestring/cobbler/reservation_recovery.ex   never-started fence  *)
(*   lib/shoestring/cobbler/plan_dispatch.ex          hold with the intent *)
(*                                                                         *)
(* Ownership is database rows; what it pays for is an Elf and a process    *)
(* group, which live outside the database.  A settlement transaction holds *)
(* the write lock while it asks the Registry and the operating system, and *)
(* Elves start, die and lose their groups meanwhile.  Each reservation has *)
(* one run; the run is reduced to what settlement looks at, its effect is  *)
(* performed at most once (DispatchDelivery) and its terminal may come     *)
(* from anyone at any time (ElfRun).  The projected run status adds no     *)
(* case: where it has advanced, so has the dispatch or the log.            *)
(***************************************************************************)
EXTENDS Naturals, Sequences, FiniteSets

CONSTANTS Owners,    \* reservation ids; each is also the id of its run
          Goal, Account, Attempt, \* of each owner: goal, provider and scope, plan attempt
          Parent,    \* the owner it continues, or None
          Policies,  \* what operators may configure
          None

Continues(o) == Parent[o] # None

ASSUME ReservationAssumption ==
  /\ None \notin Owners
  /\ DOMAIN Goal = Owners /\ DOMAIN Account = Owners /\ DOMAIN Attempt = Owners
  /\ Parent \in [Owners -> Owners \cup {None}]
  /\ \A p \in Policies :
       /\ p \in [global : 1..64, account : 1..64, goal : 1..64, units : 1..64, task : 1..64]
       /\ p.task <= p.units
  /\ \A o \in Owners : Continues(o) =>
       Parent[o] # o /\ Goal[Parent[o]] = Goal[o] /\ Attempt[Parent[o]] = Attempt[o]

VARIABLES
  status,   \* the reservation row: "none" | "held" | "reconciliation_required"
  policy,   \* the policy it was held under
  settled,  \* its settlement: "none" | "released" | "consumed_closed"
  run,      \* its run row exists
  dispatch, \* its dispatch: the row's status, "performed" once the worker acted
  events,   \* "running" and "terminal" events of the run, in sequence order
  elf,      \* the registered Elf
  group,    \* its process group: "unborn" | "alive" | "dead"
  txn       \* the settlement transaction that holds the write lock

rows   == <<status, policy, settled>>
intent == <<run, dispatch>>
world  == <<elf, group>>
vars   == <<rows, intent, events, world, txn>>

NoTxn == [op |-> "none", owner |-> None, elf |-> "none"]
Unlocked == txn = NoTxn

Kinds == {"released", "consumed_closed"}

Outstanding == {o \in Owners : status[o] # "none" /\ settled[o] = "none"}
Has(o, e) == \E i \in 1..Len(events[o]) : events[o][i] = e
\* The writer's idempotency: one event per key.
Put(o, e) == events' = [events EXCEPT ![o] = IF Has(o, e) THEN @ ELSE Append(@, e)]

Init ==
  /\ status = [o \in Owners |-> "none"]
  /\ policy = [o \in Owners |-> None]
  /\ settled = [o \in Owners |-> "none"]
  /\ run = [o \in Owners |-> FALSE]
  /\ dispatch = [o \in Owners |-> "none"]
  /\ events = [o \in Owners |-> <<>>]
  /\ elf = [o \in Owners |-> "none"]
  /\ group = [o \in Owners |-> "unborn"]
  /\ txn = NoTxn

-----------------------------------------------------------------------------
(* Holding: one immediate transaction, with or without the run's intent    *)

\* The units the owners of a set pay for, one by one.
SumUnits(S) == Cardinality(UNION {{o} \X (1..policy[o].task) : o \in S})

\* The parent has been settled by the time a continuation is admitted.
Held(o) == Outstanding \ {Parent[o]}

\* Mutant: the policy of the owners that are still held is not compared.
WithinLimitsOfNew(o, p) ==
  LET account == {h \in Held(o) : Account[h] = Account[o]}
  IN /\ Cardinality(Held(o)) < p.global
     /\ Cardinality(account) < p.account
     /\ Cardinality({h \in Held(o) : Goal[h] = Goal[o]}) < p.goal
     /\ SumUnits(account) + p.task <= p.units

\* enforce_limits
WithinLimits(o, p) ==
  LET account == {h \in Held(o) : Account[h] = Account[o]}
  IN /\ \A h \in Held(o) : policy[h] = p
     /\ Cardinality(Held(o)) < p.global
     /\ Cardinality(account) < p.account
     /\ Cardinality({h \in Held(o) : Goal[h] = Goal[o]}) < p.goal
     /\ SumUnits(account) + p.task <= p.units

\* The unique indexes: one child per parent, one root per plan attempt.
Unique(o) ==
  \A h \in Owners : status[h] # "none" =>
    IF Continues(o) THEN Parent[h] # Parent[o]
    ELSE ~(~Continues(h) /\ Attempt[h] = Attempt[o])

\* acquire: on an admitted event whose deadline lies ahead.  The intent of a
\* plan dispatch is persisted in the same transaction.
Acquire(o, p) ==
  /\ status[o] = "none" /\ ~run[o] /\ Unique(o) /\ WithinLimits(o, p)
  /\ status' = [status EXCEPT ![o] = "held"]
  /\ policy' = [policy EXCEPT ![o] = p]

Intend(o, d) ==
  /\ run' = [run EXCEPT ![o] = TRUE]
  /\ dispatch' = [dispatch EXCEPT ![o] = d]

Hold(o) ==
  /\ Unlocked /\ ~Continues(o)
  /\ \E p \in Policies : Acquire(o, p)
  /\ \/ \E d \in {"none", "requested"} : Intend(o, d)
     \/ UNCHANGED intent
  /\ UNCHANGED <<settled, events, world, txn>>

\* authorize, inside every intent and effect transaction
Authorized(o) == status[o] = "held" /\ settled[o] = "none"

CreateIntent(o) ==
  /\ Unlocked /\ Authorized(o) /\ dispatch[o] = "none"
  /\ \E d \in {"none", "requested"} : Intend(o, d)
  /\ UNCHANGED <<rows, events, world, txn>>

-----------------------------------------------------------------------------
(* Settlement: the write lock, the Registry, the log, the process group    *)

\* Mutant: the Registry was asked before the transaction began.
LookBeforeLock(op, o) ==
  /\ Unlocked
  /\ \E e \in {"absent", "present", "unknown"} : txn' = [op |-> op, owner |-> o, elf |-> e]

\* begin immediate, then Elves.whereis, which may fail
Lock(op, o) ==
  /\ Unlocked
  /\ \E e \in {IF elf[o] = "none" THEN "absent" ELSE "present", "unknown"} :
       txn' = [op |-> op, owner |-> o, elf |-> e]

\* Reservations.reconcile, ReservationRecovery.cancel_unstarted, and the first
\* half of dispatching a continuation.
Begin(op, o) ==
  /\ status[o] # "none" /\ Lock(op, o)
  /\ UNCHANGED <<rows, intent, events, world>>

\* What a settlement leaves of an owner: a verdict retains it, marks it or settles it.
Apply(o, verdict) ==
  /\ status' = [status EXCEPT ![o] = IF verdict = "uncertain" THEN "reconciliation_required" ELSE @]
  /\ settled' = [settled EXCEPT ![o] = IF verdict \in Kinds THEN verdict ELSE @]
  /\ UNCHANGED policy

\* inspect_groups: groups on record, all before the terminal event, none alive.
Quiet(o) ==
  /\ events[o] = <<"running", "terminal">>
  /\ group[o] # "alive"

\* observe, inspect_intent and inspect_terminal; the probe of the groups may fail
Verdicts(o) ==
  CASE settled[o] # "none"                        -> {settled[o]}
    [] settled[o] = "none" /\ txn.elf = "present" -> {"retain"}
    [] settled[o] = "none" /\ txn.elf = "unknown" -> {"uncertain"}
    [] settled[o] = "none" /\ txn.elf = "absent"  ->
         IF ~run[o] THEN {"released"}
         ELSE IF ~Has(o, "terminal") THEN {"retain"}
         ELSE IF Quiet(o) THEN {"consumed_closed", "uncertain"} ELSE {"uncertain"}

Commit == txn' = NoTxn

Reconcile(o) ==
  /\ txn.op = "reconcile" /\ txn.owner = o
  /\ \E verdict \in Verdicts(o) : Apply(o, verdict)
  /\ Commit
  /\ UNCHANGED <<intent, events, world>>

\* cancel_unstarted: only intent on record, and a dispatch nobody claimed.
NeverStarted(o) ==
  run[o] /\ events[o] = <<>> /\ dispatch[o] \in {"none", "requested", "cancelled"}

Fence(o) ==
  /\ dispatch' = [dispatch EXCEPT ![o] = IF @ = "none" THEN "none" ELSE "cancelled"]
  /\ Put(o, "terminal") /\ Apply(o, "released")

CancelUnstarted(o) ==
  /\ txn.op = "cancel" /\ txn.owner = o
  /\ IF settled[o] = "none" /\ txn.elf = "absent" /\ NeverStarted(o) THEN Fence(o)
     ELSE /\ \E verdict \in Verdicts(o) :
               Apply(o, IF settled[o] = "none" /\ txn.elf = "absent" /\ run[o] THEN "uncertain" ELSE verdict)
          /\ UNCHANGED <<dispatch, events>>
  /\ Commit
  /\ UNCHANGED <<run, world>>

\* Mutant: the child does not wait for its parent's settlement.
ContinueUnsettled(o) ==
  /\ txn.op = "continue" /\ txn.owner = Parent[o]
  /\ Acquire(o, policy[Parent[o]])
  /\ Intend(o, "requested")
  /\ Commit
  /\ UNCHANGED <<settled, events, world>>

\* atomic: settle_parent, then hold and persist; a retained parent keeps its
\* mark, a refused hold rolls everything back.
Continue(o) ==
  LET parent == Parent[o]
  IN /\ txn.op = "continue" /\ txn.owner = parent
     /\ \/ /\ "consumed_closed" \in Verdicts(parent)
           /\ Acquire(o, policy[parent])
           /\ settled' = [settled EXCEPT ![parent] = "consumed_closed"]
           /\ Intend(o, "requested")
        \/ /\ \E verdict \in Verdicts(parent) \ {"consumed_closed"} : Apply(parent, verdict)
           /\ UNCHANGED intent
        \/ "consumed_closed" \in Verdicts(parent) /\ UNCHANGED <<rows, intent>>
     /\ Commit
     /\ UNCHANGED <<events, world>>

-----------------------------------------------------------------------------
(* The run: delivery and Elf                                               *)

\* claim_effect; the projected status may lag behind the events.
Claim(o) ==
  /\ Unlocked /\ dispatch[o] = "requested"
  /\ \/ Authorized(o) /\ dispatch' = [dispatch EXCEPT ![o] = "effect_started"]
     \/ events[o] # <<>> /\ dispatch' = [dispatch EXCEPT ![o] = "cancelled"]
  /\ UNCHANGED <<rows, run, events, world, txn>>

Perform(o) ==
  /\ dispatch[o] = "effect_started"
  /\ dispatch' = [dispatch EXCEPT ![o] = "performed"]
  /\ elf' = [elf EXCEPT ![o] = IF @ = "none" THEN "check" ELSE @]
  /\ UNCHANGED <<rows, run, events, group, txn>>

Check(o) ==                \* reconcile_before_spawn
  /\ elf[o] = "check"
  /\ elf' = [elf EXCEPT ![o] = CASE Has(o, "terminal") -> "none"
                                 [] ~Has(o, "terminal") /\ Has(o, "running") -> "owning"
                                 [] OTHER -> "launching"]
  /\ UNCHANGED <<rows, intent, events, group, txn>>

Spawn(o) ==
  /\ elf[o] = "launching"
  /\ group' = [group EXCEPT ![o] = "alive"]
  /\ elf' = [elf EXCEPT ![o] = "spawned"]
  /\ UNCHANGED <<rows, intent, events, txn>>

RecordRunning(o) ==
  /\ Unlocked /\ elf[o] = "spawned"
  /\ Put(o, "running")
  /\ elf' = [elf EXCEPT ![o] = "owning"]
  /\ UNCHANGED <<rows, intent, group, txn>>

\* commit_terminal, with the group dead or (stragglers) alive.
ElfEnds(o) ==
  /\ Unlocked /\ elf[o] \in {"launching", "spawned", "owning"}
  /\ elf' = [elf EXCEPT ![o] = IF Has(o, "terminal") THEN "lingering" ELSE "none"]
  /\ Put(o, "terminal")
  /\ UNCHANGED <<rows, intent, group, txn>>

ElfDies(o) ==
  /\ elf[o] # "none"
  /\ elf' = [elf EXCEPT ![o] = "none"]
  /\ UNCHANGED <<rows, intent, events, group, txn>>

GroupExits(o) ==
  /\ group[o] = "alive"
  /\ group' = [group EXCEPT ![o] = "dead"]
  /\ UNCHANGED <<rows, intent, events, elf, txn>>

\* cancel_run or the start-up reconciler, from an earlier look at Elf and group
OtherTerminal(o) ==
  /\ Unlocked /\ run[o] /\ ~Has(o, "terminal")
  /\ Put(o, "terminal")
  /\ UNCHANGED <<rows, intent, world, txn>>

Adopt(o) ==
  /\ elf[o] = "none" /\ Has(o, "running") /\ group[o] = "alive"
  /\ elf' = [elf EXCEPT ![o] = "check"]
  /\ UNCHANGED <<rows, intent, events, group, txn>>

RunSteps(o) ==
  \/ Claim(o) \/ Perform(o)
  \/ Check(o) \/ Spawn(o) \/ RecordRunning(o) \/ ElfEnds(o) \/ ElfDies(o)
  \/ GroupExits(o) \/ OtherTerminal(o) \/ Adopt(o)

Next ==
  \E o \in Owners :
    \/ Hold(o) \/ CreateIntent(o)
    \/ \E op \in {"reconcile", "cancel", "continue"} : Begin(op, o)
    \/ Reconcile(o) \/ CancelUnstarted(o) \/ (Continues(o) /\ Continue(o))
    \/ RunSteps(o)

Spec == Init /\ [][Next]_vars
-----------------------------------------------------------------------------
(* Properties                                                              *)

TypeOK ==
  /\ status \in [Owners -> {"none", "held", "reconciliation_required"}]
  /\ policy \in [Owners -> Policies \cup {None}]
  /\ settled \in [Owners -> {"none"} \cup Kinds]
  /\ run \in [Owners -> BOOLEAN]
  /\ dispatch \in [Owners -> {"none", "requested", "effect_started", "performed", "cancelled"}]
  /\ events \in [Owners -> {<<>>, <<"running">>, <<"terminal">>, <<"running", "terminal">>,
                            <<"terminal", "running">>}]
  /\ elf \in [Owners -> {"none", "check", "launching", "spawned", "owning", "lingering"}]
  /\ group \in [Owners -> {"unborn", "alive", "dead"}]
  /\ txn \in [op : {"none", "reconcile", "cancel", "continue"},
              owner : Owners \cup {None}, elf : {"none", "absent", "present", "unknown"}]
  /\ \A o \in Owners : settled[o] # "none" \/ run[o] => status[o] # "none"

\* The run uses what the reservation pays for, or is about to.
Live(o) == \/ group[o] = "alive"
           \/ elf[o] \in {"launching", "spawned", "owning"}
           \/ dispatch[o] = "effect_started"

\* reservation_reconciler.ex: a settlement is never early.  Whatever starts,
\* dies or is appended between the look at the Registry, the look at the groups
\* and the commit, a settled owner is not live and never becomes so.
LiveHoldsASlot == \A o \in Owners : Live(o) => o \in Outstanding

\* reservation_policy.ex: one policy governs all outstanding owners, and its
\* limits hold globally, per account, per goal and in units, across policy
\* changes, continuations and settlements.
WithinPolicy ==
  \A o \in Outstanding :
    LET p       == policy[o]
        account == {h \in Outstanding : Account[h] = Account[o]}
    IN /\ \A h \in Outstanding : policy[h] = p
       /\ Cardinality(Outstanding) <= p.global
       /\ Cardinality(account) <= p.account
       /\ Cardinality({h \in Outstanding : Goal[h] = Goal[o]}) <= p.goal
       /\ SumUnits(account) <= p.units

\* Every owner's record is of its type and settled only when it was held, and the
\* limits hold.
HoldsAreSound == TypeOK /\ WithinPolicy

\* A plan attempt has one owner at a time: neither a second root, nor two
\* continuations of one owner, nor a child beside its unsettled parent.
OneOwnerPerAttempt ==
  \A o, h \in Outstanding : Attempt[o] = Attempt[h] => o = h
=============================================================================
