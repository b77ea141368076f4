------------------------- MODULE ReservationsProofs -------------------------
(***************************************************************************)
(* Machine-checked proofs about capacity ownership, for any owners, goals, *)
(* accounts, plan attempts, continuations and policies: a live run holds   *)
(* its slot, a plan attempt has one owner, and the limits are kept.  The   *)
(* second part is about the allowance a run has under its slot: the lease, *)
(* as its Elf enforces it (LeaseLoop).                                     *)
(***************************************************************************)
EXTENDS Reservations, LeaseLoop, FiniteSetTheorems, SequenceTheorems, WellFoundedInduction, TLAPS

-----------------------------------------------------------------------------
(* Types                                                                   *)

Logs == {<<>>, <<"running">>, <<"terminal">>, <<"running", "terminal">>, <<"terminal", "running">>}

RowsTyped ==
  /\ status \in [Owners -> {"none", "held", "reconciliation_required"}]
  /\ policy \in [Owners -> Policies \cup {None}]
  /\ settled \in [Owners -> {"none"} \cup Kinds]

IntentTyped ==
  /\ run \in [Owners -> BOOLEAN]
  /\ dispatch \in [Owners -> {"none", "requested", "effect_started", "performed", "cancelled"}]

EventsTyped == events \in [Owners -> Logs]

WorldTyped ==
  /\ elf \in [Owners -> {"none", "check", "launching", "spawned", "owning", "lingering"}]
  /\ group \in [Owners -> {"unborn", "alive", "dead"}]

TxnTyped ==
  txn \in [op : {"none", "reconcile", "cancel", "continue"},
           owner : Owners \cup {None}, elf : {"none", "absent", "present", "unknown"}]

\* Nothing is settled, run or asked about that was not held.
HeldFirst ==
  /\ \A o \in Owners : settled[o] # "none" \/ run[o] => status[o] # "none"
  /\ txn.owner \in Owners => status[txn.owner] # "none" /\ txn.elf # "none"

Typed == RowsTyped /\ IntentTyped /\ EventsTyped /\ WorldTyped /\ TxnTyped /\ HeldFirst

\* The parts make up the type invariant of the model.
LEMMA TypedIsTypeOK == Typed => TypeOK
  BY DEF Typed, TypeOK, RowsTyped, IntentTyped, EventsTyped, WorldTyped, TxnTyped, HeldFirst, Logs

\* The initial state is of its type.
LEMMA InitTyped == Init => Typed
  <1> SUFFICES ASSUME Init PROVE Typed
    OBVIOUS
  <1>1. RowsTyped /\ IntentTyped /\ WorldTyped /\ HeldFirst
    BY ReservationAssumption DEF Init, RowsTyped, IntentTyped, WorldTyped, HeldFirst, NoTxn
  <1>2. EventsTyped
    BY DEF Init, EventsTyped, Logs
  <1>3. TxnTyped
    BY DEF Init, TxnTyped, NoTxn
  <1> QED BY <1>1, <1>2, <1>3 DEF Typed

-----------------------------------------------------------------------------
(* The log of a run: its few values and what appending does to them        *)

EndedRuns == {o \in Owners : events[o] \in {<<"terminal">>, <<"running", "terminal">>, <<"terminal", "running">>}}
Ran   == {o \in Owners : events[o] \in {<<"running">>, <<"running", "terminal">>, <<"terminal", "running">>}}

\* Which events the logs hold, and what they are with one more.
LEMMA LogFacts ==
  ASSUME NEW o \in Owners, EventsTyped
  PROVE  /\ Has(o, "terminal") <=> o \in EndedRuns
         /\ Has(o, "running") <=> o \in Ran
  <1>1. CASE events[o] = <<>>
    BY <1>1 DEF Has, EndedRuns, Ran
  <1>2. CASE events[o] = <<"running">>
    BY <1>2 DEF Has, EndedRuns, Ran
  <1>3. CASE events[o] = <<"terminal">>
    BY <1>3 DEF Has, EndedRuns, Ran
  <1>4. CASE events[o] = <<"running", "terminal">>
    <2>1. Len(events[o]) = 2 /\ events[o][1] = "running" /\ events[o][2] = "terminal"
      BY <1>4
    <2> QED BY <1>4, <2>1 DEF Has, EndedRuns, Ran
  <1>5. CASE events[o] = <<"terminal", "running">>
    <2>1. Len(events[o]) = 2 /\ events[o][1] = "terminal" /\ events[o][2] = "running"
      BY <1>5
    <2> QED BY <1>5, <2>1 DEF Has, EndedRuns, Ran
  <1> QED BY <1>1, <1>2, <1>3, <1>4, <1>5 DEF EventsTyped, Logs

\* The second event of a log.
LEMMA SecondEvent ==
  /\ Append(<<"running">>, "terminal") = <<"running", "terminal">>
  /\ Append(<<"terminal">>, "running") = <<"terminal", "running">>
  <1>1. ASSUME NEW x, NEW y PROVE Append(<<x>>, y) = <<x, y>>
    <2> DEFINE S == {x, y}
               long == Append(<<x>>, y)
               pair == <<x, y>>
    <2>1. <<x>> \in Seq(S) /\ Len(<<x>>) = 1 /\ <<x>>[1] = x
      OBVIOUS
    <2>2. pair \in Seq(S) /\ Len(pair) = 2 /\ pair[1] = x /\ pair[2] = y
      OBVIOUS
    <2>3. long \in Seq(S) /\ Len(long) = 2 /\ long[1] = x /\ long[2] = y
      BY <2>1, AppendProperties
    <2>4. long = pair
      <3> HIDE DEF long, pair
      <3>1. \A i \in 1..Len(long) : long[i] = pair[i]
        BY <2>2, <2>3
      <3> QED BY <2>2, <2>3, <3>1, SeqEqual
    <2> QED BY <2>4
  <1> QED BY <1>1

\* An event is put behind what is there, once.
LEMMA PutKeeps ==
  ASSUME NEW o \in Owners, EventsTyped, NEW e \in {"running", "terminal"}, Put(o, e)
  PROVE  /\ EventsTyped'
         /\ e = "terminal" => EndedRuns' = EndedRuns \cup {o} /\ Ran' = Ran
         /\ e = "running" => EndedRuns' = EndedRuns /\ Ran' = Ran \cup {o}
  <1> DEFINE new == IF Has(o, e) THEN events[o] ELSE Append(events[o], e)
  <1>1. events' = [events EXCEPT ![o] = new]
    BY DEF Put
  <1>2. /\ new \in Logs
        /\ e = "terminal" => new \in {<<"terminal">>, <<"running", "terminal">>, <<"terminal", "running">>}
        /\ e = "running" => new \in {<<"running">>, <<"running", "terminal">>, <<"terminal", "running">>}
        /\ e = "terminal" => (o \in Ran <=> new \in {<<"running">>, <<"running", "terminal">>, <<"terminal", "running">>})
        /\ e = "running" => (o \in EndedRuns <=> new \in {<<"terminal">>, <<"running", "terminal">>, <<"terminal", "running">>})
    <2>1. CASE events[o] = <<>>
      <3>1. new = <<e>>
        BY <2>1 DEF Has
      <3> QED BY <2>1, <3>1 DEF Logs, Ran, EndedRuns
    <2>2. CASE Has(o, e)
      BY <2>2, LogFacts DEF EventsTyped, Ran, EndedRuns
    <2>3. CASE ~Has(o, e) /\ events[o] # <<>>
      <3>1. \/ e = "terminal" /\ events[o] = <<"running">>
            \/ e = "running" /\ events[o] = <<"terminal">>
        BY <2>3, LogFacts DEF EventsTyped, Logs, Ran, EndedRuns
      <3>2. \/ e = "terminal" /\ new = <<"running", "terminal">>
            \/ e = "running" /\ new = <<"terminal", "running">>
        <4>1. new = Append(events[o], e)
          BY <2>3
        <4>2. /\ Append(<<"running">>, "terminal") = <<"running", "terminal">>
              /\ Append(<<"terminal">>, "running") = <<"terminal", "running">>
          BY SecondEvent
        <4> HIDE DEF new
        <4> QED BY <3>1, <4>1, <4>2
      <3> QED BY <3>1, <3>2 DEF Logs, Ran, EndedRuns
    <2> QED BY <2>1, <2>2, <2>3
  <1> HIDE DEF new
  <1> QED BY <1>1, <1>2 DEF EventsTyped, EndedRuns, Ran

-----------------------------------------------------------------------------
(* Each step, by what it changes                                           *)

\* A given leaves the other rows alone.
LEMMA ApplyKeeps ==
  ASSUME RowsTyped, NEW o \in Owners, status[o] # "none",
         NEW given \in Kinds \cup {"retain", "uncertain"}, Apply(o, given)
  PROVE  /\ RowsTyped'
         /\ \A h \in Owners : status'[h] = "none" <=> status[h] = "none"
         /\ \A h \in Owners : h # o => settled'[h] = settled[h]
         /\ settled'[o] = IF given \in Kinds THEN given ELSE settled[o]
  <1>1. status' \in [Owners -> {"none", "held", "reconciliation_required"}] /\ policy' = policy
        /\ \A h \in Owners : status'[h] = "none" <=> status[h] = "none"
    BY DEF RowsTyped, Apply
  <1>2. settled' \in [Owners -> {"none"} \cup Kinds]
        /\ (\A h \in Owners : h # o => settled'[h] = settled[h])
        /\ settled'[o] = IF given \in Kinds THEN given ELSE settled[o]
    BY DEF RowsTyped, Apply
  <1> QED BY <1>1, <1>2 DEF RowsTyped

\* A hold starts from a row that was free.
LEMMA AcquireKeeps ==
  ASSUME Typed, NEW o \in Owners, NEW p \in Policies, Acquire(o, p)
  PROVE  /\ status[o] = "none" /\ ~run[o] /\ settled[o] = "none" /\ Unique(o)
         /\ status' = [status EXCEPT ![o] = "held"]
         /\ status' \in [Owners -> {"none", "held", "reconciliation_required"}]
         /\ policy' \in [Owners -> Policies \cup {None}]
  BY DEF Acquire, Typed, RowsTyped, HeldFirst

\* The verdicts on an owner; what is settled stays as it is, and what is newly
\* settled was not run, or ended with nothing of it left.
LEMMA VerdictFacts ==
  ASSUME Typed, NEW o \in Owners, txn.owner = o, NEW given \in Verdicts(o)
  PROVE  /\ given \in Kinds \cup {"retain", "uncertain"}
         /\ settled[o] # "none" => given = settled[o]
         /\ settled[o] = "none" /\ given = "released" => ~run[o] /\ txn.elf = "absent"
         /\ settled[o] = "none" /\ given = "consumed_closed" =>
              /\ run[o] /\ txn.elf = "absent" /\ group[o] # "alive"
              /\ o \in EndedRuns /\ o \in Ran
  <1>1. CASE settled[o] # "none"
    BY <1>1 DEF Verdicts, Typed, RowsTyped
  <1>2. CASE settled[o] = "none" /\ txn.elf \in {"present", "unknown"}
    BY <1>2 DEF Verdicts, Kinds
  <1>3. CASE settled[o] = "none" /\ txn.elf = "absent"
    <2>1. \/ given = "released" /\ ~run[o]
          \/ given \in {"retain", "uncertain"}
          \/ given = "consumed_closed" /\ run[o] /\ Quiet(o)
      BY <1>3 DEF Verdicts
    <2>2. Quiet(o) => o \in EndedRuns /\ o \in Ran /\ group[o] # "alive"
      BY DEF Quiet, EndedRuns, Ran
    <2> QED BY <1>3, <2>1, <2>2 DEF Kinds
  <1>4. txn.elf \in {"absent", "present", "unknown"}
    BY DEF Typed, TxnTyped, HeldFirst
  <1> QED BY <1>1, <1>2, <1>3, <1>4

\* Steps that leave a group of the state alone keep its type.
LEMMA Unchanged ==
  ASSUME Typed
  PROVE  /\ UNCHANGED rows => RowsTyped'
         /\ UNCHANGED intent => IntentTyped'
         /\ UNCHANGED events => EventsTyped'
         /\ UNCHANGED world => WorldTyped'
         /\ UNCHANGED txn => TxnTyped'
         /\ UNCHANGED <<rows, run, txn>> => HeldFirst'
  BY DEF Typed, RowsTyped, IntentTyped, EventsTyped, WorldTyped, TxnTyped, HeldFirst, rows, intent, world

\* The transactions that end: what they leave is of its type.
LEMMA CommitKeeps ==
  ASSUME Typed, Commit
  PROVE  TxnTyped' /\ txn'.owner \notin Owners
  BY ReservationAssumption DEF Commit, NoTxn, TxnTyped

\* Intending a run that has its reservation keeps the types.
LEMMA IntendKeeps ==
  ASSUME Typed, NEW o \in Owners, NEW d \in {"none", "requested"}, Intend(o, d)
  PROVE  IntentTyped' /\ run' = [run EXCEPT ![o] = TRUE]
  BY DEF Typed, IntentTyped, Intend

\* A settlement in which a given is applied keeps the types.
LEMMA SettleTyped ==
  ASSUME Typed, NEW o \in Owners, txn.owner = o, NEW given \in Kinds \cup {"retain", "uncertain"},
         Apply(o, given), Commit, UNCHANGED run, IntentTyped', EventsTyped', UNCHANGED world
  PROVE  Typed'
  <1>1. status[o] # "none"
    BY DEF Typed, HeldFirst
  <1>2. /\ RowsTyped'
        /\ \A h \in Owners : status'[h] = "none" <=> status[h] = "none"
        /\ \A h \in Owners : h # o => settled'[h] = settled[h]
    BY <1>1, ApplyKeeps DEF Typed
  <1>3. HeldFirst'
    BY <1>1, <1>2, CommitKeeps DEF Typed, HeldFirst
  <1> QED BY <1>2, <1>3, CommitKeeps, Unchanged DEF Typed

\* Every step keeps the types.
LEMMA StepTyped == Typed /\ [Next]_vars => Typed'
  <1> SUFFICES ASSUME Typed, Next PROVE Typed'
    BY Unchanged DEF vars, rows, intent, Typed
  <1> PICK o \in Owners :
        \/ Hold(o) \/ CreateIntent(o)
        \/ \E op \in {"reconcile", "cancel", "continue"} : Begin(op, o)
        \/ Reconcile(o) \/ CancelUnstarted(o) \/ (Continues(o) /\ Continue(o))
        \/ RunSteps(o)
    BY DEF Next
  <1> USE Unchanged
  <1>1. CASE Hold(o)
    <2>1. PICK p \in Policies : Acquire(o, p)
      BY <1>1 DEF Hold
    <2>2. /\ status' = [status EXCEPT ![o] = "held"]
          /\ status' \in [Owners -> {"none", "held", "reconciliation_required"}]
          /\ policy' \in [Owners -> Policies \cup {None}]
      BY <2>1, AcquireKeeps
    <2>3. RowsTyped'
      BY <1>1, <2>2 DEF Hold, Typed, RowsTyped
    <2>4. IntentTyped' /\ (run' = [run EXCEPT ![o] = TRUE] \/ run' = run)
      BY <1>1, IntendKeeps DEF Hold, intent
    <2>5. HeldFirst'
      <3>1. txn'.owner \notin Owners
        BY <1>1, ReservationAssumption DEF Hold, Unlocked, NoTxn
      <3>2. \A h \in Owners : status[h] # "none" => status'[h] # "none"
        BY <2>2 DEF Typed, RowsTyped
      <3>3. status'[o] # "none" /\ settled' = settled
        BY <1>1, <2>2 DEF Hold, Typed, RowsTyped
      <3>4. \A h \in Owners : h # o => run'[h] = run[h]
        BY <2>4 DEF Typed, IntentTyped
      <3> QED BY <3>1, <3>2, <3>3, <3>4 DEF Typed, HeldFirst
    <2> QED BY <1>1, <2>3, <2>4, <2>5 DEF Hold, Typed
  <1>2. CASE CreateIntent(o)
    <2>1. IntentTyped' /\ run' = [run EXCEPT ![o] = TRUE]
      BY <1>2, IntendKeeps DEF CreateIntent
    <2>2. HeldFirst'
      BY <1>2, <2>1 DEF CreateIntent, Authorized, rows, Typed, HeldFirst, IntentTyped
    <2> QED BY <1>2, <2>1, <2>2 DEF CreateIntent, Typed
  <1>3. CASE \E op \in {"reconcile", "cancel", "continue"} : Begin(op, o)
    <2>1. PICK op \in {"reconcile", "cancel", "continue"}, e \in {"absent", "present", "unknown"} :
             txn' = [op |-> op, owner |-> o, elf |-> e]
      BY <1>3 DEF Begin, Lock
    <2>2. TxnTyped' /\ txn'.owner = o /\ txn'.elf # "none"
      BY <2>1 DEF TxnTyped
    <2>3. HeldFirst'
      BY <1>3, <2>2 DEF Begin, rows, intent, Typed, HeldFirst
    <2> QED BY <1>3, <2>2, <2>3 DEF Begin, Typed
  <1>4. CASE Reconcile(o)
    <2>1. PICK given \in Verdicts(o) : Apply(o, given)
      BY <1>4 DEF Reconcile
    <2>2. given \in Kinds \cup {"retain", "uncertain"} /\ txn.owner = o
      BY <1>4, VerdictFacts DEF Reconcile
    <2> QED BY <1>4, <2>1, <2>2, SettleTyped DEF Reconcile, intent
  <1>5. CASE CancelUnstarted(o)
    <2>1. txn.owner = o /\ Commit /\ UNCHANGED <<run, world>>
      BY <1>5 DEF CancelUnstarted
    <2>2. CASE Fence(o)
      <3>1. IntentTyped'
        BY <2>1, <2>2 DEF Fence, Typed, IntentTyped
      <3>2. EventsTyped'
        BY <2>2, PutKeeps DEF Fence, Typed
      <3>3. "released" \in Kinds /\ Apply(o, "released")
        BY <2>2 DEF Fence, Kinds
      <3> QED BY <2>1, <3>1, <3>2, <3>3, SettleTyped
    <2>3. CASE /\ \E given \in Verdicts(o) :
                    Apply(o, IF settled[o] = "none" /\ txn.elf = "absent" /\ run[o]
                             THEN "uncertain" ELSE given)
               /\ UNCHANGED <<dispatch, events>>
      <3>1. PICK given \in Kinds \cup {"retain", "uncertain"} : Apply(o, given)
        BY <2>1, <2>3, VerdictFacts
      <3> QED BY <2>1, <2>3, <3>1, SettleTyped DEF intent
    <2> QED BY <1>5, <2>2, <2>3 DEF CancelUnstarted
  <1>6. CASE Continues(o) /\ Continue(o)
    <2> DEFINE parent == Parent[o]
    <2>1. txn.owner = parent /\ Commit /\ UNCHANGED <<events, world>> /\ parent \in Owners
      BY <1>6, ReservationAssumption DEF Continue, Continues
    <2>2. CASE /\ Acquire(o, policy[parent])
               /\ settled' = [settled EXCEPT ![parent] = "consumed_closed"]
               /\ Intend(o, "requested")
      <3>1. status[parent] # "none"
        BY <2>1 DEF Typed, HeldFirst
      <3>2. /\ status[o] = "none"
            /\ status' = [status EXCEPT ![o] = "held"]
            /\ status' \in [Owners -> {"none", "held", "reconciliation_required"}]
        BY <2>2 DEF Acquire, Typed, RowsTyped
      <3>3. policy' \in [Owners -> Policies \cup {None}]
        BY <2>1, <2>2 DEF Acquire, Typed, RowsTyped
      <3>4. settled' \in [Owners -> {"none"} \cup Kinds]
        BY <2>1, <2>2 DEF Typed, RowsTyped, Kinds
      <3>5. IntentTyped' /\ run' = [run EXCEPT ![o] = TRUE]
        BY <2>2, IntendKeeps
      <3>6. HeldFirst'
        BY <2>1, <2>2, <3>1, <3>2, <3>5, CommitKeeps DEF Typed, HeldFirst, IntentTyped, RowsTyped
      <3> QED BY <2>1, <3>2, <3>3, <3>4, <3>5, <3>6, CommitKeeps DEF Typed, RowsTyped
    <2>3. CASE (\E given \in Verdicts(parent) \ {"consumed_closed"} : Apply(parent, given)) /\ UNCHANGED intent
      <3>1. PICK given \in Kinds \cup {"retain", "uncertain"} : Apply(parent, given)
        BY <2>1, <2>3, VerdictFacts
      <3> QED BY <2>1, <2>3, <3>1, SettleTyped DEF intent
    <2>4. CASE UNCHANGED <<rows, intent>>
      <3>1. HeldFirst'
        BY <2>1, <2>4, CommitKeeps DEF rows, intent, Typed, HeldFirst
      <3> QED BY <2>1, <2>4, <3>1, CommitKeeps DEF Typed
    <2> QED BY <1>6, <2>2, <2>3, <2>4 DEF Continue
  <1>7. CASE RunSteps(o)
    <2>1. RowsTyped' /\ TxnTyped' /\ HeldFirst'
      BY <1>7 DEF RunSteps, Claim, Perform, Check, Spawn, RecordRunning, ElfEnds, ElfDies, GroupExits,
                  OtherTerminal, Adopt, intent, Typed
    <2>2. IntentTyped'
      BY <1>7 DEF RunSteps, Claim, Perform, Check, Spawn, RecordRunning, ElfEnds, ElfDies, GroupExits,
                  OtherTerminal, Adopt, intent, Typed, IntentTyped
    <2>3. EventsTyped'
      BY <1>7, PutKeeps DEF RunSteps, Claim, Perform, Check, Spawn, RecordRunning, ElfEnds, ElfDies,
                  GroupExits, OtherTerminal, Adopt, Typed
    <2>4. WorldTyped'
      BY <1>7 DEF RunSteps, Claim, Perform, Check, Spawn, RecordRunning, ElfEnds, ElfDies, GroupExits,
                  OtherTerminal, Adopt, world, Typed, WorldTyped
    <2> QED BY <2>1, <2>2, <2>3, <2>4 DEF Typed
  <1> QED BY <1>1, <1>2, <1>3, <1>4, <1>5, <1>6, <1>7

\* Every reachable state is of its type.
LEMMA TypedInvariance == Spec => []Typed
  BY InitTyped, StepTyped, PTL DEF Spec

-----------------------------------------------------------------------------
(* A settlement is never early                                             *)

\* A dispatch belongs to a run.
Intended == \A o \in Owners : dispatch[o] # "none" => run[o]

\* Nothing of a run exists before its effect was performed.
PerformedFirst == \A o \in Owners :
  dispatch[o] # "performed" => elf[o] = "none" /\ group[o] = "unborn" /\ o \notin Ran

\* An Elf that was absent when the lock was taken, of a run that has ended, has
\* not begun anything since: a new one looks at the log first.
LookHolds == txn.elf = "absent" /\ txn.owner \in EndedRuns => elf[txn.owner] \in {"none", "check"}

\* Of a settled run nothing is left, and nothing can begin.
SettledQuiet == \A o \in Owners :
  settled[o] # "none" =>
    /\ elf[o] \in {"none", "check"} /\ (elf[o] = "check" => o \in EndedRuns)
    /\ group[o] # "alive"
    /\ dispatch[o] \in {"none", "cancelled", "performed"}

SettlementInv == Intended /\ PerformedFirst /\ LookHolds /\ SettledQuiet

\* At first nothing is settled.
LEMMA SettlementInit == Init => SettlementInv
  BY DEF Init, SettlementInv, Intended, PerformedFirst, LookHolds, SettledQuiet, Ran, EndedRuns, NoTxn

\* The steps of a run keep it.
LEMMA RunKeepsSettlement ==
  ASSUME Typed, SettlementInv, NEW o \in Owners, RunSteps(o)
  PROVE  SettlementInv'
  <1>0. /\ elf \in [Owners -> {"none", "check", "launching", "spawned", "owning", "lingering"}]
        /\ group \in [Owners -> {"unborn", "alive", "dead"}]
        /\ dispatch \in [Owners -> {"none", "requested", "effect_started", "performed", "cancelled"}]
        /\ run \in [Owners -> BOOLEAN]
        /\ EventsTyped
    BY DEF Typed, WorldTyped, IntentTyped
  <1>1. UNCHANGED <<settled, txn, run>>
    BY DEF RunSteps, Claim, Perform, Check, Spawn, RecordRunning, ElfEnds, ElfDies, GroupExits,
           OtherTerminal, Adopt, rows, intent
  <1>2. CASE Claim(o)
    <2>1. /\ dispatch[o] = "requested" /\ UNCHANGED <<events, elf, group>>
          /\ \/ settled[o] = "none" /\ dispatch' = [dispatch EXCEPT ![o] = "effect_started"]
             \/ dispatch' = [dispatch EXCEPT ![o] = "cancelled"]
      BY <1>2 DEF Claim, Authorized, world
    <2> QED BY <1>0, <1>1, <2>1
            DEF SettlementInv, Intended, PerformedFirst, LookHolds, SettledQuiet, Ran, EndedRuns
  <1>3. CASE Perform(o)
    <2>1. /\ dispatch[o] = "effect_started" /\ UNCHANGED <<events, group>>
          /\ dispatch' = [dispatch EXCEPT ![o] = "performed"]
          /\ elf' = [elf EXCEPT ![o] = IF elf[o] = "none" THEN "check" ELSE elf[o]]
      BY <1>3 DEF Perform
    <2> QED BY <1>0, <1>1, <2>1
            DEF SettlementInv, Intended, PerformedFirst, LookHolds, SettledQuiet, Ran, EndedRuns
  <1>4. CASE Check(o)
    <2>1. /\ elf[o] = "check" /\ UNCHANGED <<events, group, dispatch>>
          /\ \E e \in {"none", "owning", "launching"} :
               elf' = [elf EXCEPT ![o] = e] /\ (o \in EndedRuns => e = "none")
      BY <1>0, <1>4, LogFacts DEF Check, intent
    <2> QED BY <1>0, <1>1, <2>1
            DEF SettlementInv, Intended, PerformedFirst, LookHolds, SettledQuiet, Ran, EndedRuns
  <1>5. CASE Spawn(o)
    <2>1. /\ elf[o] = "launching" /\ UNCHANGED <<events, dispatch>>
          /\ group' = [group EXCEPT ![o] = "alive"] /\ elf' = [elf EXCEPT ![o] = "spawned"]
      BY <1>5 DEF Spawn, intent
    <2> QED BY <1>0, <1>1, <2>1
            DEF SettlementInv, Intended, PerformedFirst, LookHolds, SettledQuiet, Ran, EndedRuns
  <1>6. CASE RecordRunning(o)
    <2>1. /\ elf[o] = "spawned" /\ UNCHANGED <<group, dispatch>> /\ Put(o, "running")
          /\ elf' = [elf EXCEPT ![o] = "owning"] /\ txn = NoTxn
      BY <1>6 DEF RecordRunning, intent, Unlocked
    <2>2. EndedRuns' = EndedRuns /\ Ran' = Ran \cup {o}
      BY <1>0, <2>1, PutKeeps
    <2> QED BY <1>0, <1>1, <2>1, <2>2
            DEF SettlementInv, Intended, PerformedFirst, LookHolds, SettledQuiet, NoTxn
  <1>7. CASE ElfEnds(o)
    <2>1. /\ elf[o] \in {"launching", "spawned", "owning"} /\ UNCHANGED <<group, dispatch>>
          /\ Put(o, "terminal") /\ txn = NoTxn
          /\ \E e \in {"lingering", "none"} : elf' = [elf EXCEPT ![o] = e]
      BY <1>7 DEF ElfEnds, intent, Unlocked
    <2>2. EndedRuns' = EndedRuns \cup {o} /\ Ran' = Ran
      BY <1>0, <2>1, PutKeeps
    <2> QED BY <1>0, <1>1, <2>1, <2>2
            DEF SettlementInv, Intended, PerformedFirst, LookHolds, SettledQuiet, NoTxn
  <1>8. CASE ElfDies(o) \/ GroupExits(o)
    <2>1. /\ UNCHANGED <<events, dispatch>>
          /\ \/ elf' = [elf EXCEPT ![o] = "none"] /\ group' = group
             \/ group[o] = "alive" /\ group' = [group EXCEPT ![o] = "dead"] /\ elf' = elf
      BY <1>8 DEF ElfDies, GroupExits, intent
    <2> QED BY <1>0, <1>1, <2>1
            DEF SettlementInv, Intended, PerformedFirst, LookHolds, SettledQuiet, Ran, EndedRuns
  <1>9. CASE OtherTerminal(o)
    <2>1. UNCHANGED <<elf, group, dispatch>> /\ Put(o, "terminal") /\ txn = NoTxn
      BY <1>9 DEF OtherTerminal, intent, world, Unlocked
    <2>2. EndedRuns' = EndedRuns \cup {o} /\ Ran' = Ran
      BY <1>0, <2>1, PutKeeps
    <2> QED BY <1>0, <1>1, <2>1, <2>2
            DEF SettlementInv, Intended, PerformedFirst, LookHolds, SettledQuiet, NoTxn
  <1>10. CASE Adopt(o)
    <2>1. /\ group[o] = "alive" /\ UNCHANGED <<events, group, dispatch>>
          /\ elf' = [elf EXCEPT ![o] = "check"]
      BY <1>10 DEF Adopt, intent
    <2> QED BY <1>0, <1>1, <2>1
            DEF SettlementInv, Intended, PerformedFirst, LookHolds, SettledQuiet, Ran, EndedRuns
  <1> QED BY <1>2, <1>3, <1>4, <1>5, <1>6, <1>7, <1>8, <1>9, <1>10 DEF RunSteps

\* What a given settles is quiet already.
LEMMA VerdictIsQuiet ==
  ASSUME Typed, SettlementInv, NEW o \in Owners, txn.owner = o, NEW given \in Verdicts(o) \cap Kinds
  PROVE  /\ elf[o] \in {"none", "check"} /\ (elf[o] = "check" => o \in EndedRuns)
         /\ group[o] # "alive"
         /\ dispatch[o] \in {"none", "cancelled", "performed"}
  <1>0. given \in Verdicts(o) /\ given \in {"released", "consumed_closed"}
    BY DEF Kinds
  <1>1. CASE settled[o] # "none"
    BY <1>1 DEF SettlementInv, SettledQuiet
  <1>2. CASE settled[o] = "none" /\ given = "released"
    <2>1. ~run[o]
      BY <1>0, <1>2, VerdictFacts
    <2>2. dispatch[o] = "none"
      BY <2>1 DEF SettlementInv, Intended
    <2> QED BY <2>2 DEF SettlementInv, PerformedFirst
  <1>3. CASE settled[o] = "none" /\ given = "consumed_closed"
    <2>1. txn.elf = "absent" /\ group[o] # "alive" /\ o \in EndedRuns /\ o \in Ran
      BY <1>0, <1>3, VerdictFacts
    <2> QED BY <2>1 DEF SettlementInv, PerformedFirst, LookHolds
  <1> QED BY <1>0, <1>1, <1>2, <1>3

\* Applying a given keeps the invariant.
LEMMA VerdictKeeps ==
  ASSUME Typed, SettlementInv, NEW o \in Owners, txn.owner = o,
         NEW given \in Verdicts(o) \cup {"uncertain"}, Apply(o, given), Commit,
         UNCHANGED <<run, dispatch, events, elf, group>>
  PROVE  SettlementInv'
  <1>1. given \in Kinds \cup {"retain", "uncertain"} /\ status[o] # "none"
    BY VerdictFacts DEF Typed, HeldFirst
  <1>2. /\ \A h \in Owners : h # o => settled'[h] = settled[h]
        /\ settled'[o] = IF given \in Kinds THEN given ELSE settled[o]
    BY <1>1, ApplyKeeps DEF Typed
  <1>3. EndedRuns' = EndedRuns /\ Ran' = Ran
    BY DEF EndedRuns, Ran
  <1>4. SettledQuiet'
    <2>1. given \in Kinds => given \in Verdicts(o) \cap Kinds
      BY DEF Kinds
    <2>2. ASSUME NEW h \in Owners, settled'[h] # "none"
          PROVE  settled[h] # "none" \/ (h = o /\ given \in Kinds)
      BY <1>2, <2>2
    <2> QED BY <1>3, <2>1, <2>2, VerdictIsQuiet DEF SettlementInv, SettledQuiet
  <1>5. Intended' /\ PerformedFirst'
    BY <1>3 DEF SettlementInv, Intended, PerformedFirst
  <1>6. LookHolds'
    BY DEF Commit, NoTxn, LookHolds
  <1> QED BY <1>4, <1>5, <1>6 DEF SettlementInv

\* Every step keeps it.
LEMMA SettlementStep == Typed /\ SettlementInv /\ [Next]_vars => SettlementInv'
  <1>1. ASSUME Typed, SettlementInv, UNCHANGED vars PROVE SettlementInv'
    BY <1>1 DEF vars, rows, intent, world, SettlementInv, Intended, PerformedFirst, LookHolds,
                SettledQuiet, EndedRuns, Ran
  <1> SUFFICES ASSUME Typed, SettlementInv, Next PROVE SettlementInv'
    BY <1>1
  <1> PICK o \in Owners :
        \/ Hold(o) \/ CreateIntent(o)
        \/ \E op \in {"reconcile", "cancel", "continue"} : Begin(op, o)
        \/ Reconcile(o) \/ CancelUnstarted(o) \/ (Continues(o) /\ Continue(o))
        \/ RunSteps(o)
    BY DEF Next
  <1>0. /\ dispatch \in [Owners -> {"none", "requested", "effect_started", "performed", "cancelled"}]
        /\ run \in [Owners -> BOOLEAN] /\ settled \in [Owners -> {"none"} \cup Kinds]
    BY DEF Typed, IntentTyped, RowsTyped
  <1>2. CASE Hold(o) \/ CreateIntent(o)
    <2>1. UNCHANGED <<settled, events, elf, group, txn>> /\ settled[o] = "none" /\ dispatch[o] = "none"
      <3>1. CASE Hold(o)
        BY <3>1, AcquireKeeps DEF Hold, world, SettlementInv, Intended
      <3>2. CASE CreateIntent(o)
        BY <3>2 DEF CreateIntent, Authorized, rows, world
      <3> QED BY <1>2, <3>1, <3>2
    <2>2. \/ UNCHANGED <<run, dispatch>>
          \/ \E d \in {"none", "requested"} : /\ run' = [run EXCEPT ![o] = TRUE]
                                              /\ dispatch' = [dispatch EXCEPT ![o] = d]
      BY <1>2 DEF Hold, CreateIntent, Intend, intent
    <2> QED BY <1>0, <2>1, <2>2
            DEF SettlementInv, Intended, PerformedFirst, LookHolds, SettledQuiet, EndedRuns, Ran
  <1>3. CASE \E op \in {"reconcile", "cancel", "continue"} : Begin(op, o)
    <2>1. PICK op \in {"reconcile", "cancel", "continue"},
               e \in {IF elf[o] = "none" THEN "absent" ELSE "present", "unknown"} :
             txn' = [op |-> op, owner |-> o, elf |-> e]
      BY <1>3 DEF Begin, Lock
    <2>2. UNCHANGED <<settled, run, dispatch, events, elf, group>>
      BY <1>3 DEF Begin, rows, intent, world
    <2>3. LookHolds'
      BY <2>1, <2>2 DEF LookHolds
    <2> QED BY <2>2, <2>3 DEF SettlementInv, Intended, PerformedFirst, SettledQuiet, EndedRuns, Ran
  <1>4. CASE Reconcile(o)
    BY <1>4, VerdictKeeps DEF Reconcile, intent, world
  <1>5. CASE CancelUnstarted(o)
    <2>1. txn.owner = o /\ Commit /\ UNCHANGED <<run, elf, group>> /\ status[o] # "none"
      BY <1>5 DEF CancelUnstarted, world, Typed, HeldFirst
    <2>2. CASE NeverStarted(o) /\ Fence(o)
      <3>1. /\ dispatch[o] \in {"none", "requested", "cancelled"} /\ run[o]
            /\ dispatch' = [dispatch EXCEPT ![o] = IF dispatch[o] = "none" THEN "none" ELSE "cancelled"]
        BY <2>2 DEF NeverStarted, Fence
      <3>2. EndedRuns' = EndedRuns \cup {o} /\ Ran' = Ran
        BY <2>2, PutKeeps DEF Fence, Typed
      <3>3. \A h \in Owners : h # o => settled'[h] = settled[h]
        BY <2>1, <2>2, ApplyKeeps DEF Fence, Kinds, Typed
      <3>4. LookHolds'
        BY <2>1 DEF Commit, NoTxn, LookHolds
      <3> QED BY <1>0, <2>1, <3>1, <3>2, <3>3, <3>4
              DEF SettlementInv, Intended, PerformedFirst, SettledQuiet
    <2>3. CASE /\ \E given \in Verdicts(o) :
                    Apply(o, IF settled[o] = "none" /\ txn.elf = "absent" /\ run[o]
                             THEN "uncertain" ELSE given)
               /\ UNCHANGED <<dispatch, events>>
      <3>1. PICK given \in Verdicts(o) \cup {"uncertain"} : Apply(o, given)
        BY <2>3
      <3> QED BY <2>1, <2>3, <3>1, VerdictKeeps
    <2> QED BY <1>5, <2>2, <2>3 DEF CancelUnstarted
  <1>6. CASE Continues(o) /\ Continue(o)
    <2> DEFINE parent == Parent[o]
    <2>1. /\ txn.owner = parent /\ Commit /\ UNCHANGED <<events, elf, group>>
          /\ parent \in Owners /\ parent # o
      BY <1>6, ReservationAssumption DEF Continue, Continues, world
    <2>2. CASE /\ "consumed_closed" \in Verdicts(parent) /\ Acquire(o, policy[parent])
               /\ settled' = [settled EXCEPT ![parent] = "consumed_closed"]
               /\ Intend(o, "requested")
      <3>1. /\ elf[parent] \in {"none", "check"} /\ (elf[parent] = "check" => parent \in EndedRuns)
            /\ group[parent] # "alive" /\ dispatch[parent] \in {"none", "cancelled", "performed"}
        BY <2>1, <2>2, VerdictIsQuiet DEF Kinds
      <3>2. settled[o] = "none" /\ dispatch[o] = "none"
        BY <2>2 DEF Acquire, Typed, RowsTyped, HeldFirst, SettlementInv, Intended
      <3>3. /\ run' = [run EXCEPT ![o] = TRUE] /\ dispatch' = [dispatch EXCEPT ![o] = "requested"]
        BY <2>2 DEF Intend
      <3>4. LookHolds'
        BY <2>1 DEF Commit, NoTxn, LookHolds
      <3>5. EndedRuns' = EndedRuns /\ Ran' = Ran
        BY <2>1 DEF EndedRuns, Ran
      <3>6. SettledQuiet'
        BY <1>0, <2>1, <2>2, <3>1, <3>2, <3>3, <3>5 DEF SettlementInv, SettledQuiet
      <3>7. Intended' /\ PerformedFirst'
        BY <1>0, <2>1, <3>2, <3>3, <3>5 DEF SettlementInv, Intended, PerformedFirst
      <3> QED BY <3>4, <3>6, <3>7 DEF SettlementInv
    <2>3. CASE (\E given \in Verdicts(parent) \ {"consumed_closed"} : Apply(parent, given)) /\ UNCHANGED intent
      <3>1. PICK given \in Verdicts(parent) : Apply(parent, given)
        BY <2>3
      <3> QED BY <2>1, <2>3, <3>1, VerdictKeeps DEF intent
    <2>4. CASE UNCHANGED <<rows, intent>>
      <3>1. LookHolds'
        BY <2>1 DEF Commit, NoTxn, LookHolds
      <3> QED BY <2>1, <2>4, <3>1
              DEF rows, intent, SettlementInv, Intended, PerformedFirst, SettledQuiet, EndedRuns, Ran
    <2> QED BY <1>6, <2>2, <2>3, <2>4 DEF Continue
  <1> QED BY <1>2, <1>3, <1>4, <1>5, <1>6, RunKeepsSettlement

\* It holds in every reachable state.
LEMMA SettlementInvariance == Spec => []SettlementInv
  BY SettlementInit, SettlementStep, TypedInvariance, PTL DEF Spec

\* Whatever starts, dies or is appended between the look at the Registry, the
\* look at the groups and the commit, a live run holds its slot.
THEOREM LiveRunsHold == Spec => []LiveHoldsASlot
  <1>1. Typed /\ SettlementInv => LiveHoldsASlot
    <2> SUFFICES ASSUME Typed, SettlementInv, NEW o \in Owners, Live(o) PROVE o \in Outstanding
      BY DEF LiveHoldsASlot
    <2>1. settled[o] = "none"
      BY DEF SettlementInv, SettledQuiet, Live
    <2>2. dispatch[o] # "none"
      BY DEF SettlementInv, PerformedFirst, Live
    <2>3. status[o] # "none"
      BY <2>2 DEF SettlementInv, Intended, Typed, HeldFirst
    <2> QED BY <2>1, <2>3 DEF Outstanding
  <1> QED BY <1>1, TypedInvariance, SettlementInvariance, PTL

-----------------------------------------------------------------------------
(* A plan attempt has one owner                                            *)

Owned == {o \in Owners : status[o] # "none"}

\* The owners nobody continues.
Tips == {o \in Owned : \A h \in Owned : Parent[h] # o}

\* The owners of an attempt are a chain: it begins with a root, each but the last
\* is settled before the next is held.
ChainInv ==
  /\ \A o \in Owned : Continues(o) => Parent[o] \in Owned /\ settled[Parent[o]] # "none"
  /\ \A o \in Owned : \E r \in Owned : ~Continues(r) /\ Attempt[r] = Attempt[o]
  /\ \A o, h \in Tips : Attempt[o] = Attempt[h] => o = h

\* At first nobody owns anything.
LEMMA ChainInit == Init => ChainInv
  BY DEF Init, ChainInv, Owned, Tips

\* Settling, marking or retaining keeps the chain.
LEMMA ChainKeeps ==
  ASSUME ChainInv, Owned' = Owned, \A o \in Owners : settled[o] # "none" => settled'[o] # "none"
  PROVE  ChainInv'
  <1>1. Tips' = Tips
    BY DEF Tips
  <1>2. Owned \subseteq Owners
    BY DEF Owned
  <1> QED BY <1>1, <1>2 DEF ChainInv

\* A given owns nothing and unsettles nothing.
LEMMA VerdictKeepsChain ==
  ASSUME Typed, ChainInv, NEW o \in Owners, txn.owner = o,
         NEW given \in Kinds \cup {"retain", "uncertain"}, Apply(o, given)
  PROVE  ChainInv'
  <1>1. /\ \A h \in Owners : status'[h] = "none" <=> status[h] = "none"
        /\ \A h \in Owners : h # o => settled'[h] = settled[h]
        /\ settled'[o] = IF given \in Kinds THEN given ELSE settled[o]
    BY ApplyKeeps DEF Typed, HeldFirst
  <1>2. Owned' = Owned
    BY <1>1 DEF Owned
  <1>3. \A h \in Owners : settled[h] # "none" => settled'[h] # "none"
    BY <1>1 DEF Kinds
  <1> QED BY <1>2, <1>3, ChainKeeps

\* A root begins the chain of its attempt.
LEMMA RootKeepsChain ==
  ASSUME Typed, ChainInv, NEW o \in Owners, ~Continues(o), o \notin Owned, Unique(o),
         Owned' = Owned \cup {o}, settled' = settled
  PROVE  ChainInv'
  <1>0. Owned \subseteq Owners /\ Parent[o] = None /\ None \notin Owners
    BY ReservationAssumption DEF Owned, Continues
  <1>1. \A h \in Owned : Continues(h) \/ Attempt[h] # Attempt[o]
    BY DEF Unique, Owned
  <1>2. \A h \in Owned : Attempt[h] # Attempt[o]
    BY <1>1 DEF ChainInv
  <1>3. \A h \in Owned : Parent[h] # o
    BY <1>0 DEF ChainInv, Continues
  <1>4. Tips' \subseteq Tips \cup {o}
    BY <1>0 DEF Tips
  <1>5. \A x, y \in Tips' : Attempt[x] = Attempt[y] => x = y
    BY <1>2, <1>4 DEF ChainInv, Tips
  <1>6. \A x \in Owned' : Continues(x) => Parent[x] \in Owned' /\ settled'[Parent[x]] # "none"
    BY DEF ChainInv
  <1>7. \A x \in Owned' : \E r \in Owned' : ~Continues(r) /\ Attempt[r] = Attempt[x]
    BY DEF ChainInv
  <1> QED BY <1>5, <1>6, <1>7 DEF ChainInv

\* A continuation prolongs the chain of its parent, which is settled by then.
LEMMA ChildKeepsChain ==
  ASSUME Typed, ChainInv, NEW o \in Owners, Continues(o), o \notin Owned, Unique(o),
         Parent[o] \in Owned, Owned' = Owned \cup {o},
         settled' = [settled EXCEPT ![Parent[o]] = "consumed_closed"]
  PROVE  ChainInv'
  <1> DEFINE parent == Parent[o]
  <1>0. /\ Owned \subseteq Owners /\ parent \in Owners /\ parent # o /\ Attempt[parent] = Attempt[o]
        /\ settled \in [Owners -> {"none"} \cup Kinds]
    BY ReservationAssumption DEF Owned, Typed, RowsTyped
  <1>1. \A h \in Owned : Parent[h] # parent
    BY DEF Unique, Owned
  <1>2. parent \in Tips /\ parent \notin Tips'
    BY <1>0, <1>1 DEF Tips
  <1>3. Tips' \subseteq (Tips \ {parent}) \cup {o}
    BY <1>0, <1>2 DEF Tips
  <1>4. \A h \in Tips \ {parent} : Attempt[h] # Attempt[o]
    BY <1>0, <1>2 DEF ChainInv
  <1>5. \A x, y \in Tips' : Attempt[x] = Attempt[y] => x = y
    BY <1>3, <1>4 DEF ChainInv
  <1>6. \A x \in Owned' : Continues(x) => Parent[x] \in Owned' /\ settled'[Parent[x]] # "none"
    <2>1. settled'[parent] # "none" /\ \A h \in Owners : settled[h] # "none" => settled'[h] # "none"
      BY <1>0
    <2> QED BY <1>0, <2>1 DEF ChainInv
  <1>7. \A x \in Owned' : \E r \in Owned' : ~Continues(r) /\ Attempt[r] = Attempt[x]
    BY <1>0 DEF ChainInv
  <1> QED BY <1>5, <1>6, <1>7 DEF ChainInv

\* Every step keeps the chains.
LEMMA ChainStep == Typed /\ ChainInv /\ [Next]_vars => ChainInv'
  <1>1. ASSUME ChainInv, UNCHANGED <<status, settled>> PROVE ChainInv'
    BY <1>1, ChainKeeps DEF Owned
  <1> SUFFICES ASSUME Typed, ChainInv, Next PROVE ChainInv'
    BY <1>1 DEF vars, rows
  <1> PICK o \in Owners :
        \/ Hold(o) \/ CreateIntent(o)
        \/ \E op \in {"reconcile", "cancel", "continue"} : Begin(op, o)
        \/ Reconcile(o) \/ CancelUnstarted(o) \/ (Continues(o) /\ Continue(o))
        \/ RunSteps(o)
    BY DEF Next
  <1>0. status \in [Owners -> {"none", "held", "reconciliation_required"}]
    BY DEF Typed, RowsTyped
  <1>2. CASE Hold(o)
    <2>1. /\ status[o] = "none" /\ Unique(o) /\ status' = [status EXCEPT ![o] = "held"]
          /\ ~Continues(o) /\ settled' = settled
      BY <1>2, AcquireKeeps DEF Hold
    <2>2. o \notin Owned /\ Owned' = Owned \cup {o}
      BY <1>0, <2>1 DEF Owned
    <2> QED BY <2>1, <2>2, RootKeepsChain
  <1>3. CASE CreateIntent(o) \/ (\E op \in {"reconcile", "cancel", "continue"} : Begin(op, o)) \/ RunSteps(o)
    BY <1>1, <1>3 DEF CreateIntent, Begin, RunSteps, Claim, Perform, Check, Spawn, RecordRunning,
           ElfEnds, ElfDies, GroupExits, OtherTerminal, Adopt, rows
  <1>4. CASE Reconcile(o)
    BY <1>4, VerdictFacts, VerdictKeepsChain DEF Reconcile
  <1>5. CASE CancelUnstarted(o)
    <2>1. txn.owner = o
      BY <1>5 DEF CancelUnstarted
    <2>2. \E given \in Kinds \cup {"retain", "uncertain"} : Apply(o, given)
      BY <1>5, <2>1, VerdictFacts DEF CancelUnstarted, Fence, Kinds
    <2> QED BY <2>1, <2>2, VerdictKeepsChain
  <1>6. CASE Continues(o) /\ Continue(o)
    <2> DEFINE parent == Parent[o]
    <2>1. txn.owner = parent /\ parent \in Owners /\ parent \in Owned
      BY <1>6, ReservationAssumption DEF Continue, Continues, Typed, HeldFirst, Owned
    <2>2. CASE Acquire(o, policy[parent]) /\ settled' = [settled EXCEPT ![parent] = "consumed_closed"]
      <3>1. status[o] = "none" /\ Unique(o) /\ status' = [status EXCEPT ![o] = "held"]
        BY <2>2 DEF Acquire
      <3>2. o \notin Owned /\ Owned' = Owned \cup {o}
        BY <1>0, <3>1 DEF Owned
      <3> QED BY <1>6, <2>1, <2>2, <3>1, <3>2, ChildKeepsChain
    <2>3. CASE \E given \in Verdicts(parent) : Apply(parent, given)
      BY <2>1, <2>3, VerdictFacts, VerdictKeepsChain
    <2>4. CASE UNCHANGED rows
      BY <1>1, <2>4 DEF rows
    <2> QED BY <1>6, <2>2, <2>3, <2>4 DEF Continue
  <1> QED BY <1>2, <1>3, <1>4, <1>5, <1>6

\* They hold in every reachable state.
LEMMA ChainInvariance == Spec => []ChainInv
  BY ChainInit, ChainStep, TypedInvariance, PTL DEF Spec

\* However attempts are held again, settled and continued, each has at most one
\* unsettled owner.
THEOREM AttemptsHaveOneOwner == Spec => []OneOwnerPerAttempt
  <1>1. ChainInv => OneOwnerPerAttempt
    <2> SUFFICES ASSUME ChainInv, NEW o \in Outstanding, NEW h \in Outstanding, Attempt[o] = Attempt[h]
                 PROVE  o = h
      BY DEF OneOwnerPerAttempt
    <2>1. \A x \in Outstanding : x \in Tips
      BY ReservationAssumption DEF ChainInv, Tips, Owned, Outstanding, Continues
    <2> QED BY <2>1 DEF ChainInv
  <1> QED BY <1>1, ChainInvariance, PTL

-----------------------------------------------------------------------------
(* The limits                                                              *)

UnitsIn(pol, S) == UNION {{o} \X (1..pol[o].task) : o \in S}
Numbers == 1..64

\* The units of a set of owners are finitely many.
LEMMA UnitsFinite ==
  ASSUME NEW pol, NEW S, IsFiniteSet(S), \A o \in S : pol[o].task \in Numbers
  PROVE  IsFiniteSet(UnitsIn(pol, S)) /\ Cardinality(UnitsIn(pol, S)) \in Nat
  <1>1. IsFiniteSet(Numbers)
    <2>1. 1 \in Int /\ 64 \in Int
      OBVIOUS
    <2> QED BY <2>1, FS_Interval DEF Numbers
  <1>2. IsFiniteSet(S \X Numbers)
    BY <1>1, FS_Product
  <1>3. UnitsIn(pol, S) \in SUBSET (S \X Numbers)
    <2>1. \A o \in S : 1..pol[o].task \subseteq Numbers
      BY DEF Numbers
    <2> QED BY <2>1 DEF UnitsIn
  <1>4. IsFiniteSet(UnitsIn(pol, S))
    BY <1>2, <1>3, FS_Subset
  <1> QED BY <1>4, FS_CardinalityType

\* Fewer owners have fewer units.
LEMMA UnitsShrink ==
  ASSUME NEW pol, NEW S, IsFiniteSet(S), \A o \in S : pol[o].task \in Numbers,
         NEW T \in SUBSET S
  PROVE  Cardinality(UnitsIn(pol, T)) <= Cardinality(UnitsIn(pol, S))
  <1>1. UnitsIn(pol, T) \in SUBSET UnitsIn(pol, S)
    BY DEF UnitsIn
  <1> QED BY <1>1, UnitsFinite, FS_Subset

\* What one owner has.
LEMMA UnitsOfOne ==
  ASSUME NEW x, NEW n \in Nat, n >= 1
  PROVE  IsFiniteSet({x} \X (1..n)) /\ Cardinality({x} \X (1..n)) = n
  <1>1. 1 \in Int /\ n \in Int /\ ~(1 > n)
    OBVIOUS
  <1>2. IsFiniteSet(1..n) /\ Cardinality(1..n) = n - 1 + 1
    BY <1>1, FS_Interval
  <1>3. IsFiniteSet({x}) /\ Cardinality({x}) = 1
    BY FS_Singleton
  <1>4. IsFiniteSet({x} \X (1..n)) /\ Cardinality({x} \X (1..n)) = Cardinality({x}) * Cardinality(1..n)
    BY <1>2, <1>3, FS_Product
  <1> QED BY ONLY <1>2, <1>3, <1>4, n \in Nat

\* One more owner has its units in addition.
LEMMA UnitsAdd ==
  ASSUME NEW pol, NEW S, IsFiniteSet(S), NEW x, \A o \in S \cup {x} : pol[o].task \in Numbers
  PROVE  Cardinality(UnitsIn(pol, S \cup {x})) <= Cardinality(UnitsIn(pol, S)) + pol[x].task
  <1> DEFINE own == {x} \X (1..pol[x].task)
             old == UnitsIn(pol, S)
  <1>1. pol[x].task \in Nat /\ pol[x].task >= 1
    BY DEF Numbers
  <1>4. IsFiniteSet(own) /\ Cardinality(own) = pol[x].task
    BY <1>1, UnitsOfOne
  <1>5. UnitsIn(pol, S \cup {x}) = old \cup own
    BY DEF UnitsIn
  <1>6. IsFiniteSet(old) /\ Cardinality(old) \in Nat
    BY UnitsFinite
  <1> HIDE DEF own, old
  <1>7. /\ IsFiniteSet(old \cap own) /\ Cardinality(old \cap own) \in Nat
        /\ Cardinality(old \cup own) = Cardinality(old) + Cardinality(own) - Cardinality(old \cap own)
    <2>1. old \cap own \in SUBSET old
      OBVIOUS
    <2>2. IsFiniteSet(old \cap own)
      BY <1>6, <2>1, FS_Subset
    <2>3. Cardinality(old \cap own) \in Nat
      BY <2>2, FS_CardinalityType
    <2>4. Cardinality(old \cup own) = Cardinality(old) + Cardinality(own) - Cardinality(old \cap own)
      BY <1>4, <1>6, FS_Union
    <2> QED BY <2>2, <2>3, <2>4
  <1>8. Cardinality(old \cup own) <= Cardinality(old) + pol[x].task
    <2> DEFINE both == Cardinality(old \cap own)
               all  == Cardinality(old \cup own)
               one  == pol[x].task
    <2>1. all = Cardinality(old) + one - both /\ both \in Nat /\ one \in Nat /\ Cardinality(old) \in Nat
      BY <1>1, <1>4, <1>6, <1>7
    <2> HIDE DEF both, all, one
    <2>2. all <= Cardinality(old) + one
      BY <2>1
    <2> QED BY <2>2 DEF all, one
  <1> QED BY <1>5, <1>8 DEF old

\* The units depend on the policies of the owners only.
LEMMA UnitsAgree ==
  ASSUME NEW pol, NEW new, NEW S, \A o \in S : pol[o] = new[o]
  PROVE  UnitsIn(pol, S) = UnitsIn(new, S)
  <1>1. \A o \in S : {o} \X (1..pol[o].task) = {o} \X (1..new[o].task)
    OBVIOUS
  <1>2. {{o} \X (1..pol[o].task) : o \in S} = {{o} \X (1..new[o].task) : o \in S}
    BY <1>1
  <1> QED BY <1>2 DEF UnitsIn

InAccount(S, o) == {h \in S : Account[h] = Account[o]}
InGoal(S, o)    == {h \in S : Goal[h] = Goal[o]}

\* The limits of one policy over a set of owners.
Within(pol, S) ==
  \A o \in S :
    /\ \A h \in S : pol[h] = pol[o]
    /\ Cardinality(S) <= pol[o].global
    /\ Cardinality(InAccount(S, o)) <= pol[o].account
    /\ Cardinality(InGoal(S, o)) <= pol[o].goal
    /\ Cardinality(UnitsIn(pol, InAccount(S, o))) <= pol[o].units

\* Fewer owners stay within the limits.
LEMMA WithinShrinks ==
  ASSUME NEW pol, NEW S, IsFiniteSet(S), NEW T \in SUBSET S, Within(pol, S),
         \A o \in S : pol[o] \in Policies
  PROVE  IsFiniteSet(T) /\ Within(pol, T)
  <1>1. IsFiniteSet(T) /\ Cardinality(T) <= Cardinality(S)
    BY FS_Subset
  <1> SUFFICES ASSUME NEW o \in T
               PROVE  /\ Cardinality(T) <= pol[o].global
                      /\ Cardinality(InAccount(T, o)) <= pol[o].account
                      /\ Cardinality(InGoal(T, o)) <= pol[o].goal
                      /\ Cardinality(UnitsIn(pol, InAccount(T, o))) <= pol[o].units
    BY <1>1 DEF Within
  <1>2. /\ pol[o].global \in Nat /\ pol[o].account \in Nat /\ pol[o].goal \in Nat /\ pol[o].units \in Nat
        /\ \A h \in S : pol[h].task \in Numbers
    BY ReservationAssumption DEF Numbers
  <1>3. InAccount(T, o) \in SUBSET InAccount(S, o) /\ InGoal(T, o) \in SUBSET InGoal(S, o)
        /\ InAccount(S, o) \in SUBSET S /\ InGoal(S, o) \in SUBSET S
    BY DEF InAccount, InGoal
  <1>4. IsFiniteSet(InAccount(S, o)) /\ IsFiniteSet(InGoal(S, o))
    BY <1>3, FS_Subset
  <1>5. /\ Cardinality(InAccount(T, o)) <= Cardinality(InAccount(S, o))
        /\ Cardinality(InGoal(T, o)) <= Cardinality(InGoal(S, o))
    BY <1>3, <1>4, FS_Subset
  <1>6. Cardinality(UnitsIn(pol, InAccount(T, o))) <= Cardinality(UnitsIn(pol, InAccount(S, o)))
    <2>1. \A h \in InAccount(S, o) : pol[h].task \in Numbers
      BY <1>2, <1>3
    <2> QED BY <1>3, <1>4, <2>1, UnitsShrink
  <1>7. /\ Cardinality(S) \in Nat /\ Cardinality(InAccount(S, o)) \in Nat /\ Cardinality(InGoal(S, o)) \in Nat
        /\ Cardinality(UnitsIn(pol, InAccount(S, o))) \in Nat
    <2>1. \A h \in InAccount(S, o) : pol[h].task \in Numbers
      BY <1>2, <1>3
    <2> QED BY <1>4, <2>1, UnitsFinite, FS_CardinalityType
  <1>8. /\ Cardinality(T) \in Nat /\ Cardinality(InAccount(T, o)) \in Nat /\ Cardinality(InGoal(T, o)) \in Nat
        /\ Cardinality(UnitsIn(pol, InAccount(T, o))) \in Nat
    <2>1. IsFiniteSet(InAccount(T, o)) /\ IsFiniteSet(InGoal(T, o))
      BY <1>3, <1>4, FS_Subset
    <2>2. \A h \in InAccount(T, o) : pol[h].task \in Numbers
      BY <1>2, <1>3
    <2> QED BY <1>1, <2>1, <2>2, UnitsFinite, FS_CardinalityType
  <1>9. /\ Cardinality(S) <= pol[o].global
        /\ Cardinality(InAccount(S, o)) <= pol[o].account
        /\ Cardinality(InGoal(S, o)) <= pol[o].goal
        /\ Cardinality(UnitsIn(pol, InAccount(S, o))) <= pol[o].units
    BY DEF Within
  <1> QED BY ONLY <1>1, <1>2, <1>5, <1>6, <1>7, <1>8, <1>9

\* One more owner of a kind that has room for it.
LEMMA GroupGrows ==
  ASSUME NEW S, IsFiniteSet(S), NEW x, NEW n \in Nat, Cardinality(S) < n
  PROVE  IsFiniteSet(S \cup {x}) /\ Cardinality(S \cup {x}) <= n
  <1>1. Cardinality(S) \in Nat
    BY FS_CardinalityType
  <1> QED BY <1>1, FS_AddElement

\* Who is held within the limits leaves everyone within them.
LEMMA WithinGrows ==
  ASSUME NEW pol, NEW new, NEW S, IsFiniteSet(S), NEW x, x \notin S, Within(pol, S), NEW p \in Policies,
         \A h \in S : pol[h] = p /\ new[h] = p, new[x] = p,
         Cardinality(S) < p.global, Cardinality(InAccount(S, x)) < p.account,
         Cardinality(InGoal(S, x)) < p.goal,
         Cardinality(UnitsIn(pol, InAccount(S, x))) + p.task <= p.units
  PROVE  IsFiniteSet(S \cup {x}) /\ Within(new, S \cup {x})
  <1> DEFINE All == S \cup {x}
  <1>1. /\ p.global \in Nat /\ p.account \in Nat /\ p.goal \in Nat /\ p.units \in Nat
        /\ p.task \in Numbers /\ p.task \in Nat
    BY ReservationAssumption DEF Numbers
  <1>2. IsFiniteSet(All) /\ Cardinality(All) <= p.global
    BY <1>1, GroupGrows
  <1>3. \A o \in S : /\ Cardinality(InAccount(S, o)) <= p.account
                     /\ Cardinality(InGoal(S, o)) <= p.goal
                     /\ Cardinality(UnitsIn(pol, InAccount(S, o))) <= p.units
    BY DEF Within
  <1>4. \A o \in All : InAccount(S, o) \in SUBSET S /\ InGoal(S, o) \in SUBSET S
    BY DEF InAccount, InGoal
  <1>5. \A o \in All : IsFiniteSet(InAccount(S, o)) /\ IsFiniteSet(InGoal(S, o))
    BY <1>4, FS_Subset
  <1>6. \A h \in All : new[h] = p
    OBVIOUS
  <1> SUFFICES ASSUME NEW o \in All
               PROVE  /\ Cardinality(InAccount(All, o)) <= p.account
                      /\ Cardinality(InGoal(All, o)) <= p.goal
                      /\ Cardinality(UnitsIn(new, InAccount(All, o))) <= p.units
    <2>1. Within(new, All)
      <3> HIDE DEF All
      <3> QED BY <1>2, <1>6 DEF Within
    <2> QED BY <1>2, <2>1
  <1>7. UnitsIn(new, InAccount(S, o)) = UnitsIn(pol, InAccount(S, o))
    BY <1>4, UnitsAgree
  <1>8. Cardinality(InAccount(All, o)) <= p.account /\ Cardinality(UnitsIn(new, InAccount(All, o))) <= p.units
    <2>1. CASE Account[o] = Account[x]
      <3>1. InAccount(All, o) = InAccount(S, x) \cup {x} /\ InAccount(S, o) = InAccount(S, x)
        BY <2>1 DEF InAccount
      <3>2. Cardinality(InAccount(S, x) \cup {x}) <= p.account
        BY <1>1, <1>5, GroupGrows
      <3>3. \A h \in InAccount(S, x) \cup {x} : new[h].task \in Numbers
        BY <1>1, <1>4, <1>6
      <3>4. Cardinality(UnitsIn(new, InAccount(S, x) \cup {x})) <= Cardinality(UnitsIn(new, InAccount(S, x))) + p.task
        BY <1>5, <1>6, <3>3, UnitsAdd
      <3>5. /\ Cardinality(UnitsIn(new, InAccount(S, x))) \in Nat
            /\ Cardinality(UnitsIn(new, InAccount(S, x) \cup {x})) \in Nat
        <4>1. IsFiniteSet(InAccount(S, x)) /\ IsFiniteSet(InAccount(S, x) \cup {x})
          BY <1>5, FS_AddElement
        <4>2. \A h \in InAccount(S, x) : new[h].task \in Numbers
          BY <3>3
        <4> QED BY <3>3, <4>1, <4>2, UnitsFinite
      <3>6. Cardinality(UnitsIn(new, InAccount(S, x))) + p.task <= p.units
        <4>1. UnitsIn(new, InAccount(S, x)) = UnitsIn(pol, InAccount(S, x))
          BY <1>7, <3>1
        <4> QED BY <4>1
      <3> DEFINE fewer == Cardinality(UnitsIn(new, InAccount(S, x)))
                 more  == Cardinality(UnitsIn(new, InAccount(S, x) \cup {x}))
      <3>7. more <= p.units
        <4>1. more <= fewer + p.task /\ fewer + p.task <= p.units /\ fewer \in Nat /\ more \in Nat
          BY <3>4, <3>5, <3>6
        <4> HIDE DEF fewer, more
        <4> QED BY ONLY <1>1, <4>1
      <3> QED BY <3>1, <3>2, <3>7
    <2>2. CASE Account[o] # Account[x]
      <3>1. InAccount(All, o) = InAccount(S, o) /\ o \in S
        BY <2>2 DEF InAccount
      <3> QED BY <1>3, <1>7, <3>1
    <2> QED BY <2>1, <2>2
  <1>9. Cardinality(InGoal(All, o)) <= p.goal
    <2>1. CASE Goal[o] = Goal[x]
      <3>1. InGoal(All, o) = InGoal(S, x) \cup {x}
        BY <2>1 DEF InGoal
      <3> QED BY <1>1, <1>5, <3>1, GroupGrows
    <2>2. CASE Goal[o] # Goal[x]
      <3>1. InGoal(All, o) = InGoal(S, o) /\ o \in S
        BY <2>2 DEF InGoal
      <3> QED BY <1>3, <3>1
    <2> QED BY <2>1, <2>2
  <1> QED BY <1>8, <1>9

\* What is outstanding is finite, was held under a policy, and is within it.
LimitInv ==
  /\ IsFiniteSet(Outstanding) /\ Within(policy, Outstanding)
  /\ \A o \in Owned : policy[o] \in Policies

\* Settling, marking or retaining keeps the limits.
LEMMA LimitKeeps ==
  ASSUME LimitInv, UNCHANGED policy, Outstanding' \subseteq Outstanding, Owned' = Owned
  PROVE  LimitInv'
  <1>1. Outstanding \subseteq Owned
    BY DEF Outstanding, Owned
  <1>2. IsFiniteSet(Outstanding') /\ Within(policy, Outstanding')
    BY <1>1, WithinShrinks DEF LimitInv
  <1> QED BY <1>2 DEF LimitInv

\* A given holds nothing.
LEMMA VerdictKeepsLimits ==
  ASSUME Typed, LimitInv, NEW o \in Owners, txn.owner = o,
         NEW given \in Kinds \cup {"retain", "uncertain"}, Apply(o, given)
  PROVE  LimitInv'
  <1>1. /\ \A h \in Owners : status'[h] = "none" <=> status[h] = "none"
        /\ \A h \in Owners : h # o => settled'[h] = settled[h]
        /\ settled'[o] = IF given \in Kinds THEN given ELSE settled[o]
        /\ UNCHANGED policy
    BY ApplyKeeps DEF Typed, HeldFirst, Apply
  <1>2. Owned' = Owned
    BY <1>1 DEF Owned
  <1>3. Outstanding' \subseteq Outstanding
    BY <1>1 DEF Outstanding, Kinds
  <1> QED BY <1>1, <1>2, <1>3, LimitKeeps

\* A hold keeps the limits, counted without the parent that is settled with it.
LEMMA HoldKeepsLimits ==
  ASSUME Typed, LimitInv, NEW o \in Owners, NEW p \in Policies, Acquire(o, p),
         Outstanding' = Held(o) \cup {o}, Owned' = Owned \cup {o}
  PROVE  LimitInv'
  <1>1. /\ Outstanding \subseteq Owned /\ Owned \subseteq Owners /\ o \notin Owned
        /\ Held(o) \in SUBSET Outstanding /\ o \notin Held(o)
    BY DEF Outstanding, Owned, Held, Acquire
  <1>2. IsFiniteSet(Held(o)) /\ Within(policy, Held(o))
    BY <1>1, WithinShrinks DEF LimitInv
  <1>3. /\ \A h \in Owners : h # o => policy'[h] = policy[h]
        /\ policy'[o] = p
    BY DEF Acquire, Typed, RowsTyped
  <1>4. \A h \in Held(o) : policy[h] = p /\ policy'[h] = p
    BY <1>1, <1>3 DEF Acquire, WithinLimits
  <1>5. /\ Cardinality(Held(o)) < p.global /\ Cardinality(InAccount(Held(o), o)) < p.account
        /\ Cardinality(InGoal(Held(o), o)) < p.goal
        /\ Cardinality(UnitsIn(policy, InAccount(Held(o), o))) + p.task <= p.units
    BY DEF Acquire, WithinLimits, InAccount, InGoal, SumUnits, UnitsIn
  <1>6. IsFiniteSet(Held(o) \cup {o}) /\ Within(policy', Held(o) \cup {o})
    BY <1>1, <1>2, <1>3, <1>4, <1>5, WithinGrows
  <1>7. \A h \in Owned' : policy'[h] \in Policies
    BY <1>1, <1>3 DEF LimitInv
  <1> QED BY <1>6, <1>7 DEF LimitInv

\* Every step keeps the limits.
LEMMA LimitStep == Typed /\ LimitInv /\ [Next]_vars => LimitInv'
  <1>1. ASSUME LimitInv, UNCHANGED rows PROVE LimitInv'
    BY <1>1, LimitKeeps DEF Owned, Outstanding, rows
  <1> SUFFICES ASSUME Typed, LimitInv, Next PROVE LimitInv'
    BY <1>1 DEF vars
  <1> PICK o \in Owners :
        \/ Hold(o) \/ CreateIntent(o)
        \/ \E op \in {"reconcile", "cancel", "continue"} : Begin(op, o)
        \/ Reconcile(o) \/ CancelUnstarted(o) \/ (Continues(o) /\ Continue(o))
        \/ RunSteps(o)
    BY DEF Next
  <1>0. /\ status \in [Owners -> {"none", "held", "reconciliation_required"}]
        /\ settled \in [Owners -> {"none"} \cup Kinds]
        /\ status[o] = "none" => settled[o] = "none"
    BY DEF Typed, RowsTyped, HeldFirst
  <1>2. CASE Hold(o)
    <2>1. PICK p \in Policies : Acquire(o, p)
      BY <1>2 DEF Hold
    <2>2. /\ status[o] = "none" /\ settled[o] = "none" /\ status' = [status EXCEPT ![o] = "held"]
          /\ ~Continues(o) /\ settled' = settled
      BY <1>0, <1>2, <2>1 DEF Hold, Acquire
    <2>3. Held(o) = Outstanding
      BY <2>2, ReservationAssumption DEF Held, Outstanding, Continues
    <2>4. Owned' = Owned \cup {o} /\ Outstanding' = Held(o) \cup {o}
      BY <1>0, <2>2, <2>3 DEF Owned, Outstanding
    <2> QED BY <2>1, <2>4, HoldKeepsLimits
  <1>3. CASE CreateIntent(o) \/ (\E op \in {"reconcile", "cancel", "continue"} : Begin(op, o)) \/ RunSteps(o)
    BY <1>1, <1>3 DEF CreateIntent, Begin, RunSteps, Claim, Perform, Check, Spawn, RecordRunning,
           ElfEnds, ElfDies, GroupExits, OtherTerminal, Adopt
  <1>4. CASE Reconcile(o)
    BY <1>4, VerdictFacts, VerdictKeepsLimits DEF Reconcile
  <1>5. CASE CancelUnstarted(o)
    <2>1. txn.owner = o
      BY <1>5 DEF CancelUnstarted
    <2>2. \E given \in Kinds \cup {"retain", "uncertain"} : Apply(o, given)
      BY <1>5, <2>1, VerdictFacts DEF CancelUnstarted, Fence, Kinds
    <2> QED BY <2>1, <2>2, VerdictKeepsLimits
  <1>6. CASE Continues(o) /\ Continue(o)
    <2> DEFINE parent == Parent[o]
    <2>1. txn.owner = parent /\ parent \in Owners /\ parent \in Owned /\ parent # o
      BY <1>6, ReservationAssumption DEF Continue, Continues, Typed, HeldFirst, Owned
    <2>2. CASE Acquire(o, policy[parent]) /\ settled' = [settled EXCEPT ![parent] = "consumed_closed"]
      <3>1. status[o] = "none" /\ status' = [status EXCEPT ![o] = "held"]
        BY <2>2 DEF Acquire
      <3>2. policy[parent] \in Policies
        BY <2>1 DEF LimitInv
      <3>3. Owned' = Owned \cup {o}
        BY <1>0, <3>1 DEF Owned
      <3>4. Outstanding' = Held(o) \cup {o}
        BY <1>0, <2>1, <2>2, <3>1 DEF Outstanding, Held
      <3> QED BY <2>2, <3>2, <3>3, <3>4, HoldKeepsLimits
    <2>3. CASE \E given \in Verdicts(parent) : Apply(parent, given)
      BY <2>1, <2>3, VerdictFacts, VerdictKeepsLimits
    <2>4. CASE UNCHANGED rows
      BY <1>1, <2>4
    <2> QED BY <1>6, <2>2, <2>3, <2>4 DEF Continue
  <1> QED BY <1>2, <1>3, <1>4, <1>5, <1>6

\* The records are of their type, and one policy governs all owners that are
\* outstanding and bounds them globally, per account, per goal and in units,
\* over policy changes, continuations and settlements (HoldsAreSound;
\* reservations.ex, enforce_limits).
THEOREM LimitsHold == Spec => []HoldsAreSound
  <1>1. Init => LimitInv
    <2> SUFFICES ASSUME Init PROVE LimitInv
      OBVIOUS
    <2>1. Outstanding = {} /\ Owned = {}
      BY DEF Init, Outstanding, Owned
    <2> QED BY <2>1, FS_EmptySet DEF LimitInv, Within
  <1>2. Typed /\ LimitInv => HoldsAreSound
    BY TypedIsTypeOK DEF HoldsAreSound, WithinPolicy, LimitInv, Within, InAccount, InGoal, SumUnits, UnitsIn
  <1> QED BY <1>1, <1>2, LimitStep, TypedInvariance, PTL DEF Spec

-----------------------------------------------------------------------------
(* The lease of one run, as its Elf enforces it (LeaseLoop)                *)

\* A set of numbers that is not empty has a least element.
LEMMA LeastElement ==
  ASSUME NEW T, T \subseteq Nat, T # {}
  PROVE  \E n \in T : \A m \in T : n <= m
<1> DEFINE R == {ss \in Nat \X Nat : ss[1] < ss[2]}
<1>1. OpToRel(<, Nat) = R
  BY Zenon DEF OpToRel
<1>2. IsWellFoundedOn(R, Nat)
  <2> HIDE DEF R
  <2> QED BY <1>1, NatLessThanWellFounded, Zenon
<1>3. PICK n \in T : \A m \in T : ~ (<<m, n>> \in R)
  <2> HIDE DEF R
  <2> QED BY <1>2, WFMin
<1>4. \A m \in T : m \in Nat /\ n \in Nat /\ ~(m < n)
  BY <1>3
<1> QED BY <1>4

\* Induction: a set with 0 and with the successor of each of its numbers has
\* them all.
LEMMA Induction ==
  ASSUME NEW S, 0 \in S, \A n \in Nat : n \in S => n + 1 \in S
  PROVE  Nat \subseteq S
<1> SUFFICES ASSUME ~(Nat \subseteq S) PROVE FALSE
  OBVIOUS
<1> DEFINE T == {n \in Nat : n \notin S}
<1>1. PICK n \in T : \A m \in T : n <= m
  BY LeastElement
<1>2. n # 0 /\ n - 1 \in Nat /\ n - 1 \notin T
  BY <1>1
<1> QED BY <1>1, <1>2


\* Where the Elf can be, and what it holds there.
LeasePcs == {"idle", "quota", "due", "stop", "renew", "load", "observe", "persist", "mark",
             "renewing", "expire", "require", "done", "terminal", "revoke", "retire", "last",
             "ended"}
Leased == [pc : LeasePcs, kind : AccountKinds, loaded : BOOLEAN, level : BOOLEAN,
           latch : BOOLEAN, effect : BOOLEAN, spent : BOOLEAN, stop : BOOLEAN,
           pending : BOOLEAN, unjudged : BOOLEAN, row : LeaseStatuses \cup {"none"},
           admit : BOOLEAN, key : Keys]

LeaseTyped ==
  /\ MaxReadings \in Nat
  /\ log \in Seq([act : Acts, key : Keys])
  /\ applied \in 3..Len(log)
  /\ leased \in Leased
  /\ reading \in Keys /\ epochs \in Nat /\ faults \in Seq(Faults)
  /\ verdict \in AccountKinds
  /\ wedged \in BOOLEAN /\ deadline \in BOOLEAN /\ dueOnce \in BOOLEAN

\* The verdict on record is the event the Elf is at, or was; what it is about to
\* append it may append, under the key of a reading that was taken.
Closing == {"terminal", "revoke", "retire", "last", "ended"}
Judging == {"persist", "mark", "renewing"}
LeaseTurn ==
  /\ leased.pc = "idle" => leased.kind = "none" /\ verdict = "none"
  /\ leased.pc \in Closing => verdict # "none"
  /\ leased.pc \notin Closing \cup {"idle"} =>
       leased.kind # "none" /\ verdict = IF leased.kind = "spend" THEN "none" ELSE leased.kind
  /\ leased.pc = "persist" /\ leased.kind = "spend" => leased.admit
  /\ leased.pc \in {"expire", "require"} => leased.kind # "spend"
  /\ leased.pc = "quota" => verdict = "quota"
  /\ leased.pc = "revoke" => verdict = "completed"
  /\ leased.pc \in Judging => leased.key # ByGrant
  /\ leased.pc \in Judging \cup {"expire", "require"} => leased.key <= reading
  /\ leased.pc \in Judging \cup {"observe", "expire", "require"} =>
       leased.row \in Renewable

-----------------------------------------------------------------------------
(* What the lease events say                                               *)

\* The defining equation of the status.
LEMMA StatusUnfolds ==
  \A n \in Nat : Status[n] =
    IF n = 0 THEN "proposed" ELSE LeaseTarget(Status[n - 1], log[n].act)
<1> DEFINE Rest(g, k) == IF k = 0 THEN "proposed" ELSE LeaseTarget(g[k - 1], log[k].act)
           Good(g, n) == \A k \in 0..n : g[k] = Rest(g, k)
           Approx(n) == CHOOSE g : Good(g, n)
           f == [n \in Nat |-> Approx(n)[n]]
<1>1. \A n \in Nat : \E g : Good(g, n)
  <2> DEFINE S == {n \in Nat : \E g : Good(g, n)}
  <2>1. 0 \in S
    <3>1. Good([k \in Nat |-> "proposed"], 0)
      OBVIOUS
    <3> QED BY <3>1
  <2>2. ASSUME NEW n \in Nat, n \in S PROVE n + 1 \in S
    <3>1. PICK g : Good(g, n)
      BY <2>2
    <3> DEFINE h == [k \in Nat |-> IF k = n + 1 THEN LeaseTarget(g[n], log[n + 1].act) ELSE g[k]]
    <3>2. Good(h, n + 1)
      BY <3>1
    <3> HIDE DEF Good
    <3> QED BY <3>2
  <2> HIDE DEF S
  <2>3. Nat \subseteq S
    BY <2>1, <2>2, Induction
  <2> QED BY <2>3 DEF S
<1>2. \A n \in Nat : Good(Approx(n), n)
  BY <1>1
<1>3. ASSUME NEW n \in Nat, NEW g, NEW h, Good(g, n), Good(h, n)
      PROVE  \A k \in 0..n : g[k] = h[k]
  <2> DEFINE S == {k \in Nat : k <= n => g[k] = h[k]}
  <2>1. 0 \in S
    BY <1>3
  <2>2. ASSUME NEW k \in Nat, k \in S PROVE k + 1 \in S
    BY <1>3, <2>2
  <2> HIDE DEF S
  <2>3. Nat \subseteq S
    BY <2>1, <2>2, Induction
  <2> QED BY <2>3 DEF S
<1>4. ASSUME NEW n \in Nat PROVE f[n] = Rest(f, n)
  <2>1. Good(Approx(n), n)
    BY <1>2
  <2>2. CASE n = 0
    BY <2>1, <2>2
  <2>3. CASE n # 0
    <3>1. n - 1 \in Nat
      BY <2>3
    <3>2. Good(Approx(n - 1), n - 1)
      BY <1>2, <3>1
    <3>3. Good(Approx(n), n - 1)
      <4> HIDE DEF Approx, Rest
      <4>1. \A k \in 0..n - 1 : k \in 0..n
        BY <3>1
      <4> QED BY <2>1, <4>1
    <3> HIDE DEF Approx
    <3>4. Approx(n)[n - 1] = Approx(n - 1)[n - 1]
      <4> HIDE DEF Good
      <4>1. \A k \in 0..n - 1 : Approx(n)[k] = Approx(n - 1)[k]
        BY <1>3, <3>1, <3>2, <3>3
      <4> QED BY <4>1, <3>1
    <3>5. Approx(n)[n] = LeaseTarget(Approx(n)[n - 1], log[n].act)
      BY <2>1, <2>3
    <3> QED BY <3>1, <3>4, <3>5, <2>3
  <2> QED BY <2>2, <2>3
<1>5. f = [n \in Nat |-> Rest(f, n)]
  <2> DEFINE r == [n \in Nat |-> Rest(f, n)]
  <2> HIDE DEF f
  <2>1. \A n \in Nat : f[n] = r[n]
    BY <1>4
  <2>2. f = [n \in Nat |-> f[n]]
    BY DEF f
  <2> QED BY <2>1, <2>2
<1>6. Status = [n \in Nat |-> Rest(Status, n)]
  <2> HIDE DEF f
  <2> QED BY <1>5 DEF Status
<1> HIDE DEF f, Approx, Good
<1> QED BY <1>6

\* The status after a prefix depends on nothing behind it.
LEMMA StatusIsStable ==
  ASSUME NEW k \in Nat, \A i \in 1..k : log'[i] = log[i]
  PROVE  \A n \in 0..k : Status'[n] = Status[n]
<1>1. (\A n \in Nat : Status[n] =
         IF n = 0 THEN "proposed" ELSE LeaseTarget(Status[n - 1], log[n].act))'
  BY StatusUnfolds, PTL
<1> DEFINE S == {n \in Nat : n <= k => Status'[n] = Status[n]}
<1>2. 0 \in S
  BY <1>1, StatusUnfolds
<1>3. ASSUME NEW n \in Nat, n \in S PROVE n + 1 \in S
  <2> SUFFICES ASSUME n + 1 <= k PROVE Status'[n + 1] = Status[n + 1]
    OBVIOUS
  <2>1. Status'[n] = Status[n] /\ log'[n + 1] = log[n + 1]
    BY <1>3
  <2>2. n + 1 \in Nat /\ n + 1 # 0 /\ (n + 1) - 1 = n
    OBVIOUS
  <2>3. Status'[n + 1] = LeaseTarget(Status'[n], log'[n + 1].act)
    BY <2>2, <1>1
  <2>4. Status[n + 1] = LeaseTarget(Status[n], log[n + 1].act)
    BY <2>2, StatusUnfolds
  <2> QED BY <2>1, <2>3, <2>4
<1> HIDE DEF S
<1>4. Nat \subseteq S
  BY <1>2, <1>3, Induction
<1> QED BY <1>4 DEF S

\* An event of the log, and the status the whole log leads to.
LeaseEntry == [act : Acts, key : Keys]
LeaseTip == Status[Len(log)]

\* A status is one of the lifecycle table, or the illegal one.
LEMMA StatusTyped == \A n \in Nat : Status[n] \in LeaseStatuses \cup {"illegal"}
<1> SUFFICES ASSUME NEW n \in Nat PROVE Status[n] \in LeaseStatuses \cup {"illegal"}
  OBVIOUS
<1>1. CASE n = 0
  BY <1>1, StatusUnfolds DEF LeaseStatuses
<1>2. CASE n # 0
  <2>1. Status[n] = LeaseTarget(Status[n - 1], log[n].act)
    BY <1>2, StatusUnfolds
  <2> QED BY <2>1 DEF LeaseTarget, LeaseStatuses
<1> QED BY <1>1, <1>2

\* An append that is not keyed away adds one event and moves the status of the
\* whole log one step along the table; any other changes nothing.
LEMMA LeaseAppends ==
  ASSUME LeaseTyped, NEW act \in Acts, NEW key \in Keys, Append1(act, key)
  PROVE  /\ log' \in Seq(LeaseEntry) /\ Len(log) <= Len(log')
         /\ \A i \in 1..Len(log) : log'[i] = log[i]
         /\ \A n \in 0..Len(log) : Status'[n] = Status[n]
         /\ InLog(act, key) => log' = log /\ LeaseTip' = LeaseTip
         /\ ~InLog(act, key) =>
              /\ Len(log') = Len(log) + 1 /\ log'[Len(log) + 1] = [act |-> act, key |-> key]
              /\ LeaseTip' = LeaseTarget(LeaseTip, act)
         /\ \A a, k : InLog(a, k)' <=> InLog(a, k) \/ (a = act /\ k = key)
<1>1. log \in Seq(LeaseEntry) /\ Len(log) \in Nat
  BY DEF LeaseTyped, LeaseEntry
<1>2. CASE InLog(act, key)
  <2>1. log' = log
    BY <1>2 DEF Append1
  <2>2. \A n \in 0..Len(log) : Status'[n] = Status[n]
    BY <2>1, <1>1, StatusIsStable
  <2>3. \A a, k : InLog(a, k)' <=> InLog(a, k)
    BY <2>1 DEF InLog
  <2>4. Len(log') = Len(log) /\ Len(log) \in 0..Len(log)
    BY <2>1, <1>1
  <2> QED BY <1>1, <1>2, <2>1, <2>2, <2>3, <2>4 DEF LeaseTip
<1>3. CASE ~InLog(act, key)
  <2> DEFINE e == [act |-> act, key |-> key]
  <2>1. e \in LeaseEntry /\ log' = Append(log, e)
    BY <1>3 DEF LeaseEntry, Append1
  <2>2. /\ log' \in Seq(LeaseEntry) /\ Len(log') = Len(log) + 1
        /\ \A i \in 1..Len(log) : log'[i] = log[i]
        /\ log'[Len(log) + 1] = e
    BY <1>1, <2>1
  <2>3. \A n \in 0..Len(log) : Status'[n] = Status[n]
    BY <2>2, <1>1, StatusIsStable
  <2>4. LeaseTip' = LeaseTarget(LeaseTip, act)
    <3>1. (\A n \in Nat : Status[n] =
             IF n = 0 THEN "proposed"
             ELSE LeaseTarget(Status[n - 1], log[n].act))'
      BY StatusUnfolds, PTL
    <3>2. Len(log) + 1 \in Nat /\ Len(log) + 1 # 0 /\ (Len(log) + 1) - 1 = Len(log)
      BY <1>1
    <3>3. Status'[Len(log) + 1] =
            LeaseTarget(Status'[Len(log)], log'[Len(log) + 1].act)
      BY <3>1, <3>2
    <3>4. Status'[Len(log)] = Status[Len(log)]
      BY <2>3, <1>1
    <3>5. log'[Len(log) + 1].act = act
      BY <2>2
    <3> QED BY <2>2, <3>3, <3>4, <3>5 DEF LeaseTip
  <2>5. ASSUME NEW a, NEW k
        PROVE  InLog(a, k)' <=> InLog(a, k) \/ (a = act /\ k = key)
    <3>1. InLog(a, k)' <=> \E i \in 1..Len(log') : log'[i] = [act |-> a, key |-> k]
      BY DEF InLog
    <3>2. InLog(a, k) <=> \E i \in 1..Len(log) : log[i] = [act |-> a, key |-> k]
      BY DEF InLog
    <3>3. e = [act |-> a, key |-> k] <=> a = act /\ k = key
      BY Zenon DEF e
    <3> HIDE DEF e
    <3>4. 1..Len(log') = 1..Len(log) \cup {Len(log) + 1}
      BY <1>1, <2>2
    <3> QED BY <2>2, <3>1, <3>2, <3>3, <3>4, <1>1
  <2> HIDE DEF e
  <2>6. log' \in Seq(LeaseEntry) /\ Len(log) <= Len(log')
    BY <2>2, <1>1
  <2>7. log'[Len(log) + 1] = [act |-> act, key |-> key]
    BY <2>2 DEF e
  <2> QED BY <1>3, <2>2, <2>3, <2>4, <2>5, <2>6, <2>7
<1> QED BY <1>2, <1>3

\* A log that stays keeps its status.
LEMMA LeaseStays ==
  ASSUME LeaseTyped, log' = log
  PROVE  /\ LeaseTip' = LeaseTip
         /\ \A n \in 0..Len(log) : Status'[n] = Status[n]
         /\ \A a, k : InLog(a, k)' <=> InLog(a, k)
<1>1. Len(log) \in Nat /\ Len(log') = Len(log)
  BY DEF LeaseTyped
<1>2. \A n \in 0..Len(log) : Status'[n] = Status[n]
  BY <1>1, StatusIsStable
<1>3. \A a, k : InLog(a, k)' <=> InLog(a, k)
  BY DEF InLog
<1>4. LeaseTip' = LeaseTip
  BY <1>1, <1>2 DEF LeaseTip
<1> QED BY <1>2, <1>3, <1>4

-----------------------------------------------------------------------------
(* Types and the turn                                                      *)

\* The row never shows an illegal status: whoever projects stops before it.
RowLegal == Row \in LeaseStatuses

\* Whoever projects goes on over legal events only.
LEMMA ProjectAdvances ==
  ASSUME LeaseTyped, RowLegal, Project
  PROVE  /\ applied' \in 3..Len(log) /\ applied <= applied' /\ wedged' \in BOOLEAN
         /\ Status[applied'] \in LeaseStatuses
<1>1. applied \in 3..Len(log) /\ Len(log) \in Nat /\ wedged \in BOOLEAN
  BY DEF LeaseTyped
<1>2. Status[applied] \in LeaseStatuses
  BY DEF RowLegal, Row
<1>3. CASE wedged
  BY <1>1, <1>2, <1>3 DEF Project
<1>4. CASE ~wedged
  <2>1. PICK n \in applied..Len(log) :
          /\ \A i \in applied + 1..n : Status[i] # "illegal"
          /\ ProjectTo(n)
    BY <1>4 DEF Project
  <2>2. applied' = n /\ wedged' \in BOOLEAN /\ n \in 3..Len(log) /\ applied <= n
    BY <2>1, <1>1 DEF ProjectTo
  <2>3. Status[n] \in LeaseStatuses
    <3>1. CASE n = applied
      BY <3>1, <1>2
    <3>2. CASE n # applied
      <4>1. n \in applied + 1..n /\ n \in Nat
        BY <3>2, <2>2, <1>1
      <4> QED BY <4>1, <2>1, StatusTyped
    <3> QED BY <3>1, <3>2
  <2> QED BY <2>2, <2>3
<1> QED BY <1>3, <1>4

\* What the row can be and what an Elf can hold, for the provers.
LEMMA LeaseKinds ==
  ASSUME LeaseTyped
  PROVE
  /\ AccountKinds = {"none", "spend", "completed", "interrupted", "quota"}
  /\ Renewable \subseteq LeaseStatuses
  /\ Renewable = {"active", "renewal_due", "renewed"}
  /\ "none" \notin Renewable
  /\ ByGrant = 0 /\ 0 \in Keys /\ Keys = 0..MaxReadings
  BY DEF LeaseTyped, AccountKinds, Renewable, LeaseStatuses, ByGrant, Keys

\* What the Elf appends, and where.
LeaseMay(act, key) ==
  \/ leased.pc = "due" /\ act = "renewal_due" /\ key = 0
  \/ leased.pc = "mark" /\ act = "renewal_due" /\ key = leased.key
  \/ leased.pc = "renewing" /\ act = "renew" /\ key = leased.key
  \/ leased.pc = "expire" /\ act = "expire" /\ key = leased.key
  \/ leased.pc = "require" /\ act = "require_checkpoint" /\ key = leased.key
  \/ leased.pc = "revoke" /\ act = "revoke" /\ key = 0
  \/ leased.pc = "retire" /\ act = "require_checkpoint" /\ key = 0

LeaseWrites ==
  \/ log' = log
  \/ \E act \in Acts, key \in Keys : LeaseMay(act, key) /\ Append1(act, key)

\* Every step keeps the log or appends one event of the lease to it.
LEMMA StepsWrite ==
  ASSUME LeaseTyped, LeaseNext
  PROVE  LeaseWrites
<1>0. leased.key \in Keys /\ 0 \in Keys /\ ByGrant = 0
  BY LeaseKinds DEF LeaseTyped, Leased
<1>k. {"renewal_due", "renew", "expire", "require_checkpoint", "revoke"} \subseteq Acts
  BY DEF Acts
<1> USE <1>0, <1>k DEF LeaseWrites
<1>1. CASE DuePath
  BY <1>1 DEF DuePath, Step, At, LeaseMay
<1>2. CASE Mark
  BY <1>2 DEF Mark, Step, At, LeaseMay
<1>3. CASE Renew
  BY <1>3 DEF Renew, At, LeaseMay
<1>4. CASE Expire
  BY <1>4 DEF Expire, Step, At, LeaseMay
<1>5. CASE Require
  BY <1>5 DEF Require, At, LeaseMay
<1>6. CASE Revoke
  BY <1>6 DEF Revoke, Step, At, LeaseMay
<1>7. CASE StopPath \/ RenewPath \/ QuotaPath \/ Load \/ Observe
           \/ Persist \/ Done \/ Terminal \/ Last
  BY <1>7 DEF StopPath, RenewPath, QuotaPath, Load, Observe,
     Persist, Done, Terminal, Last
<1>8. CASE ElfReplaced \/ OtherProjects \/ DeadlinePasses
           \/ \E kind \in AccountKinds \ {"none"} : LeaseAccount(kind)
  BY <1>8 DEF ElfReplaced, OtherProjects, DeadlinePasses, LeaseAccount
<1> QED BY <1>1, <1>2, <1>3, <1>4, <1>5, <1>6, <1>7, <1>8 DEF LeaseNext, Elf

\* The log after a step: what was in it stays where it was, with its status.
LEMMA LeaseGrows ==
  ASSUME LeaseTyped, LeaseWrites
  PROVE  /\ log' \in Seq(LeaseEntry) /\ Len(log) <= Len(log')
         /\ \A n \in 0..Len(log) : Status'[n] = Status[n]
<1>1. CASE log' = log
  BY <1>1, LeaseStays DEF LeaseTyped, LeaseEntry
<1>2. CASE \E act \in Acts, key \in Keys : Append1(act, key)
  BY <1>2, LeaseAppends
<1> QED BY <1>1, <1>2 DEF LeaseWrites

\* Where an evaluation leaves the Elf.
LEMMA ElfGoes ==
  ASSUME LeaseTyped
  PROVE  /\ Return \in LeasePcs
         /\ \A pc \in LeasePcs : Go(pc) => leased' \in Leased
         /\ Expired \/ Defer => leased' \in Leased
<1>1. leased \in Leased
  BY DEF LeaseTyped
<1>2. Return \in LeasePcs
  BY DEF Return, LeasePcs
<1>3. \A pc \in LeasePcs : Go(pc) => leased' \in Leased
  BY <1>1 DEF Go, Leased
<1>4. Expired \/ Defer => leased' \in Leased
  BY <1>1, <1>2 DEF Expired, Defer, Go, Leased
<1> QED BY <1>2, <1>3, <1>4

\* The Elf's record after each step.
LEMMA ElfTyped ==
  ASSUME LeaseTyped, RowLegal, LeaseNext
  PROVE  leased' \in Leased
<1>1. leased \in Leased /\ reading \in Keys /\ dueOnce \in BOOLEAN
  BY DEF LeaseTyped
<1>2. Row \in LeaseStatuses
  BY DEF RowLegal
<1>k. Renewable \subseteq LeaseStatuses /\ 0 \in Keys
  BY LeaseKinds
<1>k2. ByGrant = 0 /\ Keys = 0..MaxReadings /\ {"none", "spend"} \subseteq AccountKinds
  BY LeaseKinds
<1>g. ASSUME Defer \/ Expired \/ Go(Return) PROVE leased' \in Leased
  BY <1>g, ElfGoes
<1>3. CASE \E kind \in AccountKinds \ {"none"} : LeaseAccount(kind)
  <2>0. PICK kind \in AccountKinds \ {"none"} : LeaseAccount(kind)
    BY <1>3
  <2>1. PICK level \in BOOLEAN :
          leased' = [leased EXCEPT !.pc = AfterBounds(kind), !.kind = kind, !.loaded = TRUE,
                       !.level = level, !.latch = level,
                       !.effect = (leased.loaded /\ kind = "spend") /\ level /\ ~leased.latch,
                       !.spent = leased.loaded /\ kind = "spend",
                       !.unjudged = leased.unjudged \/ (leased.loaded /\ kind = "spend")]
    BY <2>0, Zenon DEF LeaseAccount
  <2>k. kind \in AccountKinds
    OBVIOUS
  <2>2. AfterBounds(kind) \in LeasePcs
    BY DEF AfterBounds, LeasePcs
  <2>3. {leased.loaded, leased.latch, leased.unjudged} \subseteq BOOLEAN
    BY <1>1 DEF Leased
  <2> DEFINE counts == leased.loaded /\ kind = "spend"
             effect == counts /\ level /\ ~leased.latch
             unjudged == leased.unjudged \/ counts
  <2>4. counts \in BOOLEAN /\ effect \in BOOLEAN /\ unjudged \in BOOLEAN
    BY <2>3
  <2>5. leased' = [leased EXCEPT !.pc = AfterBounds(kind), !.kind = kind, !.loaded = TRUE,
                     !.level = level, !.latch = level, !.effect = effect, !.spent = counts,
                     !.unjudged = unjudged]
    BY <2>1, Zenon
  <2> HIDE DEF counts, effect, unjudged
  <2> DEFINE first == [leased EXCEPT !.pc = AfterBounds(kind), !.kind = kind, !.loaded = TRUE,
                         !.level = level]
  <2>6. first \in Leased
    BY <1>1, <2>2, <2>k DEF Leased
  <2> DEFINE second == [first EXCEPT !.latch = level, !.effect = effect]
  <2>7. leased' = [second EXCEPT !.spent = counts, !.unjudged = unjudged]
    BY <2>5
  <2> HIDE DEF first
  <2>8. second \in Leased
    BY <2>4, <2>6 DEF Leased
  <2> HIDE DEF second
  <2> QED BY <2>4, <2>7, <2>8 DEF Leased
<1>4. CASE DuePath \/ Mark \/ Expire \/ Revoke \/ QuotaPath
           \/ Last \/ Terminal \/ RenewPath
  <2>1. \E pc \in LeasePcs : Go(pc)
    <3>1. {"stop", "renewing", "require", "retire", "ended", "last", "load", "done", "revoke"}
            \subseteq LeasePcs
      BY DEF LeasePcs
    <3>2. CASE DuePath \/ Expire \/ Mark \/ Revoke
      BY <3>1, <3>2, ElfGoes
         DEF DuePath, Mark, Expire, Revoke, Step
    <3>3. CASE QuotaPath \/ Last \/ Terminal \/ RenewPath
      BY <3>1, <3>3 DEF QuotaPath, Last, Terminal, RenewPath
    <3> QED BY <1>4, <3>2, <3>3
  <2> QED BY <2>1, ElfGoes
<1>5. CASE StopPath
  BY <1>1, <1>5 DEF StopPath, Leased, LeasePcs
<1>6. CASE Load
  <2>1. \/ Defer \/ Expired \/ Go(Return)
        \/ leased' = [leased EXCEPT !.pc = "observe", !.row = Row]
    BY <1>6 DEF Load
  <2>2. CASE leased' = [leased EXCEPT !.pc = "observe", !.row = Row]
    BY <1>1, <1>2, <2>2 DEF Leased, LeasePcs
  <2> QED BY <2>1, <2>2, <1>g
<1>7. CASE Observe
  <2>0. \A r \in {reading, reading + 1} \cap 1..MaxReadings : r \in Keys
    BY <1>k2
  <2>1. \/ Defer \/ Go(Return)
        \/ \E r \in Keys, admit \in BOOLEAN :
             leased' = [leased EXCEPT !.pc = "persist", !.key = r, !.admit = admit]
        \/ leased' = [leased EXCEPT !.pc = "expire", !.key = ByGrant]
    BY <1>7, <2>0, Zenon DEF Observe
  <2>2. CASE \E r \in Keys, admit \in BOOLEAN :
               leased' = [leased EXCEPT !.pc = "persist", !.key = r, !.admit = admit]
    BY <1>1, <2>2 DEF Leased, LeasePcs
  <2>3. CASE leased' = [leased EXCEPT !.pc = "expire", !.key = ByGrant]
    BY <1>1, <1>k, <1>k2, <2>3 DEF Leased, LeasePcs
  <2> QED BY <2>1, <2>2, <2>3, <1>g
<1>8. CASE Persist
  <2>1. \/ Expired \/ Go(Return)
        \/ \E pc \in {"mark", "expire"}, row \in Renewable :
             leased' = [leased EXCEPT !.pc = pc, !.row = row]
    BY <1>8 DEF Persist
  <2>2. CASE \E pc \in {"mark", "expire"}, row \in Renewable :
               leased' = [leased EXCEPT !.pc = pc, !.row = row]
    BY <1>1, <1>k, <2>2 DEF Leased, LeasePcs
  <2> QED BY <2>1, <2>2, <1>g
<1>9. CASE Renew
  <2>1. \/ Go(Return)
        \/ leased' = [leased EXCEPT !.pc = Return, !.pending = FALSE, !.unjudged = FALSE]
        \/ leased' = [leased EXCEPT !.pc = Return, !.level = FALSE, !.latch = FALSE,
                        !.stop = FALSE, !.pending = FALSE, !.unjudged = FALSE]
    BY <1>9 DEF Renew
  <2>2. Return \in LeasePcs
    BY ElfGoes
  <2>3. CASE leased' = [leased EXCEPT !.pc = Return, !.pending = FALSE, !.unjudged = FALSE]
    BY <1>1, <2>2, <2>3 DEF Leased
  <2>4. CASE leased' = [leased EXCEPT !.pc = Return, !.level = FALSE, !.latch = FALSE,
                          !.stop = FALSE, !.pending = FALSE, !.unjudged = FALSE]
    BY <1>1, <2>2, <2>4 DEF Leased
  <2> QED BY <2>1, <2>3, <2>4, <1>g
<1>10. CASE Require
  <2>1. Expired \/ Go(Return)
    BY <1>10 DEF Require
  <2> QED BY <2>1, ElfGoes
<1>11. CASE Done
  BY <1>1, <1>11, <1>k, <1>k2 DEF Done, Leased, LeasePcs
<1>12. CASE ElfReplaced
  <2>1. dueOnce \in BOOLEAN
    BY <1>1
  <2>2. Fresh(dueOnce) \in Leased
    BY <2>1, <1>k, <1>k2 DEF Fresh, Leased, LeasePcs
  <2>3. PICK pc \in {"idle", "terminal"} : leased' = [Fresh(dueOnce) EXCEPT !.pc = pc]
    BY <1>12 DEF ElfReplaced
  <2> QED BY <2>2, <2>3 DEF Leased, LeasePcs
<1>13. CASE OtherProjects \/ DeadlinePasses
  BY <1>1, <1>13 DEF OtherProjects, DeadlinePasses
<1> QED BY <1>3, <1>4, <1>5, <1>6, <1>7, <1>8, <1>9, <1>10, <1>11, <1>12, <1>13
        DEF LeaseNext, Elf

\* A step that moves the row is a projection of the log as it is.
LEMMA StepsProject ==
  ASSUME LeaseNext
  PROVE  UNCHANGED <<applied, wedged>> \/ (log' = log /\ Project)
<1>1. CASE DuePath \/ Mark \/ Expire \/ Revoke \/ Require
           \/ StopPath \/ RenewPath \/ QuotaPath \/ Load \/ Done
  BY <1>1 DEF DuePath, Mark, Expire, Revoke, Require, StopPath,
     RenewPath, QuotaPath, Load, Done, Others
<1>2. CASE Persist \/ Terminal \/ Last \/ OtherProjects
  <2>1. log' = log
    BY <1>2 DEF Persist, Terminal, Last, OtherProjects
  <2>2. Project \/ UNCHANGED <<applied, wedged>>
    BY <1>2 DEF Persist, Terminal, Last, OtherProjects
  <2> QED BY <2>1, <2>2
<1>3. CASE Observe \/ Renew \/ ElfReplaced \/ DeadlinePasses
           \/ \E kind \in AccountKinds \ {"none"} : LeaseAccount(kind)
  BY <1>3 DEF Observe, Renew, ElfReplaced, DeadlinePasses, LeaseAccount
<1> QED BY <1>1, <1>2, <1>3 DEF LeaseNext, Elf

\* The row is never projected into an illegal status.
LEMMA RowKeeps ==
  ASSUME LeaseTyped, RowLegal, LeaseNext
  PROVE  applied' \in 3..Len(log') /\ wedged' \in BOOLEAN /\ RowLegal'
<1>1. /\ log' \in Seq(LeaseEntry) /\ Len(log) <= Len(log')
      /\ \A n \in 0..Len(log) : Status'[n] = Status[n]
  BY StepsWrite, LeaseGrows
<1>2. applied \in 3..Len(log) /\ Len(log) \in Nat /\ Len(log') \in Nat /\ wedged \in BOOLEAN
  BY <1>1 DEF LeaseTyped
<1>3. RowLegal' <=> Status'[applied'] \in LeaseStatuses
  BY DEF RowLegal, Row, LeaseStatuses
<1>4. CASE UNCHANGED <<applied, wedged>>
  <2>1. Status[applied] \in LeaseStatuses
    BY DEF RowLegal, Row
  <2>2. applied \in 0..Len(log)
    BY <1>2
  <2> QED BY <1>1, <1>2, <1>3, <1>4, <2>1, <2>2
<1>5. CASE log' = log /\ Project
  <2>1. /\ applied' \in 3..Len(log) /\ wedged' \in BOOLEAN
        /\ Status[applied'] \in LeaseStatuses
    BY <1>5, ProjectAdvances
  <2>2. applied' \in 0..Len(log)
    BY <1>2, <2>1
  <2> QED BY <1>1, <1>2, <1>3, <1>5, <2>1, <2>2
<1> QED BY <1>4, <1>5, StepsProject

\* What else a step changes: the readings, epochs, faults, the verdict, the clock.
LEMMA RestTyped ==
  ASSUME LeaseTyped, LeaseNext
  PROVE  /\ reading' \in Keys /\ reading <= reading'
         /\ epochs' \in Nat /\ faults' \in Seq(Faults)
         /\ verdict' \in AccountKinds /\ deadline' \in BOOLEAN /\ dueOnce' \in BOOLEAN
<1>1. /\ reading \in Keys /\ epochs \in Nat /\ faults \in Seq(Faults)
      /\ verdict \in AccountKinds /\ deadline \in BOOLEAN /\ dueOnce \in BOOLEAN
      /\ reading <= reading /\ Keys = 0..MaxReadings
  BY DEF LeaseTyped, Keys
<1>2. \A kind : Fault(kind) => faults' \in Seq(Faults)
  BY <1>1 DEF Fault
<1>3. \A act, key, ok, err : Step(act, key, ok, err) => faults' \in Seq(Faults)
  BY <1>1, <1>2 DEF Step
<1>4. CASE DuePath \/ Mark \/ Expire \/ Revoke \/ Require
           \/ StopPath \/ RenewPath \/ QuotaPath \/ Load \/ Done
  <2>1. Others
    BY <1>4 DEF DuePath, Mark, Expire, Revoke, Require,
       StopPath, RenewPath, QuotaPath, Load, Done
  <2>2. faults' \in Seq(Faults)
    BY <1>1, <1>2, <1>3, <1>4 DEF DuePath, Mark, Expire, Revoke,
       Require, StopPath, RenewPath, QuotaPath, Load, Done
  <2> QED BY <1>1, <2>1, <2>2 DEF Others
<1>5. CASE Persist \/ Terminal \/ Last \/ OtherProjects
           \/ ElfReplaced
  BY <1>1, <1>2, <1>5 DEF Persist, Terminal, Last, OtherProjects,
     ElfReplaced
<1>6. CASE DeadlinePasses
  BY <1>1, <1>6 DEF DeadlinePasses
<1>7. CASE Renew
  <2>1. epochs' \in {epochs, epochs + 1} /\ UNCHANGED <<deadline, dueOnce, verdict, reading>>
    BY <1>7 DEF Renew
  <2>2. faults' \in Seq(Faults)
    BY <1>1, <1>2, <1>7 DEF Renew
  <2> QED BY <1>1, <2>1, <2>2
<1>8. CASE Observe
  <2>1. UNCHANGED <<deadline, dueOnce, verdict, epochs>>
    BY <1>8 DEF Observe
  <2>2. faults' \in Seq(Faults)
    BY <1>1, <1>2, <1>8 DEF Observe
  <2>3. reading' = reading \/ reading' \in {reading, reading + 1} \cap 1..MaxReadings
    BY <1>8, Zenon DEF Observe
  <2>4. reading' \in Keys /\ reading <= reading'
    BY <1>1, <2>3
  <2> QED BY <1>1, <2>1, <2>2, <2>4
<1>9. CASE \E kind \in AccountKinds \ {"none"} : LeaseAccount(kind)
  <2>1. PICK kind \in AccountKinds \ {"none"} : LeaseAccount(kind)
    BY <1>9
  <2>2. UNCHANGED <<deadline, reading, epochs, faults>>
    BY <2>1 DEF LeaseAccount
  <2>3. \E level \in BOOLEAN : dueOnce' = (dueOnce \/ level)
    BY <2>1, Zenon DEF LeaseAccount
  <2>4. verdict' = IF kind = "spend" THEN "none" ELSE kind
    BY <2>1 DEF LeaseAccount
  <2>5. verdict' \in AccountKinds
    BY <2>4 DEF AccountKinds
  <2> QED BY <1>1, <2>2, <2>3, <2>5
<1> QED BY <1>4, <1>5, <1>6, <1>7, <1>8, <1>9 DEF LeaseNext, Elf

\* A step keeps the types, and so does standing still.
LEMMA LeaseTypedStep ==
  ASSUME LeaseTyped, RowLegal, LeaseNext
  PROVE  LeaseTyped' /\ RowLegal'
<1>1. log' \in Seq(LeaseEntry)
  BY StepsWrite, LeaseGrows
<1>2. MaxReadings \in Nat
  BY DEF LeaseTyped
<1>3. LeaseTyped' <=>
        /\ MaxReadings \in Nat /\ log' \in Seq(LeaseEntry) /\ applied' \in 3..Len(log')
        /\ leased' \in Leased /\ reading' \in Keys /\ epochs' \in Nat
        /\ faults' \in Seq(Faults) /\ verdict' \in AccountKinds /\ wedged' \in BOOLEAN
        /\ deadline' \in BOOLEAN /\ dueOnce' \in BOOLEAN
  BY DEF LeaseTyped, LeaseEntry, Leased, Keys, AccountKinds, Acts, LeaseStatuses,
     LeasePcs
<1> QED BY <1>1, <1>2, <1>3, ElfTyped, RowKeeps, RestTyped

\* The initial state is of its type, and the lease is active.
LEMMA LeaseInitially ==
  ASSUME LeaseInit
  PROVE  /\ LeaseTyped /\ RowLegal /\ LeaseTip = "active"
         /\ Len(log) = 3 /\ log[1] = [act |-> "propose", key |-> 0]
         /\ log[2] = [act |-> "grant", key |-> 0] /\ log[3] = [act |-> "activate", key |-> 0]
<1>1. MaxReadings \in Nat /\ 0 \in Keys /\ ByGrant = 0
  BY LeaseAssumption DEF Keys, ByGrant
<1>2. log = <<[act |-> "propose", key |-> 0], [act |-> "grant", key |-> 0],
              [act |-> "activate", key |-> 0]>>
  BY <1>1 DEF LeaseInit
<1>3. /\ Len(log) = 3 /\ log[1] = [act |-> "propose", key |-> 0]
      /\ log[2] = [act |-> "grant", key |-> 0] /\ log[3] = [act |-> "activate", key |-> 0]
  BY <1>2
<1>4. log \in Seq([act : Acts, key : Keys])
  BY <1>1, <1>2 DEF Acts
<1>5. leased \in Leased
  BY <1>1 DEF LeaseInit, Fresh, Leased, LeasePcs, AccountKinds
<1>6. LeaseTyped
  <2>1. /\ applied = 3 /\ wedged = FALSE /\ deadline = FALSE /\ dueOnce = FALSE
        /\ verdict = "none" /\ reading = 0 /\ epochs = 0 /\ faults = <<>>
    BY DEF LeaseInit
  <2>2. faults \in Seq(Faults) /\ verdict \in AccountKinds
    BY <2>1 DEF AccountKinds
  <2>3. applied \in 3..Len(log)
    BY <2>1, <1>3
  <2> QED BY <1>1, <1>4, <1>5, <2>1, <2>2, <2>3 DEF LeaseTyped
<1>7. Status[0] = "proposed"
  BY StatusUnfolds
<1>8. Status[1] = LeaseTarget(Status[0], log[1].act)
  BY StatusUnfolds, 1 \in Nat, 1 # 0, 1 - 1 = 0
<1>9. Status[2] = LeaseTarget(Status[1], log[2].act)
  BY StatusUnfolds, 2 \in Nat, 2 # 0, 2 - 1 = 1
<1>10. Status[3] = LeaseTarget(Status[2], log[3].act)
  BY StatusUnfolds, 3 \in Nat, 3 # 0, 3 - 1 = 2
<1>11. Status[1] = "proposed"
  BY <1>3, <1>7, <1>8 DEF LeaseTarget
<1>12. Status[2] = "granted"
  BY <1>3, <1>11, <1>9 DEF LeaseTarget
<1>13. Status[3] = "active"
  BY <1>3, <1>12, <1>10 DEF LeaseTarget
<1>14. applied = 3
  BY DEF LeaseInit
<1> QED BY <1>3, <1>6, <1>13, <1>14 DEF RowLegal, Row, LeaseTip, LeaseStatuses

\* The parts of the Elf's record that only an evaluation sets.
LeaseHolds(pc) == /\ leased'.pc = pc /\ leased'.kind = leased.kind /\ leased'.row = leased.row
                  /\ leased'.admit = leased.admit /\ leased'.key = leased.key

\* Going somewhere, or waiting, or having declined, keeps them.
LEMMA ElfHolds ==
  ASSUME LeaseTyped
  PROVE  /\ \A pc : Go(pc) => LeaseHolds(pc)
         /\ Expired \/ Defer => LeaseHolds(Return)
         /\ Return = IF leased.kind = "quota" THEN "due" ELSE "done"
<1>1. leased \in Leased
  BY DEF LeaseTyped
<1>2. \A pc : Go(pc) => LeaseHolds(pc)
  BY <1>1 DEF Go, LeaseHolds, Leased
<1>3. Expired \/ Defer => LeaseHolds(Return)
  BY <1>1, <1>2 DEF Expired, Defer, LeaseHolds, Leased
<1> QED BY <1>2, <1>3 DEF Return

\* The turn keeps its order.
LEMMA LeaseTurnStep ==
  ASSUME LeaseTyped, LeaseTurn, LeaseNext
  PROVE  LeaseTurn'
<1>1. leased \in Leased /\ reading \in Nat /\ ByGrant = 0
  BY LeaseKinds DEF LeaseTyped
<1>2. /\ leased.pc = "idle" => leased.kind = "none" /\ verdict = "none"
      /\ leased.pc \in Closing => verdict # "none"
      /\ leased.pc \notin Closing \cup {"idle"} =>
           leased.kind # "none" /\ verdict = IF leased.kind = "spend" THEN "none" ELSE leased.kind
      /\ leased.pc = "persist" /\ leased.kind = "spend" => leased.admit
      /\ leased.pc \in {"expire", "require"} => leased.kind # "spend"
      /\ leased.pc = "quota" => verdict = "quota"
      /\ leased.pc = "revoke" => verdict = "completed"
      /\ leased.pc \in Judging => leased.key # ByGrant
      /\ leased.pc \in Judging \cup {"expire", "require"} => leased.key <= reading
      /\ leased.pc \in Judging \cup {"observe", "expire", "require"} =>
           leased.row \in Renewable
  BY DEF LeaseTurn
<1> DEFINE Turned ==
      /\ leased'.pc = "idle" => leased'.kind = "none" /\ verdict' = "none"
      /\ leased'.pc \in Closing => verdict' # "none"
      /\ leased'.pc \notin Closing \cup {"idle"} =>
           leased'.kind # "none" /\ verdict' = IF leased'.kind = "spend" THEN "none" ELSE leased'.kind
      /\ leased'.pc = "persist" /\ leased'.kind = "spend" => leased'.admit
      /\ leased'.pc \in {"expire", "require"} => leased'.kind # "spend"
      /\ leased'.pc = "quota" => verdict' = "quota"
      /\ leased'.pc = "revoke" => verdict' = "completed"
      /\ leased'.pc \in Judging => leased'.key # ByGrant
      /\ leased'.pc \in Judging \cup {"expire", "require"} => leased'.key <= reading'
      /\ leased'.pc \in Judging \cup {"observe", "expire", "require"} =>
           leased'.row \in Renewable
<1> SUFFICES Turned
  BY DEF LeaseTurn, Closing, Judging, Renewable, ByGrant
<1> USE DEF Closing, Judging
<1>3. CASE DuePath \/ Mark \/ Expire \/ Revoke \/ QuotaPath
           \/ RenewPath
  <2>1. UNCHANGED <<verdict, reading>>
    BY <1>3 DEF DuePath, Mark, Expire, Revoke, QuotaPath,
       RenewPath, Others
  <2>2. \/ leased.pc = "due" /\ LeaseHolds("stop")
        \/ leased.pc = "mark" /\ (LeaseHolds("renewing") \/ LeaseHolds(Return))
        \/ leased.pc = "expire" /\ (LeaseHolds("require") \/ LeaseHolds(Return))
        \/ leased.pc = "revoke" /\ (LeaseHolds("retire") \/ LeaseHolds("ended"))
        \/ leased.pc = "retire" /\ (LeaseHolds("last") \/ LeaseHolds("ended"))
        \/ leased.pc = "quota" /\ LeaseHolds("load")
        \/ leased.pc = "renew" /\ (LeaseHolds("load") \/ LeaseHolds("done"))
    BY <1>3, ElfHolds DEF DuePath, Mark, Expire, Revoke, QuotaPath,
       RenewPath, Step, At
  <2>3. Return = IF leased.kind = "quota" THEN "due" ELSE "done"
    BY ElfHolds
  <2> QED BY <1>1, <1>2, <2>1, <2>2, <2>3 DEF LeaseHolds
<1>4. CASE StopPath
  <2>1. leased.pc = "stop" /\ LeaseHolds("renew") /\ UNCHANGED <<verdict, reading>>
    BY <1>1, <1>4 DEF StopPath, At, LeaseHolds, Leased, Others
  <2> QED BY <1>1, <1>2, <2>1 DEF LeaseHolds
<1>5. CASE Load
  <2>1. leased.pc = "load" /\ UNCHANGED <<verdict, reading>>
    BY <1>5 DEF Load, At, Others
  <2>2. \/ LeaseHolds(Return)
        \/ Row \in Renewable
           /\ leased' = [leased EXCEPT !.pc = "observe", !.row = Row]
    BY <1>5, ElfHolds DEF Load
  <2>3. Return = IF leased.kind = "quota" THEN "due" ELSE "done"
    BY ElfHolds
  <2>4. CASE LeaseHolds(Return)
    BY <1>1, <1>2, <2>1, <2>3, <2>4 DEF LeaseHolds
  <2>5. CASE Row \in Renewable
             /\ leased' = [leased EXCEPT !.pc = "observe", !.row = Row]
    <3>1. leased'.pc = "observe" /\ leased'.row = Row /\ leased'.kind = leased.kind
      BY <1>1, <2>5 DEF Leased
    <3> QED BY <1>2, <2>1, <2>5, <3>1
  <2> QED BY <2>2, <2>4, <2>5
<1>6. CASE Observe
  <2>1. leased.pc = "observe" /\ UNCHANGED verdict
    BY <1>6 DEF Observe, At
  <2>2. Return = IF leased.kind = "quota" THEN "due" ELSE "done"
    BY ElfHolds
  <2>3. CASE LeaseHolds(Return)
    BY <1>1, <1>2, <2>1, <2>2, <2>3 DEF LeaseHolds
  <2>4. CASE \E r \in 1..MaxReadings, admit \in BOOLEAN :
               /\ reading' = r /\ (admit \/ leased.kind # "spend")
               /\ leased' = [leased EXCEPT !.pc = "persist", !.key = r, !.admit = admit]
    <3>1. PICK r \in 1..MaxReadings, admit \in BOOLEAN :
               /\ reading' = r /\ (admit \/ leased.kind # "spend")
               /\ leased' = [leased EXCEPT !.pc = "persist", !.key = r, !.admit = admit]
      BY <2>4
    <3>2. /\ leased'.pc = "persist" /\ leased'.key = r /\ leased'.admit = admit
          /\ leased'.kind = leased.kind /\ leased'.row = leased.row
      BY <1>1, <3>1 DEF Leased
    <3> QED BY <1>1, <1>2, <2>1, <3>1, <3>2
  <2>5. CASE /\ UNCHANGED reading /\ leased.kind # "spend"
             /\ leased' = [leased EXCEPT !.pc = "expire", !.key = ByGrant]
    <3>1. /\ leased'.pc = "expire" /\ leased'.key = 0
          /\ leased'.kind = leased.kind /\ leased'.row = leased.row
      BY <1>1, <2>5 DEF Leased
    <3> QED BY <1>1, <1>2, <2>1, <2>5, <3>1
  <2>6. \/ Defer \/ Go(Return)
        \/ \E r \in {reading, reading + 1} \cap 1..MaxReadings, admit \in BOOLEAN :
               /\ reading' = r /\ (admit \/ ~MidTurn)
               /\ leased' = [leased EXCEPT !.pc = "persist", !.key = r, !.admit = admit]
        \/ /\ UNCHANGED reading /\ ~MidTurn
           /\ leased' = [leased EXCEPT !.pc = "expire", !.key = ByGrant]
    BY <1>6, Zenon DEF Observe
  <2> QED BY <2>3, <2>4, <2>5, <2>6, ElfHolds DEF MidTurn
<1>7. CASE Persist
  <2>1. leased.pc = "persist" /\ UNCHANGED <<verdict, reading>>
    BY <1>7 DEF Persist, At
  <2>2. Return = IF leased.kind = "quota" THEN "due" ELSE "done"
    BY ElfHolds
  <2>3. \/ LeaseHolds(Return)
        \/ \E row \in Renewable :
             leased' = [leased EXCEPT !.pc = IF leased.admit THEN "mark" ELSE "expire", !.row = row]
    BY <1>7, ElfHolds DEF Persist
  <2>4. CASE LeaseHolds(Return)
    BY <1>1, <1>2, <2>1, <2>2, <2>4 DEF LeaseHolds
  <2>5. ASSUME NEW row \in Renewable,
               leased' = [leased EXCEPT !.pc = IF leased.admit THEN "mark" ELSE "expire", !.row = row]
        PROVE  Turned
    <3>1. /\ leased'.pc = (IF leased.admit THEN "mark" ELSE "expire") /\ leased'.row = row
          /\ leased'.kind = leased.kind /\ leased'.key = leased.key
      BY <1>1, <2>5 DEF Leased
    <3> QED BY <1>1, <1>2, <2>1, <3>1
  <2> QED BY <2>3, <2>4, <2>5
<1>8. CASE Renew \/ Require
  <2>1. leased.pc \in {"renewing", "require"} /\ UNCHANGED <<verdict, reading>>
    BY <1>8 DEF Renew, Require, At, Others
  <2>2. Return = IF leased.kind = "quota" THEN "due" ELSE "done"
    BY ElfHolds
  <2>3. leased'.pc = Return /\ leased'.kind = leased.kind
    <3>1. CASE Require
      BY <3>1, ElfHolds DEF Require, LeaseHolds
    <3>2. CASE Renew
      <4>1. \/ Go(Return)
            \/ leased' = [leased EXCEPT !.pc = Return, !.pending = FALSE, !.unjudged = FALSE]
            \/ leased' = [leased EXCEPT !.pc = Return, !.level = FALSE, !.latch = FALSE,
                        !.stop = FALSE, !.pending = FALSE, !.unjudged = FALSE]
        BY <3>2 DEF Renew
      <4>2. Go(Return) => leased'.pc = Return /\ leased'.kind = leased.kind
        BY ElfHolds DEF LeaseHolds
      <4> QED BY <1>1, <4>1, <4>2 DEF Leased
    <3> QED BY <1>8, <3>1, <3>2
  <2> QED BY <1>1, <1>2, <2>1, <2>2, <2>3
<1>9. CASE Done
  <2>1. leased.pc = "done" /\ UNCHANGED <<verdict, reading>>
    BY <1>9 DEF Done, At, Others
  <2>2. leased'.pc = (IF verdict = "none" THEN "idle" ELSE "terminal") /\ leased'.kind = "none"
    BY <1>1, <1>9 DEF Done, Leased
  <2> QED BY <1>2, <2>1, <2>2
<1>10. CASE Terminal \/ Last
  <2>1. leased.pc \in {"terminal", "last"} /\ UNCHANGED <<verdict, reading>>
    BY <1>10 DEF Terminal, Last, At
  <2>2. leased'.pc \in {"revoke", "last", "ended"} /\ (leased'.pc = "revoke" => verdict = "completed")
    BY <1>10, ElfHolds DEF Terminal, Last, LeaseHolds
  <2> QED BY <1>2, <2>1, <2>2
<1>11. CASE ElfReplaced
  <2>1. UNCHANGED <<verdict, reading>>
    BY <1>11 DEF ElfReplaced
  <2>2. leased'.pc = (IF verdict = "none" THEN "idle" ELSE "terminal") /\ leased'.kind = "none"
    <3>1. PICK pc : pc = (IF verdict = "none" THEN "idle" ELSE "terminal")
                    /\ leased' = [Fresh(dueOnce) EXCEPT !.pc = pc]
      BY <1>11 DEF ElfReplaced
    <3> QED BY <3>1 DEF Fresh
  <2> QED BY <2>1, <2>2
<1>12. CASE OtherProjects \/ DeadlinePasses
  <2>1. UNCHANGED <<leased, verdict, reading>>
    BY <1>12 DEF OtherProjects, DeadlinePasses
  <2> QED BY <1>2, <2>1
<1>13. CASE \E kind \in AccountKinds \ {"none"} : LeaseAccount(kind)
  <2>1. PICK kind \in AccountKinds \ {"none"} : LeaseAccount(kind)
    BY <1>13
  <2>2. verdict' = (IF kind = "spend" THEN "none" ELSE kind)
    BY <2>1 DEF LeaseAccount
  <2>3. PICK level \in BOOLEAN :
          leased' = [leased EXCEPT !.pc = AfterBounds(kind), !.kind = kind, !.loaded = TRUE,
                       !.level = level, !.latch = level,
                       !.effect = (leased.loaded /\ kind = "spend") /\ level /\ ~leased.latch,
                       !.spent = leased.loaded /\ kind = "spend",
                       !.unjudged = leased.unjudged \/ (leased.loaded /\ kind = "spend")]
    BY <2>1, Zenon DEF LeaseAccount
  <2>4. leased'.pc = (IF kind = "quota" THEN "quota" ELSE "due") /\ leased'.kind = kind
    BY <1>1, <2>3 DEF AfterBounds, Leased
  <2>5. kind # "none"
    OBVIOUS
  <2> QED BY <2>2, <2>4, <2>5
<1> QED BY <1>3, <1>4, <1>5, <1>6, <1>7, <1>8, <1>9, <1>10, <1>11, <1>12, <1>13
        DEF LeaseNext, Elf

-----------------------------------------------------------------------------
(* The log of a lease                                                      *)

\* What a log of one grant can hold: four marks of the grant itself beside its
\* first three events, and four more of each reading.
LeaseAllowed(e) ==
  \/ e.key = 0 /\ e.act \in {"propose", "grant", "activate", "renewal_due", "expire",
                             "require_checkpoint", "revoke"}
  \/ /\ e.key \in 1..MaxReadings
     /\ e.act \in {"renewal_due", "renew", "expire", "require_checkpoint"}

\* What is in the log is named by the grant or by a reading that was taken, and is
\* there once.
LeaseLog ==
  /\ \A i \in 1..Len(log) : LeaseAllowed(log[i]) /\ log[i].key <= reading
  /\ \A i, j \in 1..Len(log) : log[i] = log[j] => i = j

\* No reading marks anything before it is taken, and nothing is marked twice.
LEMMA LeaseLogStep ==
  ASSUME LeaseTyped, LeaseTurn, LeaseLog, LeaseNext
  PROVE  LeaseLog'
<1>1. /\ reading \in Nat /\ reading' \in Nat /\ reading <= reading' /\ reading <= MaxReadings
      /\ log \in Seq(LeaseEntry) /\ leased.key \in 0..MaxReadings /\ MaxReadings \in Nat
      /\ Len(log) \in Nat /\ \A i \in 1..Len(log) : log[i] \in LeaseEntry /\ log[i].key \in Nat
  <2>1. log \in Seq(LeaseEntry) /\ MaxReadings \in Nat
    BY DEF LeaseTyped, LeaseEntry
  <2>2. Len(log) \in Nat /\ \A i \in 1..Len(log) : log[i] \in LeaseEntry
    BY <2>1
  <2>3. \A e \in LeaseEntry : e.key \in Nat
    BY <2>1 DEF LeaseEntry, Keys
  <2>4. leased.key \in 0..MaxReadings
    BY DEF LeaseTyped, Leased, Keys
  <2>5. reading \in 0..MaxReadings /\ reading' \in 0..MaxReadings /\ reading <= reading'
    BY RestTyped DEF LeaseTyped, Keys
  <2> QED BY <2>1, <2>2, <2>3, <2>4, <2>5
<1>2. \A i \in 1..Len(log) : LeaseAllowed(log[i]) /\ log[i].key <= reading'
  BY <1>1 DEF LeaseLog
<1>d. LeaseLog' <=>
        /\ \A i \in 1..Len(log') : LeaseAllowed(log'[i]) /\ log'[i].key <= reading'
        /\ \A i, j \in 1..Len(log') : log'[i] = log'[j] => i = j
  BY DEF LeaseLog, LeaseAllowed
<1>3. CASE log' = log
  BY <1>2, <1>3, <1>d DEF LeaseLog
<1>4. ASSUME NEW act \in Acts, NEW key \in Keys, LeaseMay(act, key),
             Append1(act, key), ~InLog(act, key)
      PROVE  LeaseLog'
  <2> DEFINE e == [act |-> act, key |-> key]
  <2>1. /\ Len(log') = Len(log) + 1 /\ log'[Len(log) + 1] = e
        /\ \A i \in 1..Len(log) : log'[i] = log[i]
    BY <1>4, LeaseAppends
  <2>2. LeaseAllowed(e) /\ key <= reading
    <3>1. leased.pc \in {"mark", "renewing", "expire", "require"} => leased.key <= reading
      BY DEF LeaseTurn, Judging
    <3>2. leased.pc \in {"mark", "renewing"} => leased.key # 0
      BY LeaseKinds DEF LeaseTurn, Judging
    <3>3. leased.key = 0 \/ leased.key \in 1..MaxReadings
      BY <1>1
    <3>4. e.act = act /\ e.key = key
      OBVIOUS
    <3> HIDE DEF e
    <3> QED BY <1>1, <1>4, <3>1, <3>2, <3>3, <3>4 DEF LeaseMay, LeaseAllowed
  <2>3. \A i \in 1..Len(log) : log[i] # e
    BY <1>4 DEF InLog
  <2>4. e.key <= reading'
    BY <2>2, <1>1, <1>4 DEF Keys
  <2> HIDE DEF e
  <2>5. \A i \in 1..Len(log') : i \in 1..Len(log) \/ i = Len(log) + 1
    BY <2>1, <1>1
  <2>6. \A i \in 1..Len(log') : LeaseAllowed(log'[i]) /\ log'[i].key <= reading'
    BY <1>2, <2>1, <2>2, <2>4, <2>5
  <2>7. \A i, j \in 1..Len(log') : log'[i] = log'[j] => i = j
    BY <2>1, <2>3, <2>5 DEF LeaseLog
  <2> QED BY <2>6, <2>7, <1>d
<1> QED BY <1>3, <1>4, StepsWrite, LeaseAppends DEF LeaseWrites

\* A log without repetitions of what it can hold is no longer than that.
LEMMA LogIsBounded ==
  ASSUME LeaseTyped, LeaseLog
  PROVE  Len(log) <= 7 + 4 * MaxReadings
<1> DEFINE place(a) == CASE a = "propose" -> 1 [] a = "grant" -> 2 [] a = "activate" -> 3
                        [] a = "renewal_due" -> 4 [] a = "renew" -> 5 [] a = "expire" -> 6
                        [] OTHER -> 7
           code(e) == IF e.key = 0 THEN IF e.act = "revoke" THEN 5 ELSE place(e.act)
                      ELSE 4 * e.key + place(e.act)
           f == [i \in 1..Len(log) |-> code(log[i])]
           n == 7 + 4 * MaxReadings
<1>1. Len(log) \in Nat /\ MaxReadings \in Nat
      /\ \A i \in 1..Len(log) : log[i] \in LeaseEntry /\ LeaseAllowed(log[i])
  <2>1. log \in Seq(LeaseEntry) /\ MaxReadings \in Nat
    BY DEF LeaseTyped, LeaseEntry
  <2> QED BY <2>1 DEF LeaseLog
<1>2. ASSUME NEW e \in LeaseEntry, LeaseAllowed(e) PROVE code(e) \in 1..n
  BY <1>1, <1>2 DEF LeaseAllowed, LeaseEntry
<1>3. ASSUME NEW d \in LeaseEntry, LeaseAllowed(d), NEW e \in LeaseEntry, LeaseAllowed(e),
             code(d) = code(e)
      PROVE  d = e
  <2>0. /\ code(d) = IF d.key = 0 THEN IF d.act = "revoke" THEN 5 ELSE place(d.act)
                      ELSE 4 * d.key + place(d.act)
        /\ code(e) = IF e.key = 0 THEN IF e.act = "revoke" THEN 5 ELSE place(e.act)
                      ELSE 4 * e.key + place(e.act)
    OBVIOUS
  <2>1. CASE d.key = 0 /\ e.key = 0
    BY <1>3, <2>0, <2>1 DEF LeaseAllowed, LeaseEntry
  <2>2. CASE d.key # 0 /\ e.key # 0
    <3>1. /\ d.key \in 1..MaxReadings /\ d.act \in {"renewal_due", "renew", "expire", "require_checkpoint"}
          /\ e.key \in 1..MaxReadings /\ e.act \in {"renewal_due", "renew", "expire", "require_checkpoint"}
      BY <1>3, <2>2 DEF LeaseAllowed
    <3>2. place(d.act) \in 4..7 /\ place(e.act) \in 4..7 /\ (place(d.act) = place(e.act) => d.act = e.act)
      BY <3>1
    <3>3. 4 * d.key + place(d.act) = 4 * e.key + place(e.act)
      BY <1>3, <2>0, <2>2
    <3> HIDE DEF place
    <3>d. \A i, j \in Nat : \A p, q \in 4..7 : 4 * i + p = 4 * j + q => i = j /\ p = q
      OBVIOUS
    <3>n. d.key \in Nat /\ e.key \in Nat
      BY <3>1
    <3>4. d.key = e.key /\ place(d.act) = place(e.act)
      BY <3>n, <3>2, <3>3, <3>d
    <3> QED BY <3>2, <3>4 DEF LeaseEntry
  <2>3. CASE ~(d.key = 0 <=> e.key = 0)
    <3>1. \A c \in LeaseEntry : LeaseAllowed(c) /\ c.key = 0 => code(c) \in 1..7
      BY DEF LeaseAllowed
    <3>2. \A c \in LeaseEntry : LeaseAllowed(c) /\ c.key # 0 => code(c) > 7
      BY <1>1 DEF LeaseAllowed
    <3> HIDE DEF code
    <3> QED BY <1>3, <2>3, <3>1, <3>2
  <2> QED BY <2>1, <2>2, <2>3
<1> HIDE DEF code
<1>4. f \in Injection(1..Len(log), 1..n)
  <2>1. f \in [1..Len(log) -> 1..n]
    BY <1>1, <1>2
  <2>2. ASSUME NEW i \in 1..Len(log), NEW j \in 1..Len(log), f[i] = f[j] PROVE i = j
    <3>1. log[i] = log[j]
      BY <1>1, <1>3, <2>2
    <3> QED BY <3>1 DEF LeaseLog
  <2> QED BY <2>1, <2>2 DEF Injection, IsInjective
<1>5. /\ IsFiniteSet(1..n) /\ Cardinality(1..n) = n
      /\ Cardinality(1..Len(log)) = Len(log)
  <2>1. n \in Nat /\ 1 \in Int /\ n \in Int /\ Len(log) \in Int
    BY <1>1
  <2> HIDE DEF n
  <2>2. IsFiniteSet(1..n) /\ Cardinality(1..n) = n
    BY <2>1, FS_Interval
  <2>3. \A m \in Nat : Cardinality(1..m) = m
    <3> SUFFICES ASSUME NEW m \in Nat PROVE Cardinality(1..m) = m
      OBVIOUS
    <3> QED BY FS_Interval, 1 \in Int, m \in Int
  <2> QED BY <1>1, <2>2, <2>3
<1> HIDE DEF f
<1>6. Cardinality(1..Len(log)) <= Cardinality(1..n)
  BY <1>4, <1>5, FS_Injection
<1> QED BY <1>5, <1>6

-----------------------------------------------------------------------------
(* Expiry, and the epochs                                                  *)

\* A verdict on record stays there.
LEMMA VerdictStays ==
  ASSUME LeaseNext, verdict # "none"
  PROVE  verdict' = verdict
<1>1. CASE DuePath \/ Mark \/ Expire \/ Revoke \/ Require
           \/ StopPath \/ RenewPath \/ QuotaPath \/ Load \/ Done
  BY <1>1 DEF DuePath, Mark, Expire, Revoke, Require, StopPath,
     RenewPath, QuotaPath, Load, Done, Others
<1>2. CASE Persist \/ Terminal \/ Last \/ OtherProjects
           \/ Observe \/ Renew \/ ElfReplaced \/ DeadlinePasses
  BY <1>2 DEF Persist, Terminal, Last, OtherProjects,
     Observe, Renew, ElfReplaced, DeadlinePasses
<1>3. CASE \E kind \in AccountKinds \ {"none"} : LeaseAccount(kind)
  BY <1>3 DEF LeaseAccount
<1> QED BY <1>1, <1>2, <1>3 DEF LeaseNext, Elf

\* An expiry waits for the outcome of its turn.
LEMMA ExpiryStep ==
  ASSUME LeaseTyped, LeaseTurn, NoMidTurnExpiry, LeaseNext
  PROVE  NoMidTurnExpiry'
<1>1. CASE verdict # "none"
  BY <1>1, VerdictStays DEF NoMidTurnExpiry
<1>2. CASE verdict = "none"
  <2>1. \A k \in Keys : ~InLog("expire", k)
    BY <1>2 DEF NoMidTurnExpiry
  <2>2. \A k \in Keys : ~InLog("expire", k)'
    <3>1. CASE log' = log
      BY <2>1, <3>1, LeaseStays
    <3>2. ASSUME NEW act \in Acts, NEW key \in Keys, LeaseMay(act, key),
                 Append1(act, key)
          PROVE  \A k \in Keys : ~InLog("expire", k)'
      <4>1. leased.pc # "expire"
        BY <1>2 DEF LeaseTurn, Closing
      <4>2. act # "expire"
        BY <3>2, <4>1 DEF LeaseMay
      <4> QED BY <2>1, <3>2, <4>2, LeaseAppends
    <3> QED BY <3>1, <3>2, StepsWrite DEF LeaseWrites
  <2>3. NoMidTurnExpiry' <=>
          ((\E k \in Keys : InLog("expire", k)') => verdict' # "none")
    BY DEF NoMidTurnExpiry, Keys
  <2> QED BY <2>2, <2>3
<1> QED BY <1>1, <1>2

\* Every epoch of a lease whose probes return new readings has its renewal in the
\* log: a renewal is about to be marked under a key that has none.
LeaseRenews == {i \in 1..Len(log) : log[i].act = "renew"}
LeaseEpochs ==
  /\ epochs <= Cardinality(LeaseRenews)
  /\ leased.pc \in Judging => leased.key = reading
  /\ leased.pc \in Judging => \A k \in Keys : InLog("renew", k) => k # leased.key

\* The renewals of the log: finitely many, and one more with each that is added.
LEMMA RenewsCount ==
  ASSUME LeaseTyped, LeaseNext
  PROVE  /\ Cardinality(LeaseRenews) \in Nat /\ Cardinality(LeaseRenews') \in Nat
         /\ Cardinality(LeaseRenews) <= Cardinality(LeaseRenews')
         /\ \A key \in Keys :
              Append1("renew", key) /\ ~InLog("renew", key) =>
                Cardinality(LeaseRenews') = Cardinality(LeaseRenews) + 1
<1>1. Len(log) \in Nat
  BY DEF LeaseTyped
<1>2. /\ Len(log') \in Nat /\ Len(log) <= Len(log') /\ \A i \in 1..Len(log) : log'[i] = log[i]
  <2>1. CASE log' = log
    BY <2>1, <1>1
  <2>2. CASE \E act \in Acts, key \in Keys : Append1(act, key)
    <3>1. PICK act \in Acts, key \in Keys : Append1(act, key)
      BY <2>2
    <3>2. /\ log' \in Seq(LeaseEntry) /\ Len(log) <= Len(log')
          /\ \A i \in 1..Len(log) : log'[i] = log[i]
      BY <3>1, LeaseAppends
    <3> QED BY <3>2
  <2> QED BY <2>1, <2>2, StepsWrite DEF LeaseWrites
<1>3. LeaseRenews' = {i \in 1..Len(log') : log'[i].act = "renew"}
  BY DEF LeaseRenews
<1>4. IsFiniteSet(1..Len(log)) /\ IsFiniteSet(1..Len(log'))
  BY <1>1, <1>2, FS_Interval
<1>5. IsFiniteSet(LeaseRenews)
  BY <1>4, FS_Subset DEF LeaseRenews
<1>6. IsFiniteSet(LeaseRenews')
  BY <1>3, <1>4, FS_Subset
<1>7. LeaseRenews \subseteq LeaseRenews'
  BY <1>1, <1>2, <1>3 DEF LeaseRenews
<1>8. Cardinality(LeaseRenews) <= Cardinality(LeaseRenews')
  BY <1>6, <1>7, FS_Subset
<1>9. ASSUME NEW key \in Keys, Append1("renew", key), ~InLog("renew", key)
      PROVE  Cardinality(LeaseRenews') = Cardinality(LeaseRenews) + 1
  <2>1. "renew" \in Acts
    BY DEF Acts
  <2>2. /\ Len(log') = Len(log) + 1 /\ log'[Len(log) + 1] = [act |-> "renew", key |-> key]
        /\ \A i \in 1..Len(log) : log'[i] = log[i]
    BY <1>9, <2>1, LeaseAppends
  <2>3. log'[Len(log) + 1].act = "renew"
    BY <2>2
  <2>4. 1..Len(log') = 1..Len(log) \cup {Len(log) + 1} /\ Len(log) + 1 \notin 1..Len(log)
    BY <2>2, <1>1
  <2>5. LeaseRenews' = LeaseRenews \cup {Len(log) + 1} /\ Len(log) + 1 \notin LeaseRenews
    BY <1>3, <2>2, <2>3, <2>4 DEF LeaseRenews
  <2> QED BY <1>5, <2>5, FS_AddElement
<1> QED BY <1>5, <1>6, <1>8, <1>9, FS_CardinalityType

\* A renewal resets the counters only after it is in the log for the first time.
LEMMA EpochsStep ==
  ASSUME LeaseTyped, RowLegal, LeaseTurn, LeaseLog, LeaseEpochs, ~Reuse, LeaseNext
  PROVE  LeaseEpochs'
<1>1. leased \in Leased /\ epochs \in Nat /\ leased.key \in Keys
  BY DEF LeaseTyped, Leased
<1>2. epochs <= Cardinality(LeaseRenews)
      /\ (leased.pc \in Judging => leased.key = reading)
      /\ (leased.pc \in Judging => \A k \in Keys : InLog("renew", k) => k # leased.key)
  BY DEF LeaseEpochs
<1>d. LeaseEpochs' <=>
        /\ epochs' <= Cardinality(LeaseRenews')
        /\ leased'.pc \in Judging => leased'.key = reading'
        /\ leased'.pc \in Judging =>
             \A k \in Keys : InLog("renew", k)' => k # leased'.key
  BY DEF LeaseEpochs, Judging, Keys
<1> USE DEF Judging
<1>q. ASSUME UNCHANGED epochs, leased'.pc \notin Judging PROVE LeaseEpochs'
  BY <1>q, <1>1, <1>2, <1>d, RenewsCount
<1>r. Return \notin Judging
  BY ElfHolds
<1>3. CASE DuePath \/ Expire \/ Revoke \/ QuotaPath \/ RenewPath
           \/ Require
  <2>1. UNCHANGED epochs
    BY <1>3 DEF DuePath, Expire, Revoke, QuotaPath, RenewPath,
       Require, Others
  <2>2. leased'.pc \in {"stop", "require", "retire", "ended", "last", "load", "done", Return}
    BY <1>3, ElfHolds DEF DuePath, Expire, Revoke, QuotaPath,
       RenewPath, Require, Step, LeaseHolds
  <2> QED BY <1>q, <1>r, <2>1, <2>2
<1>4. CASE StopPath \/ Done \/ Terminal \/ Last
  <2>1. UNCHANGED epochs
    BY <1>4 DEF StopPath, Done, Terminal, Last, Others
  <2>2. leased'.pc \in {"renew", "idle", "terminal", "revoke", "last", "ended"}
    <3>1. CASE StopPath \/ Done
      BY <1>1, <3>1 DEF StopPath, Done, Leased
    <3>2. CASE Terminal \/ Last
      BY <3>2, ElfHolds DEF Terminal, Last, LeaseHolds
    <3> QED BY <1>4, <3>1, <3>2
  <2> QED BY <1>q, <2>1, <2>2
<1>5. CASE Load
  <2>1. UNCHANGED epochs
    BY <1>5 DEF Load, Others
  <2>2. LeaseHolds(Return) \/ leased' = [leased EXCEPT !.pc = "observe", !.row = Row]
    BY <1>5, ElfHolds DEF Load
  <2>3. leased'.pc \in {"observe", Return}
    BY <1>1, <2>2 DEF LeaseHolds, Leased
  <2> QED BY <1>q, <1>r, <2>1, <2>3
<1>6. CASE Observe
  <2>1. UNCHANGED epochs /\ log' = log
    BY <1>6 DEF Observe
  <2>2. \/ LeaseHolds(Return)
        \/ \E admit \in BOOLEAN :
             /\ reading' = reading + 1
             /\ leased' = [leased EXCEPT !.pc = "persist", !.key = reading + 1, !.admit = admit]
        \/ leased' = [leased EXCEPT !.pc = "expire", !.key = ByGrant]
    <3>1. \/ Defer \/ Go(Return)
          \/ \E r \in {reading, reading + 1} \cap 1..MaxReadings, admit \in BOOLEAN :
               /\ (r = reading => Reuse) /\ reading' = r
               /\ leased' = [leased EXCEPT !.pc = "persist", !.key = r, !.admit = admit]
          \/ leased' = [leased EXCEPT !.pc = "expire", !.key = ByGrant]
      BY <1>6, Zenon DEF Observe
    <3> QED BY <3>1, ElfHolds
  <2>3. CASE LeaseHolds(Return)
    BY <1>q, <1>r, <2>1, <2>3 DEF LeaseHolds
  <2>4. CASE leased' = [leased EXCEPT !.pc = "expire", !.key = ByGrant]
    <3>1. leased'.pc = "expire"
      BY <1>1, <2>4 DEF Leased
    <3> QED BY <1>q, <2>1, <3>1
  <2>5. ASSUME NEW admit \in BOOLEAN, reading' = reading + 1,
               leased' = [leased EXCEPT !.pc = "persist", !.key = reading + 1, !.admit = admit]
        PROVE  LeaseEpochs'
    <3>1. leased'.pc = "persist" /\ leased'.key = reading + 1
      BY <1>1, <2>5 DEF Leased
    <3>2. ~InLog("renew", reading + 1)
      <4>1. \A i \in 1..Len(log) : log[i].key <= reading
        BY DEF LeaseLog
      <4>2. reading \in Nat
        BY LeaseKinds DEF LeaseTyped
      <4> QED BY <4>1, <4>2 DEF InLog
    <3>4. \A k \in Keys : InLog("renew", k)' => k # leased'.key
      BY <3>1, <3>2, <2>1, LeaseStays
    <3> QED BY <1>1, <1>2, <1>d, <2>1, <2>5, <3>1, <3>4, RenewsCount
  <2> QED BY <2>2, <2>3, <2>4, <2>5
<1>7. CASE Persist
  <2>1. leased.pc = "persist" /\ UNCHANGED <<epochs, log, reading>>
    BY <1>7 DEF Persist, At
  <2>2. \/ LeaseHolds(Return)
        \/ \E row \in Renewable :
             leased' = [leased EXCEPT !.pc = IF leased.admit THEN "mark" ELSE "expire", !.row = row]
    BY <1>7, ElfHolds DEF Persist
  <2>3. leased'.pc \notin Judging \/ leased'.key = leased.key
    BY <1>1, <1>r, <2>2 DEF LeaseHolds, Leased
  <2>4. \A k : InLog("renew", k)' <=> InLog("renew", k)
    BY <2>1, LeaseStays
  <2> QED BY <1>1, <1>2, <1>d, <1>q, <2>1, <2>3, <2>4, RenewsCount
<1>8. CASE Mark
  <2>1. leased.pc = "mark" /\ UNCHANGED <<epochs, reading>>
    BY <1>8 DEF Mark, At, Others
  <2>2. LeaseHolds("renewing") \/ LeaseHolds(Return)
    BY <1>8, ElfHolds DEF Mark, Step
  <2>3. log' = log \/ Append1("renewal_due", leased.key)
    BY <1>8 DEF Mark, Step
  <2>4. leased'.key = leased.key
    BY <2>2 DEF LeaseHolds
  <2>5. \A k : InLog("renew", k)' <=> InLog("renew", k)
    <3>1. CASE log' = log
      BY <3>1, LeaseStays
    <3>2. CASE Append1("renewal_due", leased.key)
      <4>1. "renewal_due" \in Acts
        BY DEF Acts
      <4>2. \A a, k : InLog(a, k)' <=>
                InLog(a, k) \/ (a = "renewal_due" /\ k = leased.key)
        BY <1>1, <3>2, <4>1, LeaseAppends
      <4> QED BY <4>2
    <3> QED BY <2>3, <3>1, <3>2
  <2> QED BY <1>1, <1>2, <1>d, <2>1, <2>4, <2>5, RenewsCount
<1>9. CASE Renew
  <2>1. leased.pc = "renewing" /\ leased'.pc = Return
    <3>1. \/ Go(Return)
          \/ leased' = [leased EXCEPT !.pc = Return, !.pending = FALSE, !.unjudged = FALSE]
          \/ leased' = [leased EXCEPT !.pc = Return, !.level = FALSE, !.latch = FALSE,
                        !.stop = FALSE, !.pending = FALSE, !.unjudged = FALSE]
      BY <1>9 DEF Renew
    <3>2. Go(Return) => leased'.pc = Return
      BY ElfHolds DEF LeaseHolds
    <3>3. leased'.pc = Return
      BY <1>1, <3>1, <3>2 DEF Leased
    <3> QED BY <1>9, <3>3 DEF Renew, At
  <2>2. epochs' = epochs \/ (epochs' = epochs + 1 /\ Append1("renew", leased.key))
    BY <1>9 DEF Renew
  <2>3. epochs' <= Cardinality(LeaseRenews')
    BY <1>1, <1>2, <2>1, <2>2, RenewsCount
  <2> QED BY <1>d, <1>r, <2>1, <2>3
<1>10. CASE ElfReplaced
  <2>1. PICK pc \in {"idle", "terminal"} : leased' = [Fresh(dueOnce) EXCEPT !.pc = pc]
    BY <1>10 DEF ElfReplaced
  <2>2. leased'.pc \in {"idle", "terminal"} /\ UNCHANGED epochs
    BY <2>1, <1>10 DEF ElfReplaced, Fresh
  <2> QED BY <1>q, <2>2
<1>11. CASE OtherProjects \/ DeadlinePasses
  <2>1. UNCHANGED <<leased, log, reading, epochs>>
    BY <1>11 DEF OtherProjects, DeadlinePasses
  <2>2. \A k : InLog("renew", k)' <=> InLog("renew", k)
    BY <2>1, LeaseStays
  <2> QED BY <1>1, <1>2, <1>d, <2>1, <2>2, RenewsCount
<1>12. CASE \E kind \in AccountKinds \ {"none"} : LeaseAccount(kind)
  <2>1. PICK kind \in AccountKinds \ {"none"} : LeaseAccount(kind)
    BY <1>12
  <2>2. PICK level \in BOOLEAN :
          leased' = [leased EXCEPT !.pc = AfterBounds(kind), !.kind = kind, !.loaded = TRUE,
                       !.level = level, !.latch = level,
                       !.effect = (leased.loaded /\ kind = "spend") /\ level /\ ~leased.latch,
                       !.spent = leased.loaded /\ kind = "spend",
                       !.unjudged = leased.unjudged \/ (leased.loaded /\ kind = "spend")]
    BY <2>1, Zenon DEF LeaseAccount
  <2>3. leased'.pc \in {"quota", "due"}
    BY <1>1, <2>2 DEF AfterBounds, Leased
  <2>4. UNCHANGED epochs
    BY <2>1 DEF LeaseAccount
  <2> QED BY <1>q, <2>3, <2>4
<1> QED BY <1>3, <1>4, <1>5, <1>6, <1>7, <1>8, <1>9, <1>10, <1>11, <1>12 DEF LeaseNext, Elf

-----------------------------------------------------------------------------
(* The lease of a steady run                                               *)

LeaseSteady == verdict # "quota" /\ ~Happened({"crash", "append"})

\* The lease is renewable to the end of its log: nothing has ended it.
LeaseDead == {"expire", "revoke", "require_checkpoint"}
LeaseLive == /\ LeaseTip \in Renewable
             /\ \A act \in LeaseDead, k \in Keys : ~InLog(act, k)
LeaseUnchecked == \A k \in Keys : ~InLog("require_checkpoint", k)

\* Until it is ended, which happens once and in two appends that nothing
\* separates.
LeasePhase ==
  /\ \/ LeaseLive
     \/ leased.pc = "require" /\ LeaseTip = "expired" /\ LeaseUnchecked
     \/ leased.pc = "retire" /\ LeaseTip = "revoked" /\ LeaseUnchecked
     \/ leased.pc \in {"done", "terminal", "last", "ended"} /\ verdict # "none"
        /\ LeaseTip = "checkpoint_required"
  /\ leased.pc \in {"require", "retire"} => ~LeaseLive
  /\ leased.pc \in {"last", "ended"} /\ verdict = "completed" => ~LeaseLive

\* A reading is marked due only on the way to its renewal; what is renewed was due;
\* and the log ends in a due mark only with the mark of the grant in it, on which
\* the due path that reads a late row falls back.
LeaseMarks ==
  /\ \A r \in 1..MaxReadings :
       /\ InLog("renewal_due", r) =>
            InLog("renew", r) \/ (leased.pc = "renewing" /\ leased.key = r)
       /\ InLog("renew", r) => InLog("renewal_due", r) \/ InLog("renewal_due", 0)
       /\ leased.pc = "renewing" /\ leased.key = r =>
            /\ LeaseTip = "renewal_due" \/ InLog("renew", r)
            /\ leased.row = "renewal_due" \/ InLog("renewal_due", r)
            /\ LeaseTip = "renewal_due" /\ InLog("renew", r) => InLog("renewal_due", 0)
  /\ LeaseTip = "renewal_due" /\ (leased.pc # "renewing" \/ leased.row = "renewal_due") =>
       InLog("renewal_due", 0)
  /\ leased.pc = "mark" => applied = Len(log) /\ leased.row = LeaseTip

LeaseIsSteady == LeaseProjects /\ wedged = FALSE /\ LeasePhase /\ LeaseMarks
LeaseSteadyInv == LeaseSteady => LeaseIsSteady

\* Whoever projects a log of legal events projects all of it.
LEMMA SteadyProjects ==
  ASSUME LeaseTyped, LeaseProjects, wedged = FALSE, Project
  PROVE  applied' = Len(log) /\ wedged' = FALSE
<1>1. applied \in 3..Len(log) /\ Len(log) \in Nat
  BY DEF LeaseTyped
<1>2. PICK n \in applied..Len(log) :
        /\ n < Len(log) => Status[n + 1] = "illegal"
        /\ ProjectTo(n)
  BY DEF Project
<1>3. n = Len(log)
  BY <1>1, <1>2 DEF LeaseProjects
<1>4. applied' = n /\ wedged' = (n < Len(log))
  BY <1>2 DEF ProjectTo
<1>5. ~(n < Len(log))
  BY <1>1, <1>3
<1>6. wedged' = FALSE
  <2> DEFINE late == n < Len(log)
  <2>1. wedged' = late /\ ~late /\ late \in BOOLEAN
    BY <1>4, <1>5
  <2> HIDE DEF late
  <2> QED BY <2>1
<1> QED BY <1>3, <1>4, <1>6

\* A run that is steady after a step was steady before it, and the step was no
\* crash and no append that failed.
LEMMA SteadyBefore ==
  ASSUME LeaseTyped, LeaseNext, LeaseSteady'
  PROVE  /\ LeaseSteady /\ verdict' # "quota"
         /\ \A kind \in {"crash", "append"} : ~Fault(kind)
<1>1. faults \in Seq(Faults) /\ Len(faults) \in Nat
  BY DEF LeaseTyped
<1>2. verdict # "quota" /\ verdict' # "quota"
  BY VerdictStays DEF LeaseSteady
<1>3. ~(\E i \in 1..Len(faults') : faults'[i] \in {"crash", "append"})
  BY DEF LeaseSteady, Happened
<1>4. ASSUME NEW kind, Fault(kind)
      PROVE  /\ kind \notin {"crash", "append"} /\ ~Happened({"crash", "append"})
  <2>1. kind \in Faults /\ faults' = Append(faults, kind)
    BY <1>4 DEF Fault
  <2>2. Len(faults') = Len(faults) + 1 /\ faults'[Len(faults) + 1] = kind
        /\ \A i \in 1..Len(faults) : faults'[i] = faults[i]
    BY <1>1, <2>1
  <2>3. \A i \in 1..Len(faults) : i \in 1..Len(faults')
    BY <1>1, <2>2
  <2>4. Len(faults) + 1 \in 1..Len(faults')
    BY <1>1, <2>2
  <2> QED BY <1>3, <2>2, <2>3, <2>4 DEF Happened
<1>5. ASSUME UNCHANGED faults PROVE ~Happened({"crash", "append"})
  BY <1>3, <1>5 DEF Happened
<1>6. UNCHANGED faults \/ \E kind : Fault(kind)
  <2>0. \A act, key, ok, err : Step(act, key, ok, err) =>
            UNCHANGED faults \/ \E kind : Fault(kind)
    BY DEF Step
  <2>1. CASE DuePath \/ Mark \/ Expire \/ Revoke \/ Require
             \/ StopPath \/ RenewPath \/ QuotaPath \/ Load \/ Done
    BY <2>0, <2>1 DEF DuePath, Mark, Expire, Revoke, Require,
       StopPath, RenewPath, QuotaPath, Load, Done
  <2>2. CASE Persist \/ Terminal \/ Last \/ OtherProjects
             \/ Observe \/ Renew \/ ElfReplaced \/ DeadlinePasses
    BY <2>2 DEF Persist, Terminal, Last, OtherProjects,
       Observe, Renew, ElfReplaced, DeadlinePasses
  <2>3. CASE \E kind \in AccountKinds \ {"none"} : LeaseAccount(kind)
    BY <2>3 DEF LeaseAccount
  <2> QED BY <2>1, <2>2, <2>3 DEF LeaseNext, Elf
<1>7. ~Happened({"crash", "append"})
  BY <1>4, <1>5, <1>6
<1> QED BY <1>2, <1>4, <1>7 DEF LeaseSteady

\* The parts of the steady lease, after a step that left the log alone.
LEMMA SteadyStays ==
  ASSUME LeaseTyped, LeaseIsSteady, log' = log, wedged' = FALSE,
         verdict' = verdict \/ verdict = "none",
         leased.pc # "renewing", leased'.pc # "renewing",
         leased'.pc = "mark" => applied' = Len(log) /\ leased'.row = LeaseTip,
         leased'.pc \notin {"require", "retire"}, leased.pc \notin {"require", "retire"},
         leased.pc \in {"done", "terminal", "last", "ended"} =>
           leased'.pc \in {"done", "terminal", "last", "ended"} \/ verdict = "none" \/ LeaseLive,
         leased'.pc \in {"last", "ended"} /\ verdict' = "completed" => ~LeaseLive
  PROVE  LeaseIsSteady'
<1>1. LeaseTip' = LeaseTip /\ (\A a, k : InLog(a, k)' <=> InLog(a, k))
      /\ (\A n \in 0..Len(log) : Status'[n] = Status[n])
  BY LeaseStays
<1>2. LeaseProjects'
  <2>1. \A i \in 1..Len(log) : i \in 0..Len(log)
    BY DEF LeaseTyped
  <2> QED BY <1>1, <2>1 DEF LeaseProjects, LeaseIsSteady
<1>3. LeaseLive' <=> LeaseLive
  BY <1>1 DEF LeaseLive, Renewable, Keys, LeaseDead
<1>4. LeasePhase'
  BY <1>1, <1>3 DEF LeasePhase, LeaseIsSteady
<1>5. LeaseMarks'
  BY <1>1 DEF LeaseMarks, LeaseIsSteady
<1> QED BY <1>2, <1>4, <1>5 DEF LeaseIsSteady

\* The same, while the Elf stands still.
LEMMA SteadyWaits ==
  ASSUME LeaseTyped, LeaseIsSteady, log' = log, wedged' = FALSE,
         UNCHANGED <<leased, verdict>>, applied' = applied \/ applied' = Len(log)
  PROVE  LeaseIsSteady'
<1>1. LeaseTip' = LeaseTip /\ (\A a, k : InLog(a, k)' <=> InLog(a, k))
      /\ (\A n \in 0..Len(log) : Status'[n] = Status[n])
  BY LeaseStays
<1>2. LeaseProjects'
  <2>1. \A i \in 1..Len(log) : i \in 0..Len(log)
    BY DEF LeaseTyped
  <2> QED BY <1>1, <2>1 DEF LeaseProjects, LeaseIsSteady
<1>3. LeaseLive' <=> LeaseLive
  BY <1>1 DEF LeaseLive, Renewable, Keys, LeaseDead
<1>4. LeasePhase'
  <2>1. LeaseUnchecked' <=> LeaseUnchecked
    BY <1>1 DEF LeaseUnchecked, Keys
  <2> QED BY <1>1, <1>3, <2>1 DEF LeasePhase, LeaseIsSteady
<1>5. LeaseMarks'
  BY <1>1 DEF LeaseMarks, LeaseIsSteady
<1> QED BY <1>2, <1>4, <1>5 DEF LeaseIsSteady

\* An append that the table accepts, in a log of legal events, is another.
LEMMA SteadyAppends ==
  ASSUME LeaseTyped, LeaseIsSteady, NEW act \in Acts, NEW key \in Keys,
         Append1(act, key), ~InLog(act, key),
         LeaseTarget(LeaseTip, act) # "illegal"
  PROVE  LeaseProjects' /\ LeaseTip' = LeaseTarget(LeaseTip, act)
<1>1. /\ Len(log') = Len(log) + 1 /\ LeaseTip' = LeaseTarget(LeaseTip, act)
      /\ \A n \in 0..Len(log) : Status'[n] = Status[n]
  BY LeaseAppends
<1>2. Len(log) \in Nat
  BY DEF LeaseTyped
<1>3. LeaseTip' = Status'[Len(log) + 1]
  BY <1>1 DEF LeaseTip
<1>4. LeaseProjects' <=> \A i \in 1..Len(log') : Status'[i] # "illegal"
  BY DEF LeaseProjects
<1>5. \A i \in 1..Len(log) : Status[i] # "illegal"
  BY DEF LeaseIsSteady, LeaseProjects
<1>6. \A i \in 1..Len(log') : (i \in 0..Len(log) /\ i \in 1..Len(log)) \/ i = Len(log) + 1
  BY <1>1, <1>2
<1> QED BY <1>1, <1>3, <1>4, <1>5, <1>6

\* The marks and appends of a steady run, one by one.
LEMMA SteadyDue ==
  ASSUME LeaseTyped, LeaseTurn, LeaseIsSteady, DuePath, ~Fault("append")
  PROVE  LeaseIsSteady'
<1>1. leased.pc = "due" /\ leased'.pc = "stop" /\ UNCHANGED <<verdict, applied, wedged>>
  BY ElfHolds DEF DuePath, Step, At, Others, LeaseHolds
<1>2. LeaseLive /\ wedged' = FALSE
  BY <1>1 DEF LeasePhase, LeaseIsSteady
<1>3. CASE log' = log
  BY <1>1, <1>2, <1>3, SteadyStays
<1>4. CASE Append1("renewal_due", 0) /\ ~InLog("renewal_due", 0)
  <2>1. "renewal_due" \in Acts /\ 0 \in Keys
    BY LeaseKinds DEF Acts
  <2>2. LeaseTip \in {"active", "renewed"}
    BY <1>1, <1>2, <1>4, LeaseKinds DEF LeaseLive, LeaseIsSteady, LeaseMarks
  <2>3. LeaseTarget(LeaseTip, "renewal_due") = "renewal_due"
    BY <2>2 DEF LeaseTarget
  <2>4. LeaseProjects' /\ LeaseTip' = "renewal_due"
    BY <1>4, <2>1, <2>3, SteadyAppends
  <2>5. \A a, k : InLog(a, k)' <=> InLog(a, k) \/ (a = "renewal_due" /\ k = 0)
    BY <1>4, <2>1, LeaseAppends
  <2>6. LeaseLive'
    BY <1>2, <2>4, <2>5 DEF LeaseLive, LeaseDead, Keys, Renewable
  <2>7. LeasePhase'
    BY <1>1, <2>6 DEF LeasePhase
  <2>8. LeaseMarks'
    BY <1>1, <2>5 DEF LeaseMarks, LeaseIsSteady
  <2> QED BY <1>2, <2>4, <2>7, <2>8 DEF LeaseIsSteady
<1>5. log' = log \/ (Append1("renewal_due", 0) /\ ~InLog("renewal_due", 0))
  <2>1. log' = log \/ Append1("renewal_due", 0)
    BY LeaseKinds DEF DuePath, Step
  <2> QED BY <2>1 DEF Append1
<1> QED BY <1>3, <1>4, <1>5

\* A due marker of a steady run is accepted by the lifecycle: the lease is active.
LEMMA SteadyMark ==
  ASSUME LeaseTyped, LeaseTurn, LeaseIsSteady, Mark, ~Fault("append"),
         verdict # "quota"
  PROVE  LeaseIsSteady'
<1>1. leased.pc = "mark" /\ UNCHANGED <<verdict, applied, wedged>>
  BY DEF Mark, At, Others
<1>2. LeaseLive /\ wedged' = FALSE /\ leased.row = LeaseTip /\ Row = LeaseTip
  BY <1>1 DEF LeasePhase, LeaseIsSteady, LeaseMarks, Row, LeaseTip
<1>3. leased.key \in 1..MaxReadings /\ leased.key \in Keys
  <2>1. leased.key # 0
    BY <1>1, LeaseKinds DEF LeaseTurn, Judging
  <2>2. leased.key \in 0..MaxReadings /\ MaxReadings \in Nat
    BY DEF LeaseTyped, Leased, Keys
  <2> QED BY <2>1, <2>2 DEF Keys
<1>4. LeaseTip \in {"active", "renewal_due", "renewed"}
  BY <1>2, LeaseKinds DEF LeaseLive
<1>5. LeaseHolds("renewing") /\
      \/ LeaseTip = "renewal_due" /\ log' = log
      \/ LeaseTip \in {"active", "renewed"} /\ Append1("renewal_due", leased.key)
  <2>1. CASE LeaseTip = "renewal_due"
    BY <1>2, <2>1, ElfHolds DEF Mark
  <2>2. CASE LeaseTip \in {"active", "renewed"}
    <3>1. leased.row # "renewal_due" /\ LeaseTarget(Row, "renewal_due") # "illegal"
      BY <1>2, <2>2 DEF LeaseTarget
    <3> QED BY <3>1, <2>2, ElfHolds DEF Mark, Step
  <2> QED BY <1>4, <2>1, <2>2
<1>6. leased'.pc = "renewing" /\ leased'.key = leased.key /\ leased'.row = leased.row
  BY <1>5 DEF LeaseHolds
<1>7. PICK r \in 1..MaxReadings : r = leased.key
  BY <1>3
<1>8. /\ InLog("renewal_due", r) => InLog("renew", r)
      /\ InLog("renew", r) => InLog("renewal_due", r) \/ InLog("renewal_due", 0)
      /\ LeaseTip = "renewal_due" => InLog("renewal_due", 0)
  BY <1>1 DEF LeaseMarks, LeaseIsSteady
<1>9. CASE log' = log
  <2>1. LeaseTip' = LeaseTip /\ (\A a, k : InLog(a, k)' <=> InLog(a, k))
        /\ (\A n \in 0..Len(log) : Status'[n] = Status[n])
    BY <1>9, LeaseStays
  <2>2. LeaseProjects'
    <3>1. \A i \in 1..Len(log) : i \in 0..Len(log)
      BY DEF LeaseTyped
    <3> QED BY <1>9, <2>1, <3>1 DEF LeaseProjects, LeaseIsSteady
  <2>3. LeaseLive'
    BY <1>2, <2>1 DEF LeaseLive, Renewable, Keys, LeaseDead
  <2>4. LeasePhase'
    BY <1>6, <2>3 DEF LeasePhase
  <2>5. LeaseTip = "renewal_due" \/ InLog("renewal_due", r)
    BY <1>5, <1>7, <1>9, LeaseAppends DEF Acts, Append1, InLog
  <2>6. LeaseMarks'
    BY <1>1, <1>2, <1>6, <1>7, <1>8, <2>1, <2>5 DEF LeaseMarks, LeaseIsSteady
  <2> QED BY <1>2, <2>2, <2>4, <2>6 DEF LeaseIsSteady
<1>10. CASE /\ LeaseTip \in {"active", "renewed"} /\ Append1("renewal_due", r)
            /\ ~InLog("renewal_due", r)
  <2>1. "renewal_due" \in Acts /\ r \in Keys
    BY <1>3, <1>7 DEF Acts
  <2>2. LeaseTarget(LeaseTip, "renewal_due") = "renewal_due"
    BY <1>10 DEF LeaseTarget
  <2>3. LeaseProjects' /\ LeaseTip' = "renewal_due"
    BY <1>10, <2>1, <2>2, SteadyAppends
  <2>4. \A a, k : InLog(a, k)' <=> InLog(a, k) \/ (a = "renewal_due" /\ k = r)
    BY <1>10, <2>1, LeaseAppends
  <2>5. LeaseLive'
    BY <1>2, <2>3, <2>4 DEF LeaseLive, LeaseDead, Keys, Renewable
  <2>6. LeasePhase'
    BY <1>6, <2>5 DEF LeasePhase
  <2>7. leased'.row # "renewal_due"
    BY <1>2, <1>6, <1>10
  <2>8. LeaseMarks'
    BY <1>1, <1>6, <1>7, <1>8, <1>10, <2>3, <2>4, <2>7 DEF LeaseMarks, LeaseIsSteady
  <2> QED BY <1>2, <2>3, <2>6, <2>8 DEF LeaseIsSteady
<1>11. log' = log \/ ( /\ LeaseTip \in {"active", "renewed"} /\ Append1("renewal_due", r)
                       /\ ~InLog("renewal_due", r))
  BY <1>5, <1>7 DEF Append1
<1> QED BY <1>9, <1>10, <1>11

\* A renewal of a steady run is accepted: the lease is active or due.
LEMMA SteadyRenew ==
  ASSUME LeaseTyped, LeaseTurn, LeaseIsSteady, Renew, ~Fault("append"),
         verdict # "quota"
  PROVE  LeaseIsSteady'
<1>1. leased.pc = "renewing" /\ UNCHANGED <<verdict, applied, wedged>>
  BY DEF Renew, At
<1>2. LeaseLive /\ wedged' = FALSE
  BY <1>1 DEF LeasePhase, LeaseIsSteady
<1>3. leased.key \in 1..MaxReadings /\ leased.key \in Keys
  <2>1. leased.key # 0
    BY <1>1, LeaseKinds DEF LeaseTurn, Judging
  <2>2. leased.key \in 0..MaxReadings /\ MaxReadings \in Nat
    BY DEF LeaseTyped, Leased, Keys
  <2> QED BY <2>1, <2>2 DEF Keys
<1>4. leased'.pc = "done" /\ Append1("renew", leased.key)
  <2>1. leased.kind # "quota" /\ leased \in Leased
    BY <1>1 DEF LeaseTurn, Closing, LeaseTyped
  <2>2. Return = "done"
    BY <2>1 DEF Return
  <2>3. leased' = [leased EXCEPT !.pc = Return, !.level = FALSE, !.latch = FALSE,
                     !.stop = FALSE, !.pending = FALSE, !.unjudged = FALSE]
    BY <2>1 DEF Renew
  <2> QED BY <2>1, <2>2, <2>3 DEF Leased, Renew
<1>5. PICK r \in 1..MaxReadings : r = leased.key
  BY <1>3
<1>6. /\ LeaseTip = "renewal_due" \/ InLog("renew", r)
      /\ leased.row = "renewal_due" \/ InLog("renewal_due", r)
      /\ LeaseTip = "renewal_due" /\ InLog("renew", r) => InLog("renewal_due", 0)
      /\ LeaseTip = "renewal_due" /\ leased.row = "renewal_due" => InLog("renewal_due", 0)
  BY <1>1, <1>5 DEF LeaseMarks, LeaseIsSteady
<1>7. CASE InLog("renew", r)
  <2>0. log' = log
    BY <1>4, <1>5, <1>7 DEF Append1
  <2>1. LeaseTip' = LeaseTip /\ (\A a, k : InLog(a, k)' <=> InLog(a, k))
        /\ (\A n \in 0..Len(log) : Status'[n] = Status[n])
    BY <2>0, LeaseStays
  <2>2. LeaseProjects'
    <3>1. \A i \in 1..Len(log) : i \in 0..Len(log)
      BY DEF LeaseTyped
    <3> QED BY <2>0, <2>1, <3>1 DEF LeaseProjects, LeaseIsSteady
  <2>3. LeaseLive'
    BY <1>2, <2>1 DEF LeaseLive, Renewable, Keys, LeaseDead
  <2>4. LeasePhase'
    BY <1>4, <2>3 DEF LeasePhase
  <2>5. LeaseMarks'
    BY <1>1, <1>4, <1>5, <1>6, <1>7, <2>1 DEF LeaseMarks, LeaseIsSteady
  <2> QED BY <1>2, <2>2, <2>4, <2>5 DEF LeaseIsSteady
<1>8. CASE ~InLog("renew", r)
  <2>1. "renew" \in Acts /\ r \in Keys /\ Append1("renew", r)
    BY <1>3, <1>4, <1>5 DEF Acts
  <2>2. LeaseTarget(LeaseTip, "renew") = "renewed"
    BY <1>6, <1>8 DEF LeaseTarget
  <2>3. LeaseProjects' /\ LeaseTip' = "renewed"
    BY <1>8, <2>1, <2>2, SteadyAppends
  <2>4. \A a, k : InLog(a, k)' <=> InLog(a, k) \/ (a = "renew" /\ k = r)
    BY <2>1, LeaseAppends
  <2>5. LeaseLive'
    BY <1>2, <2>3, <2>4 DEF LeaseLive, LeaseDead, Keys, Renewable
  <2>6. LeasePhase'
    BY <1>4, <2>5 DEF LeasePhase
  <2>7. LeaseMarks'
    BY <1>1, <1>4, <1>5, <1>6, <1>8, <2>3, <2>4 DEF LeaseMarks, LeaseIsSteady
  <2> QED BY <1>2, <2>3, <2>6, <2>7 DEF LeaseIsSteady
<1> QED BY <1>7, <1>8

\* What ends a lease: an append that nothing of its kind preceded.
LEMMA SteadyEnds ==
  ASSUME LeaseTyped, LeaseIsSteady, NEW act \in LeaseDead, NEW key \in Keys,
         Append1(act, key), ~InLog(act, key), UNCHANGED <<applied, wedged, verdict>>,
         LeaseTarget(LeaseTip, act) \in {"expired", "revoked", "checkpoint_required"},
         leased'.pc \notin {"mark", "renewing"}, leased.pc # "renewing",
         \/ leased'.pc = "require" /\ LeaseUnchecked /\ LeaseTarget(LeaseTip, act) = "expired"
            /\ act = "expire"
         \/ leased'.pc = "retire" /\ LeaseUnchecked /\ LeaseTarget(LeaseTip, act) = "revoked"
            /\ act = "revoke"
         \/ leased'.pc \in {"done", "last"} /\ verdict # "none"
            /\ LeaseTarget(LeaseTip, act) = "checkpoint_required"
  PROVE  LeaseIsSteady'
<1>1. act \in Acts
  BY DEF LeaseDead, Acts
<1>2. LeaseProjects' /\ LeaseTip' = LeaseTarget(LeaseTip, act)
  BY <1>1, SteadyAppends
<1>3. \A a, k : InLog(a, k)' <=> InLog(a, k) \/ (a = act /\ k = key)
  BY <1>1, LeaseAppends
<1>4. ~LeaseLive'
  <2>1. LeaseTip' \notin Renewable
    BY <1>2, LeaseKinds
  <2> QED BY <2>1 DEF LeaseLive, Renewable
<1>5. LeasePhase'
  <2>1. act # "require_checkpoint" /\ LeaseUnchecked => LeaseUnchecked'
    BY <1>3 DEF LeaseUnchecked, Keys
  <2> QED BY <1>2, <1>4, <2>1 DEF LeasePhase
<1>6. LeaseMarks'
  <2>1. \A k : (InLog("renew", k)' <=> InLog("renew", k))
            /\ (InLog("renewal_due", k)' <=> InLog("renewal_due", k))
    BY <1>3 DEF LeaseDead
  <2>2. LeaseTip' # "renewal_due"
    BY <1>2
  <2> QED BY <2>1, <2>2 DEF LeaseMarks, LeaseIsSteady
<1> QED BY <1>2, <1>5, <1>6 DEF LeaseIsSteady

\* A steady run stays steady, or it was none.
LEMMA SteadyStep ==
  ASSUME LeaseTyped, LeaseTurn, LeaseSteadyInv, LeaseNext
  PROVE  LeaseSteadyInv'
<1> SUFFICES ASSUME LeaseSteady' PROVE LeaseIsSteady'
  BY DEF LeaseSteadyInv
<1>1. /\ LeaseSteady /\ verdict # "quota" /\ verdict' # "quota"
      /\ ~Fault("crash") /\ ~Fault("append")
  BY SteadyBefore DEF LeaseSteady
<1>2. LeaseIsSteady
  BY <1>1 DEF LeaseSteadyInv
<1>3. /\ LeaseProjects /\ wedged = FALSE /\ LeasePhase /\ LeaseMarks
      /\ leased \in Leased
  BY <1>2 DEF LeaseIsSteady, LeaseTyped
<1>4. /\ leased.pc = "idle" => verdict = "none"
      /\ leased.pc \in Closing => verdict # "none"
      /\ leased.pc \notin Closing \cup {"idle"} =>
           leased.kind # "none" /\ verdict = IF leased.kind = "spend" THEN "none" ELSE leased.kind
      /\ leased.pc \in {"expire", "require"} => leased.kind # "spend"
      /\ leased.pc = "quota" => verdict = "quota"
      /\ leased.pc = "revoke" => verdict = "completed"
      /\ leased.pc \in Judging \cup {"observe", "expire", "require"} =>
           leased.row \in Renewable
  BY DEF LeaseTurn
<1>5. leased.pc \notin Closing \cup {"idle"} => Return = "done"
  <2>1. leased.pc \notin Closing \cup {"idle"} => leased.kind # "quota"
    BY <1>1, <1>4
  <2> QED BY <2>1 DEF Return
<1>6. leased.pc \notin {"require", "retire", "done", "terminal", "last", "ended"} => LeaseLive
  BY <1>3 DEF LeasePhase
<1>7. CASE DuePath \/ Mark \/ Renew
  BY <1>1, <1>2, <1>7, SteadyDue, SteadyMark, SteadyRenew
<1>8. CASE Expire
  <2>1. leased.pc = "expire" /\ UNCHANGED <<verdict, applied, wedged>>
    BY <1>8 DEF Expire, At, Others
  <2>2. leased.row \in {"active", "renewal_due", "renewed"} /\ leased.key \in Keys
    BY <1>3, <1>4, <2>1, LeaseKinds DEF Leased
  <2>3. LeaseTarget(leased.row, "expire") # "illegal"
    BY <2>2 DEF LeaseTarget
  <2>4. Append1("expire", leased.key) /\ leased'.pc = "require"
    BY <1>1, <1>8, <2>3, ElfHolds DEF Expire, Step, LeaseHolds
  <2>5. LeaseLive /\ LeaseTip \in {"active", "renewal_due", "renewed"}
    BY <1>6, <2>1, LeaseKinds DEF LeaseLive
  <2>6. LeaseUnchecked /\ ~InLog("expire", leased.key)
    BY <2>2, <2>5 DEF LeaseLive, LeaseDead, LeaseUnchecked
  <2>7. LeaseTarget(LeaseTip, "expire") = "expired"
    BY <2>5 DEF LeaseTarget
  <2>8. "expire" \in LeaseDead
    BY DEF LeaseDead
  <2> QED BY <1>2, <2>1, <2>2, <2>4, <2>6, <2>7, <2>8, SteadyEnds
<1>9. CASE Require
  <2>1. leased.pc = "require" /\ UNCHANGED <<verdict, applied, wedged>> /\ leased.key \in Keys
    BY <1>3, <1>9 DEF Require, At, Others, Leased
  <2>2. Append1("require_checkpoint", leased.key) /\ leased'.pc = "done"
    BY <1>1, <1>5, <1>9, <2>1, ElfHolds DEF Require, LeaseHolds, Closing
  <2>3. LeaseTip = "expired" /\ LeaseUnchecked
    BY <1>3, <2>1 DEF LeasePhase
  <2>4. LeaseTarget(LeaseTip, "require_checkpoint") = "checkpoint_required"
    BY <2>3 DEF LeaseTarget
  <2>5. "require_checkpoint" \in LeaseDead /\ ~InLog("require_checkpoint", leased.key)
    BY <2>1, <2>3 DEF LeaseDead, LeaseUnchecked
  <2>6. verdict # "none"
    BY <1>4, <2>1 DEF Closing
  <2> QED BY <1>2, <2>1, <2>2, <2>4, <2>5, <2>6, SteadyEnds
<1>10. CASE Revoke
  <2>0. UNCHANGED <<verdict, applied, wedged>> /\ leased.pc \in {"revoke", "retire"}
        /\ ByGrant = 0 /\ 0 \in Keys
    BY <1>10, LeaseKinds DEF Revoke, At, Others
  <2>1. CASE leased.pc = "revoke"
    <3>1. Append1("revoke", 0) /\ leased'.pc = "retire"
      BY <1>1, <1>10, <2>0, <2>1, ElfHolds DEF Revoke, Step, At, LeaseHolds
    <3>2. LeaseLive /\ LeaseTip \in {"active", "renewal_due", "renewed"}
      BY <1>6, <2>1, LeaseKinds DEF LeaseLive
    <3>3. LeaseUnchecked /\ ~InLog("revoke", 0)
      BY <2>0, <3>2 DEF LeaseLive, LeaseDead, LeaseUnchecked
    <3>4. LeaseTarget(LeaseTip, "revoke") = "revoked"
      BY <3>2 DEF LeaseTarget
    <3>5. "revoke" \in LeaseDead
      BY DEF LeaseDead
    <3> QED BY <1>2, <2>0, <2>1, <3>1, <3>3, <3>4, <3>5, SteadyEnds
  <2>2. CASE leased.pc = "retire"
    <3>1. Append1("require_checkpoint", 0) /\ leased'.pc = "last"
      BY <1>1, <1>10, <2>0, <2>2, ElfHolds DEF Revoke, Step, At, LeaseHolds
    <3>2. LeaseTip = "revoked" /\ LeaseUnchecked
      BY <1>3, <2>2 DEF LeasePhase
    <3>3. LeaseTarget(LeaseTip, "require_checkpoint") = "checkpoint_required"
      BY <3>2 DEF LeaseTarget
    <3>4. "require_checkpoint" \in LeaseDead /\ ~InLog("require_checkpoint", 0)
      BY <2>0, <3>2 DEF LeaseDead, LeaseUnchecked
    <3>5. verdict # "none"
      BY <1>4, <2>2 DEF Closing
    <3> QED BY <1>2, <2>0, <2>2, <3>1, <3>3, <3>4, <3>5, SteadyEnds
  <2> QED BY <2>0, <2>1, <2>2
<1>11. CASE StopPath \/ RenewPath \/ QuotaPath \/ Load
  <2>1. UNCHANGED <<verdict, applied, wedged, log>>
    BY <1>11 DEF StopPath, RenewPath, QuotaPath, Load, Others
  <2>2. leased.pc \in {"stop", "renew", "load"}
    BY <1>1, <1>4, <1>11 DEF StopPath, RenewPath, QuotaPath, Load, At
  <2>3. leased'.pc \in {"renew", "load", "done", "observe"}
    <3>1. CASE StopPath
      BY <1>3, <3>1 DEF StopPath, Leased
    <3>2. CASE RenewPath \/ QuotaPath
      BY <3>2, ElfHolds DEF RenewPath, QuotaPath, LeaseHolds
    <3>3. CASE Load
      <4>1. LeaseHolds(Return) \/ leased' = [leased EXCEPT !.pc = "observe", !.row = Row]
        BY <3>3, ElfHolds DEF Load
      <4>2. Return = "done"
        BY <1>5, <2>2 DEF Closing
      <4> QED BY <1>3, <4>1, <4>2 DEF LeaseHolds, Leased
    <3> QED BY <1>11, <3>1, <3>2, <3>3
  <2> QED BY <1>2, <1>3, <2>1, <2>2, <2>3, SteadyStays
<1>12. CASE Observe
  <2>1. UNCHANGED <<verdict, applied, wedged, log>> /\ leased.pc = "observe"
    BY <1>12 DEF Observe, At
  <2>2. leased'.pc \in {"persist", "expire", "done"}
    <3>1. \/ Defer \/ Go(Return)
          \/ \E r \in {reading, reading + 1} \cap 1..MaxReadings, admit \in BOOLEAN :
               leased' = [leased EXCEPT !.pc = "persist", !.key = r, !.admit = admit]
          \/ leased' = [leased EXCEPT !.pc = "expire", !.key = ByGrant]
      BY <1>12, Zenon DEF Observe
    <3>2. LeaseHolds(Return) \/ leased'.pc \in {"persist", "expire"}
      BY <1>3, <3>1, ElfHolds DEF Leased
    <3>3. Return = "done"
      BY <1>5, <2>1 DEF Closing
    <3> QED BY <3>2, <3>3 DEF LeaseHolds
  <2> QED BY <1>2, <1>3, <2>1, <2>2, SteadyStays
<1>13. CASE Persist
  <2>1. UNCHANGED <<verdict, log>> /\ leased.pc = "persist" /\ Project
    BY <1>1, <1>13 DEF Persist, At
  <2>2. applied' = Len(log) /\ wedged' = FALSE
    BY <1>3, <2>1, SteadyProjects
  <2>3. LeaseLive
    BY <1>6, <2>1
  <2>5. Status[applied'] = LeaseTip
    BY <2>2 DEF LeaseTip
  <2>6. /\ LeaseTip \in Renewable /\ LeaseTip \notin {"expired", "checkpoint_required"}
    BY <2>3, LeaseKinds DEF LeaseLive
  <2>7. leased' = [leased EXCEPT !.pc = IF leased.admit THEN "mark" ELSE "expire", !.row = LeaseTip]
    BY <1>1, <1>13, <2>2, <2>5, <2>6 DEF Persist
  <2>8. leased'.pc \in {"mark", "expire"} /\ leased'.row = LeaseTip
    BY <1>3, <2>7 DEF Leased
  <2> QED BY <1>2, <2>1, <2>2, <2>8, SteadyStays
<1>14. CASE Done
  <2>1. UNCHANGED <<verdict, applied, wedged, log>> /\ leased.pc = "done"
    BY <1>14 DEF Done, At, Others
  <2>2. leased'.pc = (IF verdict = "none" THEN "idle" ELSE "terminal")
    BY <1>3, <1>14 DEF Done, Leased
  <2> QED BY <1>2, <1>3, <2>1, <2>2, SteadyStays
<1>15. CASE Terminal
  <2>1. UNCHANGED <<verdict, log>> /\ leased.pc = "terminal" /\ Project
    BY <1>15 DEF Terminal, At
  <2>2. applied' = Len(log) /\ wedged' = FALSE
    BY <1>3, <2>1, SteadyProjects
  <2>3. Status[applied'] = LeaseTip
    BY <2>2 DEF LeaseTip
  <2>4. IF verdict = "completed" /\ LeaseTip \in {"granted"} \cup Renewable
        THEN leased'.pc = "revoke" ELSE leased'.pc = "last"
    BY <1>15, <2>2, <2>3, ElfHolds DEF Terminal, LeaseHolds
  <2>5. LeaseLive => LeaseTip \in Renewable
    BY DEF LeaseLive
  <2>6. LeaseLive \/ LeaseTip = "checkpoint_required"
    BY <1>3, <2>1 DEF LeasePhase
  <2>7. leased'.pc = "revoke" => LeaseLive
    BY <2>4, <2>6, LeaseKinds
  <2> QED BY <1>2, <2>1, <2>2, <2>4, <2>5, <2>7, SteadyStays
<1>16. CASE Last
  <2>1. UNCHANGED <<verdict, log>> /\ leased.pc = "last" /\ Project
    BY <1>16 DEF Last, At
  <2>2. applied' = Len(log) /\ wedged' = FALSE
    BY <1>3, <2>1, SteadyProjects
  <2>3. leased'.pc = "ended"
    BY <1>16, ElfHolds DEF Last, LeaseHolds
  <2>4. verdict = "completed" => ~LeaseLive
    BY <1>3, <2>1 DEF LeasePhase
  <2> QED BY <1>2, <2>1, <2>2, <2>3, <2>4, SteadyStays
<1>17. CASE ElfReplaced
  BY <1>1, <1>17 DEF ElfReplaced
<1>18. CASE OtherProjects
  <2>1. UNCHANGED <<leased, verdict, log>> /\ Project
    BY <1>18 DEF OtherProjects
  <2> QED BY <1>2, <1>3, <2>1, SteadyProjects, SteadyWaits
<1>19. CASE DeadlinePasses
  <2>1. UNCHANGED <<leased, verdict, log, applied, wedged>>
    BY <1>19 DEF DeadlinePasses
  <2> QED BY <1>2, <1>3, <2>1, SteadyWaits
<1>20. CASE \E kind \in AccountKinds \ {"none"} : LeaseAccount(kind)
  <2>1. PICK kind \in AccountKinds \ {"none"} : LeaseAccount(kind)
    BY <1>20
  <2>2. PICK level \in BOOLEAN :
          leased' = [leased EXCEPT !.pc = AfterBounds(kind), !.kind = kind, !.loaded = TRUE,
                       !.level = level, !.latch = level,
                       !.effect = (leased.loaded /\ kind = "spend") /\ level /\ ~leased.latch,
                       !.spent = leased.loaded /\ kind = "spend",
                       !.unjudged = leased.unjudged \/ (leased.loaded /\ kind = "spend")]
    BY <2>1, Zenon DEF LeaseAccount
  <2>3. leased'.pc \in {"quota", "due"}
    BY <1>3, <2>2 DEF AfterBounds, Leased
  <2>4. UNCHANGED <<applied, wedged, log>> /\ verdict = "none" /\ leased.pc = "idle"
    BY <2>1 DEF LeaseAccount, At
  <2> QED BY <1>2, <1>3, <2>3, <2>4, SteadyStays
<1> QED BY <1>7, <1>8, <1>9, <1>10, <1>11, <1>12, <1>13, <1>14, <1>15, <1>16, <1>17, <1>18, <1>19,
           <1>20 DEF LeaseNext, Elf

-----------------------------------------------------------------------------
(* Theorems                                                                *)

\* What holds of every run: types and the turn, what the log holds, its epochs when
\* no reading is repeated, and, of a steady run, that nothing illegal is appended.
LeaseInv == LeaseTyped /\ RowLegal /\ LeaseTurn /\ LeaseLog /\ NoMidTurnExpiry
            /\ (~Reuse => LeaseEpochs) /\ LeaseSteadyInv

\* The lease as it is granted.
LEMMA LeaseInvInit == ASSUME LeaseInit PROVE LeaseInv
<1>1. /\ LeaseTyped /\ RowLegal /\ LeaseTip = "active"
      /\ Len(log) = 3 /\ log[1] = [act |-> "propose", key |-> 0]
      /\ log[2] = [act |-> "grant", key |-> 0] /\ log[3] = [act |-> "activate", key |-> 0]
  BY LeaseInitially
<1>2. /\ applied = 3 /\ wedged = FALSE /\ leased.pc = "idle" /\ leased.kind = "none"
      /\ verdict = "none" /\ reading = 0 /\ epochs = 0
  BY DEF LeaseInit, Fresh
<1>3. LeaseTurn
  BY <1>2 DEF LeaseTurn, Closing, Judging
<1>4. \A i \in 1..Len(log) : i = 1 \/ i = 2 \/ i = 3
  BY <1>1
<1>5. \A i \in 1..Len(log) : log[i].key = 0 /\ log[i].act \in {"propose", "grant", "activate"}
  BY <1>1, <1>4
<1>6. LeaseLog
  BY <1>1, <1>2, <1>4, <1>5 DEF LeaseLog, LeaseAllowed
<1>7. \A a, k : InLog(a, k) => a \in {"propose", "grant", "activate"}
  BY <1>5 DEF InLog
<1>8. NoMidTurnExpiry
  BY <1>7 DEF NoMidTurnExpiry
<1>9. LeaseEpochs
  <2>1. LeaseRenews = {}
    BY <1>5 DEF LeaseRenews
  <2> QED BY <1>2, <2>1, FS_EmptySet DEF LeaseEpochs, Judging
<1>10. LeaseIsSteady
  <2>1. LeaseProjects
    <3>1. Status[0] = "proposed"
      BY StatusUnfolds
    <3>2. Status[1] = LeaseTarget(Status[0], log[1].act)
      BY StatusUnfolds, 1 \in Nat, 1 # 0, 1 - 1 = 0
    <3>3. Status[2] = LeaseTarget(Status[1], log[2].act)
      BY StatusUnfolds, 2 \in Nat, 2 # 0, 2 - 1 = 1
    <3>4. Status[1] = "proposed"
      BY <1>1, <3>1, <3>2 DEF LeaseTarget
    <3>5. Status[2] = "granted"
      BY <1>1, <3>3, <3>4 DEF LeaseTarget
    <3>6. Status[3] = "active"
      BY <1>1 DEF LeaseTip
    <3> QED BY <1>4, <3>4, <3>5, <3>6 DEF LeaseProjects
  <2>2. LeaseLive
    BY <1>1, <1>7, LeaseKinds DEF LeaseLive, LeaseDead
  <2>3. LeasePhase
    BY <1>2, <2>2 DEF LeasePhase
  <2>4. LeaseMarks
    BY <1>1, <1>2, <1>7 DEF LeaseMarks
  <2> QED BY <1>2, <2>1, <2>3, <2>4 DEF LeaseIsSteady
<1> QED BY <1>1, <1>3, <1>6, <1>8, <1>9, <1>10 DEF LeaseInv, LeaseSteadyInv

\* Every step, and standing still, keep the lease what it is.
LEMMA LeaseInvStep == ASSUME LeaseInv, [LeaseNext]_leaseVars PROVE LeaseInv'
<1>1. CASE LeaseNext
  BY <1>1, LeaseTypedStep, LeaseTurnStep, LeaseLogStep, ExpiryStep, EpochsStep, SteadyStep
     DEF LeaseInv
<1>2. CASE UNCHANGED leaseVars
  <2>1. UNCHANGED <<log, applied, wedged, leased, deadline, dueOnce, verdict, reading, epochs, faults>>
    BY <1>2 DEF leaseVars
  <2>2. (\A a, k : InLog(a, k)' <=> InLog(a, k)) /\ LeaseTip' = LeaseTip
        /\ (\A n \in 0..Len(log) : Status'[n] = Status[n])
    BY <2>1, LeaseStays DEF LeaseInv
  <2>3. LeaseTyped'
    BY <2>1 DEF LeaseInv, LeaseTyped, Keys, AccountKinds, Acts, Leased, LeasePcs,
       LeaseStatuses
  <2>4. RowLegal'
    <3>1. applied \in 0..Len(log)
      BY DEF LeaseInv, LeaseTyped
    <3> QED BY <2>1, <2>2, <3>1 DEF LeaseInv, RowLegal, Row, LeaseStatuses
  <2>5. LeaseTurn'
    BY <2>1 DEF LeaseInv, LeaseTurn, Renewable, ByGrant
  <2>6. LeaseLog'
    BY <2>1 DEF LeaseInv, LeaseLog, LeaseAllowed
  <2>7. NoMidTurnExpiry'
    BY <2>1, <2>2 DEF LeaseInv, NoMidTurnExpiry, Keys
  <2>8. (~Reuse => LeaseEpochs)'
    <3>1. LeaseRenews' = LeaseRenews
      BY <2>1 DEF LeaseRenews
    <3> QED BY <2>1, <2>2, <3>1 DEF LeaseInv, LeaseEpochs, Keys
  <2>9. LeaseSteadyInv'
    <3>1. LeaseSteady' => LeaseSteady
      BY <2>1 DEF LeaseSteady, Happened
    <3>2. LeaseIsSteady => LeaseIsSteady'
      <4>1. LeaseIsSteady => wedged' = FALSE
        BY <2>1 DEF LeaseIsSteady
      <4> QED BY <2>1, <4>1, SteadyWaits DEF LeaseInv
    <3> QED BY <3>1, <3>2 DEF LeaseInv, LeaseSteadyInv
  <2> QED BY <2>3, <2>4, <2>5, <2>6, <2>7, <2>8, <2>9 DEF LeaseInv
<1> QED BY <1>1, <1>2

\* What the invariant says of the properties of the model.
LEMMA LeaseInvMeans ==
  ASSUME LeaseInv
  PROVE  /\ SteadyLeaseProjects /\ LeaseTypeOK /\ CompletedRetiresLease
         /\ NoMidTurnExpiry
         /\ ~Reuse => EpochsAreDurable
<1>1. LeaseTyped /\ RowLegal /\ LeaseLog /\ NoMidTurnExpiry /\ (~Reuse => LeaseEpochs)
      /\ LeaseSteadyInv
  BY DEF LeaseInv
<1>2. SteadyLeaseProjects
  BY <1>1 DEF SteadyLeaseProjects, LeaseSteadyInv, LeaseSteady, LeaseIsSteady
<1>3. CompletedRetiresLease
  <2> SUFFICES ASSUME leased.pc = "ended", verdict = "completed", faults = <<>>
               PROVE  LeaseTip = "checkpoint_required"
    BY DEF CompletedRetiresLease, Ended, LeaseTip
  <2>1. LeaseSteady
    BY DEF LeaseSteady, Happened
  <2> QED BY <1>1, <2>1 DEF LeaseSteadyInv, LeaseIsSteady, LeasePhase
<1>4. LeaseTypeOK
  <2>1. Len(log) <= 7 + 4 * MaxReadings
    BY <1>1, LogIsBounded
  <2>2. log \in Seq(LeaseEntry) /\ applied \in 3..Len(log) /\ leased \in Leased
        /\ MaxReadings \in Nat
    BY <1>1 DEF LeaseTyped, LeaseEntry
  <2>3. Len(log) \in 3..(7 + 4 * MaxReadings)
    BY <2>1, <2>2
  <2>4. \A i \in 1..Len(log) : log[i] \in [act : Acts, key : Keys]
    <3>1. \A i \in 1..Len(log) : log[i] \in LeaseEntry
      BY <2>2
    <3> QED BY <3>1 DEF LeaseEntry
  <2>5. \A i, j \in 1..Len(log) : log[i] = log[j] => i = j
    BY <1>1 DEF LeaseLog
  <2>6. leased.row \in LeaseStatuses \cup {"none"} /\ leased.kind \in AccountKinds
    BY <2>2 DEF Leased
  <2>7. /\ reading \in 0..MaxReadings /\ epochs \in Nat /\ faults \in Seq(Faults)
        /\ verdict \in AccountKinds /\ {wedged, deadline, dueOnce} \subseteq BOOLEAN
    BY <1>1 DEF LeaseTyped, Keys
  <2>8. Row \in LeaseStatuses
    BY <1>1 DEF RowLegal
  <2> QED BY <2>2, <2>3, <2>4, <2>5, <2>6, <2>7, <2>8 DEF LeaseTypeOK
<1>5. ~Reuse => EpochsAreDurable
  <2>1. \A S : Cardinality(S) = Cardinality(S)
    BY DEF Cardinality, Cardinality
  <2> HIDE DEF LeaseRenews
  <2>2. EpochsAreDurable <=> epochs <= Cardinality(LeaseRenews)
    BY DEF LeaseRenews, EpochsAreDurable
  <2> QED BY <1>1, <2>1, <2>2 DEF LeaseEpochs
<1> QED BY <1>1, <1>2, <1>3, <1>4, <1>5

\* SteadyLeaseProjects of every run: whatever row the Elf of a steady run reads
\* behind its own appends, the lifecycle table takes what it appends; whatever the
\* probes return, how often they fail and who projects in between.
THEOREM SteadyLease ==
  LeaseSpec => []SteadyLeaseProjects
<1>1. LeaseInit => LeaseInv
  BY LeaseInvInit
<1>2. LeaseInv /\ [LeaseNext]_leaseVars => LeaseInv'
  BY LeaseInvStep
<1>3. LeaseInv => SteadyLeaseProjects
  BY LeaseInvMeans
<1> QED BY <1>1, <1>2, <1>3, PTL DEF LeaseSpec

\* LeaseIsKept, of a run whose probes return new readings: the log of its lease
\* holds nothing twice and is as long as it may be, its epochs are durable, no lease
\* expires before its turn's outcome, and a completed run retires its lease.
THEOREM LeaseKept ==
  ASSUME ~Reuse
  PROVE  LeaseSpec => []LeaseIsKept
<1>1. LeaseInit => LeaseInv
  BY LeaseInvInit
<1>2. LeaseInv /\ [LeaseNext]_leaseVars => LeaseInv'
  BY LeaseInvStep
<1>3. LeaseInv => LeaseIsKept
  BY LeaseInvMeans DEF LeaseIsKept
<1> QED BY <1>1, <1>2, <1>3, PTL DEF LeaseSpec

\* Of any run, whether or not a probe returns the reading of before: everything in
\* LeaseIsKept but the durability of the epochs, which a repeated reading breaks.
THEOREM LeaseKeptAnyway ==
  LeaseSpec => [](LeaseTypeOK /\ CompletedRetiresLease /\ NoMidTurnExpiry)
<1>1. LeaseInit => LeaseInv
  BY LeaseInvInit
<1>2. LeaseInv /\ [LeaseNext]_leaseVars => LeaseInv'
  BY LeaseInvStep
<1>3. LeaseInv => LeaseTypeOK /\ CompletedRetiresLease /\ NoMidTurnExpiry
  BY LeaseInvMeans
<1> QED BY <1>1, <1>2, <1>3, PTL DEF LeaseSpec
=============================================================================
