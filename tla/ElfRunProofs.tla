---------------------------- MODULE ElfRunProofs ----------------------------
(***************************************************************************)
(* Machine-checked proofs about a supervised run, for any number of starts,*)
(* groups and faults: its known groups are one, its terminal event tells   *)
(* the truth, so do the answers to a cancellation, and its log projects.   *)
(***************************************************************************)
EXTENDS ElfRun, FiniteSetTheorems, TLAPS

\* Events on record, and terminal ones among them.
Logged == {log[i] : i \in 1..Len(log)}
Ended  == Logged \cap Terminals
Judged == evidence \cap Verdicts

\* Groups that exist or existed, and groups that live.
Born    == {g \in Groups : group[g] # "unborn"}
Living  == {g \in Groups : Alive(g)}

ElfStates == [pc : {"none", "check", "starting", "spawn", "record", "stream", "orphan",
                    "kill", "commit", "append", "lingering"},
              own : Groups \cup {0}, handle : {"none", "port", "pgid"},
              verdict : Verdicts \cup {"none"}, ended : BOOLEAN,
              exit : {"unknown", "zero", "nonzero"}, pend : Terminals \cup {"none"}]

RunTyped ==
  /\ log \in Seq(Events) /\ recorded \in Groups \cup {0}
  /\ evidence \subseteq Verdicts \cup {"progress"}
ElfTyped == elf \in ElfStates
GroupTyped == group \in [Groups -> {"unborn", "running", "stragglers", "dead"}]
StepsTyped ==
  /\ cpc \in {"idle", "call", "waiting", "without", "terminate", "cancelling",
              "cancelled", "readback", "done"}
  /\ rpc \in {"idle", "scan", "look", "probe", "adopt", "record"}
  /\ rclass \in Terminals \cup {"none"}
  /\ rpc = "record" => rclass # "none"
PendTyped == elf.pc \in {"kill", "commit", "append"} => elf.pend # "none"
CountersTyped == starts \in Nat /\ faults \in [Faults -> Nat]

Typed == RunTyped /\ ElfTyped /\ GroupTyped /\ StepsTyped /\ PendTyped /\ CountersTyped

-----------------------------------------------------------------------------
(* The log                                                                 *)

\* What is on record are events.
LEMMA LoggedEvents == ASSUME log \in Seq(Events) PROVE Logged \subseteq Events
  BY DEF Logged

\* A set of events has one on record if it meets the record.
LEMMA InLogMeets == ASSUME NEW es PROVE InLog(es) <=> Logged \cap es # {}
  BY DEF InLog, Logged

\* An append adds its event to the record unless its key has one.
LEMMA PutAdds ==
  ASSUME log \in Seq(Events), NEW e \in Events, Put(e)
  PROVE  /\ log' \in Seq(Events)
         /\ Logged' = IF Logged \cap Keyed(e) # {} THEN Logged ELSE Logged \cup {e}
  <1>1. CASE InLog(Keyed(e))
    BY <1>1, InLogMeets DEF Put, Logged
  <1>2. CASE ~InLog(Keyed(e))
    <2>1. log' = Append(log, e)
      BY <1>2 DEF Put
    <2>2. log' \in Seq(Events) /\ Len(log') = Len(log) + 1 /\ Len(log) \in Nat
      BY <2>1
    <2>3. \A i \in 1..Len(log) : log'[i] = log[i]
      BY <2>1
    <2>4. log'[Len(log) + 1] = e
      BY <2>1
    <2>5. Logged' = Logged \cup {e}
      BY <2>2, <2>3, <2>4 DEF Logged
    <2> QED BY <1>2, <2>2, <2>5, InLogMeets
  <1> QED BY <1>1, <1>2

\* There is no terminal if none is on record, and otherwise it is one of those.
LEMMA TerminalEnded ==
  /\ Terminal = "none" <=> Ended = {}
  /\ Ended # {} => Terminal \in Ended
  <1>1. ASSUME NEW e \in Terminals PROVE InLog({e}) <=> e \in Ended
    BY InLogMeets DEF Ended
  <1>2. InLog(Terminals) <=> Ended # {}
    BY InLogMeets DEF Ended
  <1>3. Ended # {} => \E e \in Terminals : InLog({e})
    BY <1>1 DEF Ended
  <1>4. "none" \notin Terminals
    BY DEF Terminals, Verdicts
  <1>5. CASE Ended = {}
    BY <1>2, <1>5 DEF Terminal
  <1>6. CASE Ended # {}
    <2>1. Terminal = CHOOSE e \in Terminals : InLog({e})
      BY <1>2, <1>6 DEF Terminal
    <2>2. Terminal \in Terminals /\ InLog({Terminal})
      BY <2>1, <1>3, <1>6
    <2> QED BY <2>2, <1>1, <1>4, <1>6
  <1> QED BY <1>5, <1>6

\* The same of the verdict on record.
LEMMA VerdictJudged ==
  /\ RecordedVerdict = "none" <=> Judged = {}
  /\ Judged # {} => RecordedVerdict \in Judged
  BY DEF RecordedVerdict, Judged, Verdicts

\* A run whose latest event is run.running has that event on record.
LEMMA LatestLogged == ASSUME log \in Seq(Events), Latest = "running" PROVE "running" \in Logged
  <1>1. log # <<>>
    BY DEF Latest
  <1>2. Len(log) \in 1..Len(log) /\ log[Len(log)] = "running"
    BY <1>1 DEF Latest
  <1> QED BY <1>2 DEF Logged

\* A fault is counted.
LEMMA FaultCounts ==
  ASSUME CountersTyped, NEW kind, Fault(kind)
  PROVE  /\ kind \in Faults /\ faults' \in [Faults -> Nat] /\ faults'[kind] # 0
         /\ \A k \in Faults : faults[k] # 0 => faults'[k] # 0
  BY DEF CountersTyped, Fault

-----------------------------------------------------------------------------
(* Types                                                                   *)

\* Every appended event is one.
LEMMA AppendedTyped ==
  ASSUME log \in Seq(Events), NEW e \in Events, Appends(e) \/ AppendFails
  PROVE  log' \in Seq(Events)
  BY PutAdds DEF Appends, AppendFails

\* Killing groups leaves groups.
LEMMA KillTyped ==
  ASSUME GroupTyped, NEW g, KillGroup(g) \/ TerminateRunner(g)
  PROVE  GroupTyped'
  BY DEF GroupTyped, KillGroup, TerminateRunner, Alive

\* A step counts a fault, a start, or nothing.
LEMMA CounterMoves ==
  ASSUME Next
  PROVE  \/ (\E kind \in Faults : Fault(kind)) /\ UNCHANGED starts
         \/ UNCHANGED faults /\ starts' \in {starts, starts + 1}
  BY DEF Next, StartElf, Elf, IngestEvent, Overflow, StreamEnds, ElfRaises, ElfKilled, CancelRun,
         Caller, CallTimesOut, ReconcileNow, Reconcile, Crash, Restart, LeaderExits, GroupDies,
         Check, RecordStarting, Spawn, RecordRunning, OsExit, OrphanGone, TakeCancel, KillOwned,
         CommitDuplicate, CommitFirst, AppendTerminal, LingeringCancel, CallElf, WithoutElf,
         TerminateRecorded, AppendCancelled, ReadBack, Scan, Look, Probe, Adopt, RecordExit,
         Appends, AppendFails, Fault

\* Counters only grow.
LEMMA CountersKeep ==
  ASSUME CountersTyped, Next
  PROVE  CountersTyped'
  BY CounterMoves, FaultCounts DEF CountersTyped

\* A run that is plain after a step was plain before, and neither an append
\* failed in that step nor did the Elf raise.
LEMMA PlainMoves ==
  ASSUME CountersTyped, Next, Plain'
  PROVE  /\ Plain /\ ~Fault("append") /\ ~Fault("raise")
         /\ starts' # starts => starts = 0
  <1>1. CASE (\E kind \in Faults : Fault(kind)) /\ UNCHANGED starts
    <2>1. PICK kind \in Faults : Fault(kind)
      BY <1>1
    <2>2. /\ faults' \in [Faults -> Nat] /\ faults'[kind] # 0
          /\ \A k \in Faults : faults[k] # 0 => faults'[k] # 0
      BY <2>1, FaultCounts
    <2>3. Plain
      BY <1>1, <2>2 DEF Plain, CountersTyped
    <2> QED BY <1>1, <2>3, FaultCounts DEF Plain
  <1>2. CASE UNCHANGED faults /\ starts' \in {starts, starts + 1}
    <2>1. \A k \in {"append", "raise"} : ~Fault(k)
      BY <1>2, FaultCounts DEF Plain
    <2> QED BY <1>2, <2>1 DEF Plain, CountersTyped
  <1> QED BY <1>1, <1>2, CounterMoves

-----------------------------------------------------------------------------
(* What becomes of the Elf                                                 *)

\* Only these fields of the Elf matter below.
Same == elf'.own = elf.own /\ elf'.verdict = elf.verdict /\ elf'.pend = elf.pend

\* The class of an exit is a verdict; it is the adapter's when there is one.
LEMMA ClassIsVerdict ==
  ASSUME NEW v \in Verdicts \cup {"none"}, NEW x
  PROVE  /\ Classify(v, x) \in Verdicts
         /\ v # "none" => Classify(v, x) = v
         /\ Classify(v, x) = "completed" => v = "completed" \/ "progress" \in evidence
  BY DEF Classify, Verdicts

\* An Elf that goes away leaves the state of no Elf.
LEMMA GoneMoves ==
  ASSUME elf' = NoElf
  PROVE  /\ ElfTyped' /\ elf'.pc = "none" /\ elf'.own = 0
         /\ elf'.verdict = "none" /\ elf'.pend = "none"
  BY DEF ElfTyped, ElfStates, NoElf

\* An Elf starts without a group, or with the recorded one.
LEMMA StartMoves ==
  ASSUME NEW g \in Groups \cup {0}, elf' = [NoElf EXCEPT !.pc = "check", !.own = g]
  PROVE  /\ ElfTyped' /\ elf'.pc = "check" /\ elf'.own = g
         /\ elf'.verdict = "none" /\ elf'.pend = "none"
  BY DEF ElfTyped, ElfStates, NoElf

\* Started directly it has no group.
LEMMA StartElfMoves ==
  ASSUME elf' = [NoElf EXCEPT !.pc = "check"]
  PROVE  /\ ElfTyped' /\ elf'.pc = "check" /\ elf'.own = 0
         /\ elf'.verdict = "none" /\ elf'.pend = "none"
  BY DEF ElfTyped, ElfStates, NoElf

\* After its check it launches, or supervises the group it adopted.
LEMMA BecomeMoves ==
  ASSUME ElfTyped, NEW pc \in {"orphan", "starting"}, NEW g \in Groups \cup {0},
         NEW handle \in {"none", "pgid"}, Become(pc, g, handle)
  PROVE  /\ ElfTyped' /\ elf'.pc = pc /\ elf'.own = g
         /\ elf'.verdict = RecordedVerdict /\ elf'.pend = elf.pend
  <1>1. RecordedVerdict \in Verdicts \cup {"none"}
    BY VerdictJudged DEF Judged
  <1>2. elf' = [elf EXCEPT !.pc = pc, !.own = g, !.handle = handle, !.verdict = RecordedVerdict]
    BY DEF Become
  <1> HIDE DEF RecordedVerdict
  <1> QED BY <1>1, <1>2 DEF ElfTyped, ElfStates

\* It goes on to a step of its own and changes nothing else.
LEMMA StepMoves ==
  ASSUME ElfTyped, NEW pc \in {"spawn", "stream", "commit", "append", "lingering"},
         elf' = [elf EXCEPT !.pc = pc]
  PROVE  ElfTyped' /\ elf'.pc = pc /\ Same
  BY DEF ElfTyped, ElfStates, Same

\* It kills what it owns before it commits the class.
LEMMA KillMoves ==
  ASSUME ElfTyped, NEW class \in Terminals, KillThen(class)
  PROVE  /\ ElfTyped' /\ elf'.pc = "kill" /\ elf'.pend = class
         /\ elf'.own = elf.own /\ elf'.verdict = elf.verdict
  BY DEF ElfTyped, ElfStates, KillThen

\* A launch that is aborted does so with a failure.
LEMMA AbortMoves ==
  ASSUME ElfTyped, Abort
  PROVE  /\ ElfTyped' /\ elf'.pc = "kill" /\ elf'.pend = "failed"
         /\ elf'.own = elf.own /\ elf'.verdict = elf.verdict
  BY DEF ElfTyped, ElfStates, Abort, Terminals, Verdicts

\* Spawning gives it a group.
LEMMA SpawnMoves ==
  ASSUME ElfTyped, NEW g \in Groups,
         elf' = [elf EXCEPT !.pc = "record", !.own = g,
                            !.handle = IF Owner = "runner" THEN "port" ELSE "pgid"]
  PROVE  /\ ElfTyped' /\ elf'.pc = "record" /\ elf'.own = g
         /\ elf'.verdict = elf.verdict /\ elf'.pend = elf.pend
  BY DEF ElfTyped, ElfStates

\* A stream that ends is killed, awaited, or committed.
LEMMA EndMoves ==
  ASSUME ElfTyped, StreamEnds
  PROVE  /\ ElfTyped' /\ elf'.own = elf.own /\ elf'.verdict = elf.verdict
         /\ \/ elf'.pc = "stream" /\ elf'.pend = elf.pend
            \/ elf'.pc = "kill" /\ elf.verdict # "none" /\ elf'.pend = elf.verdict
            \/ elf'.pc = "commit" /\ elf'.pend = Classify("none", elf.exit)
  <1>1. Classify("none", elf.exit) \in Terminals
    BY ClassIsVerdict DEF Terminals
  <1>2. elf.pc = "stream"
    BY DEF StreamEnds
  <1>3. CASE elf' = elf
    BY <1>2, <1>3 DEF ElfTyped
  <1>4. CASE elf' = [elf EXCEPT !.ended = TRUE]
    BY <1>2, <1>4 DEF ElfTyped, ElfStates
  <1>5. CASE elf.verdict # "none" /\ elf' = [elf EXCEPT !.pc = "kill", !.pend = elf.verdict]
    BY <1>5 DEF ElfTyped, ElfStates, Terminals
  <1>6. CASE elf' = [elf EXCEPT !.pc = "commit", !.pend = Classify("none", elf.exit)]
    <2> HIDE DEF Classify
    <2> QED BY <1>1, <1>6 DEF ElfTyped, ElfStates
  <1> QED BY <1>3, <1>4, <1>5, <1>6 DEF StreamEnds

\* An exit is noted, or committed.
LEMMA ExitMoves ==
  ASSUME ElfTyped, OsExit
  PROVE  /\ ElfTyped' /\ elf'.own = 0 /\ elf'.verdict = elf.verdict
         /\ \/ elf'.pc = "stream" /\ elf'.pend = elf.pend
            \/ elf'.pc = "commit" /\ \E x : elf'.pend = Classify(elf.verdict, x)
  <1>1. PICK status \in {"zero", "nonzero"} :
          LET e == [elf EXCEPT !.exit = status, !.handle = "none", !.own = 0]
          IN IF elf.verdict # "none" \/ elf.ended
             THEN CommitNow(Classify(elf.verdict, status), e)
             ELSE elf' = e
    BY DEF OsExit
  <1> DEFINE e == [elf EXCEPT !.exit = status, !.handle = "none", !.own = 0]
             class == Classify(elf.verdict, status)
  <1>2. e \in ElfStates /\ e.own = 0 /\ e.verdict = elf.verdict /\ e.pend = elf.pend
        /\ e.pc = "stream"
    BY DEF ElfTyped, ElfStates, OsExit
  <1>3. CASE elf' = e
    BY <1>2, <1>3 DEF ElfTyped
  <1>4. CASE CommitNow(class, e)
    <2>1. elf.verdict \in Verdicts \cup {"none"}
      BY DEF ElfTyped, ElfStates
    <2>2. class \in Terminals
      BY <2>1, ClassIsVerdict DEF Terminals
    <2>3. elf' = [e EXCEPT !.pc = "commit", !.pend = class]
      BY <1>4 DEF CommitNow
    <2>4. class = Classify(elf.verdict, status)
      OBVIOUS
    <2> HIDE DEF e, class
    <2> QED BY <1>2, <2>2, <2>3, <2>4 DEF ElfTyped, ElfStates
  <1> QED BY <1>1, <1>3, <1>4

\* Every step keeps the state of the Elf one, with what it is going to commit.
LEMMA ElfKeeps ==
  ASSUME ElfTyped, PendTyped, recorded \in Groups \cup {0}, Next
  PROVE  ElfTyped' /\ PendTyped'
  <1> DEFINE Goal == ElfTyped' /\ PendTyped'
  <1> SUFFICES Goal OBVIOUS
  <1>1. ASSUME UNCHANGED elf PROVE Goal
    BY <1>1 DEF ElfTyped, PendTyped
  <1>2. ASSUME elf' = NoElf PROVE Goal
    BY <1>2, GoneMoves DEF PendTyped
  <1>3. ASSUME NEW class \in Terminals, KillThen(class) PROVE Goal
    <2>1. class # "none"
      BY DEF Terminals, Verdicts
    <2> QED BY <1>3, <2>1, KillMoves DEF PendTyped
  <1>4. ASSUME Abort PROVE Goal
    BY <1>4, AbortMoves DEF PendTyped
  <1>5. elf.verdict \in Verdicts \cup {"none"} /\ elf.own \in Groups \cup {0}
    BY DEF ElfTyped, ElfStates
  <1>6. \A v \in Verdicts \cup {"none"} : \A x : Classify(v, x) \in Verdicts
    BY ClassIsVerdict
  <1>7. Verdicts \subseteq Terminals /\ "none" \notin Terminals /\ {"failed", "cancelled"} \subseteq Terminals
    BY DEF Terminals, Verdicts
  <1> HIDE DEF Goal
  <1>8. CASE StartElf \/ Adopt
    <2>1. CASE elf' = elf
      BY <1>1, <2>1
    <2>2. CASE elf' = [NoElf EXCEPT !.pc = "check"]
      BY <2>2, StartElfMoves DEF PendTyped, Goal
    <2>3. CASE elf' = [NoElf EXCEPT !.pc = "check", !.own = recorded]
      BY <2>3, StartMoves DEF PendTyped, Goal
    <2> QED BY <1>8, <2>1, <2>2, <2>3 DEF StartElf, Adopt
  <1>9. CASE Check
    <2>1. CASE ElfIsGone
      BY <1>2, <2>1 DEF ElfIsGone
    <2>2. ASSUME NEW g \in Groups \cup {0}, Become("orphan", g, "pgid") \/ Become("starting", 0, "none")
          PROVE  Goal
      BY <2>2, BecomeMoves DEF PendTyped, Goal
    <2> QED BY <1>5, <1>9, <2>1, <2>2 DEF Check
  <1>10. CASE RecordStarting \/ RecordRunning \/ Spawn
    <2>1. CASE Abort
      BY <1>4, <2>1
    <2>2. ASSUME NEW pc \in {"spawn", "stream"}, elf' = [elf EXCEPT !.pc = pc] PROVE Goal
      BY <2>2, StepMoves DEF PendTyped, Goal
    <2>3. ASSUME NEW g \in Groups,
                 elf' = [elf EXCEPT !.pc = "record", !.own = g,
                                    !.handle = IF Owner = "runner" THEN "port" ELSE "pgid"]
          PROVE  Goal
      BY <2>3, SpawnMoves DEF PendTyped, Goal
    <2> QED BY <1>10, <2>1, <2>2, <2>3 DEF RecordStarting, RecordRunning, Spawn
  <1>11. CASE IngestEvent \/ Overflow \/ OrphanGone \/ TakeCancel
    <2>1. CASE elf' = [elf EXCEPT !.pc = "stream"]
      BY <2>1, StepMoves DEF PendTyped, Goal
    <2> QED BY <1>1, <1>3, <1>5, <1>6, <1>7, <1>11, <2>1
            DEF IngestEvent, Overflow, OrphanGone, TakeCancel
  <1>12. CASE StreamEnds
    BY <1>5, <1>6, <1>7, <1>12, EndMoves DEF PendTyped, Goal
  <1>13. CASE OsExit
    BY <1>5, <1>6, <1>7, <1>13, ExitMoves DEF PendTyped, Goal
  <1>14. CASE KillOwned \/ CommitDuplicate \/ CommitFirst
    <2>1. PICK pc \in {"commit", "append", "lingering"} : elf' = [elf EXCEPT !.pc = pc]
      BY <1>14 DEF KillOwned, CommitDuplicate, CommitFirst
    <2>2. elf.pc \in {"kill", "commit"}
      BY <1>14 DEF KillOwned, CommitDuplicate, CommitFirst
    <2> QED BY <2>1, <2>2, StepMoves DEF PendTyped, Goal, Same
  <1>15. CASE AppendTerminal \/ ElfRaises \/ ElfKilled \/ Crash
    BY <1>2, <1>15 DEF AppendTerminal, ElfRaises, ElfKilled, Crash, ElfIsGone
  <1>16. CASE LingeringCancel \/ CancelRun \/ Caller \/ CallTimesOut \/ ReconcileNow \/ Scan \/ Look
              \/ Probe \/ RecordExit \/ Restart \/ \E g \in Groups : LeaderExits(g) \/ GroupDies(g)
    BY <1>1, <1>16 DEF LingeringCancel, CancelRun, Caller, CallTimesOut, ReconcileNow, Scan, Look,
       Probe, RecordExit, Restart, LeaderExits, GroupDies, CallElf, WithoutElf, TerminateRecorded,
       AppendCancelled, ReadBack
  <1> QED BY <1>8, <1>9, <1>10, <1>11, <1>12, <1>13, <1>14, <1>15, <1>16 DEF Next, Elf, Reconcile

\* Every step keeps the log, the recorded group and the evidence of their types.
LEMMA RunKeeps ==
  ASSUME Typed, Next
  PROVE  RunTyped'
  <1> USE DEF runVars
  <1>1. \A e \in Events : Appends(e) \/ AppendFails => log' \in Seq(Events)
    BY AppendedTyped DEF Typed, RunTyped
  <1>2. {"starting", "running", "cancelling", "cancelled", "failed"} \subseteq Events
    BY DEF Events, Terminals, Verdicts
  <1>3. elf.own \in Groups \cup {0} /\ (elf.pc = "append" => elf.pend \in Events)
    BY DEF Typed, ElfTyped, ElfStates, PendTyped, Events
  <1>4. rpc = "record" => rclass \in Events
    BY DEF Typed, StepsTyped, Events
  <1>5. CASE RecordStarting \/ RecordRunning \/ TakeCancel \/ AppendCancelled
    BY <1>1, <1>2, <1>3, <1>5 DEF Typed, RunTyped, RecordStarting, RecordRunning, TakeCancel,
       AppendCancelled
  <1>6. CASE AppendTerminal \/ RecordExit
    BY <1>1, <1>3, <1>4, <1>6 DEF Typed, RunTyped, AppendTerminal, RecordExit
  <1>7. CASE ElfRaises
    BY <1>2, <1>7, PutAdds DEF Typed, RunTyped, ElfRaises
  <1>8. CASE IngestEvent
    BY <1>8 DEF Typed, RunTyped, IngestEvent
  <1>9. CASE UNCHANGED runVars
    BY <1>9 DEF Typed, RunTyped
  <1> QED BY <1>5, <1>6, <1>7, <1>8, <1>9 DEF Next, Elf, Caller, Reconcile, StartElf, Check, Spawn,
             Overflow, StreamEnds, OsExit, OrphanGone, KillOwned, CommitDuplicate, CommitFirst,
             LingeringCancel, ElfKilled, CancelRun, CallElf, CallTimesOut, WithoutElf,
             TerminateRecorded, ReadBack, ReconcileNow, Scan, Look, Probe, Adopt, Crash, Restart,
             LeaderExits, GroupDies

\* Groups are born, lose their leader and die, and come to no other state.
LEMMA GroupsKeep ==
  ASSUME GroupTyped, Next
  PROVE  GroupTyped'
  <1>1. CASE KillOwned \/ TerminateRecorded
    BY <1>1, KillTyped DEF GroupTyped, KillOwned, TerminateOwned, TerminateRecorded
  <1>2. CASE Spawn \/ \E g \in Groups : LeaderExits(g) \/ GroupDies(g)
    BY <1>2 DEF GroupTyped, Spawn, LeaderExits, GroupDies
  <1>3. CASE UNCHANGED group
    BY <1>3 DEF GroupTyped
  <1> QED BY <1>1, <1>2, <1>3 DEF Next, Elf, Caller, Reconcile, StartElf, Check, RecordStarting,
             RecordRunning, IngestEvent, Overflow, StreamEnds, OsExit, OrphanGone, TakeCancel,
             CommitDuplicate, CommitFirst, AppendTerminal, LingeringCancel, ElfRaises, ElfKilled,
             CancelRun, CallElf, CallTimesOut, WithoutElf, AppendCancelled, ReadBack, ReconcileNow,
             Scan, Look, Probe, Adopt, RecordExit, Crash, Restart

\* The caller and the reconciler go from step to step.
LEMMA StepsKeep ==
  ASSUME Typed, Next
  PROVE  StepsTyped'
  <1> USE DEF callerVars, recVars
  <1>1. ASSUME UNCHANGED recVars,
               cpc' \in {cpc, "call", "waiting", "without", "terminate", "cancelling", "cancelled",
                         "readback", "done"}
        PROVE  StepsTyped'
    BY <1>1 DEF Typed, StepsTyped
  <1>2. CASE StartElf \/ Elf \/ IngestEvent \/ Overflow \/ StreamEnds \/ ElfRaises \/ ElfKilled
             \/ \E g \in Groups : LeaderExits(g) \/ GroupDies(g)
    BY <1>1, <1>2 DEF Elf, StartElf, Check, RecordStarting, Spawn, RecordRunning, IngestEvent,
       Overflow, StreamEnds, OsExit, OrphanGone, TakeCancel, KillOwned, CommitDuplicate,
       CommitFirst, AppendTerminal, LingeringCancel, ElfRaises, ElfKilled, ElfIsGone, Abandon,
       Become, Answer, LeaderExits, GroupDies
  <1>3. CASE CancelRun \/ Caller \/ CallTimesOut
    BY <1>1, <1>3 DEF CancelRun, Caller, CallTimesOut, CallElf, WithoutElf, TerminateRecorded,
       AppendCancelled, ReadBack, Reply, CallerGo
  <1>4. CASE Probe
    <2>1. RecordedVerdict \in Verdicts \cup {"none"}
      BY VerdictJudged DEF Judged
    <2>2. Classify(RecordedVerdict, "unknown") \in Terminals /\ "none" \notin Terminals
      BY <2>1, ClassIsVerdict DEF Terminals, Verdicts
    <2> QED BY <1>4, <2>2 DEF Typed, StepsTyped, Probe, RecGo
  <1>5. CASE ReconcileNow \/ Scan \/ Look \/ Adopt \/ RecordExit \/ Crash \/ Restart
    BY <1>5 DEF Typed, StepsTyped, ReconcileNow, Scan, Look, Adopt, RecordExit, Crash, Restart, RecGo
  <1> QED BY <1>2, <1>3, <1>4, <1>5 DEF Next, Reconcile

\* The types hold at first and in every step.
LEMMA TypedInit == Init => Typed
  BY DEF Init, Typed, RunTyped, ElfTyped, ElfStates, NoElf, GroupTyped, StepsTyped, PendTyped,
         CountersTyped, Events, Terminals, Verdicts

\* Together, every step keeps the types.
LEMMA TypedKeeps ==
  ASSUME Typed, Next
  PROVE  Typed'
  BY RunKeeps, ElfKeeps, GroupsKeep, StepsKeep, CountersKeep DEF Typed, RunTyped

-----------------------------------------------------------------------------
(* The record                                                              *)

\* What an append does to the record and to the terminal event on it.
LEMMA AppendMoves ==
  ASSUME log \in Seq(Events), NEW e \in Events, Put(e) \/ UNCHANGED log
  PROVE  /\ Logged' \in {Logged, Logged \cup {e}}
         /\ e \notin Terminals => Ended' = Ended
         /\ e \in Terminals => \/ Logged' = Logged /\ Ended' = Ended
                               \/ Ended = {} /\ Ended' = {e}
         /\ e \in Terminals /\ Put(e) /\ Ended = {} => Ended' = {e}
  <1>1. CASE UNCHANGED log /\ ~Put(e)
    BY <1>1 DEF Logged, Ended
  <1>2. CASE Put(e)
    BY <1>2, PutAdds DEF Keyed, Ended
  <1> QED BY <1>1, <1>2

\* The record only grows, the recorded group is the one of the first run.running,
\* and a terminal event comes from one of four steps, when there is none.
LEMMA RecordMoves ==
  ASSUME Typed, Next
  PROVE  /\ Logged \subseteq Logged'
         /\ "running" \in Logged' \ Logged => RecordRunning
         /\ recorded' # recorded =>
              elf.pc = "record" /\ recorded' = elf.own /\ "running" \notin Logged
         /\ Logged' \subseteq Logged \cup {"cancelling", "cancelled"} \/ elf.pc # "none" \/ rpc = "record"
         /\ Ended' # Ended => /\ Ended = {}
                              /\ \/ AppendTerminal /\ Ended' = {elf.pend}
                                 \/ RecordExit /\ Ended' = {rclass}
                                 \/ ElfRaises /\ Ended' = {"failed"}
                                 \/ AppendCancelled /\ cpc = "cancelled" /\ Ended' = {"cancelled"}
  <1> USE DEF runVars
  <1>1. log \in Seq(Events) /\ {"starting", "running", "cancelling", "cancelled", "failed"} \subseteq Events
    BY DEF Typed, RunTyped, Events, Terminals, Verdicts
  <1>2. {"starting", "running", "cancelling"} \cap Terminals = {} /\ {"cancelled", "failed"} \subseteq Terminals
    BY DEF Terminals, Verdicts
  <1>3. \A e : Appends(e) \/ AppendFails => Put(e) \/ UNCHANGED log
    BY DEF Appends, AppendFails
  <1>4. CASE RecordStarting
    BY <1>1, <1>2, <1>3, <1>4, AppendMoves DEF RecordStarting
  <1>5. CASE RecordRunning
    <2>1. Logged' \in {Logged, Logged \cup {"running"}} /\ Ended' = Ended
      BY <1>1, <1>2, <1>3, <1>5, AppendMoves DEF RecordRunning
    <2>2. recorded' # recorded => recorded' = elf.own /\ "running" \notin Logged
      BY <1>5, InLogMeets DEF RecordRunning
    <2> QED BY <1>5, <2>1, <2>2 DEF RecordRunning
  <1>6. CASE TakeCancel
    BY <1>1, <1>2, <1>3, <1>6, AppendMoves DEF TakeCancel
  <1>7. CASE AppendCancelled
    BY <1>1, <1>2, <1>3, <1>7, AppendMoves DEF AppendCancelled
  <1>8. CASE AppendTerminal
    <2>1. elf.pend \in Terminals /\ elf.pend \in Events /\ elf.pend # "running"
      BY <1>8 DEF AppendTerminal, Typed, ElfTyped, ElfStates, PendTyped, Events, Terminals, Verdicts
    <2>2. Put(elf.pend) \/ UNCHANGED log
      BY <1>3, <1>8 DEF AppendTerminal
    <2> QED BY <1>1, <1>8, <2>1, <2>2, AppendMoves DEF AppendTerminal
  <1>9. CASE RecordExit
    <2>1. rclass \in Terminals /\ rclass \in Events /\ rclass # "running"
      BY <1>9 DEF RecordExit, Typed, StepsTyped, Events, Terminals, Verdicts
    <2>2. Put(rclass) \/ UNCHANGED log
      BY <1>3, <1>9 DEF RecordExit
    <2> QED BY <1>1, <1>9, <2>1, <2>2, AppendMoves DEF RecordExit
  <1>10. CASE ElfRaises
    BY <1>1, <1>2, <1>10, AppendMoves DEF ElfRaises
  <1>11. CASE UNCHANGED <<log, recorded>>
    BY <1>11 DEF Logged, Ended
  <1> QED BY <1>4, <1>5, <1>6, <1>7, <1>8, <1>9, <1>10, <1>11
          DEF Next, Elf, Caller, Reconcile, StartElf, Check, Spawn, IngestEvent,
             Overflow, StreamEnds, OsExit, OrphanGone, KillOwned, CommitDuplicate, CommitFirst,
             LingeringCancel, ElfKilled, CancelRun, CallElf, CallTimesOut, WithoutElf,
             TerminateRecorded, ReadBack, ReconcileNow, Scan, Look, Probe, Adopt, Crash, Restart,
             LeaderExits, GroupDies

-----------------------------------------------------------------------------
(* Groups                                                                  *)

\* Nothing comes to life again; a group is born for the Elf that spawns it.
LEMMA GroupMoves ==
  ASSUME Typed, Next
  PROVE  /\ Born \subseteq Born'
         /\ \/ Living' \subseteq Living
            \/ /\ elf.pc = "spawn" /\ elf'.pc = "record" /\ elf'.own \in Groups \ Born
               /\ Living' = Living \cup {elf'.own} /\ Born' = Born \cup {elf'.own}
  <1>1. CASE UNCHANGED group
    BY <1>1 DEF Born, Living, Alive
  <1>2. ASSUME NEW g, KillGroup(g) \/ TerminateRunner(g)
        PROVE  Born \subseteq Born' /\ Living' \subseteq Living
    BY <1>2 DEF Typed, GroupTyped, KillGroup, TerminateRunner, Born, Living, Alive
  <1>3. CASE KillOwned \/ TerminateRecorded
    BY <1>1, <1>2, <1>3 DEF KillOwned, TerminateOwned, TerminateRecorded
  <1>4. CASE \E g \in Groups : LeaderExits(g) \/ GroupDies(g)
    BY <1>4 DEF Typed, GroupTyped, LeaderExits, GroupDies, Born, Living, Alive
  <1>5. CASE Spawn /\ group' # group
    <2>1. PICK g \in Groups :
            /\ group[g] = "unborn" /\ group' = [group EXCEPT ![g] = "running"]
            /\ elf' = [elf EXCEPT !.pc = "record", !.own = g,
                                  !.handle = IF Owner = "runner" THEN "port" ELSE "pgid"]
      BY <1>5 DEF Spawn
    <2>2. elf'.pc = "record" /\ elf'.own = g
      BY <2>1, SpawnMoves DEF Typed
    <2>3. Born' = Born \cup {g} /\ Living' = Living \cup {g} /\ g \notin Born
      BY <2>1 DEF Typed, GroupTyped, Born, Living, Alive
    <2> QED BY <1>5, <2>2, <2>3 DEF Spawn
  <1> QED BY <1>1, <1>3, <1>4, <1>5 DEF Next, Elf, Caller, Reconcile, StartElf, Check,
             RecordStarting, RecordRunning, IngestEvent, Overflow, StreamEnds, OsExit, OrphanGone,
             TakeCancel, CommitDuplicate, CommitFirst, AppendTerminal, LingeringCancel, ElfRaises,
             ElfKilled, CancelRun, CallElf, CallTimesOut, WithoutElf, AppendCancelled, ReadBack,
             ReconcileNow, Scan, Look, Probe, Adopt, RecordExit, Crash, Restart

Launching == {"check", "starting", "spawn", "record"}

\* An Elf gets a group by adopting the recorded one or by spawning, and launches
\* only past a check that found the recorded group dead.
LEMMA OwnMoves ==
  ASSUME Typed, Next
  PROVE  \/ elf'.pc \notin Launching /\ elf'.own \in {0, elf.own}
         \/ elf' = elf /\ recorded' = recorded
         \/ elf.pc = "none" /\ elf'.pc = "check" /\ elf'.own \in {0, recorded}
         \/ elf.pc = "check" /\ elf'.pc = "orphan" /\ elf'.own \in {elf.own, recorded}
         \/ elf.pc = "check" /\ elf'.pc = "starting" /\ elf'.own = 0 /\ recorded \notin Living
         \/ elf.pc = "starting" /\ elf'.pc = "spawn" /\ elf'.own = elf.own
         \/ elf.pc = "spawn" /\ elf'.pc = "record" /\ elf'.own \in Born' \ Born
  <1> DEFINE Away == elf'.pc \notin Launching /\ elf'.own \in {0, elf.own}
  <1>0. ElfTyped /\ recorded \in Groups \cup {0} /\ elf.own \in Groups \cup {0}
        /\ elf.verdict \in Verdicts \cup {"none"}
    BY DEF Typed, RunTyped, ElfTyped, ElfStates
  <1>1. ASSUME elf' = NoElf PROVE Away
    BY <1>1, GoneMoves DEF Launching
  <1>2. ASSUME NEW class \in Terminals, KillThen(class) PROVE Away
    BY <1>0, <1>2, KillMoves DEF Launching
  <1>3. ASSUME Abort PROVE Away
    BY <1>0, <1>3, AbortMoves DEF Launching
  <1>4. ASSUME NEW pc \in {"stream", "commit", "append", "lingering"}, elf' = [elf EXCEPT !.pc = pc]
        PROVE  Away
    BY <1>0, <1>4, StepMoves DEF Launching, Same
  <1>5. \A v \in Verdicts \cup {"none"} : \A x : Classify(v, x) \in Verdicts
    BY ClassIsVerdict
  <1>6. Verdicts \subseteq Terminals /\ {"failed", "cancelled"} \subseteq Terminals
    BY DEF Terminals, Verdicts
  <1> HIDE DEF Away
  <1>7. CASE StartElf
    <2>1. CASE elf.pc = "none"
      BY <1>7, <2>1, StartElfMoves DEF StartElf
    <2>2. CASE elf.pc # "none"
      BY <1>7, <2>2 DEF StartElf, runVars
    <2> QED BY <2>1, <2>2
  <1>8. CASE Adopt
    <2>1. CASE elf.pc = "none"
      BY <1>0, <1>8, <2>1, StartMoves DEF Adopt
    <2>2. CASE elf.pc # "none"
      BY <1>8, <2>2 DEF Adopt, runVars
    <2> QED BY <2>1, <2>2
  <1>9. CASE Check
    <2> DEFINE given == IF elf.own # 0 THEN elf.own
                        ELSE IF recorded # 0 /\ Alive(recorded) THEN recorded ELSE 0
    <2>1. given \in Groups \cup {0}
      BY <1>0
    <2>2. CASE ElfIsGone
      BY <1>1, <2>2 DEF ElfIsGone, Away
    <2>3. CASE given # 0 /\ Become("orphan", given, "pgid")
      <3>1. given \in {elf.own, recorded}
        BY <2>3
      <3>2. elf'.pc = "orphan" /\ elf'.own = given
        BY <1>0, <2>1, <2>3, BecomeMoves
      <3> QED BY <1>9, <3>1, <3>2 DEF Check
    <2>4. CASE given = 0 /\ Become("starting", 0, "none")
      <3>1. recorded \notin Living
        BY <2>4 DEF Living, Groups
      <3>2. elf'.pc = "starting" /\ elf'.own = 0
        BY <1>0, <2>4, BecomeMoves
      <3> QED BY <1>9, <3>1, <3>2 DEF Check
    <2> QED BY <1>9, <2>2, <2>3, <2>4 DEF Check
  <1>10. CASE RecordStarting
    <2>1. CASE elf' = [elf EXCEPT !.pc = "spawn"]
      BY <1>0, <1>10, <2>1, StepMoves DEF RecordStarting, Same
    <2> QED BY <1>3, <1>10, <2>1 DEF RecordStarting, Away
  <1>11. CASE RecordRunning
    BY <1>3, <1>4, <1>11 DEF RecordRunning, Away
  <1>12. CASE Spawn
    <2>1. ASSUME NEW g \in Groups, group[g] = "unborn", group' = [group EXCEPT ![g] = "running"],
                 elf' = [elf EXCEPT !.pc = "record", !.own = g,
                                    !.handle = IF Owner = "runner" THEN "port" ELSE "pgid"]
          PROVE  elf'.pc = "record" /\ elf'.own \in Born' \ Born
      BY <1>0, <2>1, SpawnMoves DEF Born, Typed, GroupTyped
    <2> QED BY <1>3, <1>12, <2>1 DEF Spawn, Away
  <1>13. CASE IngestEvent \/ Overflow \/ OrphanGone \/ TakeCancel
    <2>1. Away \/ (elf' = elf /\ recorded' = recorded)
      BY <1>0, <1>2, <1>4, <1>5, <1>6, <1>13
         DEF IngestEvent, Overflow, OrphanGone, TakeCancel, runVars
    <2> QED BY <2>1 DEF Away
  <1>14. CASE StreamEnds
    BY <1>0, <1>14, EndMoves DEF Launching
  <1>15. CASE OsExit
    BY <1>0, <1>15, ExitMoves DEF Launching
  <1>16. CASE KillOwned \/ CommitDuplicate \/ CommitFirst
    BY <1>4, <1>16 DEF KillOwned, CommitDuplicate, CommitFirst, Away
  <1>17. CASE AppendTerminal \/ ElfRaises \/ ElfKilled \/ Crash
    BY <1>1, <1>17 DEF AppendTerminal, ElfRaises, ElfKilled, Crash, ElfIsGone, Away
  <1>18. CASE LingeringCancel \/ CancelRun \/ Caller \/ CallTimesOut \/ ReconcileNow \/ Scan \/ Look
              \/ Probe \/ RecordExit \/ Restart \/ \E g \in Groups : LeaderExits(g) \/ GroupDies(g)
    BY <1>18 DEF LingeringCancel, CancelRun, Caller, CallTimesOut, ReconcileNow, Scan, Look,
       Probe, RecordExit, Restart, LeaderExits, GroupDies, CallElf, WithoutElf, TerminateRecorded,
       AppendCancelled, ReadBack, runVars
  <1> QED BY <1>7, <1>8, <1>9, <1>10, <1>11, <1>12, <1>13, <1>14, <1>15, <1>16, <1>17, <1>18
          DEF Next, Elf, Reconcile

\* The recorded group and the one of the Elf have been born, they are not both
\* alive unless they are one, and an Elf about to spawn finds the recorded dead.
KnownInv ==
  /\ recorded \in Born \cup {0} /\ elf.own \in Born \cup {0}
  /\ elf.pc = "record" => elf.own # 0
  /\ elf.pc = "check" => elf.own \in {0, recorded}
  /\ elf.pc \in {"starting", "spawn", "record"} => recorded \notin Living
  /\ recorded \in Living /\ elf.own \in Living => recorded = elf.own

\* No step gives a run a second known group while the first one lives.
LEMMA KnownKeeps ==
  ASSUME Typed, KnownInv, Next
  PROVE  KnownInv'
  <1>1. Living \subseteq Born /\ 0 \notin Born /\ 0 \notin Born'
    BY DEF Living, Born, Alive, Groups
  <1>2. recorded' \in {recorded, elf.own} /\ (recorded' # recorded => elf.pc = "record" /\ recorded' = elf.own)
    BY RecordMoves
  <1>3. CASE Living' \subseteq Living
    <2>1. Born \subseteq Born'
      BY GroupMoves
    <2>2. CASE elf'.pc \notin Launching /\ elf'.own \in {0, elf.own}
      BY <1>1, <1>2, <1>3, <2>1, <2>2 DEF KnownInv, Launching
    <2>3. CASE elf' = elf /\ recorded' = recorded
      BY <1>3, <2>1, <2>3 DEF KnownInv
    <2>4. CASE elf.pc \in {"none", "check"} /\ elf'.pc \in {"check", "orphan"}
               /\ elf'.own \in {0, elf.own, recorded} /\ (elf'.pc = "check" => elf'.own \in {0, recorded})
      BY <1>1, <1>2, <1>3, <2>1, <2>4 DEF KnownInv
    <2>5. CASE elf.pc = "check" /\ elf'.pc = "starting" /\ elf'.own = 0 /\ recorded \notin Living
      BY <1>1, <1>2, <1>3, <2>1, <2>5 DEF KnownInv
    <2>6. CASE elf.pc = "starting" /\ elf'.pc = "spawn" /\ elf'.own = elf.own
      BY <1>1, <1>2, <1>3, <2>1, <2>6 DEF KnownInv
    <2>7. CASE elf.pc = "spawn" /\ elf'.pc = "record" /\ elf'.own \in Born' \ Born
      BY <1>1, <1>2, <1>3, <2>1, <2>7 DEF KnownInv
    <2> QED BY <2>2, <2>3, <2>4, <2>5, <2>6, <2>7, OwnMoves
  <1>4. CASE /\ elf.pc = "spawn" /\ elf'.pc = "record" /\ elf'.own \in Groups \ Born
             /\ Living' = Living \cup {elf'.own} /\ Born' = Born \cup {elf'.own}
    BY <1>1, <1>2, <1>4 DEF KnownInv
  <1> QED BY <1>3, <1>4, GroupMoves

\* They hold in every reachable state.
LEMMA KnownInvariance == Spec => [](Typed /\ KnownInv)
  <1>1. Init => KnownInv
    BY DEF Init, KnownInv, NoElf, Living, Born, Alive
  <1>2. Typed /\ KnownInv /\ [Next]_vars => (Typed /\ KnownInv)'
    <2>1. ASSUME Typed, KnownInv, UNCHANGED vars PROVE (Typed /\ KnownInv)'
      BY <2>1 DEF vars, runVars, callerVars, recVars, Typed, RunTyped, ElfTyped, GroupTyped,
         StepsTyped, PendTyped, CountersTyped, KnownInv, Living, Born, Alive
    <2> QED BY <2>1, TypedKeeps, KnownKeeps
  <1> QED BY <1>1, <1>2, TypedInit, PTL DEF Spec

\* A run has no second group beside one that it knows of and that lives, for any
\* number of starts, groups and faults.
THEOREM OneKnownGroup == Spec => []KnownGroupIsAlone
  <1>1. Typed /\ KnownInv => KnownGroupIsAlone
    BY DEF KnownInv, KnownGroupIsAlone, OneLiveGroup, Living
  <1> QED BY <1>1, KnownInvariance, PTL

-----------------------------------------------------------------------------
(* Verdicts and answers                                                    *)

Keeps  == elf'.verdict = elf.verdict /\ elf'.pend = elf.pend
Kills(class) == elf'.pc = "kill" /\ elf'.verdict = elf.verdict /\ elf'.pend = class

\* Where the Elf goes, with which verdict, and what it is going to commit.
Leaves  == elf'.pc = "none" /\ elf'.verdict = "none" /\ elf'.pend = "none"
Begins  == /\ elf.pc = "none" /\ elf'.pc = "check" /\ elf'.verdict = "none" /\ elf'.pend = "none"
           /\ \/ starts' = starts + 1 /\ elf'.own = 0
              \/ rpc = "adopt" /\ rpc' = "idle" /\ elf'.own = recorded
Chooses == /\ elf.pc = "check" /\ elf'.verdict = RecordedVerdict /\ elf'.pend = elf.pend
           /\ \/ elf'.pc = "orphan" /\ (elf.own # 0 \/ recorded # 0)
              \/ elf'.pc = "starting" /\ elf.own = 0 /\ Ended = {}
Launches == /\ Keeps
            /\ \/ elf.pc = "starting" /\ elf'.pc = "spawn" /\ "starting" \in Logged'
               \/ elf.pc = "spawn" /\ elf'.pc = "record"
               \/ elf.pc = "record" /\ elf'.pc = "stream" /\ "running" \in Logged'
Aborts  == /\ Kills("failed")
           /\ \/ elf.pc = "spawn"
              \/ elf.pc \in {"starting", "record"} /\ Fault("append")
Streams == /\ elf.pc = "stream" /\ elf'.verdict = elf.verdict
           /\ \/ elf'.pc = "stream" /\ elf'.pend = elf.pend
              \/ elf'.pc = "kill" /\ elf'.pend \in {"failed", "cancelled"}
              \/ elf'.pc = "kill" /\ elf.verdict # "none" /\ elf'.pend = elf.verdict
              \/ elf'.pc = "commit" /\ \E x : elf'.pend \in {Classify(elf.verdict, x), Classify("none", x)}
Orphans == /\ elf.pc = "orphan" /\ elf'.verdict = elf.verdict
           /\ \/ elf'.pc = "stream" /\ elf.verdict = "none" /\ elf'.pend = elf.pend
              \/ elf'.pc = "kill" /\ elf'.pend \in {Classify(elf.verdict, "unknown"), "cancelled"}
Commits == /\ Keeps
           /\ \/ elf.pc = "kill" /\ elf'.pc = "commit"
              \/ elf.pc = "commit" /\ elf'.pc = "append" /\ Ended = {}
              \/ elf.pc = "commit" /\ elf'.pc = "lingering" /\ Ended # {}

ElfMove == \/ UNCHANGED elf \/ Leaves \/ Begins \/ Chooses \/ Launches
           \/ Aborts \/ Streams \/ Orphans \/ Commits

\* The adapter's verdict arrives, the first one, and ends the stream.
VerdictMove ==
  /\ elf.pc = "stream" /\ Judged = {}
  /\ \E v \in Verdicts : evidence' = evidence \cup {v} /\ Kills(v)

\* Every step of the system moves the Elf in one of these ways, and only a
\* verdict that arrives, or progress, changes the evidence.
LEMMA ElfMoves ==
  ASSUME Typed, Next
  PROVE  \/ VerdictMove
         \/ ElfMove /\ (\/ UNCHANGED evidence
                        \/ elf.pc = "stream" /\ evidence' = evidence \cup {"progress"})
  <1> USE DEF runVars
  <1> DEFINE Moved == ElfMove /\ UNCHANGED evidence
  <1>0. ElfTyped /\ recorded \in Groups \cup {0} /\ elf.own \in Groups \cup {0}
        /\ elf.verdict \in Verdicts \cup {"none"}
    BY DEF Typed, RunTyped, ElfTyped, ElfStates
  <1>1. Verdicts \subseteq Terminals /\ {"failed", "cancelled"} \subseteq Terminals
    BY DEF Terminals, Verdicts
  <1>2. \A v \in Verdicts \cup {"none"} : \A x : Classify(v, x) \in Verdicts /\ (v # "none" => Classify(v, x) = v)
    BY ClassIsVerdict
  <1>3. ASSUME NEW class \in Terminals, KillThen(class) PROVE Kills(class)
    BY <1>0, <1>3, KillMoves DEF Kills
  <1>4. ASSUME Abort PROVE Kills("failed")
    BY <1>0, <1>4, AbortMoves DEF Kills
  <1>5. ASSUME NEW pc \in {"spawn", "stream", "commit", "append", "lingering"}, elf' = [elf EXCEPT !.pc = pc]
        PROVE  elf'.pc = pc /\ Keeps
    BY <1>0, <1>5, StepMoves DEF Same, Keeps
  <1>6. ASSUME elf' = NoElf, UNCHANGED evidence PROVE Moved
    BY <1>6, GoneMoves DEF ElfMove, Leaves
  <1>7. CASE StartElf
    BY <1>7, StartElfMoves DEF StartElf, ElfMove, Begins
  <1>8. CASE Adopt
    BY <1>0, <1>8, StartMoves DEF Adopt, RecGo, ElfMove, Begins
  <1>9. CASE Check
    <2> DEFINE given == IF elf.own # 0 THEN elf.own
                        ELSE IF recorded # 0 /\ Alive(recorded) THEN recorded ELSE 0
    <2>1. given \in Groups \cup {0}
      BY <1>0
    <2>2. CASE ElfIsGone
      BY <1>6, <1>9, <2>2 DEF ElfIsGone, Check
    <2>3. CASE given # 0 /\ Become("orphan", given, "pgid")
      <3>1. elf'.pc = "orphan" /\ elf'.verdict = RecordedVerdict /\ elf'.pend = elf.pend
        BY <1>0, <2>1, <2>3, BecomeMoves
      <3> QED BY <1>9, <2>3, <3>1 DEF Check, ElfMove, Chooses
    <2>4. CASE Terminal = "none" /\ given = 0 /\ Become("starting", 0, "none")
      <3>1. elf'.pc = "starting" /\ elf'.verdict = RecordedVerdict /\ elf'.pend = elf.pend
        BY <1>0, <2>4, BecomeMoves
      <3> QED BY <1>9, <2>4, <3>1, TerminalEnded DEF Check, ElfMove, Chooses
    <2> QED BY <1>9, <2>2, <2>3, <2>4 DEF Check
  <1> DEFINE Puts(e) == Appends(e) => e \in Logged'
  <1>21. Puts("starting") /\ Puts("running")
    <2>1. /\ log \in Seq(Events) /\ {"starting", "running"} \subseteq Events
          /\ \A e \in {"starting", "running"} : Keyed(e) = {e}
      BY DEF Typed, RunTyped, Events, Terminals, Verdicts, Keyed
    <2> QED BY <2>1, PutAdds DEF Appends
  <1>10. CASE RecordStarting
    BY <1>4, <1>5, <1>10, <1>21 DEF RecordStarting, AppendFails, ElfMove, Launches, Aborts
  <1>11. CASE RecordRunning
    BY <1>4, <1>5, <1>11, <1>21 DEF RecordRunning, AppendFails, ElfMove, Launches, Aborts
  <1>12. CASE Spawn
    <2>1. ASSUME NEW g \in Groups,
                 elf' = [elf EXCEPT !.pc = "record", !.own = g,
                                    !.handle = IF Owner = "runner" THEN "port" ELSE "pgid"]
          PROVE  elf'.pc = "record" /\ Keeps
      BY <1>0, <2>1, SpawnMoves DEF Keeps
    <2> QED BY <1>4, <1>12, <2>1 DEF Spawn, ElfMove, Launches, Aborts
  <1>13. CASE IngestEvent
    <2>1. CASE evidence' = evidence \cup {"progress"} /\ UNCHANGED elf
      BY <1>13, <2>1 DEF IngestEvent, ElfMove
    <2>2. ASSUME NEW v \in Verdicts, RecordedVerdict = "none", evidence' = evidence \cup {v},
                 KillThen(Classify(v, elf.exit))
          PROVE  VerdictMove
      <3>1. v # "none" /\ Classify(v, elf.exit) = v
        BY <1>2 DEF Verdicts
      <3>2. Kills(v)
        BY <1>1, <1>3, <2>2, <3>1
      <3> QED BY <1>13, <2>2, <3>2, VerdictJudged DEF IngestEvent, VerdictMove
    <2> QED BY <1>13, <2>1, <2>2 DEF IngestEvent
  <1>14. CASE Overflow \/ TakeCancel
    BY <1>1, <1>3, <1>14 DEF Overflow, TakeCancel, ElfMove, Streams, Orphans, Kills
  <1>15. CASE OrphanGone
    <2>1. Classify(elf.verdict, "unknown") \in Terminals
      BY <1>0, <1>1, <1>2
    <2>2. CASE elf.verdict = "none" /\ elf' = [elf EXCEPT !.pc = "stream"]
      BY <1>5, <1>15, <2>2 DEF OrphanGone, ElfMove, Orphans, Keeps
    <2>3. CASE KillThen(Classify(elf.verdict, "unknown"))
      BY <1>3, <1>15, <2>1, <2>3 DEF OrphanGone, ElfMove, Orphans, Kills
    <2> QED BY <1>15, <2>2, <2>3 DEF OrphanGone
  <1>16. CASE StreamEnds
    <2>1. elf.pc = "stream" /\ UNCHANGED evidence
      BY <1>16 DEF StreamEnds
    <2>2. /\ elf'.verdict = elf.verdict
          /\ \/ elf'.pc = "stream" /\ elf'.pend = elf.pend
             \/ elf'.pc = "kill" /\ elf.verdict # "none" /\ elf'.pend = elf.verdict
             \/ elf'.pc = "commit" /\ elf'.pend = Classify("none", elf.exit)
      BY <1>0, <1>16, EndMoves
    <2> QED BY <2>1, <2>2 DEF ElfMove, Streams
  <1>17. CASE OsExit
    <2>1. elf.pc = "stream" /\ UNCHANGED evidence
      BY <1>17 DEF OsExit
    <2>2. /\ elf'.verdict = elf.verdict
          /\ \/ elf'.pc = "stream" /\ elf'.pend = elf.pend
             \/ elf'.pc = "commit" /\ \E x : elf'.pend = Classify(elf.verdict, x)
      BY <1>0, <1>17, ExitMoves
    <2> QED BY <2>1, <2>2 DEF ElfMove, Streams
  <1>18. CASE KillOwned \/ CommitDuplicate \/ CommitFirst
    BY <1>5, <1>18, TerminalEnded DEF KillOwned, CommitDuplicate, CommitFirst, ElfMove, Commits
  <1>19. CASE AppendTerminal \/ ElfRaises \/ ElfKilled \/ Crash
    BY <1>6, <1>19 DEF AppendTerminal, ElfRaises, ElfKilled, Crash, ElfIsGone
  <1>20. CASE LingeringCancel \/ CancelRun \/ Caller \/ CallTimesOut \/ ReconcileNow \/ Scan \/ Look
              \/ Probe \/ RecordExit \/ Restart \/ \E g \in Groups : LeaderExits(g) \/ GroupDies(g)
    BY <1>20 DEF LingeringCancel, CancelRun, Caller, CallTimesOut, ReconcileNow, Scan, Look,
       Probe, RecordExit, Restart, LeaderExits, GroupDies, CallElf, WithoutElf, TerminateRecorded,
       AppendCancelled, ReadBack, ElfMove
  <1> QED BY <1>7, <1>8, <1>9, <1>10, <1>11, <1>12, <1>13, <1>14, <1>15, <1>16, <1>17, <1>18, <1>19,
             <1>20
          DEF Next, Elf, Reconcile

\* The reconciler looks at a run it found running, and goes on when it finds
\* neither a terminal event nor an Elf.
LEMMA RecMoves ==
  ASSUME Typed, Next
  PROVE  /\ rpc' # rpc => \/ rpc' \in {"idle", "scan"}
                          \/ rpc = "scan" /\ rpc' = "look" /\ Latest = "running"
                          \/ rpc = "look" /\ rpc' = "probe" /\ Ended = {} /\ elf.pc = "none"
                          \/ rpc = "probe" /\ rpc' = "adopt"
                          \/ rpc = "probe" /\ rpc' = "record" /\ rclass' = Classify(RecordedVerdict, "unknown")
         /\ rclass' # rclass => rclass' \in {"none", Classify(RecordedVerdict, "unknown")}
         /\ rclass' # rclass /\ rclass' # "none" => rpc = "probe" /\ rpc' = "record"
         /\ RecordExit => rpc = "record" /\ rpc' = "idle"
         /\ rpc' # rpc /\ rpc' # "idle" => UNCHANGED <<log, evidence>> /\ (UNCHANGED elf \/ rpc' = "scan")
  <1> USE DEF recVars, runVars
  <1>1. CASE UNCHANGED recVars
    BY <1>1 DEF RecordExit, Typed, StepsTyped
  <1>2. CASE ReconcileNow \/ Scan \/ Crash \/ Restart
    BY <1>2 DEF ReconcileNow, Scan, Crash, Restart, RecGo, RecordExit
  <1>3. CASE Look
    BY <1>3, TerminalEnded DEF Look, RecGo, RecordExit
  <1>4. CASE Probe
    BY <1>4 DEF Probe, RecGo, RecordExit
  <1>5. CASE Adopt \/ RecordExit
    BY <1>5 DEF Adopt, RecGo, RecordExit
  <1> QED BY <1>1, <1>2, <1>3, <1>4, <1>5
          DEF Next, Elf, Caller, Reconcile, StartElf, Check, RecordStarting, Spawn, RecordRunning,
              IngestEvent, Overflow, StreamEnds, OsExit, OrphanGone, TakeCancel, KillOwned,
              CommitDuplicate, CommitFirst, AppendTerminal, LingeringCancel, ElfRaises, ElfKilled,
              CancelRun, CallElf, CallTimesOut, WithoutElf, TerminateRecorded, AppendCancelled,
              ReadBack, LeaderExits, GroupDies

\* A caller that found no terminal waits for the Elf, or goes on without one; it
\* answers from what is on record.
LEMMA CallerMoves ==
  ASSUME Typed, Next
  PROVE  /\ cpc' = "readback" => cpc = "readback" \/ Ended' # {}
         /\ cpc' \in {"idle", "call", "waiting"} =>
              cpc \in {"idle", "call", "waiting"} \/ elf'.pc = "none"
         /\ reply' = "already_terminal" =>
              reply = reply' \/ Ended # {} \/ elf.pc = "lingering" \/ cpc = "readback"
         /\ reply' = "cancelled" =>
              \/ reply = reply' \/ Terminal = "cancelled"
              \/ AppendTerminal /\ elf.pend = "cancelled" /\ cpc = "waiting"
  <1> USE DEF callerVars
  <1>1. CASE UNCHANGED callerVars
    BY <1>1
  <1>2. CASE CancelRun \/ CallElf \/ CallTimesOut \/ WithoutElf \/ TerminateRecorded
    BY <1>2, TerminalEnded DEF CancelRun, CallElf, CallTimesOut, WithoutElf, TerminateRecorded, Reply, CallerGo
  <1>3. CASE AppendCancelled
    <2>1. CASE cpc = "cancelled" /\ Appends("cancelled") /\ CallerGo("readback")
      <3>1. log \in Seq(Events) /\ "cancelled" \in Events /\ "cancelled" \in Terminals
        BY DEF Typed, RunTyped, Events, Terminals
      <3>2. Ended' # {}
        BY <2>1, <3>1, AppendMoves DEF Appends
      <3> QED BY <2>1, <3>2 DEF CallerGo
    <2>2. CASE CallerGo("cancelled") \/ Reply("error")
      BY <2>2 DEF CallerGo, Reply
    <2> QED BY <1>3, <2>1, <2>2 DEF AppendCancelled
  <1>4. CASE ReadBack
    BY <1>4, TerminalEnded DEF ReadBack, Reply
  <1>5. CASE Check \/ ElfRaises \/ ElfKilled \/ LingeringCancel
    BY <1>5 DEF Check, Become, ElfIsGone, Abandon, ElfRaises, ElfKilled, LingeringCancel
  <1>6. CASE CommitDuplicate
    BY <1>6, TerminalEnded DEF CommitDuplicate, Answer
  <1>7. CASE AppendTerminal
    BY <1>7 DEF AppendTerminal, Answer, Abandon
  <1>8. CASE Crash
    BY <1>8, GoneMoves DEF Crash
  <1> QED BY <1>1, <1>2, <1>3, <1>4, <1>5, <1>6, <1>7, <1>8
          DEF Next, Elf, Caller, Reconcile, StartElf, RecordStarting, Spawn, RecordRunning,
              IngestEvent, Overflow, StreamEnds, OsExit, OrphanGone, TakeCancel, KillOwned,
              CommitFirst, ReconcileNow, Scan, Look, Probe, Adopt, RecordExit, Restart,
              LeaderExits, GroupDies

\* What is committed is classified from what was persisted, there is one verdict
\* and one terminal event, and who says so has seen the terminal event.
EvidenceInv ==
  /\ \A v, w \in Judged : v = w
  /\ \A e, f \in Ended : e = f
  /\ elf.verdict \in Judged \cup {"none"}
  /\ "completed" \in Ended \cup {elf.pend, rclass} => evidence \cap {"progress", "completed"} # {}
  /\ elf.pc = "lingering" \/ cpc = "readback" \/ reply = "already_terminal" => Ended # {}

\* A run that was never started has no evidence, and the reconciler looks at
\* runs that were running only.
BegunInv ==
  /\ "running" \in Logged => recorded # 0
  /\ rpc \in {"look", "probe", "adopt", "record"} => "running" \in Logged
  /\ starts = 0 => elf.pc = "none" /\ evidence = {} /\ Logged \subseteq {"cancelling", "cancelled"}

\* Every step keeps them.
LEMMA BegunKeeps ==
  ASSUME Typed, KnownInv, BegunInv, Next
  PROVE  BegunInv'
  <1>1. "running" \in Logged' => recorded' # 0
    <2>1. CASE "running" \in Logged
      BY <2>1, RecordMoves DEF BegunInv
    <2>2. CASE "running" \in Logged' /\ "running" \notin Logged
      <3>1. RecordRunning
        BY <2>2, RecordMoves
      <3>2. recorded' = elf.own /\ elf.own # 0
        <4>1. ~InLog({"running"})
          BY <2>2, InLogMeets
        <4>2. log' # log
          BY <2>2 DEF Logged
        <4>3. recorded' = elf.own
          BY <3>1, <4>1, <4>2 DEF RecordRunning, AppendFails
        <4> QED BY <3>1, <4>3 DEF RecordRunning, KnownInv
      <3> QED BY <3>2
    <2> QED BY <2>1, <2>2
  <1>2. rpc' \in {"look", "probe", "adopt", "record"} => "running" \in Logged'
    BY RecordMoves, RecMoves, LatestLogged DEF BegunInv, Typed, RunTyped
  <1>3. starts' = 0 => elf'.pc = "none" /\ evidence' = {} /\ Logged' \subseteq {"cancelling", "cancelled"}
    <2> SUFFICES ASSUME starts' = 0
                 PROVE  elf'.pc = "none" /\ evidence' = {} /\ Logged' \subseteq {"cancelling", "cancelled"}
      OBVIOUS
    <2>1. starts = 0 /\ starts' = starts
      BY CounterMoves DEF Typed, CountersTyped
    <2>2. elf.pc = "none" /\ evidence = {} /\ rpc # "record" /\ rpc # "adopt"
          /\ Logged \subseteq {"cancelling", "cancelled"}
      BY <2>1 DEF BegunInv
    <2>3. Logged' \subseteq {"cancelling", "cancelled"}
      BY <2>2, RecordMoves
    <2>4. elf'.pc = "none" /\ evidence' = evidence
      BY <2>1, <2>2, ElfMoves DEF VerdictMove, ElfMove, Leaves, Begins, Chooses, Launches, Aborts,
         Streams, Orphans, Commits, Typed, CountersTyped
    <2> QED BY <2>2, <2>3, <2>4
  <1> QED BY <1>1, <1>2, <1>3 DEF BegunInv

\* So does what is classified, and what is answered.
LEMMA EvidenceKeeps ==
  ASSUME Typed, EvidenceInv, Next
  PROVE  EvidenceInv'
  <1>1. evidence \subseteq evidence' /\ Judged \subseteq Judged'
    BY ElfMoves DEF VerdictMove, Judged
  <1>2. RecordedVerdict \in Judged \cup {"none"} /\ elf.verdict \in Judged \cup {"none"}
        /\ Judged \subseteq Verdicts /\ "none" \notin Verdicts
    BY VerdictJudged DEF EvidenceInv, Judged, Verdicts
  <1>3. \A v \in Judged \cup {"none"} : \A x :
          Classify(v, x) = "completed" => evidence \cap {"progress", "completed"} # {}
    BY <1>2, ClassIsVerdict DEF Judged
  <1>4. \A v, w \in Judged' : v = w
    BY ElfMoves DEF VerdictMove, Judged, EvidenceInv, Verdicts
  <1>5. elf'.verdict \in Judged' \cup {"none"}
    BY <1>1, <1>2, ElfMoves DEF VerdictMove, Kills, ElfMove, Leaves, Begins, Chooses, Launches,
       Aborts, Streams, Orphans, Commits, Keeps
  <1>6. elf'.pend = "completed" => evidence' \cap {"progress", "completed"} # {}
    <2>1. CASE VerdictMove
      BY <2>1 DEF VerdictMove, Kills
    <2>2. CASE ElfMove
      <3>1. elf'.pend \in {elf.pend, elf.verdict, "none", "failed", "cancelled"}
            \/ \E x : elf'.pend \in {Classify(elf.verdict, x), Classify("none", x)}
        BY <2>2 DEF ElfMove, Leaves, Begins, Chooses, Launches, Aborts, Streams, Orphans, Commits,
           Keeps, Kills
      <3>2. elf.pend = "completed" \/ elf.verdict = "completed" => evidence \cap {"progress", "completed"} # {}
        BY <1>2 DEF EvidenceInv, Judged
      <3> QED BY <1>1, <1>2, <1>3, <3>1, <3>2
    <2> QED BY <2>1, <2>2, ElfMoves
  <1>7. rclass' = "completed" => evidence' \cap {"progress", "completed"} # {}
    BY <1>1, <1>2, <1>3, RecMoves DEF EvidenceInv
  <1>8. \/ Ended' = Ended
        \/ Ended = {} /\ Ended' \in {{elf.pend}, {rclass}, {"failed"}, {"cancelled"}}
    BY RecordMoves
  <1>9. "completed" \in Ended' => evidence' \cap {"progress", "completed"} # {}
    BY <1>1, <1>8 DEF EvidenceInv
  <1>10. elf'.pc = "lingering" => Ended' # {}
    <2>1. elf'.pc = "lingering" => elf.pc = "lingering" \/ Ended # {}
      BY ElfMoves DEF VerdictMove, Kills, ElfMove, Leaves, Begins, Chooses, Launches,
         Aborts, Streams, Orphans, Commits
    <2> QED BY <1>8, <2>1 DEF EvidenceInv
  <1>11. cpc' = "readback" \/ reply' = "already_terminal" => Ended' # {}
    BY <1>8, CallerMoves DEF EvidenceInv
  <1> QED BY <1>4, <1>5, <1>6, <1>7, <1>8, <1>9, <1>10, <1>11 DEF EvidenceInv

Looking == {"probe", "adopt", "record"}

\* A plain run.  Elf and reconciler exclude each other; while either works, the
\* only terminal event is a cancellation.  Until a verdict arrives there is none,
\* and what is committed after it is that verdict or a cancellation.
PlainInv ==
  /\ rpc \in Looking => elf.pc = "none"
  /\ elf.pc # "none" \/ rpc \in Looking => Ended \subseteq {"cancelled"}
  /\ elf.pc = "append" /\ cpc \in {"idle", "call", "waiting"} => Ended = {}
  /\ \/ elf.pc \in {"starting", "spawn", "record", "stream"}
     \/ elf.pc = "check" /\ elf.own = 0
     \/ elf.pc = "orphan" /\ elf.verdict = "none"
     => Judged = {}
  /\ elf.pc \in {"kill", "commit", "append"} /\ Judged # {} => elf.pend \in Judged \cup {"cancelled"}
  /\ rpc = "record" /\ Judged # {} => rclass \in Judged
  /\ Judged # {} => Ended \subseteq Judged \cup {"cancelled"}
  /\ reply = "cancelled" => Ended = {"cancelled"}

\* Every step that leaves a run plain keeps them.
LEMMA PlainKeeps ==
  ASSUME Typed, KnownInv, BegunInv, EvidenceInv, PlainInv, Next, Plain'
  PROVE  PlainInv'
  <1>0. /\ ~Fault("append") /\ ~Fault("raise")
        /\ starts' # starts => starts = 0
    BY PlainMoves DEF Typed
  <1> DEFINE Change == \/ AppendTerminal /\ Ended' = {elf.pend}
                       \/ RecordExit /\ Ended' = {rclass}
                       \/ AppendCancelled /\ cpc = "cancelled" /\ Ended' = {"cancelled"}
             Move == ElfMove /\ (\/ UNCHANGED evidence
                                 \/ elf.pc = "stream" /\ evidence' = evidence \cup {"progress"})
  <1>1. Ended' = Ended \/ (Ended = {} /\ Change)
    BY <1>0, RecordMoves DEF ElfRaises
  <1>2. VerdictMove \/ Move
    BY ElfMoves
  <1>3. Move => Judged' = Judged
    BY DEF Judged, Verdicts
  <1>4. AppendTerminal => elf.pc = "append" /\ elf'.pc = "none" /\ UNCHANGED <<rpc, evidence>>
    BY GoneMoves DEF AppendTerminal, recVars
  <1>5. RecordExit => rpc = "record" /\ rpc' = "idle" /\ UNCHANGED <<elf, evidence>>
    BY DEF RecordExit
  <1>6. AppendCancelled => UNCHANGED <<elf, rpc, rclass, evidence>>
    BY DEF AppendCancelled, recVars
  <1>7. Judged \subseteq Verdicts /\ "none" \notin Verdicts /\ "cancelled" \notin Verdicts
        /\ Ended \subseteq Terminals
    BY DEF Judged, Verdicts, Ended
  <1>8. /\ RecordedVerdict = "none" <=> Judged = {}
        /\ Judged # {} => RecordedVerdict \in Judged
    BY VerdictJudged
  <1>9. \A v \in Judged : \A x : Classify(v, x) = v
    BY <1>7, ClassIsVerdict
  <1>10. elf.pc = "none" /\ elf'.pc # "none" =>
           /\ elf'.pc = "check" /\ Judged' = Judged
           /\ \/ starts = 0 /\ Ended \subseteq {"cancelled"} /\ Judged = {} /\ rpc \notin Looking
              \/ rpc = "adopt" /\ rpc' = "idle" /\ elf'.own = recorded
    <2> SUFFICES ASSUME elf.pc = "none", elf'.pc # "none"
                 PROVE  /\ elf'.pc = "check" /\ Judged' = Judged
                        /\ \/ starts = 0 /\ Ended \subseteq {"cancelled"} /\ Judged = {} /\ rpc \notin Looking
                           \/ rpc = "adopt" /\ rpc' = "idle" /\ elf'.own = recorded
      OBVIOUS
    <2>1. Begins /\ Judged' = Judged
      BY <1>2, <1>3 DEF VerdictMove, ElfMove, Leaves, Chooses, Launches, Aborts, Streams, Orphans,
         Commits
    <2>2. CASE starts' = starts + 1
      <3>1. starts = 0
        BY <1>0, <2>2 DEF Typed, CountersTyped
      <3> QED BY <2>1, <3>1 DEF BegunInv, Begins, Looking, Ended, Terminals, Judged, Verdicts
    <2>3. CASE rpc = "adopt" /\ rpc' = "idle" /\ elf'.own = recorded
      BY <2>1, <2>3 DEF Begins
    <2> QED BY <2>1, <2>2, <2>3 DEF Begins
  <1> HIDE DEF Move, Change
  <1>11. rpc' \in Looking => elf'.pc = "none"
    BY <1>10, RecMoves DEF PlainInv, Looking
  <1>12. elf'.pc # "none" \/ rpc' \in Looking => Ended' \subseteq {"cancelled"}
    <2>1. CASE Ended' = Ended
      BY <1>10, <2>1, RecMoves DEF PlainInv, Looking
    <2>2. CASE Ended = {} /\ Change
      BY <1>4, <1>5, <1>6, <2>2 DEF PlainInv, Looking, Change
    <2> QED BY <1>1, <2>1, <2>2
  <1>13. elf'.pc = "append" /\ cpc' \in {"idle", "call", "waiting"} => Ended' = {}
    <2> SUFFICES ASSUME elf'.pc = "append", cpc' \in {"idle", "call", "waiting"} PROVE Ended' = {}
      OBVIOUS
    <2>1. cpc \in {"idle", "call", "waiting"}
      BY CallerMoves
    <2>2. elf.pc = "append" \/ (elf.pc = "commit" /\ Ended = {})
      BY <1>2 DEF Move, VerdictMove, Kills, ElfMove, Leaves, Begins, Chooses, Launches, Aborts,
         Streams, Orphans, Commits
    <2>3. Ended = {}
      BY <2>1, <2>2 DEF PlainInv
    <2>4. ~Change
      BY <1>4, <1>5, <2>1, <2>2 DEF Change, PlainInv, Looking
    <2> QED BY <1>1, <2>3, <2>4
  <1>14. \/ elf'.pc \in {"starting", "spawn", "record", "stream"}
         \/ elf'.pc = "check" /\ elf'.own = 0
         \/ elf'.pc = "orphan" /\ elf'.verdict = "none"
         => Judged' = {}
    <2>1. CASE VerdictMove
      BY <2>1 DEF VerdictMove, Kills
    <2>2. CASE Begins
      BY <1>10, <2>2 DEF Begins, BegunInv
    <2>3. CASE Move /\ ~Begins
      BY <1>3, <1>8, <2>3 DEF Move, ElfMove, Leaves, Chooses, Launches, Aborts, Streams, Orphans,
         Commits, Kills, PlainInv
    <2> QED BY <1>2, <2>1, <2>2, <2>3
  <1>15. elf'.pc \in {"kill", "commit", "append"} /\ Judged' # {} => elf'.pend \in Judged' \cup {"cancelled"}
    <2>1. CASE VerdictMove
      BY <2>1 DEF VerdictMove, Kills, Judged
    <2>2. CASE Move
      <3>1. Judged' = Judged
        BY <1>3, <2>2
      <3>2. CASE UNCHANGED elf
        BY <3>1, <3>2 DEF PlainInv
      <3>3. CASE Leaves \/ Begins \/ Chooses \/ Launches
        BY <3>3 DEF Leaves, Begins, Chooses, Launches
      <3>4. CASE Aborts \/ Streams
        BY <1>0, <3>1, <3>4 DEF Aborts, Streams, PlainInv
      <3>5. CASE Orphans
        BY <1>9, <3>1, <3>5 DEF Orphans, PlainInv, EvidenceInv
      <3>6. CASE Commits
        BY <3>1, <3>6 DEF Commits, Keeps, PlainInv
      <3> QED BY <2>2, <3>2, <3>3, <3>4, <3>5, <3>6 DEF Move, ElfMove
    <2> QED BY <1>2, <2>1, <2>2
  <1>16. rpc' = "record" /\ Judged' # {} => rclass' \in Judged'
    <2>1. CASE rpc = "record" /\ rpc' = "record"
      <3>1. elf.pc = "none"
        BY <2>1 DEF PlainInv, Looking
      <3>2. Judged' = Judged
        BY <1>2, <1>3, <3>1 DEF VerdictMove
      <3>3. rclass' = rclass
        BY <2>1, RecMoves, TypedKeeps DEF Typed, StepsTyped
      <3> QED BY <2>1, <3>2, <3>3 DEF PlainInv
    <2>2. CASE rpc # "record" /\ rpc' = "record"
      <3>1. rclass' = Classify(RecordedVerdict, "unknown") /\ evidence' = evidence
        BY <2>2, RecMoves
      <3>2. Judged' = Judged
        BY <3>1 DEF Judged
      <3> QED BY <1>8, <1>9, <3>1, <3>2
    <2> QED BY <2>1, <2>2
  <1>17. Judged' # {} => Ended' \subseteq Judged' \cup {"cancelled"}
    <2>1. CASE VerdictMove
      <3>1. Ended' = Ended
        BY <1>1, <1>4, <1>5, <1>6, <2>1 DEF VerdictMove, Kills, Change, PlainInv, Looking
      <3> QED BY <2>1, <3>1 DEF VerdictMove, PlainInv
    <2>2. CASE Move /\ Ended' = Ended
      BY <1>3, <2>2 DEF PlainInv
    <2>3. CASE Move /\ Change
      BY <1>3, <1>4, <1>5, <2>3 DEF PlainInv, Change
    <2> QED BY <1>1, <1>2, <2>1, <2>2, <2>3
  <1>18. reply' = "cancelled" => Ended' = {"cancelled"}
    <2>1. CASE reply = "cancelled"
      BY <1>1, <2>1 DEF PlainInv
    <2>2. CASE Terminal = "cancelled"
      <3>1. Ended = {"cancelled"}
        BY <2>2, TerminalEnded DEF EvidenceInv
      <3> QED BY <1>1, <3>1
    <2>3. CASE AppendTerminal /\ elf.pend = "cancelled" /\ cpc = "waiting"
      <3>1. Ended = {}
        BY <1>4, <2>3 DEF PlainInv
      <3>2. Put("cancelled")
        BY <1>0, <2>3 DEF AppendTerminal, Appends, AppendFails
      <3>3. log \in Seq(Events) /\ "cancelled" \in Events /\ "cancelled" \in Terminals
        BY DEF Typed, RunTyped, Events, Terminals
      <3> QED BY <3>1, <3>2, <3>3, AppendMoves
    <2> QED BY <2>1, <2>2, <2>3, CallerMoves
  <1> QED BY <1>11, <1>12, <1>13, <1>14, <1>15, <1>16, <1>17, <1>18 DEF PlainInv

RunInv == Typed /\ KnownInv /\ BegunInv /\ EvidenceInv /\ (Plain => PlainInv)

\* All of it holds in every reachable state.
LEMMA RunInvariance == Spec => []RunInv
  <1>1. Init => RunInv
    <2>1. Init => KnownInv
      BY DEF Init, KnownInv, NoElf, Living, Born, Alive
    <2>2. Init => Judged = {} /\ Ended = {} /\ Logged = {} /\ elf.pc = "none"
      BY DEF Init, Judged, Ended, Logged, NoElf
    <2>3. Init => BegunInv /\ EvidenceInv /\ PlainInv
      BY <2>2 DEF Init, BegunInv, EvidenceInv, PlainInv, NoElf, Looking
    <2> QED BY <2>1, <2>3, TypedInit DEF RunInv
  <1>2. RunInv /\ [Next]_vars => RunInv'
    <2>1. ASSUME RunInv, UNCHANGED vars PROVE RunInv'
      <3>1. Typed' /\ KnownInv'
        BY <2>1 DEF RunInv, vars, runVars, callerVars, recVars, Typed, RunTyped, ElfTyped, GroupTyped,
           StepsTyped, PendTyped, CountersTyped, KnownInv, Living, Born, Alive
      <3>2. Judged' = Judged /\ Ended' = Ended /\ Logged' = Logged /\ (Plain' => Plain)
        BY <2>1 DEF vars, runVars, Judged, Ended, Logged, Plain
      <3> QED BY <2>1, <3>1, <3>2 DEF RunInv, vars, runVars, callerVars, recVars, BegunInv, EvidenceInv,
                 PlainInv
    <2>2. ASSUME RunInv, Next PROVE RunInv'
      <3>1. Plain' => Plain
        BY <2>2, PlainMoves DEF RunInv, Typed
      <3> QED BY <2>2, <3>1, TypedKeeps, KnownKeeps, BegunKeeps, EvidenceKeeps, PlainKeeps DEF RunInv
    <2> QED BY <2>1, <2>2
  <1> QED BY <1>1, <1>2, PTL DEF Spec

\* For a plain run cancel_run answers what happened, whatever the Elf, the
\* reconciler and other deaths do meanwhile.
THEOREM CancelRepliesTrue == Spec => []CancelReplyIsTrue
  <1>1. RunInv => CancelReplyIsTrue
    BY TerminalEnded DEF RunInv, CancelReplyIsTrue, PlainInv, EvidenceInv
  <1> QED BY <1>1, RunInvariance, PTL

\* A verdict that was persisted decides a plain run, and a completed run, plain
\* or not, has the evidence of it.
THEOREM VerdictsStand == Spec => [](CompletedHasEvidence /\ VerdictSurvives)
  <1>1. RunInv => CompletedHasEvidence
    BY TerminalEnded DEF RunInv, CompletedHasEvidence, EvidenceInv
  <1>2. RunInv => VerdictSurvives
    <2> SUFFICES ASSUME RunInv, Plain, Terminal # "none", RecordedVerdict # "none"
                 PROVE  Terminal \in {RecordedVerdict, "cancelled"}
      BY DEF VerdictSurvives
    <2>1. Terminal \in Judged \cup {"cancelled"} /\ RecordedVerdict \in Judged
      BY TerminalEnded, VerdictJudged DEF RunInv, PlainInv
    <2> QED BY <2>1 DEF RunInv, EvidenceInv
  <1> QED BY <1>1, <1>2, RunInvariance, PTL

-----------------------------------------------------------------------------
(* The lifecycle log                                                       *)

\* Which event a step appends.
Appended(e) ==
  \/ e = "starting" /\ elf.pc = "starting"
  \/ e = "running" /\ elf.pc = "record"
  \/ e \in {"cancelling", "cancelled"}
  \/ e = elf.pend /\ elf.pc = "append"
  \/ e = rclass /\ rpc = "record"
  \/ e = "failed"

\* Every step leaves the log alone or puts one event.
LEMMA LogMoves ==
  ASSUME Typed, Next
  PROVE  \/ UNCHANGED log
         \/ \E e \in Events : Put(e) /\ Appended(e)
  <1> USE DEF runVars, Appended
  <1>1. {"starting", "running", "cancelling", "cancelled", "failed"} \subseteq Events /\ Terminals \subseteq Events
    BY DEF Events, Terminals, Verdicts
  <1>2. elf.pc = "append" => elf.pend \in Events /\ (rpc = "record" => rclass \in Events)
    BY <1>1 DEF Typed, PendTyped, ElfTyped, ElfStates, StepsTyped
  <1>3. \A e : Appends(e) \/ AppendFails => Put(e) \/ UNCHANGED log
    BY DEF Appends, AppendFails
  <1>4. CASE ElfRaises
    BY <1>1, <1>4 DEF ElfRaises
  <1>5. CASE ~ElfRaises /\ (RecordStarting \/ RecordRunning \/ TakeCancel)
    BY <1>1, <1>3, <1>5 DEF RecordStarting, RecordRunning, TakeCancel
  <1>6. CASE ~ElfRaises /\ AppendCancelled
    BY <1>1, <1>3, <1>6 DEF AppendCancelled
  <1>7. CASE ~ElfRaises /\ AppendTerminal
    BY <1>2, <1>3, <1>7 DEF AppendTerminal
  <1>8. CASE ~ElfRaises /\ RecordExit
    <2>1. rclass \in Events /\ rpc = "record"
      BY <1>1, <1>8 DEF Typed, StepsTyped, RecordExit
    <2> QED BY <1>3, <1>8, <2>1 DEF RecordExit
  <1>9. CASE UNCHANGED log
    BY <1>9
  <1> QED BY <1>4, <1>5, <1>6, <1>7, <1>8, <1>9
          DEF Next, Elf, Caller, Reconcile, StartElf, Check, Spawn, IngestEvent,
             Overflow, StreamEnds, OsExit, OrphanGone, KillOwned, CommitDuplicate, CommitFirst,
             LingeringCancel, ElfKilled, CancelRun, CallElf, CallTimesOut, WithoutElf,
             TerminateRecorded, ReadBack, ReconcileNow, Scan, Look, Probe, Adopt, Crash, Restart,
             LeaderExits, GroupDies

\* An event that is put comes last, and its key had none.
LEMMA PutLast ==
  ASSUME log \in Seq(Events), NEW e \in Events, Put(e), log' # log
  PROVE  /\ Len(log) \in Nat /\ Len(log') = Len(log) + 1
         /\ log'[Len(log) + 1] = e
         /\ \A i \in 1..Len(log) : log'[i] = log[i]
         /\ \A i \in 1..Len(log) : log[i] \notin Keyed(e)
         /\ Logged' = Logged \cup {e}
  <1>1. ~InLog(Keyed(e)) /\ log' = Append(log, e)
    BY DEF Put
  <1>2. Logged' = Logged \cup {e}
    BY <1>1, PutAdds, InLogMeets
  <1> QED BY <1>1, <1>2 DEF InLog

\* No event is on record twice, and one terminal event at most.
OnceInv ==
  \A i, j \in 1..Len(log) : i < j => log[i] # log[j] /\ ~({log[i], log[j]} \subseteq Terminals)

\* Every step keeps it so.
LEMMA OnceKeeps ==
  ASSUME Typed, OnceInv, Next
  PROVE  OnceInv'
  <1>1. CASE UNCHANGED log
    BY <1>1 DEF OnceInv
  <1>2. CASE log' # log
    <2>1. PICK e \in Events : Put(e)
      BY <1>2, LogMoves
    <2>2. /\ Len(log) \in Nat /\ Len(log') = Len(log) + 1
          /\ log'[Len(log) + 1] = e
          /\ \A i \in 1..Len(log) : log'[i] = log[i]
          /\ \A i \in 1..Len(log) : log[i] \notin Keyed(e)
      BY <1>2, <2>1, PutLast DEF Typed, RunTyped
    <2>3. \A x : x \notin Keyed(e) => x # e /\ ~({x, e} \subseteq Terminals)
      BY DEF Keyed
    <2> SUFFICES ASSUME NEW i \in 1..Len(log'), NEW j \in 1..Len(log'), i < j
                 PROVE  log'[i] # log'[j] /\ ~({log'[i], log'[j]} \subseteq Terminals)
      BY DEF OnceInv
    <2>4. CASE j \in 1..Len(log)
      <3>1. i \in 1..Len(log)
        BY <2>2, <2>4
      <3> QED BY <2>2, <2>4, <3>1 DEF OnceInv
    <2>5. CASE j = Len(log) + 1
      <3>1. i \in 1..Len(log)
        BY <2>2, <2>5
      <3> QED BY <2>2, <2>3, <2>5, <3>1
    <2> QED BY <2>2, <2>4, <2>5
  <1> QED BY <1>1, <1>2

\* Four elements are four at most.
LEMMA FourElements ==
  ASSUME NEW a, NEW b, NEW c, NEW d
  PROVE  IsFiniteSet({a, b, c, d}) /\ Cardinality({a, b, c, d}) <= 4
  <1>1. \A S, x : IsFiniteSet(S) =>
          /\ IsFiniteSet(S \cup {x})
          /\ Cardinality(S \cup {x}) <= Cardinality(S) + 1
    <2> SUFFICES ASSUME NEW S, NEW x, IsFiniteSet(S)
                 PROVE  IsFiniteSet(S \cup {x}) /\ Cardinality(S \cup {x}) <= Cardinality(S) + 1
      OBVIOUS
    <2>1. /\ IsFiniteSet(S \cup {x}) /\ Cardinality(S) \in Nat
          /\ Cardinality(S \cup {x}) = IF x \in S THEN Cardinality(S) ELSE Cardinality(S) + 1
      BY FS_AddElement, FS_CardinalityType
    <2> QED BY <2>1
  <1>2. IsFiniteSet({a}) /\ Cardinality({a}) = 1
    BY FS_Singleton
  <1> DEFINE ab == {a} \cup {b}
             abc == ab \cup {c}
             abcd == abc \cup {d}
  <1>3. {a, b, c, d} = abcd
    OBVIOUS
  <1>4. IsFiniteSet(ab) /\ Cardinality(ab) <= 2 /\ Cardinality(ab) \in Nat
    <2>1. IsFiniteSet(ab) /\ Cardinality(ab) <= 1 + 1
      BY <1>1, <1>2
    <2> QED BY <2>1, FS_CardinalityType
  <1> HIDE DEF ab
  <1>5. IsFiniteSet(abc) /\ Cardinality(abc) <= 3 /\ Cardinality(abc) \in Nat
    <2>1. IsFiniteSet(abc) /\ Cardinality(abc) <= Cardinality(ab) + 1
      BY <1>1, <1>4
    <2>2. Cardinality(abc) \in Nat
      BY <2>1, FS_CardinalityType
    <2> HIDE DEF abc
    <2> QED BY <1>4, <2>1, <2>2
  <1> HIDE DEF abc
  <1>6. IsFiniteSet(abcd) /\ Cardinality(abcd) <= 4
    <2>1. IsFiniteSet(abcd) /\ Cardinality(abcd) <= Cardinality(abc) + 1
      BY <1>1, <1>5
    <2>2. Cardinality(abcd) \in Nat
      BY <2>1, FS_CardinalityType
    <2> HIDE DEF abcd
    <2> QED BY <1>5, <2>1, <2>2
  <1> QED BY <1>3, <1>6

\* So the log has four events at most.
LEMMA ShortLog ==
  ASSUME log \in Seq(Events), OnceInv
  PROVE  Len(log) <= 4
  <1> DEFINE Kinds == {"starting", "running", "cancelling", "end"}
             kind  == [i \in 1..Len(log) |-> IF log[i] \in Terminals THEN "end" ELSE log[i]]
  <1>1. Len(log) \in Nat /\ \A i \in 1..Len(log) : log[i] \in Events
    OBVIOUS
  <1>2. kind \in [1..Len(log) -> Kinds]
    BY <1>1 DEF Events
  <1>3. \A i, j \in 1..Len(log) : kind[i] = kind[j] => i = j
    <2>1. ASSUME NEW i \in 1..Len(log), NEW j \in 1..Len(log), i < j PROVE kind[i] # kind[j]
      <3>1. log[i] # log[j] /\ ~(log[i] \in Terminals /\ log[j] \in Terminals)
        BY <2>1 DEF OnceInv
      <3>2. log[i] # "end" /\ log[j] # "end"
        BY <1>1 DEF Events, Terminals, Verdicts
      <3> QED BY <3>1, <3>2
    <2> HIDE DEF kind
    <2> QED BY <1>1, <2>1
  <1> HIDE DEF kind
  <1>4. kind \in Injection(1..Len(log), Kinds)
    BY <1>2, <1>3 DEF Injection, IsInjective
  <1>5. IsFiniteSet(Kinds) /\ Cardinality(Kinds) <= 4
    BY FourElements
  <1>6. IsFiniteSet(1..Len(log)) /\ Cardinality(1..Len(log)) = Len(log)
    <2>1. 1 \in Int /\ Len(log) \in Int
      BY <1>1
    <2>2. /\ IsFiniteSet(1..Len(log))
          /\ Cardinality(1..Len(log)) = IF 1 > Len(log) THEN 0 ELSE Len(log) - 1 + 1
      BY <2>1, FS_Interval
    <2> QED BY <1>1, <2>2
  <1>7. Cardinality(1..Len(log)) <= Cardinality(Kinds)
    BY <1>4, <1>5, FS_Injection
  <1>8. Cardinality(Kinds) \in Nat
    BY <1>5, FS_CardinalityType
  <1> HIDE DEF Kinds
  <1> QED BY <1>1, <1>5, <1>6, <1>7, <1>8

\* Before the Elf spawns, run.starting is on record, and run.running before it
\* supervises, adopts, or has a verdict to commit.
OrderInv ==
  /\ "running" \in Logged => "starting" \in Logged
  /\ elf.pc \in {"spawn", "record"} => "starting" \in Logged
  /\ elf.pc \in {"stream", "orphan"} => "running" \in Logged
  /\ elf.pc = "check" /\ elf.own # 0 => "running" \in Logged
  /\ elf.pend \in {"completed", "interrupted"} => "running" \in Logged
  /\ recorded # 0 => "running" \in Logged

\* Every step keeps it so.
LEMMA OrderKeeps ==
  ASSUME Typed, BegunInv, OrderInv, Next
  PROVE  OrderInv'
  <1>1. Logged \subseteq Logged'
    BY RecordMoves
  <1>2. "running" \in Logged' => "starting" \in Logged'
    <2>1. "running" \in Logged' \ Logged => RecordRunning
      BY RecordMoves
    <2>2. RecordRunning => elf.pc = "record"
      BY DEF RecordRunning
    <2> QED BY <1>1, <2>1, <2>2 DEF OrderInv
  <1>3. /\ elf'.pc \in {"spawn", "record"} => "starting" \in Logged'
        /\ elf'.pc \in {"stream", "orphan"} => "running" \in Logged'
        /\ elf'.pend \in {"completed", "interrupted"} => "running" \in Logged'
    <2>1. CASE VerdictMove
      BY <1>1, <2>1 DEF VerdictMove, Kills, OrderInv
    <2>2. CASE UNCHANGED elf
      BY <1>1, <2>2 DEF OrderInv
    <2>3. CASE Leaves \/ Begins \/ Aborts
      BY <2>3 DEF Leaves, Begins, Aborts, Kills
    <2>4. CASE Chooses \/ Launches
      BY <1>1, <2>4 DEF Chooses, Launches, Keeps, OrderInv
    <2>5. CASE Streams \/ Orphans
      BY <1>1, <2>5 DEF Streams, Orphans, OrderInv
    <2>6. CASE Commits
      BY <1>1, <2>6 DEF Commits, Keeps, OrderInv
    <2> QED BY <2>1, <2>2, <2>3, <2>4, <2>5, <2>6, ElfMoves DEF ElfMove
  <1>4. elf'.pc = "check" /\ elf'.own # 0 => "running" \in Logged'
    <2>1. CASE elf'.pc = "check"
      <3>1. UNCHANGED elf \/ Begins
        BY <2>1, ElfMoves DEF VerdictMove, Kills, ElfMove, Leaves, Chooses, Launches, Aborts,
           Streams, Orphans, Commits
      <3>2. rpc = "adopt" => "running" \in Logged
        BY DEF BegunInv
      <3> QED BY <1>1, <3>1, <3>2 DEF Begins, OrderInv
    <2> QED BY <2>1
  <1>5. recorded' # 0 => "running" \in Logged'
    <2>1. CASE recorded' = recorded
      BY <1>1, <2>1 DEF OrderInv
    <2>2. CASE recorded' # recorded
      <3>1. RecordRunning /\ Appends("running")
        BY <2>2 DEF Next, Elf, Caller, Reconcile, StartElf, Check, RecordStarting, RecordRunning, Spawn,
             IngestEvent, Overflow, StreamEnds, OsExit, OrphanGone, TakeCancel, KillOwned, CommitDuplicate,
             CommitFirst, AppendTerminal, LingeringCancel, ElfRaises, ElfKilled, CancelRun, CallElf,
             CallTimesOut, WithoutElf, TerminateRecorded, AppendCancelled, ReadBack, ReconcileNow, Scan,
             Look, Probe, Adopt, RecordExit, Crash, Restart, LeaderExits, GroupDies, runVars
      <3>2. "running" \in Logged'
        <4>1. log \in Seq(Events) /\ "running" \in Events /\ Keyed("running") = {"running"}
          BY DEF Typed, RunTyped, Events, Terminals, Verdicts, Keyed
        <4> QED BY <3>1, <4>1, PutAdds DEF Appends
      <3> QED BY <3>2
    <2> QED BY <2>1, <2>2
  <1> QED BY <1>2, <1>3, <1>4, <1>5 DEF OrderInv

\* A run nobody cancels.
Uncancelled == Logged \cap {"cancelling", "cancelled"} = {}

\* Its events are run.starting, run.running and a terminal one, in this order,
\* and what was not supervised can only have failed.
ShapeInv ==
  Uncancelled =>
    /\ elf.pc \in {"starting", "spawn", "record"} /\ Ended # {} => "running" \in Logged
    /\ \A i \in 1..Len(log) :
         /\ log[i] = "starting" => i = 1
         /\ log[i] = "running" => i = 2
         /\ log[i] \in Terminals => i = Len(log)
         /\ log[i] \in {"completed", "interrupted"} => "running" \in Logged

\* Every step keeps it so.
LEMMA ShapeKeeps ==
  ASSUME Typed, BegunInv, OnceInv, OrderInv, ShapeInv, Next
  PROVE  ShapeInv'
  <1>1. Logged \subseteq Logged' /\ (Uncancelled' => Uncancelled)
    BY RecordMoves DEF Uncancelled
  <1> SUFFICES ASSUME Uncancelled'
               PROVE  /\ elf'.pc \in {"starting", "spawn", "record"} /\ Ended' # {} => "running" \in Logged'
                      /\ \A i \in 1..Len(log') :
                           /\ log'[i] = "starting" => i = 1
                           /\ log'[i] = "running" => i = 2
                           /\ log'[i] \in Terminals => i = Len(log')
                           /\ log'[i] \in {"completed", "interrupted"} => "running" \in Logged'
    BY DEF ShapeInv
  <1>2. Uncancelled
    BY <1>1
  <1>3. elf'.pc \in {"starting", "spawn", "record"} /\ Ended' # {} => "running" \in Logged'
    <2> SUFFICES ASSUME elf'.pc \in {"starting", "spawn", "record"}, Ended' # {}
                 PROVE  "running" \in Logged'
      OBVIOUS
    <2>1. CASE Ended' = Ended
      <3>1. elf.pc \in {"starting", "spawn", "record"}
        BY <2>1, ElfMoves DEF VerdictMove, Kills, ElfMove, Leaves, Begins, Chooses, Launches, Aborts,
           Streams, Orphans, Commits
      <3> QED BY <1>1, <1>2, <2>1, <3>1 DEF ShapeInv
    <2>2. CASE Ended' # Ended
      <3>1. ~AppendTerminal /\ ~ElfRaises
        BY GoneMoves DEF AppendTerminal, ElfRaises, ElfIsGone
      <3>2. Ended' # {"cancelled"}
        BY DEF Uncancelled, Ended
      <3>3. rpc = "record"
        BY <2>2, <3>1, <3>2, RecordMoves, RecMoves
      <3> QED BY <1>1, <3>3 DEF BegunInv
    <2> QED BY <2>1, <2>2
  <1>4. CASE log' = log
    <2>1. Logged' = Logged
      BY <1>4 DEF Logged
    <2> QED BY <1>2, <1>3, <1>4, <2>1 DEF ShapeInv
  <1>5. CASE log' # log
    <2>1. PICK e \in Events : Put(e) /\ Appended(e)
      BY <1>5, LogMoves
    <2> DEFINE n == Len(log)
    <2>2. /\ n \in Nat /\ Len(log') = n + 1
          /\ log'[n + 1] = e
          /\ \A i \in 1..n : log'[i] = log[i]
          /\ \A i \in 1..n : log[i] \notin Keyed(e)
          /\ Logged' = Logged \cup {e}
      BY <1>5, <2>1, PutLast DEF Typed, RunTyped
    <2>3. e \notin {"cancelling", "cancelled"}
      BY <2>2 DEF Uncancelled
    <2>4. \A i \in 1..n : log[i] \in Logged /\ log[i] \in Events
      BY DEF Logged, Typed, RunTyped
    <2>5. /\ {"starting", "running"} \cap Terminals = {} /\ {"completed", "interrupted"} \subseteq Terminals
          /\ Events = Terminals \cup {"starting", "running", "cancelling"}
      BY DEF Terminals, Verdicts, Events
    <2>6. e \in {"starting", "running"} => Ended = {}
      <3> SUFFICES ASSUME e \in {"starting", "running"} PROVE Ended = {}
        OBVIOUS
      <3>1. e \notin Logged
        BY <2>2, <2>5 DEF Keyed, Logged
      <3>2. (e = "starting" /\ elf.pc = "starting") \/ (e = "running" /\ elf.pc = "record")
        <4>1. rpc = "record" => rclass # e
          BY <2>5 DEF Typed, StepsTyped
        <4>2. elf.pc = "append" => elf.pend # e
          BY <2>5 DEF Typed, ElfTyped, ElfStates, PendTyped
        <4> QED BY <2>1, <4>1, <4>2 DEF Appended
      <3>3. "running" \notin Logged
        BY <3>1, <3>2 DEF OrderInv
      <3> QED BY <1>2, <3>2, <3>3 DEF ShapeInv
    <2>7. e \in Terminals => Ended = {}
      BY <2>2 DEF Keyed, Ended, Logged
    <2>8. \A i \in 1..n : log[i] \notin Terminals
      BY <2>4, <2>5, <2>6, <2>7, <2>3, <2>1 DEF Ended
    <2>9. \A i \in 1..n : log[i] \in {"starting", "running"}
      BY <1>2, <2>4, <2>5, <2>8 DEF Uncancelled
    <2>10. \A i \in 1..n : (log[i] = "starting" => i = 1) /\ (log[i] = "running" => i = 2)
      BY <1>2 DEF ShapeInv
    <2>11. e = "starting" => n = 0
      <3> SUFFICES ASSUME e = "starting", n # 0 PROVE FALSE
        BY <2>2
      <3>1. 1 \in 1..n
        BY <2>2
      <3>2. log[1] # "starting"
        BY <2>2, <2>5, <3>1 DEF Keyed
      <3>3. log[1] # "running"
        BY <2>10, <3>1
      <3> QED BY <2>9, <3>1, <3>2, <3>3
    <2>12. e = "running" => n = 1
      <3> SUFFICES ASSUME e = "running" PROVE n = 1
        OBVIOUS
      <3>1. \A i \in 1..n : log[i] = "starting"
        BY <2>2, <2>5, <2>9 DEF Keyed
      <3>2. \A i \in 1..n : i = 1
        BY <2>10, <3>1
      <3>3. n <= 1
        <4> SUFFICES ASSUME n > 1 PROVE FALSE
          BY <2>2
        <4>1. 2 \in 1..n
          BY <2>2
        <4> QED BY <3>2, <4>1
      <3>4. n # 0
        <4>1. "starting" \in Logged
          <5>1. elf.pc = "record" \/ (elf.pc = "append" /\ elf.pend = e) \/ (rpc = "record" /\ rclass = e)
            BY <2>1 DEF Appended
          <5>2. elf.pc = "record"
            BY <2>5, <5>1 DEF Typed, StepsTyped, ElfTyped, ElfStates, PendTyped
          <5> QED BY <5>2 DEF OrderInv
        <4> QED BY <2>2, <4>1 DEF Logged
      <3>5. n \in Nat
        BY <2>2
      <3> HIDE DEF n
      <3> QED BY ONLY <3>3, <3>4, <3>5
    <2>13. e \in {"completed", "interrupted"} => "running" \in Logged'
      <3> SUFFICES ASSUME e \in {"completed", "interrupted"} PROVE "running" \in Logged'
        OBVIOUS
      <3>1. elf.pend = e \/ rpc = "record"
        BY <2>1 DEF Appended
      <3> QED BY <1>1, <3>1 DEF OrderInv, BegunInv
    <2>14. ASSUME NEW i \in 1..Len(log')
           PROVE  /\ log'[i] = "starting" => i = 1
                  /\ log'[i] = "running" => i = 2
                  /\ log'[i] \in Terminals => i = Len(log')
                  /\ log'[i] \in {"completed", "interrupted"} => "running" \in Logged'
      <3>1. CASE i \in 1..n
        BY <2>2, <2>5, <2>8, <2>10, <3>1
      <3>2. CASE i = n + 1
        <4>1. log'[i] = e
          BY <2>2, <3>2
        <4> QED BY <2>2, <2>11, <2>12, <2>13, <3>2, <4>1
      <3> QED BY <2>2, <3>1, <3>2
    <2> HIDE DEF n
    <2> QED BY <1>3, <2>14
  <1> QED BY <1>4, <1>5

-----------------------------------------------------------------------------
(* Types of the rest                                                       *)

RestTyped ==
  /\ starts <= MaxStarts /\ faults \in [Faults -> 0..MaxFaults]
  /\ mail \in BOOLEAN /\ up \in BOOLEAN /\ rfail \in BOOLEAN
  /\ reply \in {"none", "cancelled", "already_terminal", "error"}
  /\ cvia \in {"none", "elf", "caller"}

\* While another fault may occur, no kind of fault has used them all up.
LEMMA FaultsBelow ==
  ASSUME faults \in [Faults -> 0..MaxFaults], FaultsLeft, NEW kind \in Faults
  PROVE  faults[kind] < MaxFaults
  <1> DEFINE all == UNION {{k} \X (1..faults[k]) : k \in Faults}
             one == {kind} \X (1..faults[kind])
             count == faults[kind]
  <1>1. MaxFaults \in Nat /\ Faults \subseteq {"append", "raise", "kill", "node"}
    BY ElfAssumption
  <1>2. count \in Nat
    BY <1>1
  <1>3. IsFiniteSet(Faults)
    <2>1. IsFiniteSet({"append", "raise", "kill", "node"})
      BY FourElements
    <2>2. Faults \in SUBSET {"append", "raise", "kill", "node"}
      BY <1>1
    <2> QED BY <2>1, <2>2, FS_Subset
  <1>4. IsFiniteSet(Faults \X (1..MaxFaults))
    <2>1. 1 \in Int /\ MaxFaults \in Int
      BY <1>1
    <2>2. IsFiniteSet(1..MaxFaults)
      BY <2>1, FS_Interval
    <2> QED BY <1>3, <2>2, FS_Product
  <1>5. all \in SUBSET (Faults \X (1..MaxFaults))
    <2>1. \A k \in Faults : 1..faults[k] \subseteq 1..MaxFaults
      BY <1>1
    <2> QED BY <2>1
  <1>6. IsFiniteSet(all)
    BY <1>4, <1>5, FS_Subset
  <1>7. one \in SUBSET all
    OBVIOUS
  <1>8. Cardinality(one) = count
    <2>1. 1 \in Int /\ count \in Int
      BY <1>2
    <2>2. IsFiniteSet(1..count) /\ Cardinality(1..count) = IF 1 > count THEN 0 ELSE count - 1 + 1
      BY <2>1, FS_Interval
    <2>3. Cardinality(1..count) = count
      <3> HIDE DEF count
      <3> QED BY <1>2, <2>2
    <2>4. IsFiniteSet({kind}) /\ Cardinality({kind}) = 1
      BY FS_Singleton
    <2>5. Cardinality(one) = Cardinality({kind}) * Cardinality(1..count)
      BY <2>2, <2>4, FS_Product
    <2> HIDE DEF one, count
    <2> QED BY <1>2, <2>3, <2>4, <2>5
  <1>9. Cardinality(all) < MaxFaults
    BY DEF FaultsLeft
  <1> HIDE DEF all, one
  <1>10. Cardinality(one) <= Cardinality(all) /\ Cardinality(all) \in Nat
    BY <1>6, <1>7, FS_Subset, FS_CardinalityType
  <1> DEFINE total == Cardinality(all)
  <1>11. count <= total /\ total \in Nat /\ total < MaxFaults
    BY <1>8, <1>9, <1>10
  <1>12. count < MaxFaults
    <2> HIDE DEF count, total
    <2> QED BY ONLY <1>1, <1>2, <1>11
  <1> QED BY <1>12

\* Every step keeps them.
LEMMA RestKeeps ==
  ASSUME RestTyped, CountersTyped, Next
  PROVE  RestTyped'
  <1> USE DEF callerVars, recVars
  <1>1. faults' \in [Faults -> 0..MaxFaults]
    <2>1. CASE UNCHANGED faults
      BY <2>1 DEF RestTyped
    <2>2. ASSUME NEW kind \in Faults, Fault(kind) PROVE faults' \in [Faults -> 0..MaxFaults]
      <3>1. MaxFaults \in Nat /\ faults \in [Faults -> 0..MaxFaults] /\ FaultsLeft
        BY <2>2, ElfAssumption DEF RestTyped, Fault
      <3>2. faults[kind] + 1 \in 0..MaxFaults
        BY <3>1, FaultsBelow
      <3>3. faults' = [faults EXCEPT ![kind] = faults[kind] + 1]
        BY <2>2 DEF Fault
      <3> QED BY <3>1, <3>2, <3>3
    <2> QED BY <2>1, <2>2, CounterMoves
  <1>2. starts' <= MaxStarts
    <2>1. CASE StartElf
      BY <2>1, ElfAssumption DEF StartElf, CountersTyped
    <2>2. CASE UNCHANGED starts
      BY <2>2 DEF RestTyped
    <2> QED BY <2>1, <2>2 DEF Next, Elf, IngestEvent, Overflow, StreamEnds, ElfRaises, ElfKilled,
             CancelRun, Caller, CallTimesOut, ReconcileNow, Reconcile, Crash, Restart, LeaderExits,
             GroupDies, Check, RecordStarting, Spawn, RecordRunning, OsExit, OrphanGone, TakeCancel,
             KillOwned, CommitDuplicate, CommitFirst, AppendTerminal, LingeringCancel, CallElf,
             WithoutElf, TerminateRecorded, AppendCancelled, ReadBack, Scan, Look, Probe, Adopt,
             RecordExit
  <1>3. mail' \in BOOLEAN /\ up' \in BOOLEAN /\ rfail' \in BOOLEAN
    <2>1. mail' \in {mail, TRUE, FALSE} /\ up' \in {up, TRUE, FALSE} /\ rfail' \in {rfail, TRUE, FALSE}
      <3>1. CASE StartElf \/ Elf \/ IngestEvent \/ Overflow \/ StreamEnds \/ ElfRaises \/ ElfKilled
                 \/ \E g \in Groups : LeaderExits(g) \/ GroupDies(g)
        BY <3>1 DEF Elf, StartElf, Check, RecordStarting, Spawn, RecordRunning, IngestEvent,
           Overflow, StreamEnds, OsExit, OrphanGone, TakeCancel, KillOwned, CommitDuplicate,
           CommitFirst, AppendTerminal, LingeringCancel, ElfRaises, ElfKilled, ElfIsGone,
           Become, LeaderExits, GroupDies
      <3>2. CASE CancelRun \/ Caller \/ CallTimesOut
        BY <3>2 DEF CancelRun, Caller, CallTimesOut, CallElf, WithoutElf, TerminateRecorded,
           AppendCancelled, ReadBack
      <3>3. CASE ReconcileNow \/ Reconcile \/ Crash \/ Restart
        BY <3>3 DEF ReconcileNow, Reconcile, Scan, Look, Probe, Adopt, RecordExit, Crash, Restart, RecGo
      <3> QED BY <3>1, <3>2, <3>3 DEF Next
    <2> QED BY <2>1 DEF RestTyped
  <1>4. /\ reply' \in {reply, "cancelled", "already_terminal", "error"}
        /\ cvia' \in {cvia, "elf", "caller"}
    <2>1. CASE StartElf \/ Elf \/ IngestEvent \/ Overflow \/ StreamEnds \/ ElfRaises \/ ElfKilled
               \/ \E g \in Groups : LeaderExits(g) \/ GroupDies(g)
      BY <2>1 DEF Elf, StartElf, Check, RecordStarting, Spawn, RecordRunning, IngestEvent,
         Overflow, StreamEnds, OsExit, OrphanGone, TakeCancel, KillOwned, CommitDuplicate,
         CommitFirst, AppendTerminal, LingeringCancel, ElfRaises, ElfKilled, ElfIsGone, Abandon,
         Become, Answer, LeaderExits, GroupDies
    <2>2. CASE CancelRun \/ Caller \/ CallTimesOut
      BY <2>2 DEF CancelRun, Caller, CallTimesOut, CallElf, WithoutElf, TerminateRecorded,
         AppendCancelled, ReadBack, Reply, CallerGo
    <2>3. CASE ReconcileNow \/ Reconcile \/ Crash \/ Restart
      BY <2>3 DEF ReconcileNow, Reconcile, Scan, Look, Probe, Adopt, RecordExit, Crash, Restart
    <2> QED BY <2>1, <2>2, <2>3 DEF Next
  <1> QED BY <1>1, <1>2, <1>3, <1>4 DEF RestTyped

-----------------------------------------------------------------------------
(* The projection                                                          *)

\* What the projector makes of an event that follows the state s.
After(s, e) == RunTarget(s, ActionOf[e])

\* The recursion, unfolded.
LEMMA ProjectedUnfolds ==
  /\ Projected[0] = "requested"
  /\ \A n \in 1..4 : Projected[n] = After(Projected[n - 1], log[n])
  <1> DEFINE p1 == After("requested", log[1])
             p2 == After(p1, log[2])
             p3 == After(p2, log[3])
             p4 == After(p3, log[4])
             Step(h) == [n \in 0..4 |-> IF n = 0 THEN "requested" ELSE After(h[n - 1], log[n])]
             g == [n \in 0..4 |-> IF n = 0 THEN "requested" ELSE IF n = 1 THEN p1
                                  ELSE IF n = 2 THEN p2 ELSE IF n = 3 THEN p3 ELSE p4]
  <1>1. g = Step(g)
    <2>1. /\ g[0] = "requested" /\ g[1] = p1 /\ g[2] = p2 /\ g[3] = p3 /\ g[4] = p4
      OBVIOUS
    <2>2. \A n \in 0..4 : n = 0 \/ n = 1 \/ n = 2 \/ n = 3 \/ n = 4
      OBVIOUS
    <2>3. ASSUME NEW n \in 0..4
          PROVE  g[n] = IF n = 0 THEN "requested" ELSE After(g[n - 1], log[n])
      <3>1. CASE n = 0
        BY <2>1, <3>1
      <3>2. CASE n = 1
        BY <2>1, <3>2
      <3>3. CASE n = 2
        BY <2>1, <3>3
      <3>4. CASE n = 3
        BY <2>1, <3>4
      <3>5. CASE n = 4
        BY <2>1, <3>5
      <3> QED BY <2>2, <3>1, <3>2, <3>3, <3>4, <3>5
    <2>4. g = [n \in 0..4 |-> g[n]]
      OBVIOUS
    <2> HIDE DEF g
    <2> QED BY <2>3, <2>4
  <1>2. Projected = CHOOSE h : h = Step(h)
    BY DEF Projected, After
  <1> HIDE DEF g
  <1>3. Projected = Step(Projected)
    <2> HIDE DEF Step
    <2> QED BY <1>1, <1>2
  <1> HIDE DEF Projected
  <1>4. \A n \in 0..4 : Projected[n] = IF n = 0 THEN "requested" ELSE After(Projected[n - 1], log[n])
    BY <1>3
  <1> QED BY <1>4

\* Of the events of a run nobody cancels the projector takes every one.
LEMMA ShapeProjects ==
  ASSUME log \in Seq(Events), OrderInv, ShapeInv
  PROVE  UncancelledProjects
  <1> SUFFICES ASSUME ~InLog({"cancelling", "cancelled"}) PROVE Projects
    BY DEF UncancelledProjects
  <1> DEFINE n == Len(log)
  <1>1. n \in Nat /\ \A i \in 1..n : log[i] \in Events
    OBVIOUS
  <1>2. Uncancelled
    BY InLogMeets DEF Uncancelled
  <1>3. \A i \in 1..n : log[i] \in {"starting", "running"} \cup Terminals
    BY <1>1, <1>2 DEF Uncancelled, Logged, Events
  <1>4. \A i \in 1..n :
          /\ log[i] = "starting" => i = 1
          /\ log[i] = "running" => i = 2
          /\ log[i] \in Terminals => i = n
          /\ log[i] \in {"completed", "interrupted"} => "running" \in Logged
          /\ log[i] # "cancelled"
    BY <1>2 DEF ShapeInv, Uncancelled, Logged
  <1>5. "running" \in Logged => n >= 2
    BY <1>1, <1>4 DEF Logged
  <1> HIDE DEF n
  <1>6. n = 0 \/ n = 1 \/ n = 2 \/ n = 3
    <2> SUFFICES ASSUME n > 3 PROVE FALSE
      BY <1>1
    <2>1. 3 \in 1..n /\ 3 # n
      BY <1>1
    <2> QED BY <1>3, <1>4, <2>1
  <1>7. n >= 2 => log[1] = "starting"
    <2> SUFFICES ASSUME n >= 2 PROVE log[1] = "starting"
      OBVIOUS
    <2>1. 1 \in 1..n /\ 1 # n
      BY <1>1
    <2> QED BY <1>3, <1>4, <2>1
  <1>8. n = 3 => log[2] = "running"
    <2> SUFFICES ASSUME n = 3 PROVE log[2] = "running"
      OBVIOUS
    <2>1. 2 \in 1..n /\ 2 # n
      BY <1>1
    <2> QED BY <1>3, <1>4, <2>1
  <1>9. n = 1 => log[1] \in {"starting", "failed"}
    <2> SUFFICES ASSUME n = 1 PROVE log[1] \in {"starting", "failed"}
      OBVIOUS
    <2>1. 1 \in 1..n
      BY <1>1
    <2>2. log[1] \notin {"running", "completed", "interrupted", "cancelled"}
      BY <1>4, <1>5, <2>1
    <2> QED BY <1>3, <2>1, <2>2 DEF Terminals, Verdicts
  <1>10. n = 2 => log[2] \in {"running", "failed", "completed", "interrupted"}
    <2> SUFFICES ASSUME n = 2 PROVE log[2] \in {"running", "failed", "completed", "interrupted"}
      OBVIOUS
    <2>1. 2 \in 1..n
      BY <1>1
    <2>2. log[2] \notin {"starting", "cancelled"}
      BY <1>4, <2>1
    <2> QED BY <1>3, <2>1, <2>2 DEF Terminals, Verdicts
  <1>11. n = 3 => log[3] \in Verdicts
    <2> SUFFICES ASSUME n = 3 PROVE log[3] \in Verdicts
      OBVIOUS
    <2>1. 3 \in 1..n
      BY <1>1
    <2>2. log[3] \notin {"starting", "running", "cancelled"}
      BY <1>4, <2>1
    <2> QED BY <1>3, <2>1, <2>2 DEF Terminals
  <1>12. /\ After("requested", "starting") = "starting" /\ After("requested", "failed") = "failed"
         /\ After("starting", "running") = "running"
         /\ \A v \in Verdicts : After("starting", v) \in {"illegal", "failed", "interrupted"}
         /\ After("starting", "failed") = "failed" /\ After("starting", "interrupted") = "interrupted"
         /\ \A v \in Verdicts : After("running", v) = v
    BY DEF After, ActionOf, RunTarget, InFlight, Verdicts
  <1>13. n = 2 => log[2] # "completed"
    <2> SUFFICES ASSUME n = 2, log[2] = "completed" PROVE FALSE
      OBVIOUS
    <2>1. "running" \in Logged
      BY <1>4
    <2>2. \A i \in 1..n : log[i] # "running"
      BY <1>4
    <2> QED BY <2>1, <2>2 DEF Logged, n
  <1>14. /\ Projected[0] = "requested"
         /\ Projected[1] = After(Projected[0], log[1])
         /\ Projected[2] = After(Projected[1], log[2])
         /\ Projected[3] = After(Projected[2], log[3])
    BY ProjectedUnfolds
  <1>15. Projected[n] # "illegal"
    <2>1. CASE n = 0
      BY <1>14, <2>1
    <2>2. CASE n = 1
      BY <1>9, <1>12, <1>14, <2>2
    <2>3. CASE n = 2
      BY <1>7, <1>10, <1>12, <1>13, <1>14, <2>3
    <2>4. CASE n = 3
      <3>1. Projected[2] = "running"
        BY <1>7, <1>8, <1>12, <1>14, <2>4
      <3> QED BY <1>11, <1>12, <1>14, <2>4, <3>1 DEF Verdicts
    <2> QED BY <1>6, <2>1, <2>2, <2>3, <2>4
  <1> QED BY <1>15 DEF Projects, n

LogInv == RestTyped /\ OnceInv /\ OrderInv /\ ShapeInv

\* They hold in every reachable state.
LEMMA LogInvariance == Spec => [](RunInv /\ LogInv)
  <1>1. Init => LogInv
    <2>1. Init => Logged = {} /\ Len(log) = 0 /\ elf.pc = "none" /\ elf.pend = "none"
      BY DEF Init, Logged, NoElf
    <2>2. Init => RestTyped
      <3>1. MaxStarts \in Nat /\ 0 <= MaxStarts /\ 0 \in 0..MaxFaults
        BY ElfAssumption
      <3> QED BY <3>1 DEF Init, RestTyped
    <2>3. Init => OnceInv /\ OrderInv /\ ShapeInv
      BY <2>1 DEF OnceInv, OrderInv, ShapeInv, Init
    <2> QED BY <2>2, <2>3 DEF LogInv
  <1>2. LogInv /\ RunInv /\ [Next]_vars => LogInv'
    <2>1. ASSUME LogInv, UNCHANGED vars PROVE LogInv'
      <3>1. Logged' = Logged /\ Ended' = Ended /\ Uncancelled' = Uncancelled
        BY <2>1 DEF vars, runVars, Logged, Ended, Uncancelled
      <3> QED BY <2>1, <3>1 DEF LogInv, RestTyped, OnceInv, OrderInv, ShapeInv, vars, runVars,
                 callerVars, recVars
    <2>2. ASSUME LogInv, RunInv, Next PROVE LogInv'
      BY <2>2, RestKeeps, OnceKeeps, OrderKeeps, ShapeKeeps DEF LogInv, RunInv, Typed
    <2> QED BY <2>1, <2>2
  <1> QED BY <1>1, <1>2, RunInvariance, PTL DEF Spec

\* The log of a run is true: it holds each event once and one terminal event, a
\* completion has evidence, a verdict on record decides a plain run, and whatever
\* a run nobody cancels goes through, its goal can be projected.
THEOREM RunLogTrue == Spec => []RunLogIsSound
  <1>1. RunInv /\ LogInv => TypeOK
    <2> SUFFICES ASSUME RunInv, LogInv PROVE TypeOK
      OBVIOUS
    <2>1. log \in Seq(Events) /\ OnceInv /\ Typed /\ RestTyped
      BY DEF RunInv, LogInv, Typed, RunTyped
    <2>2. Len(log) <= 4
      BY <2>1, ShortLog
    <2>3. starts \in 0..MaxStarts
      BY <2>1, ElfAssumption DEF Typed, CountersTyped, RestTyped
    <2> QED BY <2>1, <2>2, <2>3 DEF TypeOK, OnceInv, Typed, RunTyped, ElfTyped, ElfStates, GroupTyped,
               StepsTyped, RestTyped
  <1>2. RunInv /\ LogInv => UncancelledProjects
    BY ShapeProjects DEF RunInv, LogInv, Typed, RunTyped
  <1> QED BY <1>1, <1>2, LogInvariance, VerdictsStand, PTL DEF RunLogIsSound
=============================================================================
