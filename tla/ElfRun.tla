------------------------------- MODULE ElfRun -------------------------------
(***************************************************************************)
(* One supervised run and the OS process group behind it:                  *)
(*   lib/shoestring/elves/elf.ex          the Elf, one process per run     *)
(*   lib/shoestring/elves.ex              start, cancel, reconcile         *)
(*   lib/shoestring/elves/reconciler.ex   the pass at application start    *)
(*   lib/shoestring/elves/port_runner.ex  spawning and killing a group     *)
(*   lib/shoestring/elves/classifier.ex   which terminal event a run gets  *)
(*                                                                         *)
(* The group outlives the Elf and the node.  What ties them together is    *)
(* the trajectory: run.running names the group, each event of the run has  *)
(* an idempotency key of its own, and the four terminal events share one.  *)
(* An Elf is a single process, but between two of its steps a caller of    *)
(* cancel_run that found no Elf, or the reconciler, may append as well.    *)
(* Lease accounting, and API runs without a group, are left out.           *)
(***************************************************************************)
EXTENDS HarnessLifecycle, Naturals, Sequences, FiniteSets

CONSTANTS Owner,     \* process_owner: "runner" (PortRunner) | "adapter" (its session)
          MaxStarts, \* bound: calls of start_elf for the run
          Stubborn,  \* a descendant may ignore SIGTERM
          Faults,    \* which faults occur: "append" | "raise" | "kill" | "node"
          MaxFaults  \* bound: how many of them

ASSUME ElfAssumption == /\ Owner \in {"runner", "adapter"}
                        /\ MaxStarts \in Nat
                        /\ Stubborn \in BOOLEAN
                        /\ Faults \subseteq {"append", "raise", "kill", "node"}
                        /\ MaxFaults \in Nat

VARIABLES
  log,      \* lifecycle events of the run, in sequence order
  recorded, \* the group run.running names, or 0
  evidence, \* persisted adapter events: "progress" and the verdict
  group,    \* per group: "unborn" | "running" | "stragglers" | "dead"
  starts,   \* calls of start_elf so far
  elf,      \* the registered Elf process
  mail,     \* a cancel call is queued at the Elf
  cpc, reply, cvia, \* the caller of cancel_run: step, answer, who answered
  rpc, rclass, rfail, \* the reconciler: step, terminal to record, a failure
  up, faults  \* the node is up; how often each fault has occurred

runVars    == <<log, recorded, evidence>>
callerVars == <<cpc, reply, cvia>>
recVars    == <<rpc, rclass, rfail>>
vars == <<runVars, group, starts, elf, mail, callerVars, recVars, up, faults>>

Groups    == 1..MaxStarts
Verdicts  == {"completed", "interrupted", "failed"}
Terminals == Verdicts \cup {"cancelled"}
Events    == Terminals \cup {"starting", "running", "cancelling"}
Alive(g)  == group[g] \in {"running", "stragglers"}

NoElf == [pc |-> "none", own |-> 0, handle |-> "none", verdict |-> "none",
          ended |-> FALSE, exit |-> "unknown", pend |-> "none"]

InLog(es) == \E i \in 1..Len(log) : log[i] \in es
Terminal  == IF InLog(Terminals)
             THEN CHOOSE e \in Terminals : InLog({e})
             ELSE "none"
Latest == IF log = <<>> THEN "requested" ELSE log[Len(log)]

\* The adapter verdict on record, if any.
RecordedVerdict == IF evidence \cap Verdicts = {} THEN "none"
                   ELSE CHOOSE v \in Verdicts : v \in evidence

Init ==
  /\ log = <<>> /\ recorded = 0 /\ evidence = {}
  /\ group = [g \in Groups |-> "unborn"]
  /\ starts = 0
  /\ elf = NoElf /\ mail = FALSE
  /\ cpc = "idle" /\ reply = "none" /\ cvia = "none"
  /\ rpc = "idle" /\ rclass = "none" /\ rfail = FALSE
  /\ up = TRUE /\ faults = [kind \in Faults |-> 0]

\* Another fault may occur.
FaultsLeft == Cardinality(UNION {{kind} \X (1..faults[kind]) : kind \in Faults}) < MaxFaults

Fault(kind) ==
  /\ kind \in Faults /\ FaultsLeft
  /\ faults' = [faults EXCEPT ![kind] = @ + 1]

\* Trajectory.append with the event's key: a second one finds the first.
Keyed(e) == IF e \in Terminals THEN Terminals ELSE {e}
Put(e) == log' = IF InLog(Keyed(e)) THEN log ELSE Append(log, e)

\* The append succeeds, or it returns an error and nothing is appended.
Appends(e) == Put(e) /\ UNCHANGED faults
AppendFails == Fault("append") /\ UNCHANGED log

-----------------------------------------------------------------------------
(* Operating system                                                        *)

LeaderExits(g) ==
  /\ group[g] = "running"
  /\ group' \in {[group EXCEPT ![g] = s] : s \in {"stragglers", "dead"}}
  /\ UNCHANGED <<runVars, starts, elf, mail, callerVars, recVars, up, faults>>

GroupDies(g) ==
  /\ group[g] = "stragglers"
  /\ group' = [group EXCEPT ![g] = "dead"]
  /\ UNCHANGED <<runVars, starts, elf, mail, callerVars, recVars, up, faults>>

\* TERM, wait until the whole group is gone, else KILL (terminate_pgid).
KillGroup(g) == group' = IF g # 0 /\ Alive(g) THEN [group EXCEPT ![g] = "dead"] ELSE group

\* PortRunner.terminate waits for the leader only; what ignored TERM stays.
TerminateRunner(g) ==
  \/ KillGroup(g)
  \/ Stubborn /\ Alive(g) /\ group' = [group EXCEPT ![g] = "stragglers"]

\* terminate_owned_group
TerminateOwned == CASE elf.handle = "port" -> TerminateRunner(elf.own)
                    [] elf.handle = "pgid" -> KillGroup(elf.own)
                    [] OTHER -> UNCHANGED group

-----------------------------------------------------------------------------
(* The Elf's launch: handle_continue(:launch)                              *)

\* A caller whose message is not going to be read gets an exit.
Abandon == IF cpc = "waiting" THEN cpc' = "without" /\ UNCHANGED <<reply, cvia>>
                               ELSE UNCHANGED callerVars

ElfIsGone == elf' = NoElf /\ mail' = FALSE /\ Abandon

\* The Elf goes on with this group, and with the verdict on record.
Become(pc, own, handle) ==
  /\ elf' = [elf EXCEPT !.pc = pc, !.own = own, !.handle = handle, !.verdict = RecordedVerdict]
  /\ UNCHANGED <<mail, callerVars>>

StartElf ==                \* start_elf; an Elf that is registered is returned
  /\ up /\ starts < MaxStarts
  /\ starts' = starts + 1
  /\ elf' = IF elf.pc = "none" THEN [NoElf EXCEPT !.pc = "check"] ELSE elf
  /\ UNCHANGED <<runVars, group, mail, callerVars, recVars, up, faults>>

\* Mutant: only a group handed over by the reconciler is adopted.
CheckAdoptsGiven ==
  /\ elf.pc = "check"
  /\ CASE Terminal # "none" -> ElfIsGone
       [] Terminal = "none" /\ elf.own # 0 -> Become("orphan", elf.own, "pgid")
       [] OTHER -> Become("starting", 0, "none")
  /\ UNCHANGED <<runVars, group, starts, recVars, up, faults>>

\* reconcile_before_spawn: stop, adopt the group that is given or recorded and
\* alive, or launch.  Its intent is on record: DispatchDelivery.
Check ==
  /\ elf.pc = "check"
  /\ LET given == IF elf.own # 0 THEN elf.own
                  ELSE IF recorded # 0 /\ Alive(recorded) THEN recorded ELSE 0
     IN CASE Terminal # "none" -> ElfIsGone
          [] Terminal = "none" /\ given # 0 -> Become("orphan", given, "pgid")
          [] OTHER -> Become("starting", 0, "none")
  /\ UNCHANGED <<runVars, group, starts, recVars, up, faults>>

\* abort_launch: kill what is owned, then commit a failed terminal.
Abort == elf' = [elf EXCEPT !.pc = "kill", !.pend = "failed"]

RecordStarting ==
  /\ elf.pc = "starting"
  /\ \/ Appends("starting") /\ elf' = [elf EXCEPT !.pc = "spawn"]
     \/ AppendFails /\ Abort
  /\ UNCHANGED <<recorded, evidence, group, starts, mail, callerVars, recVars, up>>

\* The group exists from here on, known to this Elf only.
Spawn ==
  /\ elf.pc = "spawn"
  /\ \/ \E g \in Groups :
          /\ group[g] = "unborn" /\ \A h \in Groups : h < g => group[h] # "unborn"
          /\ group' = [group EXCEPT ![g] = "running"]
          /\ elf' = [elf EXCEPT !.pc = "record", !.own = g,
                                !.handle = IF Owner = "runner" THEN "port" ELSE "pgid"]
     \/ Abort /\ UNCHANGED group
  /\ UNCHANGED <<runVars, starts, mail, callerVars, recVars, up, faults>>

RecordRunning ==
  /\ elf.pc = "record"
  /\ \/ /\ Appends("running")
        /\ recorded' = IF InLog({"running"}) THEN recorded ELSE elf.own
        /\ elf' = [elf EXCEPT !.pc = "stream"]
     \/ AppendFails /\ Abort /\ UNCHANGED recorded
  /\ UNCHANGED <<evidence, group, starts, mail, callerVars, recVars, up>>

-----------------------------------------------------------------------------
(* Supervision                                                             *)

\* Classifier.classify without a cancellation.
Classify(verdict, exit) ==
  CASE verdict # "none" -> verdict
    [] verdict = "none" /\ exit = "zero" /\ "progress" \in evidence -> "completed"
    [] OTHER -> "failed"

\* Kill the owned group first, or commit at once.
KillThen(class)  == elf' = [elf EXCEPT !.pc = "kill", !.pend = class]
CommitNow(class, e) == elf' = [e EXCEPT !.pc = "commit", !.pend = class]

\* ingest_event / after_ingest: persist, and terminalise on a verdict.
IngestEvent ==
  /\ elf.pc = "stream" /\ ~elf.ended
  /\ \/ /\ evidence' = evidence \cup {"progress"}
        /\ UNCHANGED elf
     \/ /\ RecordedVerdict = "none"      \* a seen verdict is skipped
        /\ \E v \in Verdicts : /\ evidence' = evidence \cup {v}
                               /\ KillThen(Classify(v, elf.exit))
  /\ UNCHANGED <<log, recorded, group, starts, mail, callerVars, recVars, up, faults>>

\* An event, or raw output, past a bound; or the adapter's stream errors.
Overflow ==
  /\ elf.pc = "stream"
  /\ KillThen("failed")
  /\ UNCHANGED <<runVars, group, starts, mail, callerVars, recVars, up, faults>>

\* finish_after_stream for a stream that has nothing left.
StreamEnds ==
  /\ elf.pc = "stream" /\ ~elf.ended
  /\ elf' = CASE elf.verdict # "none" -> [elf EXCEPT !.pc = "kill", !.pend = elf.verdict]
              [] elf.verdict = "none" /\ Owner = "adapter" -> elf     \* poll_adapter
              [] elf.verdict = "none" /\ Owner = "runner" /\ elf.handle = "port" ->
                   [elf EXCEPT !.ended = TRUE]                        \* await the exit
              [] OTHER -> [elf EXCEPT !.pc = "commit", !.pend = Classify("none", elf.exit)]
  /\ UNCHANGED <<runVars, group, starts, mail, callerVars, recVars, up, faults>>

\* handle_os_exit: the runner is dropped, and the group's id with it.
OsExit ==
  /\ elf.pc = "stream" /\ elf.handle = "port" /\ group[elf.own] # "running"
  /\ \E status \in {"zero", "nonzero"} :
       LET e == [elf EXCEPT !.exit = status, !.handle = "none", !.own = 0]
       IN IF elf.verdict # "none" \/ elf.ended
          THEN CommitNow(Classify(elf.verdict, status), e)
          ELSE elf' = e
  /\ UNCHANGED <<runVars, group, starts, mail, callerVars, recVars, up, faults>>

\* poll_orphan finds the adopted group gone.
OrphanGone ==
  /\ elf.pc = "orphan" /\ ~Alive(elf.own)
  /\ IF elf.verdict = "none" /\ Owner = "adapter"
     THEN elf' = [elf EXCEPT !.pc = "stream"]
     ELSE KillThen(Classify(elf.verdict, "unknown"))
  /\ UNCHANGED <<runVars, group, starts, mail, callerVars, recVars, up, faults>>

\* handle_call({:cancel, _}) when no terminal is held.
TakeCancel ==
  /\ elf.pc \in {"stream", "orphan"} /\ mail
  /\ mail' = FALSE
  /\ Appends("cancelling") \/ AppendFails      \* its result is not looked at
  /\ KillThen("cancelled")
  /\ UNCHANGED <<recorded, evidence, group, starts, callerVars, recVars, up>>

KillOwned ==
  /\ elf.pc = "kill"
  /\ TerminateOwned
  /\ elf' = [elf EXCEPT !.pc = "commit"]
  /\ UNCHANGED <<runVars, starts, mail, callerVars, recVars, up, faults>>

-----------------------------------------------------------------------------
(* commit_terminal                                                         *)

\* The Elf answers the cancel call it is executing, if its caller still waits.
Answer(r) ==
  IF cpc = "waiting" /\ ~mail
  THEN cpc' = "done" /\ reply' = r /\ cvia' = "elf"
  ELSE UNCHANGED callerVars

\* A terminal is on record already: keep running, report nothing new.
CommitDuplicate ==
  /\ elf.pc = "commit" /\ Terminal # "none"
  /\ elf' = [elf EXCEPT !.pc = "lingering"]
  /\ IF elf.pend = "cancelled" THEN Answer("already_terminal") ELSE UNCHANGED callerVars
  /\ UNCHANGED <<runVars, group, starts, mail, recVars, up, faults>>

CommitFirst ==
  /\ elf.pc = "commit" /\ Terminal = "none"
  /\ elf' = [elf EXCEPT !.pc = "append"]
  /\ UNCHANGED <<runVars, group, starts, mail, callerVars, recVars, up, faults>>

\* append_terminal_event, its result not looked at; then stop :normal.
AppendTerminal ==
  /\ elf.pc = "append"
  /\ Appends(elf.pend) \/ AppendFails
  /\ elf' = NoElf /\ mail' = FALSE
  /\ IF elf.pend = "cancelled" THEN Answer("cancelled") ELSE Abandon
  /\ UNCHANGED <<recorded, evidence, group, starts, recVars, up>>

LingeringCancel ==         \* the Elf that kept running answers
  /\ elf.pc = "lingering" /\ mail
  /\ mail' = FALSE
  /\ IF cpc = "waiting" THEN cpc' = "done" /\ reply' = "already_terminal" /\ cvia' = "elf"
                         ELSE UNCHANGED callerVars
  /\ UNCHANGED <<runVars, group, starts, elf, recVars, up, faults>>

\* An exception or a caught exit: crash_land while launching, terminate/2
\* afterwards.  Both append a failed terminal if they can; neither kills.
ElfRaises ==
  /\ elf.pc \notin {"none", "lingering"} /\ Fault("raise")
  /\ Put("failed") \/ UNCHANGED log
  /\ ElfIsGone
  /\ UNCHANGED <<recorded, evidence, group, starts, recVars, up>>

ElfKilled ==
  /\ elf.pc # "none" /\ Fault("kill")
  /\ ElfIsGone
  /\ UNCHANGED <<runVars, group, starts, recVars, up>>

Elf == \/ Check \/ RecordStarting \/ Spawn \/ RecordRunning
       \/ OsExit \/ OrphanGone \/ TakeCancel \/ KillOwned
       \/ CommitDuplicate \/ CommitFirst \/ AppendTerminal \/ LingeringCancel

-----------------------------------------------------------------------------
(* cancel_run                                                              *)

Reply(r) == cpc' = "done" /\ reply' = r /\ cvia' = "caller"
CallerGo(pc) == cpc' = pc /\ UNCHANGED <<reply, cvia>>

CancelRun ==
  /\ up /\ cpc = "idle"
  /\ CASE Terminal # "none" -> Reply("already_terminal")
       [] Terminal = "none" /\ elf.pc # "none" -> CallerGo("call")
       [] OTHER -> CallerGo("without")
  /\ UNCHANGED <<runVars, group, starts, elf, mail, recVars, up, faults>>

CallElf ==
  /\ cpc = "call"
  /\ IF elf.pc # "none" THEN CallerGo("waiting") /\ mail' = TRUE
                         ELSE CallerGo("without") /\ UNCHANGED mail
  /\ UNCHANGED <<runVars, group, starts, elf, recVars, up, faults>>

CallTimesOut ==            \* the message stays in the mailbox
  /\ cpc = "waiting"
  /\ CallerGo("without")
  /\ UNCHANGED <<runVars, group, starts, elf, mail, recVars, up, faults>>

WithoutElf ==              \* cancel_without_elf
  /\ cpc = "without"
  /\ IF Terminal # "none" THEN Reply("already_terminal") ELSE CallerGo("terminate")
  /\ UNCHANGED <<runVars, group, starts, elf, mail, recVars, up, faults>>

TerminateRecorded ==
  /\ cpc = "terminate"
  /\ KillGroup(recorded)
  /\ CallerGo("cancelling")
  /\ UNCHANGED <<runVars, starts, elf, mail, recVars, up, faults>>

AppendCancelled ==
  /\ \/ /\ cpc = "cancelling"
        /\ \/ Appends("cancelling") /\ CallerGo("cancelled")
           \/ AppendFails /\ Reply("error")
     \/ /\ cpc = "cancelled"
        /\ \/ Appends("cancelled") /\ CallerGo("readback")
           \/ AppendFails /\ Reply("error")
  /\ UNCHANGED <<recorded, evidence, group, starts, elf, mail, recVars, up>>

\* Mutant: the terminal that won the race is not read back.
NoReadBack ==
  /\ cpc = "readback"
  /\ Reply("cancelled")
  /\ UNCHANGED <<runVars, group, starts, elf, mail, recVars, up, faults>>

ReadBack ==
  /\ cpc = "readback"
  /\ Reply(IF Terminal = "cancelled" THEN "cancelled" ELSE "already_terminal")
  /\ UNCHANGED <<runVars, group, starts, elf, mail, recVars, up, faults>>

Caller == CallElf \/ WithoutElf \/ TerminateRecorded \/ AppendCancelled \/ ReadBack

-----------------------------------------------------------------------------
(* Elves.Reconciler: reconcile_unfinished                                  *)

RecGo(pc) == rpc' = pc /\ UNCHANGED <<rclass, rfail>>

ReconcileNow ==
  /\ up /\ rpc = "idle"
  /\ rpc' = "scan" /\ rfail' = FALSE /\ UNCHANGED rclass
  /\ UNCHANGED <<runVars, group, starts, elf, mail, callerVars, up, faults>>

Scan ==                    \* only a run whose latest event is run.running
  /\ rpc = "scan"
  /\ RecGo(IF Latest = "running" THEN "look" ELSE "idle")
  /\ UNCHANGED <<runVars, group, starts, elf, mail, callerVars, up, faults>>

Look ==                    \* reconcile/2
  /\ rpc = "look"
  /\ RecGo(IF Terminal # "none" \/ elf.pc # "none" THEN "idle" ELSE "probe")
  /\ UNCHANGED <<runVars, group, starts, elf, mail, callerVars, up, faults>>

\* Mutant: a dead group without a verdict is not reported.
ProbeKeepsQuiet ==
  /\ rpc = "probe"
  /\ IF Alive(recorded) THEN RecGo("adopt")
     ELSE /\ rpc' = IF RecordedVerdict = "none" THEN "idle" ELSE "record"
          /\ rclass' = Classify(RecordedVerdict, "unknown")
          /\ UNCHANGED rfail
  /\ UNCHANGED <<runVars, group, starts, elf, mail, callerVars, up, faults>>

\* Mutant: what the adapter reported is not consulted.
ProbeIgnoresVerdict ==
  /\ rpc = "probe"
  /\ IF Alive(recorded) THEN RecGo("adopt")
     ELSE rpc' = "record" /\ rclass' = "failed" /\ UNCHANGED rfail
  /\ UNCHANGED <<runVars, group, starts, elf, mail, callerVars, up, faults>>

\* reconcile_orphan: adopt, or the verdict on record, or supervisor_crash.
Probe ==
  /\ rpc = "probe"
  /\ IF Alive(recorded) THEN RecGo("adopt")
     ELSE /\ rpc' = "record"
          /\ rclass' = Classify(RecordedVerdict, "unknown")
          /\ UNCHANGED rfail
  /\ UNCHANGED <<runVars, group, starts, elf, mail, callerVars, up, faults>>

Adopt ==
  /\ rpc = "adopt"
  /\ elf' = IF elf.pc = "none" THEN [NoElf EXCEPT !.pc = "check", !.own = recorded] ELSE elf
  /\ RecGo("idle")
  /\ UNCHANGED <<runVars, group, starts, mail, callerVars, up, faults>>

RecordExit ==
  /\ rpc = "record"
  /\ \/ Appends(rclass) /\ UNCHANGED rfail
     \/ AppendFails /\ rfail' = TRUE
  /\ rpc' = "idle" /\ rclass' = "none"
  /\ UNCHANGED <<recorded, evidence, group, starts, elf, mail, callerVars, up>>

Reconcile == Scan \/ Look \/ Probe \/ Adopt \/ RecordExit

-----------------------------------------------------------------------------
Crash ==                   \* the node goes down; groups and database survive
  /\ up /\ Fault("node")
  /\ up' = FALSE
  /\ elf' = NoElf /\ mail' = FALSE
  /\ cpc' = IF cpc = "done" THEN "done" ELSE "idle"
  /\ rpc' = "idle" /\ rclass' = "none" /\ rfail' = FALSE
  /\ UNCHANGED <<runVars, group, starts, reply, cvia>>

Restart ==
  /\ ~up /\ up' = TRUE
  /\ rpc' = "scan"
  /\ UNCHANGED <<runVars, group, starts, elf, mail, callerVars, rclass, rfail, faults>>

Next == \/ StartElf \/ Elf
        \/ IngestEvent \/ Overflow \/ StreamEnds
        \/ ElfRaises \/ ElfKilled
        \/ CancelRun \/ Caller \/ CallTimesOut
        \/ ReconcileNow \/ Reconcile
        \/ Crash \/ Restart
        \/ \E g \in Groups : LeaderExits(g) \/ GroupDies(g)

Spec == Init /\ [][Next]_vars

\* Processes that run keep running and the application is started again.
\* Nothing says that a group ever exits, an adapter reports, or anyone cancels.
FairSpec == Spec /\ WF_vars(Elf) /\ WF_vars(Caller) /\ WF_vars(Reconcile) /\ WF_vars(Restart)
-----------------------------------------------------------------------------
(* Properties                                                              *)

\* Every variable keeps its type; in particular the lifecycle log never holds
\* an event twice and at most one of the four terminal events.
TypeOK ==
  /\ log \in Seq(Events) /\ Len(log) <= 4
  /\ \A i, j \in 1..Len(log) :
       i < j => log[i] # log[j] /\ ~({log[i], log[j]} \subseteq Terminals)
  /\ recorded \in Groups \cup {0}
  /\ evidence \subseteq Verdicts \cup {"progress"}
  /\ group \in [Groups -> {"unborn", "running", "stragglers", "dead"}]
  /\ starts \in 0..MaxStarts /\ faults \in [Faults -> 0..MaxFaults]
  /\ elf \in [pc : {"none", "check", "starting", "spawn", "record", "stream", "orphan",
                    "kill", "commit", "append", "lingering"},
              own : Groups \cup {0}, handle : {"none", "port", "pgid"},
              verdict : Verdicts \cup {"none"}, ended : BOOLEAN,
              exit : {"unknown", "zero", "nonzero"}, pend : Terminals \cup {"none"}]
  /\ mail \in BOOLEAN /\ up \in BOOLEAN /\ rfail \in BOOLEAN
  /\ cpc \in {"idle", "call", "waiting", "without", "terminate", "cancelling",
              "cancelled", "readback", "done"}
  /\ reply \in {"none", "cancelled", "already_terminal", "error"}
  /\ cvia \in {"none", "elf", "caller"}
  /\ rpc \in {"idle", "scan", "look", "probe", "adopt", "record"}
  /\ rclass \in Terminals \cup {"none"}

\* The run never has two live groups.
OneLiveGroup == \A g, h \in Groups : Alive(g) /\ Alive(h) => g = h

\* However often the run is started, whichever appends fail and wherever Elves
\* die: while run.running names every live group that no Elf owns, there is at
\* most one.  The Registry, the kill on abort and adoption see to it.  (A group
\* whose Elf dies before run.running is durable is out of everybody's sight.)
KnownGroupIsAlone == (\A g \in Groups : Alive(g) => g \in {recorded, elf.own}) => OneLiveGroup

\* A completed run did something: the adapter said so, or progress was
\* persisted.  A handshake followed by a clean exit never counts, not even
\* across restarts and adoptions.
CompletedHasEvidence ==
  Terminal = "completed" => evidence \cap {"progress", "completed"} # {}

\* The run is started once, no append fails and the Elf raises nothing.
Plain == starts <= 1 /\ \A kind \in Faults \cap {"append", "raise"} : faults[kind] = 0

\* A verdict the adapter delivered and the Elf persisted decides a plain run,
\* even when Elf or node die before the terminal event: the run ends with that
\* class or as cancelled.
VerdictSurvives ==
  Plain /\ Terminal # "none" /\ RecordedVerdict # "none" => Terminal \in {RecordedVerdict, "cancelled"}

\* For a plain run cancel_run answers what happened, whoever won the race for
\* the terminal event: "cancelled" only for a run that is recorded as cancelled,
\* "already terminal" only for one that is terminal.
CancelReplyIsTrue ==
  Plain => /\ reply = "cancelled" => Terminal = "cancelled"
           /\ reply = "already_terminal" => Terminal # "none"

\* A run found running and without an Elf when a pass starts does not stay so
\* by itself: it becomes terminal, an Elf is started for its live group, the
\* pass reports a failure, or a cancellation has taken the run over meanwhile
\* (a run whose latest event is run.cancelling is left alone by every pass).
RestartResolves ==
  (rpc = "scan" /\ elf.pc = "none" /\ Latest = "running") ~>
    (Terminal # "none" \/ elf.pc # "none" \/ rfail \/ InLog({"cancelling"}))

\* What the harness projector makes of the run's events, at most four (TypeOK;
\* HarnessProjector).
ActionOf == [starting |-> "begin", running |-> "started", completed |-> "complete",
             failed |-> "fail", interrupted |-> "interrupt",
             cancelling |-> "cancel", cancelled |-> "cancelled"]
Projected[n \in 0..4] ==
  IF n = 0 THEN "requested" ELSE RunTarget(Projected[n - 1], ActionOf[log[n]])
Projects == Projected[Len(log)] # "illegal"

\* A run nobody cancels never wedges its goal's projection, whichever Elves,
\* reconcilers, crashes and failed appends its events come from.
UncancelledProjects == ~InLog({"cancelling", "cancelled"}) => Projects

\* What the log says of the run is true and can be projected, in the types of the
\* module and as the three properties above say.
RunLogIsSound == TypeOK /\ CompletedHasEvidence /\ VerdictSurvives /\ UncancelledProjects
=============================================================================
