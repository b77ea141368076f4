-------------------------- MODULE DispatchDelivery --------------------------
(***************************************************************************)
(* Durable delivery of one run intent:                                     *)
(*   lib/shoestring/harness/dispatches.ex           rows, claim, outcomes  *)
(*   lib/shoestring/harness/dispatch_worker.ex      the Oban worker        *)
(*   lib/shoestring/harness/dispatch/reconciler.ex  repair at start        *)
(*   lib/shoestring/cobbler/reservation_recovery.ex the never-started fence*)
(*   lib/shoestring/cobbler/wakeups.ex              neutralisation         *)
(*                                                                         *)
(* The dispatch row is the effect truth; Oban jobs are only delivery       *)
(* attempts and may be lost, retried, rescued while still running, or      *)
(* duplicated.  Every database transaction is one step; a process may be   *)
(* interrupted, fail or die between two of them, and what it read in one   *)
(* it may use in a later one.                                              *)
(***************************************************************************)
EXTENDS Naturals, FiniteSets

CONSTANTS Workers,       \* concurrent executions of the dispatch queue
          Jobs,          \* bound: rows Oban may insert for the dispatch
          MaxAttempts,   \* max_attempts of the worker
          MaxFaults,     \* bound: crashes, failed statements, live rescues
          Continuation,  \* the dispatch belongs to a wakeup, which may refuse it later
          Interference   \* plans are revised, reservations fenced, jobs cancelled by hand

ASSUME DeliveryAssumption == /\ 0 \notin Jobs
                             /\ MaxAttempts \in Nat \ {0}
                             /\ MaxFaults \in Nat
                             /\ Continuation \in BOOLEAN
                             /\ Interference \in BOOLEAN

VARIABLES
  run,       \* projected status of the harness_runs row, or "none"
  log,       \* events recorded for the run; an idempotency key each
  dispatch,  \* status of the harness_dispatches row, or "none"
  link,      \* its job_id, or 0
  authority, \* "valid" | "withdrawn" (plan changed) | "settled" (reservation)
  jobs,      \* oban_jobs: state and attempt of each row
  wpc, wjob, wout,  \* each worker: step, job, outcome being recorded
  apc, seen, \* the coordinator and the reconciler: step, rows as they read them
  failures,  \* the reconciler's last pass reported a failure
  up,        \* the application is running
  performed, \* times DispatchEffect.perform took effect
  faults

rowVars    == <<run, log, dispatch, link, authority>>
workerVars == <<wpc, wjob, wout>>
agentVars  == <<apc, seen, failures>>
vars == <<rowVars, jobs, workerVars, agentVars, up, performed, faults>>

Outcomes == {"effect_failed", "effect_unknown", "effect_deferred"}
Statuses == {"requested", "effect_started", "effect_completed", "cancelled"} \cup Outcomes
Reconcilable == {"requested", "effect_started"} \cup Outcomes
TerminalStatuses == Outcomes \cup {"effect_completed", "cancelled"}
LiveStates == {"available", "executing", "retryable"}
Agents == {"coord", "recon"}

RequestedEvents == {"run.requested", "dispatch.requested"}
NothingSeen == [dispatch |-> "none", link |-> 0, fresh |-> FALSE, bare |-> FALSE]

LinkedJob(j) == j # 0 /\ jobs[j].state \in LiveStates
Incomplete == {j \in Jobs : jobs[j].state \in LiveStates}

Init ==
  /\ run = "none" /\ log = {} /\ dispatch = "none" /\ link = 0
  /\ authority = "valid"
  /\ jobs = [j \in Jobs |-> [state |-> "none", attempt |-> 0]]
  /\ wpc = [w \in Workers |-> "idle"]
  /\ wjob = [w \in Workers |-> 0]
  /\ wout = [w \in Workers |-> "none"]
  /\ apc = [a \in Agents |-> "idle"]
  /\ seen = [a \in Agents |-> NothingSeen]
  /\ failures = FALSE
  /\ up = TRUE
  /\ performed = 0
  /\ faults = 0

-----------------------------------------------------------------------------
(* Job insertion inside a transaction: unique per dispatch while any job   *)
(* of it is incomplete, in which case that job is returned and linked.     *)

InsertAndLink ==
  \/ /\ Incomplete # {}
     /\ link' \in Incomplete
     /\ UNCHANGED jobs
  \/ /\ Incomplete = {}
     /\ \E j \in Jobs :
          /\ jobs[j].state = "none"
          /\ \A i \in Jobs : i < j => jobs[i].state # "none"
          /\ jobs' = [jobs EXCEPT ![j] = [state |-> "available", attempt |-> 0]]
          /\ link' = j

Go(a, pc) == apc' = [apc EXCEPT ![a] = pc]
Forget(a) == seen' = [seen EXCEPT ![a] = NothingSeen]
Stop(a) == Go(a, "idle") /\ Forget(a)

\* The reconciler's next item: the run it read as having no dispatch, if any.
NextItem ==
  /\ Go("recon", IF seen["recon"].bare THEN "bareIntent" ELSE "idle")
  /\ Forget("recon")

\* Where an agent goes once the delivery it asked for exists.
Delivered(a) == IF a = "coord" THEN Go(a, "runEvent") /\ UNCHANGED seen ELSE NextItem

\* An {:error, _} result: the coordinator returns it, the reconciler notes it.
Refused(a) == IF a = "coord" THEN Stop(a) /\ UNCHANGED failures
                             ELSE NextItem /\ failures' = TRUE

-----------------------------------------------------------------------------
(* The coordinator: enqueue/3, or grant followed by enqueue_for_run/2.     *)

CreateRunAndDelivery ==
  /\ up /\ apc["coord"] = "idle"
  /\ \/ /\ run = "none" /\ authority = "valid"
        /\ run' = "requested" /\ dispatch' = "requested"
        /\ InsertAndLink
        /\ Go("coord", "runEvent")
     \/ /\ run # "none"        \* recover_run_and_delivery
        /\ Go("coord", "look")
        /\ UNCHANGED <<run, dispatch, jobs, link>>
  /\ UNCHANGED <<log, authority, workerVars, seen, failures, up, performed, faults>>

GrantRun ==
  /\ up /\ apc["coord"] = "idle" /\ run = "none" /\ authority = "valid"
  /\ run' = "requested"
  /\ Go("coord", "grantEvent")
  /\ UNCHANGED <<log, dispatch, link, authority, jobs, workerVars, seen, failures,
                 up, performed, faults>>

AppendRequested ==
  /\ up
  /\ \E step \in {<<"grantEvent", "run.requested", "look">>,
                  <<"runEvent", "run.requested", "dispatchEvent">>,
                  <<"dispatchEvent", "dispatch.requested", "idle">>} :
       /\ apc["coord"] = step[1]
       /\ log' = log \cup {step[2]}
       /\ Go("coord", step[3])
       /\ IF step[3] = "idle" THEN Forget("coord") ELSE UNCHANGED seen
  /\ UNCHANGED <<run, dispatch, link, authority, jobs, workerVars, failures,
                 up, performed, faults>>

\* The calling process dies or gets an error and gives up; nothing is undone.
CoordinatorGivesUp ==
  /\ apc["coord"] # "idle"
  /\ Stop("coord")
  /\ UNCHANGED <<rowVars, jobs, workerVars, failures, up, performed, faults>>

-----------------------------------------------------------------------------
(* ensure_delivery/2: read the row, then act on what was read.             *)

LookUpDelivery(a) ==
  /\ up /\ apc[a] = "look"
  /\ CASE dispatch = "none" -> Go(a, "intent") /\ UNCHANGED <<seen, failures>>
       [] dispatch = "requested" /\ ~LinkedJob(link) ->
            Go(a, "job") /\ UNCHANGED <<seen, failures>>
       [] dispatch = "effect_started" /\ ~LinkedJob(link) -> Refused(a)
       [] OTHER -> Delivered(a) /\ UNCHANGED failures
  /\ UNCHANGED <<rowVars, jobs, workerVars, up, performed, faults>>

CreateIntentAndJob(a) ==
  /\ up /\ apc[a] = "intent"
  /\ \/ /\ authority = "valid" /\ dispatch = "none"
        /\ dispatch' = "requested"
        /\ InsertAndLink
        /\ Delivered(a)
        /\ UNCHANGED failures
     \/ /\ authority = "valid" /\ dispatch # "none"   \* recover_existing_delivery
        /\ Go(a, "look")
        /\ UNCHANGED <<dispatch, jobs, link, seen, failures>>
     \/ /\ authority # "valid"
        /\ Refused(a)
        /\ UNCHANGED <<dispatch, jobs, link>>
  /\ UNCHANGED <<run, log, authority, workerVars, up, performed, faults>>

InsertMissingJob(a) ==
  /\ up /\ apc[a] = "job"
  /\ \/ /\ authority = "valid"
        /\ InsertAndLink
        /\ Delivered(a)
        /\ UNCHANGED failures
     \/ /\ authority # "valid"
        /\ Refused(a)
        /\ UNCHANGED <<jobs, link>>
  /\ UNCHANGED <<run, log, dispatch, authority, workerVars, up, performed, faults>>

-----------------------------------------------------------------------------
(* The reconciler's pass: two queries, then repairs of what they returned. *)

StartReconcile ==            \* handle_call(:reconcile)
  /\ up /\ apc["recon"] = "idle"
  /\ Go("recon", "scan")
  /\ UNCHANGED <<rowVars, jobs, workerVars, seen, failures, up, performed, faults>>

ScanRunOnly ==
  /\ up /\ apc["recon"] = "scan"
  /\ seen' = [seen EXCEPT !["recon"].bare = (run = "requested" /\ dispatch = "none")]
  /\ failures' = FALSE
  /\ Go("recon", "scanDispatches")
  /\ UNCHANGED <<rowVars, jobs, workerVars, up, performed, faults>>

ScanDispatches ==
  /\ up /\ apc["recon"] = "scanDispatches"
  /\ LET found == dispatch \in Reconcilable
         bare  == seen["recon"].bare
     IN /\ seen' = [seen EXCEPT !["recon"] =      \* the fields the repairs look at
                      [dispatch |-> IF found THEN dispatch ELSE "none",
                       link |-> IF dispatch \in {"requested", "effect_started"} THEN link ELSE 0,
                       fresh |-> (found \/ bare) /\ run = "requested",
                       bare |-> bare]]
        /\ Go("recon", IF found \/ bare THEN "repairRun" ELSE "idle")
  /\ UNCHANGED <<rowVars, jobs, workerVars, failures, up, performed, faults>>

\* Runs.reconcile_run/2 on the run as it was read; a failure is noted and the
\* pass goes on with the dispatch.
RepairRun ==
  /\ up /\ apc["recon"] = "repairRun"
  /\ \/ /\ log' = IF seen["recon"].fresh THEN log \cup {"run.requested"} ELSE log
        /\ UNCHANGED <<failures, faults>>
     \/ /\ faults < MaxFaults /\ faults' = faults + 1
        /\ failures' = TRUE
        /\ UNCHANGED log
  /\ CASE seen["recon"].dispatch = "none" -> NextItem
       [] seen["recon"].dispatch = "requested" -> Go("recon", "repairIntent") /\ UNCHANGED seen
       [] seen["recon"].dispatch = "effect_started" ->
            Go("recon", "repairStarted") /\ UNCHANGED seen
       [] OTHER -> Go("recon", "repairEvent") /\ UNCHANGED seen
  /\ UNCHANGED <<run, dispatch, link, authority, jobs, workerVars, up, performed>>

\* requested: ensure_requested_event, then ensure_job for a run still requested.
RepairIntent ==
  /\ up /\ apc["recon"] = "repairIntent"
  /\ log' = log \cup {"dispatch.requested"}
  /\ IF seen["recon"].fresh /\ ~LinkedJob(seen["recon"].link)
     THEN Go("recon", "job") /\ UNCHANGED seen
     ELSE NextItem
  /\ UNCHANGED <<run, dispatch, link, authority, jobs, workerVars, failures,
                 up, performed, faults>>

\* effect_started without a live job: record_effect_outcome(effect_unknown).
RepairStarted ==
  /\ up /\ apc["recon"] = "repairStarted"
  /\ \/ /\ LinkedJob(seen["recon"].link)
        /\ NextItem /\ UNCHANGED <<dispatch, failures>>
     \/ /\ ~LinkedJob(seen["recon"].link)
        /\ dispatch \in {"effect_started", "effect_unknown"}
        /\ dispatch' = "effect_unknown"
        /\ seen' = [seen EXCEPT !["recon"].dispatch = "effect_unknown", !["recon"].link = 0]
        /\ Go("recon", "repairEvent")
        /\ UNCHANGED failures
     \/ /\ ~LinkedJob(seen["recon"].link)
        /\ dispatch \notin {"effect_started", "effect_unknown"}
        /\ Refused("recon") /\ UNCHANGED dispatch
  /\ UNCHANGED <<run, log, link, authority, jobs, workerVars, up, performed, faults>>

RepairOutcomeEvent ==
  /\ up /\ apc["recon"] = "repairEvent"
  /\ log' = log \cup {seen["recon"].dispatch}
  /\ NextItem
  /\ UNCHANGED <<run, dispatch, link, authority, jobs, workerVars, failures,
                 up, performed, faults>>

\* reconcile_run_only: the intent event, then ensure_delivery.
RepairRunOnly ==
  /\ up /\ apc["recon"] = "bareIntent"
  /\ log' = log \cup {"dispatch.requested"}
  /\ Go("recon", "look")
  /\ UNCHANGED <<run, dispatch, link, authority, jobs, workerVars, seen, failures,
                 up, performed, faults>>

\* A statement of an item's repair fails or raises: noted, the pass goes on.
RepairFails ==
  /\ up /\ apc["recon"] \notin {"idle", "scan", "scanDispatches", "repairRun"}
  /\ faults < MaxFaults /\ faults' = faults + 1
  /\ Refused("recon")
  /\ UNCHANGED <<rowVars, jobs, workerVars, up, performed>>

Reconcile == \/ ScanRunOnly \/ ScanDispatches \/ RepairRun \/ RepairIntent
             \/ RepairStarted \/ RepairOutcomeEvent \/ RepairRunOnly
             \/ LookUpDelivery("recon") \/ CreateIntentAndJob("recon")
             \/ InsertMissingJob("recon")

-----------------------------------------------------------------------------
(* The worker: perform/1 on one attempt of a job.                          *)

Step(w, pc) == wpc' = [wpc EXCEPT ![w] = pc]
Record(w, s) == wpc' = [wpc EXCEPT ![w] = "record"] /\ wout' = [wout EXCEPT ![w] = s]

FetchJob(w) ==
  /\ up /\ wpc[w] = "idle"
  /\ \E j \in Jobs :
       /\ jobs[j].state \in {"available", "retryable"}
       /\ jobs' = [jobs EXCEPT ![j] = [state |-> "executing", attempt |-> @.attempt + 1]]
       /\ wjob' = [wjob EXCEPT ![w] = j]
  /\ Step(w, "prepare")
  /\ UNCHANGED <<rowVars, wout, agentVars, up, performed, faults>>

\* Mutant: a failed attempt is discarded instead of retried.
FinishNoRetry(w, result) ==
  /\ jobs' = [jobs EXCEPT ![wjob[w]].state =
                CASE result = "ok" -> "completed"
                  [] result = "cancel" -> "cancelled"
                  [] OTHER -> "discarded"]
  /\ wpc' = [wpc EXCEPT ![w] = "idle"]
  /\ wjob' = [wjob EXCEPT ![w] = 0]
  /\ wout' = [wout EXCEPT ![w] = "none"]

\* Oban acknowledges the attempt by job id, whatever happened to the row since.
Finish(w, result) ==
  /\ jobs' = [jobs EXCEPT ![wjob[w]].state =
                CASE result = "ok" -> "completed"
                  [] result = "cancel" -> "cancelled"
                  [] OTHER -> IF @ # "none" /\ jobs[wjob[w]].attempt < MaxAttempts
                              THEN "retryable" ELSE "discarded"]
  /\ wpc' = [wpc EXCEPT ![w] = "idle"]
  /\ wjob' = [wjob EXCEPT ![w] = 0]
  /\ wout' = [wout EXCEPT ![w] = "none"]

\* prepare_for_effect/2: Runs.reconcile_run, then ensure_requested_event.
PrepareRun(w) ==
  /\ up /\ wpc[w] = "prepare"
  /\ log' = IF run = "requested" THEN log \cup {"run.requested"} ELSE log
  /\ Step(w, "prepareIntent")
  /\ UNCHANGED <<run, dispatch, link, authority, jobs, wjob, wout, agentVars,
                 up, performed, faults>>

PrepareIntent(w) ==
  /\ up /\ wpc[w] = "prepareIntent"
  /\ log' = log \cup {"dispatch.requested"}
  /\ Step(w, "claim")
  /\ UNCHANGED <<run, dispatch, link, authority, jobs, wjob, wout, agentVars,
                 up, performed, faults>>

\* Mutant: the claim does not ask whether another delivery holds it.
ClaimAgain(w) ==
  /\ run = "requested" /\ dispatch \in {"requested", "effect_started"} /\ authority = "valid"
  /\ dispatch' = "effect_started"
  /\ Step(w, "perform")
  /\ UNCHANGED <<jobs, wjob, wout>>

\* claim_effect/3: one immediate transaction decides, then perform/1 acts.
ClaimExecutes(w) ==
  /\ run = "requested" /\ dispatch = "requested" /\ authority = "valid"
  /\ dispatch' = "effect_started"
  /\ Step(w, "perform")
  /\ UNCHANGED <<jobs, wjob, wout>>

ClaimUnauthorized(w) ==
  /\ run = "requested" /\ dispatch = "requested" /\ authority # "valid"
  /\ Finish(w, "error")
  /\ UNCHANGED dispatch

ClaimCancels(w) ==            \* cancel_unstarted_dispatch
  /\ run = "stopped" /\ dispatch = "requested"
  /\ dispatch' = "cancelled"
  /\ Finish(w, "ok")

ClaimDefers(w) ==             \* defer_requested_dispatch
  /\ run = "advanced" /\ dispatch = "requested"
  /\ dispatch' = "effect_deferred"
  /\ Record(w, "effect_deferred")
  /\ UNCHANGED <<jobs, wjob>>

\* Mutant: finding the effect already started is taken for its failure.
ClaimSkipsAsFailed(w) ==
  /\ dispatch # "requested"
  /\ CASE dispatch = "effect_started"  -> Record(w, "effect_failed") /\ UNCHANGED <<jobs, wjob>>
       [] dispatch = "effect_deferred" -> Record(w, "effect_deferred") /\ UNCHANGED <<jobs, wjob>>
       [] dispatch \in {"effect_failed", "effect_unknown"} -> Finish(w, "cancel")
       [] OTHER -> Finish(w, "ok")
  /\ UNCHANGED dispatch

ClaimSkips(w) ==
  /\ dispatch # "requested"
  /\ CASE dispatch = "effect_started"  -> Record(w, "effect_unknown") /\ UNCHANGED <<jobs, wjob>>
       [] dispatch = "effect_deferred" -> Record(w, "effect_deferred") /\ UNCHANGED <<jobs, wjob>>
       [] dispatch \in {"effect_failed", "effect_unknown"} -> Finish(w, "cancel")
       [] OTHER -> Finish(w, "ok")
  /\ UNCHANGED dispatch

ClaimEffect(w) ==
  /\ up /\ wpc[w] = "claim"
  /\ IF "dispatch.requested" \notin log    \* verify_canonical_intent
     THEN Finish(w, "error") /\ UNCHANGED dispatch
     ELSE \/ ClaimExecutes(w) \/ ClaimUnauthorized(w) \/ ClaimCancels(w)
          \/ ClaimDefers(w) \/ ClaimSkips(w)
  /\ UNCHANGED <<run, log, link, authority, agentVars, up, performed, faults>>

\* dispatch_effect().perform/2: delivered; an error, nothing started; or an
\* exception or unrecognised result, started or not.
PerformEffect(w) ==
  /\ up /\ wpc[w] = "perform"
  /\ \/ /\ performed' = performed + 1
        /\ Step(w, "complete") /\ UNCHANGED wout
     \/ /\ UNCHANGED performed
        /\ Record(w, "effect_failed")
     \/ /\ performed' \in {performed, performed + 1}
        /\ Record(w, "effect_unknown")
  /\ UNCHANGED <<rowVars, jobs, wjob, agentVars, up, faults>>

CompleteEffect(w) ==
  /\ up /\ wpc[w] = "complete"
  /\ \/ /\ dispatch \in {"effect_started", "effect_completed"}
        /\ dispatch' = "effect_completed"
        /\ Finish(w, "ok")
     \/ /\ dispatch \notin {"effect_started", "effect_completed"}  \* effect_not_claimed
        /\ Record(w, "effect_unknown")
        /\ UNCHANGED <<dispatch, jobs, wjob>>
  /\ UNCHANGED <<run, log, link, authority, agentVars, up, performed, faults>>

\* Mutant: the recorded outcome overwrites whatever the row says.
RecordOutcomeOverwrites(w) ==
  /\ up /\ wpc[w] = "record"
  /\ dispatch' = wout[w]
  /\ Step(w, "appendOutcome")
  /\ UNCHANGED <<run, log, link, authority, jobs, wjob, wout, agentVars, up, performed, faults>>

\* record_effect_outcome/3: the row, then (a separate step) its event.
RecordOutcome(w) ==
  /\ up /\ wpc[w] = "record"
  /\ \/ /\ dispatch \in {"effect_started", wout[w]}
        /\ dispatch' = wout[w]
        /\ Step(w, "appendOutcome")
        /\ UNCHANGED <<jobs, wjob, wout>>
     \/ /\ dispatch \notin {"effect_started", wout[w]}  \* effect_outcome_not_recordable
        /\ Finish(w, "error")
        /\ UNCHANGED dispatch
  /\ UNCHANGED <<run, log, link, authority, agentVars, up, performed, faults>>

AppendOutcome(w) ==
  /\ up /\ wpc[w] = "appendOutcome"
  /\ log' = log \cup {wout[w]}
  /\ Finish(w, "cancel")
  /\ UNCHANGED <<run, dispatch, link, authority, agentVars, up, performed, faults>>

\* A statement fails: complete_effect falls back to effect_unknown, every
\* other step returns an error and Oban retries the attempt.
WorkerFails(w) ==
  /\ up /\ wpc[w] \notin {"idle", "perform"}
  /\ faults < MaxFaults /\ faults' = faults + 1
  /\ IF wpc[w] = "complete" THEN Record(w, "effect_unknown") /\ UNCHANGED <<jobs, wjob>>
                             ELSE Finish(w, "error")
  /\ UNCHANGED <<rowVars, agentVars, up, performed>>

WorkerSteps(w) == \/ PrepareRun(w) \/ PrepareIntent(w) \/ ClaimEffect(w)
                  \/ PerformEffect(w) \/ CompleteEffect(w) \/ RecordOutcome(w)
                  \/ AppendOutcome(w)

-----------------------------------------------------------------------------
(* Oban around the worker.                                                 *)

Unattended(j) == \A w \in Workers : wjob[w] # j

\* Oban.Lifeline makes an abandoned executing job runnable again.  It judges by
\* age, so a slow attempt still running may be rescued as well: a fault.
RescueJob(j) ==
  /\ up /\ jobs[j].state = "executing"
  /\ \/ Unattended(j) /\ UNCHANGED faults
     \/ ~Unattended(j) /\ faults < MaxFaults /\ faults' = faults + 1
  /\ jobs' = [jobs EXCEPT ![j].state = IF jobs[j].attempt < MaxAttempts THEN "available"
                                                                        ELSE "discarded"]
  /\ UNCHANGED <<rowVars, workerVars, agentVars, up, performed>>

\* Elves.cancel_dispatch/2 first cancels the linked job, killing its attempt.
CancelJob ==
  /\ Interference /\ up /\ LinkedJob(link)
  /\ jobs' = [jobs EXCEPT ![link].state = "cancelled"]
  /\ wpc' = [w \in Workers |-> IF wjob[w] = link THEN "idle" ELSE wpc[w]]
  /\ wout' = [w \in Workers |-> IF wjob[w] = link THEN "none" ELSE wout[w]]
  /\ wjob' = [w \in Workers |-> IF wjob[w] = link THEN 0 ELSE wjob[w]]
  /\ UNCHANGED <<rowVars, agentVars, up, performed, faults>>

-----------------------------------------------------------------------------
(* The run, seen from here: its Elf records that it started, someone that  *)
(* it stops, and the projection of both into the row lags behind.          *)

\* The Elf is started by the effect, or by Elves.start_run/3 itself right after
\* enqueue; either way only behind a recorded intent and no terminal event.
RunStarts ==
  /\ up /\ "dispatch.requested" \in log /\ "run.stopped" \notin log
  /\ log' = log \cup {"run.starting"}
  /\ UNCHANGED <<run, dispatch, link, authority, jobs, workerVars, agentVars,
                 up, performed, faults>>

CancelRun ==
  /\ up /\ run # "none"
  /\ log' = log \cup {"run.stopped"}
  /\ UNCHANGED <<run, dispatch, link, authority, jobs, workerVars, agentVars,
                 up, performed, faults>>

ProjectedStatus == CASE "run.stopped" \in log -> "stopped"
                     [] "run.starting" \in log -> "advanced"
                     [] OTHER -> "requested"

ProjectRun ==
  /\ up /\ run # "none"
  /\ run' = ProjectedStatus
  /\ UNCHANGED <<log, dispatch, link, authority, jobs, workerVars, agentVars,
                 up, performed, faults>>

\* A newer plan revision is approved or the task retired.
WithdrawAuthority ==
  /\ Interference /\ up /\ authority = "valid"
  /\ authority' = "withdrawn"
  /\ UNCHANGED <<run, log, dispatch, link, jobs, workerVars, agentVars,
                 up, performed, faults>>

\* ReservationRecovery.cancel_unstarted/3: in one write transaction, a run with
\* only its intent on record is fenced off and its reservation settled.
FenceUnstarted ==
  /\ Interference /\ up /\ authority # "settled"
  /\ run = "requested" /\ log \subseteq RequestedEvents
  /\ dispatch \in {"none", "requested", "cancelled"}
  /\ log' = log \cup {"run.requested", "run.stopped"}
  /\ dispatch' = IF dispatch = "none" THEN "none" ELSE "cancelled"
  /\ authority' = "settled"
  /\ UNCHANGED <<run, link, jobs, workerVars, agentVars, up, performed, faults>>

\* Wakeups.neutralize_pending_continuation/5: a retried wakeup that is now
\* refused reads the row and, outside any transaction, overwrites its status.
NeutralizeReads ==
  /\ Continuation /\ up /\ apc["coord"] = "idle" /\ dispatch = "requested"
  /\ Go("coord", "neutralize")
  /\ UNCHANGED <<rowVars, jobs, workerVars, seen, failures, up, performed, faults>>

NeutralizeWrites ==
  /\ up /\ apc["coord"] = "neutralize"
  /\ dispatch' \in {"effect_deferred", "effect_failed"}
  /\ Go("coord", "idle")
  /\ UNCHANGED <<run, log, link, authority, jobs, workerVars, seen, failures,
                 up, performed, faults>>

-----------------------------------------------------------------------------
\* The node goes down: every process is lost, the database is not.
Crash ==
  /\ up /\ faults < MaxFaults /\ faults' = faults + 1
  /\ up' = FALSE
  /\ wpc' = [w \in Workers |-> "idle"]
  /\ wjob' = [w \in Workers |-> 0]
  /\ wout' = [w \in Workers |-> "none"]
  /\ apc' = [a \in Agents |-> "idle"]
  /\ seen' = [a \in Agents |-> NothingSeen]
  /\ failures' = FALSE
  /\ UNCHANGED <<rowVars, jobs, performed>>

Restart ==                   \* init/1: {:continue, :reconcile}
  /\ ~up /\ up' = TRUE
  /\ Go("recon", "scan")
  /\ UNCHANGED <<rowVars, jobs, workerVars, seen, failures, performed, faults>>

Coordinator == \/ CreateRunAndDelivery \/ GrantRun \/ AppendRequested \/ CoordinatorGivesUp
               \/ LookUpDelivery("coord") \/ CreateIntentAndJob("coord")
               \/ InsertMissingJob("coord") \/ NeutralizeReads \/ NeutralizeWrites

Environment == \/ RunStarts \/ CancelRun \/ ProjectRun \/ WithdrawAuthority
               \/ FenceUnstarted \/ CancelJob \/ Crash \/ Restart

Next == \/ Coordinator
        \/ StartReconcile \/ Reconcile \/ RepairFails
        \/ \E w \in Workers : FetchJob(w) \/ WorkerSteps(w) \/ WorkerFails(w)
        \/ \E j \in Jobs : RescueJob(j)
        \/ Environment

Spec == Init /\ [][Next]_vars

\* Processes that run keep running, Oban fetches what is runnable and rescues
\* what was abandoned, and the application is started again after a crash.
\* Nobody has to call enqueue, reconcile_now or cancel.
FairSpec == /\ Spec
            /\ WF_vars(Reconcile) /\ WF_vars(Restart)
            /\ \A w \in Workers : WF_vars(FetchJob(w) \/ WorkerSteps(w))
            /\ WF_vars(\E j \in Jobs : RescueJob(j) /\ Unattended(j))

-----------------------------------------------------------------------------
TypeOK ==
  /\ run \in {"none", "requested", "advanced", "stopped"}
  /\ log \subseteq RequestedEvents \cup Outcomes \cup {"run.starting", "run.stopped"}
  /\ dispatch \in Statuses \cup {"none"}
  /\ link \in Jobs \cup {0}
  /\ authority \in {"valid", "withdrawn", "settled"}
  /\ jobs \in [Jobs -> [state : LiveStates \cup {"none", "completed", "cancelled", "discarded"},
                        attempt : 0..MaxAttempts]]
  /\ wpc \in [Workers -> {"idle", "prepare", "prepareIntent", "claim", "perform",
                          "complete", "record", "appendOutcome"}]
  /\ wjob \in [Workers -> Jobs \cup {0}]
  /\ wout \in [Workers -> Outcomes \cup {"none"}]
  /\ apc \in [Agents -> {"idle", "grantEvent", "runEvent", "dispatchEvent", "look", "intent",
                         "job", "neutralize", "scan", "scanDispatches", "repairRun",
                         "repairIntent", "repairStarted", "repairEvent", "bareIntent"}]
  /\ seen \in [Agents -> [dispatch : Statuses \cup {"none"}, link : Jobs \cup {0},
                          fresh : BOOLEAN, bare : BOOLEAN]]
  /\ failures \in BOOLEAN /\ up \in BOOLEAN
  /\ performed \in Nat /\ faults \in 0..MaxFaults

\* However jobs are retried, rescued while running or inserted again, and
\* wherever a process dies, the external effect takes place at most once
\* (claim_requested_dispatch is the only way to it).
AtMostOnePerform == performed <= 1

\* Every status but effect_started and effect_unknown is definite, and true of
\* the world: completed means the effect took place, failed, deferred and
\* cancelled mean it did not and never will.
DefiniteStatusIsTrue ==
  /\ dispatch = "effect_completed" => performed = 1
  /\ dispatch \in {"none", "requested", "effect_failed", "effect_deferred", "cancelled"}
       => performed = 0

\* A published outcome event is never contradicted: the row it reports keeps
\* that outcome, although row and event are written by separate statements and
\* a later delivery or a stale reconciler pass may come between.
OutcomeEventsAgree == \A o \in Outcomes : o \in log => dispatch = o

\* Once a reservation is settled as never started, nothing starts: no effect
\* took place and no worker is about to let one.
FencedNeverPerformed ==
  authority = "settled" => performed = 0 /\ \A w \in Workers : wpc[w] # "perform"

\* What the database holds of a delivery fits together, in its types and as the
\* last two properties say.
RowsAgree == TypeOK /\ OutcomeEventsAgree /\ FencedNeverPerformed

\* Delivery implements the gate: the intent is on record before the claim, the
\* claim is decided once, the effect is behind it.
IntentRecorded == "dispatch.requested" \in log
GateState == CASE dispatch \in {"none", "requested"} -> "open"
               [] dispatch \in {"cancelled", "effect_deferred"} -> "refused"
               [] OTHER -> "claimed"
Gate == INSTANCE EffectGate WITH intent <- IntentRecorded, gate <- GateState
ImplementsGate == Gate!Spec

\* Left alone, a delivery that is under way ends, whatever fails: its dispatch
\* reaches an outcome, or the last repair pass reported that it failed.  And an
\* outcome row whose event was lost to a crash is published by the repair pass of
\* the next start, unless that pass reports a failure.
DeliveryResolves ==
  /\ dispatch \in {"requested", "effect_started"} ~> (dispatch \in TerminalStatuses \/ failures)
  /\ (~up /\ dispatch \in Outcomes) ~> (dispatch \in log \/ failures)
=============================================================================
