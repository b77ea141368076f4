----------------------- MODULE DispatchDeliveryProofs -----------------------
(***************************************************************************)
(* Machine-checked proofs about the delivery of a dispatch, for any number *)
(* of workers, jobs, attempts and faults: its types, that the effect takes *)
(* place at most once, and, unless a wakeup may refuse the dispatch later, *)
(* that its row is true, agrees with its events and implements the gate.   *)
(***************************************************************************)
EXTENDS DispatchDelivery, TLAPS

-----------------------------------------------------------------------------
(* Types, and what they need to be kept                                    *)

JobRecords == [state : LiveStates \cup {"none", "completed", "cancelled", "discarded"},
               attempt : 0..MaxAttempts]
WorkerPcs == {"idle", "prepare", "prepareIntent", "claim", "perform", "complete", "record",
              "appendOutcome"}
AgentPcs  == {"idle", "grantEvent", "runEvent", "dispatchEvent", "look", "intent", "job",
              "neutralize", "scan", "scanDispatches", "repairRun", "repairIntent",
              "repairStarted", "repairEvent", "bareIntent"}
Sightings == [dispatch : Statuses \cup {"none"}, link : Jobs \cup {0}, fresh : BOOLEAN,
              bare : BOOLEAN]

\* A job that may be fetched has an attempt left.
JobsTyped ==
  /\ jobs \in [Jobs -> JobRecords]
  /\ \A j \in Jobs : jobs[j].state \in {"available", "retryable"} => jobs[j].attempt < MaxAttempts

RowsTyped ==
  /\ run \in {"none", "requested", "advanced", "stopped"}
  /\ log \subseteq RequestedEvents \cup Outcomes \cup {"run.starting", "run.stopped"}
  /\ dispatch \in Statuses \cup {"none"}
  /\ link \in Jobs \cup {0}
  /\ authority \in {"valid", "withdrawn", "settled"}

\* A worker records an outcome.
WorkersTyped ==
  /\ wpc \in [Workers -> WorkerPcs] /\ wjob \in [Workers -> Jobs \cup {0}]
  /\ wout \in [Workers -> Outcomes \cup {"none"}]
  /\ \A w \in Workers : wpc[w] \in {"record", "appendOutcome"} => wout[w] \in Outcomes

\* The repair pass reads only rows in need of a repair, and publishes outcomes.
AgentsTyped ==
  /\ apc \in [Agents -> AgentPcs] /\ seen \in [Agents -> Sightings] /\ failures \in BOOLEAN
  /\ seen["recon"].dispatch \in Reconcilable \cup {"none"}
  /\ apc["recon"] = "repairEvent" => seen["recon"].dispatch \in Outcomes

RestTyped == up \in BOOLEAN /\ performed \in Nat /\ faults \in 0..MaxFaults

\* The types of the whole state.
Typed == JobsTyped /\ RowsTyped /\ WorkersTyped /\ AgentsTyped /\ RestTyped

\* The parts make up the type invariant of the model.
LEMMA TypedIsTypeOK == Typed => TypeOK
  BY DEF Typed, JobsTyped, RowsTyped, WorkersTyped, AgentsTyped, RestTyped, TypeOK, JobRecords,
         WorkerPcs, AgentPcs, Sightings

\* The initial state is of its type.
LEMMA InitTyped == Init => Typed
  <1> SUFFICES ASSUME Init PROVE Typed
    OBVIOUS
  <1>1. JobsTyped
    BY DeliveryAssumption DEF Init, JobsTyped, JobRecords
  <1>2. RowsTyped /\ RestTyped
    BY DeliveryAssumption DEF Init, RowsTyped, RestTyped
  <1>3. WorkersTyped /\ AgentsTyped
    BY DEF Init, WorkersTyped, AgentsTyped, WorkerPcs, AgentPcs, Sightings, Agents, NothingSeen
  <1> QED BY <1>1, <1>2, <1>3 DEF Typed

\* An inserted or returned job is one of the dispatch's, and can be fetched.
LEMMA InsertKeeps ==
  ASSUME Typed, InsertAndLink
  PROVE  JobsTyped' /\ link' \in Jobs
  <1>1. CASE Incomplete # {} /\ link' \in Incomplete /\ UNCHANGED jobs
    BY <1>1 DEF Typed, JobsTyped, Incomplete
  <1>2. ASSUME NEW j \in Jobs, jobs' = [jobs EXCEPT ![j] = [state |-> "available", attempt |-> 0]],
               link' = j
        PROVE  JobsTyped' /\ link' \in Jobs
    <2>1. [state |-> "available", attempt |-> 0] \in JobRecords /\ 0 < MaxAttempts
      BY DeliveryAssumption DEF JobRecords, LiveStates
    <2> QED BY <1>2, <2>1 DEF Typed, JobsTyped
  <1> QED BY <1>1, <1>2 DEF InsertAndLink

\* An attempt that ends leaves its job completed, cancelled, discarded or, with
\* an attempt left, to be retried, and its worker idle.
LEMMA FinishKeeps ==
  ASSUME Typed, NEW w \in Workers, NEW result \in {"ok", "cancel", "error"}, Finish(w, result)
  PROVE  JobsTyped' /\ WorkersTyped'
  <1>1. WorkersTyped'
    BY DEF Typed, WorkersTyped, Finish, WorkerPcs
  <1> DEFINE ended(j) == CASE result = "ok" -> "completed"
                           [] result = "cancel" -> "cancelled"
                           [] OTHER -> IF jobs[j].state # "none" /\ jobs[j].attempt < MaxAttempts
                                       THEN "retryable" ELSE "discarded"
  <1>2. CASE wjob[w] \in Jobs
    <2>1. jobs' = [jobs EXCEPT ![wjob[w]].state = ended(wjob[w])]
      BY DEF Finish
    <2>2. /\ ended(wjob[w]) \in {"completed", "cancelled", "retryable", "discarded"}
          /\ ended(wjob[w]) = "retryable" => jobs[wjob[w]].attempt < MaxAttempts
      OBVIOUS
    <2> HIDE DEF ended
    <2> QED BY <1>1, <1>2, <2>1, <2>2 DEF Typed, JobsTyped, JobRecords, LiveStates
  <1>3. CASE wjob[w] \notin Jobs
    <2>1. jobs' = jobs
      BY <1>3 DEF Finish, Typed, JobsTyped
    <2> QED BY <1>1, <2>1 DEF Typed, JobsTyped
  <1> QED BY <1>2, <1>3

\* Where an agent goes next, it stays of its type.
LEMMA GoKeeps ==
  ASSUME AgentsTyped, NEW a \in Agents, NEW pc \in AgentPcs \ {"repairEvent"}, Go(a, pc),
         UNCHANGED seen \/ Forget(a), failures' \in BOOLEAN
  PROVE  AgentsTyped'
  <1>1. NothingSeen \in Sightings /\ NothingSeen.dispatch = "none"
    BY DEF NothingSeen, Sightings
  <1>2. seen' \in [Agents -> Sightings] /\ seen'["recon"].dispatch \in Reconcilable \cup {"none"}
    BY <1>1 DEF AgentsTyped, Forget, Agents
  <1>3. /\ apc' \in [Agents -> AgentPcs]
        /\ a = "recon" => apc'["recon"] # "repairEvent"
        /\ a # "recon" => apc'["recon"] = apc["recon"]
    BY DEF AgentsTyped, Go, Agents
  <1>4. a # "recon" => seen'["recon"] = seen["recon"]
    BY DEF AgentsTyped, Forget, Agents
  <1> QED BY <1>2, <1>3, <1>4 DEF AgentsTyped

\* Going on to the pass's next item keeps the agents of their type.
LEMMA NextItemKeeps ==
  ASSUME AgentsTyped, NextItem, failures' \in BOOLEAN
  PROVE  AgentsTyped'
  <1> DEFINE pc == IF seen["recon"].bare THEN "bareIntent" ELSE "idle"
  <1>1. pc \in AgentPcs \ {"repairEvent"} /\ "recon" \in Agents
    BY DEF AgentPcs, Agents
  <1>2. Go("recon", pc) /\ Forget("recon")
    BY DEF NextItem
  <1> HIDE DEF pc
  <1> QED BY <1>1, <1>2, GoKeeps

\* So does stopping.
LEMMA StopKeeps ==
  ASSUME AgentsTyped, NEW a \in Agents, Stop(a), failures' \in BOOLEAN
  PROVE  AgentsTyped'
  <1>1. "idle" \in AgentPcs \ {"repairEvent"}
    BY DEF AgentPcs
  <1> QED BY <1>1, GoKeeps DEF Stop

\* So does an error, returned or noted.
LEMMA RefusedKeeps ==
  ASSUME AgentsTyped, NEW a \in Agents, Refused(a)
  PROVE  AgentsTyped'
  <1>1. failures' \in BOOLEAN
    BY DEF Refused, AgentsTyped
  <1> QED BY <1>1, StopKeeps, NextItemKeeps DEF Refused

\* So does finding the delivery there.
LEMMA DeliveredKeeps ==
  ASSUME AgentsTyped, NEW a \in Agents, Delivered(a), UNCHANGED failures
  PROVE  AgentsTyped'
  <1>1. "runEvent" \in AgentPcs \ {"repairEvent"} /\ failures' \in BOOLEAN
    BY DEF AgentPcs, AgentsTyped
  <1> QED BY <1>1, GoKeeps, NextItemKeeps DEF Delivered

\* Steps that leave a group of the state alone keep its type.
LEMMA Unchanged ==
  ASSUME Typed
  PROVE  /\ UNCHANGED jobs => JobsTyped'
         /\ UNCHANGED rowVars => RowsTyped'
         /\ UNCHANGED workerVars => WorkersTyped'
         /\ UNCHANGED agentVars => AgentsTyped'
         /\ UNCHANGED <<up, performed, faults>> => RestTyped'
  BY DEF Typed, JobsTyped, RowsTyped, WorkersTyped, AgentsTyped, RestTyped, rowVars, workerVars,
         agentVars

\* The steps of ensure_delivery, which the coordinator and the reconciler share.
LEMMA LookUpTyped ==
  ASSUME Typed, NEW a \in Agents, LookUpDelivery(a)
  PROVE  Typed'
  <1>1. AgentsTyped /\ {"intent", "job"} \subseteq AgentPcs \ {"repairEvent"} /\ failures \in BOOLEAN
    BY DEF Typed, AgentsTyped, AgentPcs
  <1>2. \/ \E pc \in {"intent", "job"} : Go(a, pc) /\ UNCHANGED <<seen, failures>>
        \/ Refused(a)
        \/ Delivered(a) /\ UNCHANGED failures
    BY DEF LookUpDelivery
  <1>3. AgentsTyped'
    BY <1>1, <1>2, GoKeeps, RefusedKeeps, DeliveredKeeps
  <1> QED BY <1>3, Unchanged DEF LookUpDelivery, Typed

\* Creating the missing intent and its job keeps the types.
LEMMA CreateIntentTyped ==
  ASSUME Typed, NEW a \in Agents, CreateIntentAndJob(a)
  PROVE  Typed'
  <1>1. AgentsTyped /\ "look" \in AgentPcs \ {"repairEvent"} /\ failures \in BOOLEAN
    BY DEF Typed, AgentsTyped, AgentPcs
  <1>2. AgentsTyped'
    BY <1>1, GoKeeps, RefusedKeeps, DeliveredKeeps DEF CreateIntentAndJob
  <1>3. JobsTyped' /\ link' \in Jobs \cup {0}
    BY InsertKeeps, Unchanged DEF CreateIntentAndJob, Typed, RowsTyped
  <1>4. RowsTyped'
    BY <1>3 DEF CreateIntentAndJob, Typed, RowsTyped, Statuses
  <1> QED BY <1>2, <1>3, <1>4, Unchanged DEF CreateIntentAndJob, Typed

\* Inserting the missing job keeps the types.
LEMMA InsertMissingTyped ==
  ASSUME Typed, NEW a \in Agents, InsertMissingJob(a)
  PROVE  Typed'
  <1>1. AgentsTyped'
    BY RefusedKeeps, DeliveredKeeps DEF InsertMissingJob, Typed
  <1>2. JobsTyped' /\ link' \in Jobs \cup {0}
    BY InsertKeeps, Unchanged DEF InsertMissingJob, Typed, RowsTyped
  <1>3. RowsTyped'
    BY <1>2 DEF InsertMissingJob, Typed, RowsTyped
  <1> QED BY <1>1, <1>2, <1>3, Unchanged DEF InsertMissingJob, Typed

\* A step of the coordinator keeps the types.
LEMMA CoordinatorTyped == Typed /\ Coordinator => Typed'
  <1> SUFFICES ASSUME Typed, Coordinator PROVE Typed'
    OBVIOUS
  <1> USE Unchanged
  <1>0. /\ "coord" \in Agents /\ AgentsTyped /\ failures \in BOOLEAN
        /\ {"idle", "grantEvent", "runEvent", "dispatchEvent", "look", "intent", "job", "neutralize"}
             \subseteq AgentPcs \ {"repairEvent"}
    BY DEF Agents, Typed, AgentsTyped, AgentPcs
  <1>1. CASE CreateRunAndDelivery
    <2>1. JobsTyped' /\ link' \in Jobs \cup {0}
      BY <1>1, InsertKeeps DEF CreateRunAndDelivery, Typed, RowsTyped
    <2>2. RowsTyped' /\ WorkersTyped' /\ RestTyped'
      BY <1>1, <2>1 DEF CreateRunAndDelivery, Typed, RowsTyped, Statuses
    <2>3. AgentsTyped'
      BY <1>0, <1>1, GoKeeps DEF CreateRunAndDelivery
    <2> QED BY <2>1, <2>2, <2>3 DEF Typed
  <1>2. CASE GrantRun
    <2>1. RowsTyped' /\ WorkersTyped' /\ RestTyped' /\ JobsTyped'
      BY <1>2 DEF GrantRun, Typed, RowsTyped
    <2>2. AgentsTyped'
      BY <1>0, <1>2, GoKeeps DEF GrantRun
    <2> QED BY <2>1, <2>2 DEF Typed
  <1>3. CASE AppendRequested
    <2>1. PICK event \in RequestedEvents, pc \in {"look", "dispatchEvent", "idle"} :
             /\ log' = log \cup {event}
             /\ Go("coord", pc) /\ (UNCHANGED seen \/ Forget("coord")) /\ UNCHANGED failures
      BY <1>3 DEF AppendRequested, RequestedEvents
    <2>2. RowsTyped'
      BY <1>3, <2>1 DEF AppendRequested, Typed, RowsTyped
    <2>3. AgentsTyped'
      BY <1>0, <2>1, GoKeeps
    <2> QED BY <1>3, <2>2, <2>3 DEF AppendRequested, Typed
  <1>4. CASE CoordinatorGivesUp
    BY <1>0, <1>4, StopKeeps DEF CoordinatorGivesUp, Typed
  <1>5. CASE LookUpDelivery("coord")
    BY <1>0, <1>5, LookUpTyped
  <1>6. CASE CreateIntentAndJob("coord")
    BY <1>0, <1>6, CreateIntentTyped
  <1>7. CASE InsertMissingJob("coord")
    BY <1>0, <1>7, InsertMissingTyped
  <1>8. CASE NeutralizeReads
    <2>1. AgentsTyped'
      BY <1>0, <1>8, GoKeeps DEF NeutralizeReads
    <2> QED BY <1>8, <2>1 DEF NeutralizeReads, Typed
  <1>9. CASE NeutralizeWrites
    <2>1. AgentsTyped'
      BY <1>0, <1>9, GoKeeps DEF NeutralizeWrites
    <2>2. RowsTyped'
      BY <1>9 DEF NeutralizeWrites, Typed, RowsTyped, Statuses, Outcomes
    <2> QED BY <1>9, <2>1, <2>2 DEF NeutralizeWrites, Typed
  <1> QED BY <1>1, <1>2, <1>3, <1>4, <1>5, <1>6, <1>7, <1>8, <1>9 DEF Coordinator

\* A step of the reconciler keeps the types.
LEMMA ReconcilerTyped == Typed /\ (StartReconcile \/ Reconcile \/ RepairFails) => Typed'
  <1> SUFFICES ASSUME Typed, StartReconcile \/ Reconcile \/ RepairFails PROVE Typed'
    OBVIOUS
  <1> USE Unchanged
  <1>0. /\ "recon" \in Agents /\ AgentsTyped /\ failures \in BOOLEAN
        /\ {"idle", "scan", "scanDispatches", "repairRun", "repairIntent", "repairStarted", "look",
            "job", "bareIntent"} \subseteq AgentPcs \ {"repairEvent"}
    BY DEF Agents, Typed, AgentsTyped, AgentPcs
  <1>1. CASE StartReconcile
    <2>1. AgentsTyped'
      BY <1>0, <1>1, GoKeeps DEF StartReconcile
    <2> QED BY <1>1, <2>1 DEF StartReconcile, Typed
  <1>2. CASE ScanRunOnly
    <2>1. AgentsTyped'
      <3>1. seen' \in [Agents -> Sightings] /\ seen'["recon"].dispatch = seen["recon"].dispatch
        <4> DEFINE bare  == run = "requested" /\ dispatch = "none"
                   sight == [seen["recon"] EXCEPT !.bare = bare]
        <4>1. bare \in BOOLEAN
          OBVIOUS
        <4>2. seen' = [seen EXCEPT !["recon"] = sight]
          BY <1>0, <1>2 DEF ScanRunOnly, AgentsTyped, Sightings
        <4> HIDE DEF bare
        <4>3. sight \in Sightings /\ sight.dispatch = seen["recon"].dispatch
          BY <1>0, <4>1 DEF AgentsTyped, Sightings
        <4> HIDE DEF sight
        <4> QED BY <1>0, <4>2, <4>3 DEF AgentsTyped
      <3>2. apc' \in [Agents -> AgentPcs] /\ apc'["recon"] = "scanDispatches"
        BY <1>0, <1>2 DEF ScanRunOnly, Go, AgentsTyped
      <3> QED BY <1>0, <1>2, <3>1, <3>2 DEF ScanRunOnly, AgentsTyped
    <2> QED BY <1>2, <2>1 DEF ScanRunOnly, Typed
  <1>3. CASE ScanDispatches
    <2>1. AgentsTyped'
      <3>1. seen' \in [Agents -> Sightings] /\ seen'["recon"].dispatch \in Reconcilable \cup {"none"}
        <4> DEFINE found == dispatch \in Reconcilable
                   sight == [dispatch |-> IF found THEN dispatch ELSE "none",
                             link |-> IF dispatch \in {"requested", "effect_started"} THEN link ELSE 0,
                             fresh |-> (found \/ seen["recon"].bare) /\ run = "requested",
                             bare |-> seen["recon"].bare]
        <4>1. seen' = [seen EXCEPT !["recon"] = sight]
          BY <1>3 DEF ScanDispatches
        <4>2. sight.dispatch \in Reconcilable \cup {"none"}
          OBVIOUS
        <4>3. seen["recon"].bare \in BOOLEAN /\ link \in Jobs \cup {0} /\ dispatch \in Statuses \cup {"none"}
          BY <1>0 DEF Typed, RowsTyped, AgentsTyped, Sightings
        <4>4. sight \in Sightings
          BY <4>3, Zenon DEF Sightings
        <4> HIDE DEF sight
        <4> QED BY <1>0, <4>1, <4>2, <4>4 DEF AgentsTyped
      <3>2. apc' \in [Agents -> AgentPcs] /\ apc'["recon"] # "repairEvent"
        BY <1>0, <1>3 DEF ScanDispatches, Go, AgentsTyped
      <3> QED BY <1>0, <1>3, <3>1, <3>2 DEF ScanDispatches, AgentsTyped
    <2> QED BY <1>3, <2>1 DEF ScanDispatches, Typed
  <1>4. CASE RepairRun
    <2>1. AgentsTyped' 
      <3>1. failures' \in BOOLEAN
        BY <1>0, <1>4 DEF RepairRun
      <3>2. CASE seen["recon"].dispatch = "none"
        BY <1>0, <1>4, <3>1, <3>2, NextItemKeeps DEF RepairRun
      <3>3. CASE seen["recon"].dispatch \in {"requested", "effect_started"}
        <4>1. \E pc \in {"repairIntent", "repairStarted"} : Go("recon", pc) /\ UNCHANGED seen
          BY <1>4, <3>3 DEF RepairRun
        <4> QED BY <1>0, <3>1, <4>1, GoKeeps
      <3>4. CASE seen["recon"].dispatch \in Outcomes
        <4>1. Go("recon", "repairEvent") /\ UNCHANGED seen
          BY <1>4, <3>4 DEF RepairRun, Outcomes
        <4>2. "repairEvent" \in AgentPcs
          BY DEF AgentPcs
        <4> QED BY <1>0, <3>1, <3>4, <4>1, <4>2 DEF AgentsTyped, Go
      <3> QED BY <1>0, <3>2, <3>3, <3>4 DEF AgentsTyped, Reconcilable
    <2>2. RowsTyped' /\ RestTyped'
      BY <1>4, DeliveryAssumption DEF RepairRun, Typed, RowsTyped, RestTyped, RequestedEvents
    <2> QED BY <1>4, <2>1, <2>2 DEF RepairRun, Typed
  <1>5. CASE RepairIntent
    <2>1. AgentsTyped'
      BY <1>0, <1>5, GoKeeps, NextItemKeeps DEF RepairIntent
    <2>2. RowsTyped'
      BY <1>5 DEF RepairIntent, Typed, RowsTyped, RequestedEvents
    <2> QED BY <1>5, <2>1, <2>2 DEF RepairIntent, Typed
  <1>6. CASE RepairStarted
    <2>1. AgentsTyped'
      <3>1. CASE NextItem /\ UNCHANGED failures
        BY <1>0, <3>1, NextItemKeeps
      <3>2. CASE Refused("recon")
        BY <1>0, <3>2, RefusedKeeps
      <3>3. CASE /\ seen' = [seen EXCEPT !["recon"].dispatch = "effect_unknown", !["recon"].link = 0]
                 /\ Go("recon", "repairEvent") /\ UNCHANGED failures
        <4>1. seen' \in [Agents -> Sightings] /\ seen'["recon"].dispatch = "effect_unknown"
          <5> DEFINE sight == [seen["recon"] EXCEPT !.dispatch = "effect_unknown", !.link = 0]
          <5>1. "effect_unknown" \in Statuses
            BY DEF Statuses, Outcomes
          <5>2. seen' = [seen EXCEPT !["recon"] = sight]
            BY <1>0, <3>3 DEF AgentsTyped, Sightings
          <5>3. sight \in Sightings /\ sight.dispatch = "effect_unknown"
            BY <1>0, <5>1 DEF AgentsTyped, Sightings
          <5> HIDE DEF sight
          <5> QED BY <1>0, <5>2, <5>3 DEF AgentsTyped
        <4>2. apc' \in [Agents -> AgentPcs]
          BY <1>0, <3>3 DEF AgentsTyped, Go, AgentPcs
        <4> QED BY <1>0, <3>3, <4>1, <4>2 DEF AgentsTyped, Reconcilable, Outcomes
      <3> QED BY <1>6, <3>1, <3>2, <3>3 DEF RepairStarted
    <2>2. RowsTyped'
      BY <1>6 DEF RepairStarted, Typed, RowsTyped, Statuses, Outcomes
    <2> QED BY <1>6, <2>1, <2>2 DEF RepairStarted, Typed
  <1>7. CASE RepairOutcomeEvent
    <2>1. AgentsTyped'
      BY <1>0, <1>7, NextItemKeeps DEF RepairOutcomeEvent
    <2>2. RowsTyped'
      BY <1>0, <1>7 DEF RepairOutcomeEvent, Typed, RowsTyped, AgentsTyped
    <2> QED BY <1>7, <2>1, <2>2 DEF RepairOutcomeEvent, Typed
  <1>8. CASE RepairRunOnly
    <2>1. AgentsTyped'
      BY <1>0, <1>8, GoKeeps DEF RepairRunOnly
    <2>2. RowsTyped'
      BY <1>8 DEF RepairRunOnly, Typed, RowsTyped, RequestedEvents
    <2> QED BY <1>8, <2>1, <2>2 DEF RepairRunOnly, Typed
  <1>9. CASE RepairFails
    <2>1. AgentsTyped'
      BY <1>0, <1>9, RefusedKeeps DEF RepairFails
    <2>2. RestTyped'
      BY <1>9, DeliveryAssumption DEF RepairFails, Typed, RestTyped
    <2> QED BY <1>9, <2>1, <2>2 DEF RepairFails, Typed
  <1> QED BY <1>0, <1>1, <1>2, <1>3, <1>4, <1>5, <1>6, <1>7, <1>8, <1>9, LookUpTyped,
             CreateIntentTyped, InsertMissingTyped DEF Reconcile

\* Recording an outcome, or going to a step that records none, keeps the
\* workers of their type.
LEMMA RecordKeeps ==
  ASSUME WorkersTyped, NEW w \in Workers, UNCHANGED wjob,
         \/ \E o \in Outcomes : Record(w, o)
         \/ \E pc \in WorkerPcs \ {"record", "appendOutcome"} : Step(w, pc) /\ UNCHANGED wout
  PROVE  WorkersTyped'
  <1>1. CASE \E o \in Outcomes : Record(w, o)
    <2>1. PICK o \in Outcomes : Record(w, o)
      BY <1>1
    <2>2. wpc' \in [Workers -> WorkerPcs] /\ wout' \in [Workers -> Outcomes \cup {"none"}]
      BY <2>1 DEF Record, WorkersTyped, WorkerPcs
    <2> QED BY <2>1, <2>2 DEF Record, WorkersTyped
  <1>2. CASE \E pc \in WorkerPcs \ {"record", "appendOutcome"} : Step(w, pc) /\ UNCHANGED wout
    BY <1>2 DEF Step, WorkersTyped
  <1> QED BY <1>1, <1>2

\* The claim keeps the types.
LEMMA ClaimTyped ==
  ASSUME Typed, NEW w \in Workers, ClaimEffect(w)
  PROVE  Typed'
  <1>1. CASE \E r \in {"ok", "cancel", "error"} : Finish(w, r) /\ dispatch' \in {dispatch, "cancelled"}
    <2>1. JobsTyped' /\ WorkersTyped'
      BY <1>1, FinishKeeps
    <2>2. RowsTyped'
      BY <1>1 DEF ClaimEffect, Typed, RowsTyped, Statuses
    <2> QED BY <2>1, <2>2, Unchanged DEF ClaimEffect, Typed
  <1>2. CASE /\ \/ \E o \in Outcomes : Record(w, o)
                \/ Step(w, "perform") /\ UNCHANGED wout
             /\ dispatch' \in {dispatch, "effect_started", "effect_deferred"} /\ UNCHANGED <<jobs, wjob>>
    <2>1. WorkersTyped'
      BY <1>2, RecordKeeps DEF Typed, WorkerPcs
    <2>2. RowsTyped'
      BY <1>2 DEF ClaimEffect, Typed, RowsTyped, Statuses, Outcomes
    <2> QED BY <1>2, <2>1, <2>2, Unchanged DEF ClaimEffect, Typed
  <1>3. CASE ClaimSkips(w)
    <2>1. \/ \E r \in {"ok", "cancel", "error"} : Finish(w, r)
          \/ (\E o \in Outcomes : Record(w, o)) /\ UNCHANGED <<jobs, wjob>>
      BY <1>3 DEF ClaimSkips, Outcomes
    <2> QED BY <1>1, <1>2, <1>3, <2>1 DEF ClaimSkips
  <1> QED BY <1>1, <1>2, <1>3
          DEF ClaimEffect, ClaimExecutes, ClaimUnauthorized, ClaimCancels, ClaimDefers, Outcomes

\* A step of a worker keeps the types.
LEMMA WorkerTyped ==
  ASSUME Typed, NEW w \in Workers, FetchJob(w) \/ WorkerSteps(w) \/ WorkerFails(w)
  PROVE  Typed'
  <1> USE Unchanged
  <1>0. /\ WorkersTyped
        /\ {"idle", "prepare", "prepareIntent", "claim", "perform", "complete"}
             \subseteq WorkerPcs \ {"record", "appendOutcome"}
        /\ {"effect_failed", "effect_unknown"} \subseteq Outcomes
    BY DEF Typed, WorkerPcs, Outcomes
  <1>1. CASE FetchJob(w)
    <2>1. PICK j \in Jobs : /\ jobs[j].state \in {"available", "retryable"}
                            /\ jobs' = [jobs EXCEPT ![j] = [state |-> "executing", attempt |-> @.attempt + 1]]
                            /\ wjob' = [wjob EXCEPT ![w] = j]
      BY <1>1 DEF FetchJob
    <2>2. [state |-> "executing", attempt |-> jobs[j].attempt + 1] \in JobRecords
      <3>1. jobs[j].attempt \in 0..MaxAttempts /\ jobs[j].attempt < MaxAttempts
        BY <2>1 DEF Typed, JobsTyped, JobRecords
      <3>2. jobs[j].attempt + 1 \in 0..MaxAttempts
        BY <3>1, DeliveryAssumption
      <3> QED BY <3>2 DEF JobRecords, LiveStates
    <2>3. JobsTyped'
      BY <2>1, <2>2 DEF Typed, JobsTyped
    <2>4. WorkersTyped'
      BY <1>0, <1>1, <2>1 DEF FetchJob, WorkersTyped, Step
    <2> QED BY <1>1, <2>3, <2>4 DEF FetchJob, Typed
  <1>2. CASE PrepareRun(w)
    <2>1. WorkersTyped'
      BY <1>0, <1>2, RecordKeeps DEF PrepareRun
    <2>2. RowsTyped'
      BY <1>2 DEF PrepareRun, Typed, RowsTyped, RequestedEvents
    <2> QED BY <1>2, <2>1, <2>2 DEF PrepareRun, Typed
  <1>3. CASE PrepareIntent(w)
    <2>1. WorkersTyped'
      BY <1>0, <1>3, RecordKeeps DEF PrepareIntent
    <2>2. RowsTyped'
      BY <1>3 DEF PrepareIntent, Typed, RowsTyped, RequestedEvents
    <2> QED BY <1>3, <2>1, <2>2 DEF PrepareIntent, Typed
  <1>4. CASE PerformEffect(w)
    <2>1. WorkersTyped'
      BY <1>0, <1>4, RecordKeeps DEF PerformEffect
    <2>2. RestTyped'
      BY <1>4 DEF PerformEffect, Typed, RestTyped
    <2> QED BY <1>4, <2>1, <2>2 DEF PerformEffect, Typed
  <1>5. CASE CompleteEffect(w)
    <2>1. CASE dispatch' = "effect_completed" /\ Finish(w, "ok")
      <3>1. JobsTyped' /\ WorkersTyped'
        BY <2>1, FinishKeeps
      <3>2. RowsTyped'
        BY <1>5, <2>1 DEF CompleteEffect, Typed, RowsTyped, Statuses
      <3> QED BY <1>5, <3>1, <3>2 DEF CompleteEffect, Typed
    <2>2. CASE Record(w, "effect_unknown") /\ UNCHANGED <<dispatch, jobs, wjob>>
      <3>1. WorkersTyped'
        BY <1>0, <2>2, RecordKeeps
      <3> QED BY <1>5, <2>2, <3>1 DEF CompleteEffect, Typed, RowsTyped
    <2> QED BY <1>5, <2>1, <2>2 DEF CompleteEffect
  <1>6. CASE RecordOutcome(w)
    <2>1. CASE dispatch' = wout[w] /\ Step(w, "appendOutcome") /\ UNCHANGED <<jobs, wjob, wout>>
      <3>1. wout[w] \in Outcomes
        BY <1>0, <1>6 DEF RecordOutcome, WorkersTyped
      <3>2. WorkersTyped'
        BY <1>0, <2>1, <3>1 DEF WorkersTyped, Step, WorkerPcs
      <3>3. RowsTyped'
        BY <1>6, <2>1, <3>1 DEF RecordOutcome, Typed, RowsTyped, Statuses
      <3> QED BY <1>6, <2>1, <3>2, <3>3 DEF RecordOutcome, Typed
    <2>2. CASE Finish(w, "error") /\ UNCHANGED dispatch
      <3>1. JobsTyped' /\ WorkersTyped'
        BY <2>2, FinishKeeps
      <3> QED BY <1>6, <2>2, <3>1 DEF RecordOutcome, Typed, RowsTyped
    <2> QED BY <1>6, <2>1, <2>2 DEF RecordOutcome
  <1>7. CASE AppendOutcome(w)
    <2>1. JobsTyped' /\ WorkersTyped'
      BY <1>7, FinishKeeps DEF AppendOutcome
    <2>2. wout[w] \in Outcomes
      BY <1>0, <1>7 DEF AppendOutcome, WorkersTyped
    <2>3. RowsTyped'
      BY <1>7, <2>2 DEF AppendOutcome, Typed, RowsTyped
    <2> QED BY <1>7, <2>1, <2>3 DEF AppendOutcome, Typed
  <1>8. CASE WorkerFails(w)
    <2>1. CASE Record(w, "effect_unknown") /\ UNCHANGED <<jobs, wjob>>
      <3>1. WorkersTyped' /\ JobsTyped'
        BY <1>0, <2>1, RecordKeeps
      <3>2. RestTyped'
        BY <1>8, DeliveryAssumption DEF WorkerFails, Typed, RestTyped
      <3> QED BY <1>8, <3>1, <3>2 DEF WorkerFails, Typed
    <2>2. CASE Finish(w, "error")
      <3>1. JobsTyped' /\ WorkersTyped'
        BY <2>2, FinishKeeps
      <3>2. RestTyped'
        BY <1>8, DeliveryAssumption DEF WorkerFails, Typed, RestTyped
      <3> QED BY <1>8, <3>1, <3>2 DEF WorkerFails, Typed
    <2> QED BY <1>8, <2>1, <2>2 DEF WorkerFails
  <1> QED BY <1>1, <1>2, <1>3, <1>4, <1>5, <1>6, <1>7, <1>8, ClaimTyped DEF WorkerSteps

\* A step of Oban, of the run's Elf, of somebody else or of the machine keeps
\* the types.
LEMMA EnvironmentTyped == Typed /\ (Environment \/ \E j \in Jobs : RescueJob(j)) => Typed'
  <1> SUFFICES ASSUME Typed, Environment \/ \E j \in Jobs : RescueJob(j) PROVE Typed'
    OBVIOUS
  <1> USE Unchanged
  <1>1. ASSUME NEW j \in Jobs, RescueJob(j) PROVE Typed'
    <2> DEFINE s == IF jobs[j].attempt < MaxAttempts THEN "available" ELSE "discarded"
    <2>1. jobs' = [jobs EXCEPT ![j].state = s]
      BY <1>1 DEF RescueJob
    <2>2. s \in {"available", "discarded"} /\ (s = "available" => jobs[j].attempt < MaxAttempts)
      OBVIOUS
    <2> HIDE DEF s
    <2>3. JobsTyped'
      BY <2>1, <2>2 DEF Typed, JobsTyped, JobRecords, LiveStates
    <2>4. RestTyped'
      BY <1>1, DeliveryAssumption DEF RescueJob, Typed, RestTyped
    <2> QED BY <1>1, <2>3, <2>4 DEF RescueJob, Typed
  <1>2. CASE CancelJob
    <2>1. JobsTyped'
      BY <1>2 DEF CancelJob, Typed, JobsTyped, JobRecords, RowsTyped, LinkedJob
    <2>2. WorkersTyped'
      BY <1>2 DEF CancelJob, Typed, WorkersTyped, WorkerPcs
    <2> QED BY <1>2, <2>1, <2>2 DEF CancelJob, Typed
  <1>3. CASE RunStarts \/ CancelRun \/ ProjectRun \/ WithdrawAuthority
    <2>1. ProjectedStatus \in {"requested", "advanced", "stopped"}
      BY DEF ProjectedStatus
    <2>2. RowsTyped'
      BY <1>3, <2>1 DEF RunStarts, CancelRun, ProjectRun, WithdrawAuthority, Typed, RowsTyped
    <2> QED BY <1>3, <2>2 DEF RunStarts, CancelRun, ProjectRun, WithdrawAuthority, Typed
  <1>4. CASE FenceUnstarted
    <2>1. RowsTyped'
      BY <1>4 DEF FenceUnstarted, Typed, RowsTyped, RequestedEvents, Statuses
    <2> QED BY <1>4, <2>1 DEF FenceUnstarted, Typed
  <1>5. CASE Crash
    <2>1. WorkersTyped'
      BY <1>5 DEF Crash, WorkersTyped, WorkerPcs
    <2>2. AgentsTyped'
      BY <1>5 DEF Crash, AgentsTyped, AgentPcs, Sightings, Agents, NothingSeen
    <2>3. RestTyped'
      <3>1. faults' \in 0..MaxFaults /\ performed' \in Nat
        BY <1>5, DeliveryAssumption DEF Crash, Typed, RestTyped
      <3>2. up' \in BOOLEAN
        BY <1>5, Zenon DEF Crash
      <3> QED BY <3>1, <3>2 DEF RestTyped
    <2> QED BY <1>5, <2>1, <2>2, <2>3 DEF Crash, Typed
  <1>6. CASE Restart
    <2>1. AgentsTyped'
      BY <1>6, GoKeeps DEF Restart, Typed, AgentsTyped, AgentPcs, Agents
    <2>2. RestTyped'
      BY <1>6 DEF Restart, Typed, RestTyped
    <2> QED BY <1>6, <2>1, <2>2 DEF Restart, Typed
  <1> QED BY <1>1, <1>2, <1>3, <1>4, <1>5, <1>6 DEF Environment

\* Every variable keeps its type.
LEMMA StepTyped == Typed /\ [Next]_vars => Typed'
  <1>1. Typed /\ UNCHANGED vars => Typed'
    BY Unchanged DEF vars, Typed
  <1> QED BY <1>1, CoordinatorTyped, ReconcilerTyped, WorkerTyped, EnvironmentTyped DEF Next

\* Every reachable state is of its type.
LEMMA TypedInvariance == Spec => []Typed
  BY InitTyped, StepTyped, PTL DEF Spec

-----------------------------------------------------------------------------
(* At most once                                                            *)

\* Before the run exists nothing is under way: the intent cannot be created twice.
NothingWithoutRun ==
  run = "none" => /\ dispatch = "none" /\ apc["coord"] = "idle"
                  /\ apc["recon"] \in {"idle", "scan", "scanDispatches"}
                  /\ ~seen["recon"].bare

\* An intent nobody claimed, or that was cancelled, was not performed.
Unclaimed == dispatch \in {"none", "requested", "cancelled"} =>
               performed = 0 /\ \A w \in Workers : wpc[w] # "perform"

\* One worker at most is about to perform the effect, and nobody did before.
OnePerformer ==
  /\ performed <= 1
  /\ \A w \in Workers : wpc[w] = "perform" =>
       performed = 0 /\ \A v \in Workers : wpc[v] = "perform" => v = w

OnceInv == NothingWithoutRun /\ Unclaimed /\ OnePerformer /\ FencedNeverPerformed

\* At first nothing is under way.
LEMMA OnceInit == Init => OnceInv
  BY DEF Init, OnceInv, NothingWithoutRun, Unclaimed, OnePerformer, FencedNeverPerformed,
         NothingSeen, Agents

\* Ending an attempt, recording an outcome and going on leave the other workers
\* where they are.
LEMMA WorkerMoves ==
  ASSUME Typed, NEW w \in Workers
  PROVE  /\ \A r : Finish(w, r) => /\ wpc' = [wpc EXCEPT ![w] = "idle"]
                                   /\ wout' = [wout EXCEPT ![w] = "none"]
         /\ \A o : Record(w, o) => /\ wpc' = [wpc EXCEPT ![w] = "record"]
                                   /\ wout' = [wout EXCEPT ![w] = o]
         /\ \A pc : Step(w, pc) => wpc' = [wpc EXCEPT ![w] = pc]
  BY DEF Finish, Record, Step

\* What a step that is no worker's does to the delivery: nothing is performed,
\* a worker stays where it is or is stopped, and the row changes in five ways.
Bystanding ==
  /\ performed' = performed
  /\ \A w \in Workers : wpc'[w] = "idle" \/ (wpc'[w] = wpc[w] /\ wout'[w] = wout[w])
  /\ \/ dispatch' = dispatch
     \/ dispatch = "none" /\ dispatch' = "requested"
     \/ dispatch \in {"requested", "cancelled"} /\ dispatch' = "cancelled"
     \/ dispatch \in {"effect_started", "effect_unknown"} /\ dispatch' = "effect_unknown"
     \/ apc["coord"] = "neutralize" /\ dispatch' \in {"effect_deferred", "effect_failed"}
  /\ \/ authority' = authority
     \/ authority' = "withdrawn"
     \/ dispatch \in {"none", "requested", "cancelled"}

Bystanders == \/ Coordinator \/ StartReconcile \/ Reconcile \/ RepairFails
              \/ (\E j \in Jobs : RescueJob(j)) \/ Environment

\* Every step that is no worker's is of that kind.
LEMMA BystandersStep ==
  ASSUME Typed, NothingWithoutRun, Bystanders
  PROVE  Bystanding
  <1>0. UNCHANGED workerVars => \A w \in Workers : wpc'[w] = wpc[w] /\ wout'[w] = wout[w]
    BY DEF workerVars
  <1>1. CASE Coordinator
    <2>1. UNCHANGED <<workerVars, performed, authority>>
      BY <1>1 DEF Coordinator, CreateRunAndDelivery, GrantRun, AppendRequested, CoordinatorGivesUp,
             LookUpDelivery, CreateIntentAndJob, InsertMissingJob, NeutralizeReads,
             NeutralizeWrites, rowVars
    <2>2. \/ dispatch' = dispatch
          \/ dispatch = "none" /\ dispatch' = "requested"
          \/ apc["coord"] = "neutralize" /\ dispatch' \in {"effect_deferred", "effect_failed"}
      BY <1>1 DEF Coordinator, CreateRunAndDelivery, GrantRun, AppendRequested, CoordinatorGivesUp,
             LookUpDelivery, CreateIntentAndJob, InsertMissingJob, NeutralizeReads,
             NeutralizeWrites, rowVars, NothingWithoutRun
    <2> QED BY <1>0, <2>1, <2>2 DEF Bystanding
  <1>2. CASE StartReconcile \/ Reconcile \/ RepairFails
    <2>1. UNCHANGED <<workerVars, performed, authority>>
      BY <1>2 DEF StartReconcile, Reconcile, RepairFails, ScanRunOnly, ScanDispatches, RepairRun,
             RepairIntent, RepairStarted, RepairOutcomeEvent, RepairRunOnly, LookUpDelivery,
             CreateIntentAndJob, InsertMissingJob, rowVars
    <2>2. \/ dispatch' = dispatch
          \/ dispatch = "none" /\ dispatch' = "requested"
          \/ dispatch \in {"effect_started", "effect_unknown"} /\ dispatch' = "effect_unknown"
      BY <1>2 DEF StartReconcile, Reconcile, RepairFails, ScanRunOnly, ScanDispatches, RepairRun,
             RepairIntent, RepairStarted, RepairOutcomeEvent, RepairRunOnly, LookUpDelivery,
             CreateIntentAndJob, InsertMissingJob, rowVars
    <2> QED BY <1>0, <2>1, <2>2 DEF Bystanding
  <1>3. CASE (\E j \in Jobs : RescueJob(j)) \/ RunStarts \/ CancelRun \/ ProjectRun \/ WithdrawAuthority
             \/ Restart
    BY <1>0, <1>3 DEF RescueJob, RunStarts, CancelRun, ProjectRun, WithdrawAuthority, Restart,
                      rowVars, Bystanding
  <1>4. CASE FenceUnstarted
    BY <1>0, <1>4 DEF FenceUnstarted, Bystanding
  <1>5. CASE CancelJob \/ Crash
    BY <1>5 DEF CancelJob, Crash, rowVars, Bystanding, Typed, WorkersTyped
  <1> QED BY <1>1, <1>2, <1>3, <1>4, <1>5 DEF Bystanders, Environment

\* No step starts a delivery before its run exists.
LEMMA NothingStep == Typed /\ NothingWithoutRun /\ [Next]_vars => NothingWithoutRun'
  <1> SUFFICES ASSUME Typed, NothingWithoutRun, [Next]_vars, run' = "none" PROVE NothingWithoutRun'
    BY DEF NothingWithoutRun
  <1>0. AgentsTyped /\ {"coord", "recon"} \subseteq Agents /\ "coord" # "recon"
    BY DEF Typed, Agents
  <1>1. run = "none"
    <2>1. CASE UNCHANGED vars
      BY <2>1 DEF vars, rowVars
    <2>2. CASE Coordinator
      BY <2>2 DEF Coordinator, CreateRunAndDelivery, GrantRun, AppendRequested, CoordinatorGivesUp,
             LookUpDelivery, CreateIntentAndJob, InsertMissingJob, NeutralizeReads,
             NeutralizeWrites, rowVars
    <2>3. CASE StartReconcile \/ Reconcile \/ RepairFails
      BY <2>3 DEF StartReconcile, Reconcile, RepairFails, ScanRunOnly, ScanDispatches, RepairRun,
             RepairIntent, RepairStarted, RepairOutcomeEvent, RepairRunOnly, LookUpDelivery,
             CreateIntentAndJob, InsertMissingJob, rowVars
    <2>4. CASE \E w \in Workers : FetchJob(w) \/ WorkerSteps(w) \/ WorkerFails(w)
      BY <2>4 DEF FetchJob, WorkerSteps, WorkerFails, PrepareRun, PrepareIntent, ClaimEffect,
             PerformEffect, CompleteEffect, RecordOutcome, AppendOutcome, rowVars
    <2>5. CASE \E j \in Jobs : RescueJob(j)
      BY <2>5 DEF RescueJob, rowVars
    <2>6. CASE Environment
      <3>1. ProjectedStatus # "none"
        BY DEF ProjectedStatus
      <3> QED BY <2>6, <3>1 DEF Environment, RunStarts, CancelRun, ProjectRun, WithdrawAuthority,
                 FenceUnstarted, CancelJob, Crash, Restart, rowVars
    <2> QED BY <2>1, <2>2, <2>3, <2>4, <2>5, <2>6 DEF Next
  <1>2. /\ dispatch = "none" /\ apc["coord"] = "idle" /\ ~seen["recon"].bare
        /\ apc["recon"] \in {"idle", "scan", "scanDispatches"}
    BY <1>1 DEF NothingWithoutRun
  <1>3. CASE UNCHANGED <<dispatch, apc, seen>>
    BY <1>2, <1>3 DEF NothingWithoutRun
  <1>4. CASE Coordinator
    BY <1>1, <1>2, <1>4 DEF Coordinator, CreateRunAndDelivery, GrantRun, AppendRequested,
           CoordinatorGivesUp, LookUpDelivery, CreateIntentAndJob, InsertMissingJob,
           NeutralizeReads, NeutralizeWrites
  <1>5. CASE StartReconcile
    BY <1>0, <1>2, <1>5 DEF StartReconcile, rowVars, Go, AgentsTyped, NothingWithoutRun
  <1>6. CASE ScanRunOnly
    <2>1. ~seen'["recon"].bare
      BY <1>0, <1>1, <1>6 DEF ScanRunOnly, AgentsTyped, Sightings
    <2> QED BY <1>0, <1>2, <1>6, <2>1 DEF ScanRunOnly, rowVars, Go, AgentsTyped, NothingWithoutRun
  <1>7. CASE ScanDispatches
    <2>1. dispatch \notin Reconcilable
      BY <1>2 DEF Reconcilable, Outcomes
    <2>2. ~seen'["recon"].bare /\ Go("recon", "idle")
      BY <1>0, <1>2, <1>7, <2>1 DEF ScanDispatches, AgentsTyped
    <2> QED BY <1>0, <1>2, <1>7, <2>2 DEF ScanDispatches, rowVars, Go, AgentsTyped, NothingWithoutRun
  <1>8. CASE Reconcile \/ RepairFails
    BY <1>2, <1>6, <1>7, <1>8 DEF Reconcile, RepairFails, RepairRun, RepairIntent, RepairStarted,
           RepairOutcomeEvent, RepairRunOnly, LookUpDelivery, CreateIntentAndJob, InsertMissingJob
  <1>9. CASE \E w \in Workers : FetchJob(w) \/ WorkerSteps(w) \/ WorkerFails(w)
    <2>1. PICK w \in Workers : FetchJob(w) \/ WorkerSteps(w) \/ WorkerFails(w)
      BY <1>9
    <2>2. UNCHANGED agentVars /\ (dispatch' = dispatch \/ dispatch # "none")
      <3>1. wpc[w] = "record" => wout[w] # "none"
        BY DEF Typed, WorkersTyped, Outcomes
      <3> QED BY <2>1, <3>1 DEF FetchJob, WorkerSteps, WorkerFails, PrepareRun, PrepareIntent, ClaimEffect,
             ClaimExecutes, ClaimUnauthorized, ClaimCancels, ClaimDefers, ClaimSkips,
             PerformEffect, CompleteEffect, RecordOutcome, AppendOutcome, rowVars
    <2> QED BY <1>2, <1>3, <2>2 DEF agentVars
  <1>10. CASE Environment
    BY <1>0, <1>1, <1>2, <1>10 DEF Environment, RunStarts, CancelRun, ProjectRun, WithdrawAuthority,
           FenceUnstarted, CancelJob, Crash, Restart, rowVars, agentVars, Go, AgentsTyped,
           NothingWithoutRun, Agents, NothingSeen
  <1>11. CASE UNCHANGED vars \/ \E j \in Jobs : RescueJob(j)
    BY <1>3, <1>11 DEF vars, RescueJob, rowVars, agentVars
  <1> QED BY <1>4, <1>5, <1>8, <1>9, <1>10, <1>11 DEF Next

\* What at most once needs of the workers, the rows and the count.
OnceCore == Unclaimed /\ OnePerformer /\ FencedNeverPerformed

\* Steps that bring nobody to perform and reopen nothing keep it.
LEMMA QuietKeeps ==
  ASSUME OnceCore, performed' = performed,
         \A w \in Workers : wpc'[w] = "perform" => wpc[w] = "perform",
         dispatch' \in {"none", "requested", "cancelled"} => dispatch \in {"none", "requested", "cancelled"},
         authority' = "settled" => authority = "settled" \/ dispatch \in {"none", "requested", "cancelled"}
  PROVE  OnceCore'
  BY DEF OnceCore, Unclaimed, OnePerformer, FencedNeverPerformed

\* Bystanders keep what at most once needs.
LEMMA BystandersKeepOnce ==
  ASSUME OnceCore, Bystanding
  PROVE  OnceCore'
  BY QuietKeeps DEF Bystanding

\* So do the workers: the claim finds an unclaimed row, so nobody before them.
LEMMA WorkersKeepOnce ==
  ASSUME Typed, OnceCore, NEW w \in Workers, FetchJob(w) \/ WorkerSteps(w) \/ WorkerFails(w)
  PROVE  OnceCore'
  <1> USE WorkerMoves
  <1>0. wpc \in [Workers -> WorkerPcs] /\ performed \in Nat
    BY DEF Typed, WorkersTyped, RestTyped
  <1>1. CASE FetchJob(w) \/ PrepareRun(w) \/ PrepareIntent(w) \/ AppendOutcome(w) \/ WorkerFails(w)
    BY <1>0, <1>1, QuietKeeps DEF FetchJob, PrepareRun, PrepareIntent, AppendOutcome, WorkerFails, rowVars
  <1>2. CASE ClaimEffect(w)
    <2>1. CASE ClaimExecutes(w)
      <3>1. performed = 0 /\ (\A v \in Workers : wpc[v] # "perform") /\ authority' = "valid"
        BY <1>2, <2>1 DEF ClaimEffect, ClaimExecutes, OnceCore, Unclaimed
      <3>2. performed' = 0 /\ dispatch' = "effect_started" /\ wpc' = [wpc EXCEPT ![w] = "perform"]
        BY <1>2, <2>1, <3>1 DEF ClaimEffect, ClaimExecutes
      <3> QED BY <1>0, <3>1, <3>2 DEF OnceCore, Unclaimed, OnePerformer, FencedNeverPerformed
    <2>2. CASE ~ClaimExecutes(w)
      <3>1. wpc' = [wpc EXCEPT ![w] = "idle"] \/ wpc' = [wpc EXCEPT ![w] = "record"]
        BY <1>2, <2>2 DEF ClaimEffect, ClaimUnauthorized, ClaimCancels, ClaimDefers, ClaimSkips
      <3>2. dispatch' = dispatch \/ dispatch = "requested"
        BY <1>2, <2>2 DEF ClaimEffect, ClaimUnauthorized, ClaimCancels, ClaimDefers, ClaimSkips
      <3> QED BY <1>0, <1>2, <3>1, <3>2, QuietKeeps DEF ClaimEffect
    <2> QED BY <2>1, <2>2
  <1>3. CASE PerformEffect(w)
    <2>1. performed = 0 /\ (\A v \in Workers : wpc[v] = "perform" => v = w)
      BY <1>3 DEF PerformEffect, OnceCore, OnePerformer
    <2>2. wpc' = [wpc EXCEPT ![w] = "complete"] \/ wpc' = [wpc EXCEPT ![w] = "record"]
      BY <1>3 DEF PerformEffect
    <2>3. \A v \in Workers : wpc'[v] # "perform"
      BY <1>0, <2>1, <2>2
    <2>4. performed' <= 1
      BY <1>0, <1>3, <2>1 DEF PerformEffect
    <2>5. UNCHANGED <<dispatch, authority>>
      BY <1>3 DEF PerformEffect, rowVars
    <2>6. dispatch \notin {"none", "requested", "cancelled"} /\ authority # "settled"
      BY <1>3 DEF PerformEffect, OnceCore, Unclaimed, FencedNeverPerformed
    <2> QED BY <2>3, <2>4, <2>5, <2>6 DEF OnceCore, Unclaimed, OnePerformer, FencedNeverPerformed
  <1>4. CASE CompleteEffect(w)
    BY <1>0, <1>4, QuietKeeps DEF CompleteEffect
  <1>5. CASE RecordOutcome(w)
    <2>1. wout[w] \in Outcomes
      BY <1>5 DEF RecordOutcome, Typed, WorkersTyped
    <2>2. dispatch' = dispatch \/ dispatch' \in Outcomes
      BY <1>5, <2>1 DEF RecordOutcome
    <2> QED BY <1>0, <1>5, <2>2, QuietKeeps DEF RecordOutcome, Outcomes
  <1> QED BY <1>1, <1>2, <1>3, <1>4, <1>5 DEF WorkerSteps

\* Every step keeps the invariant behind at most once.
LEMMA OnceStep == Typed /\ OnceInv /\ [Next]_vars => OnceInv'
  <1> SUFFICES ASSUME Typed, OnceInv, [Next]_vars PROVE OnceCore'
    BY NothingStep DEF OnceInv, OnceCore
  <1>1. OnceCore
    BY DEF OnceInv, OnceCore
  <1>2. CASE UNCHANGED vars
    BY <1>1, <1>2 DEF vars, rowVars, workerVars, OnceCore, Unclaimed, OnePerformer, FencedNeverPerformed
  <1>3. CASE Next
    BY <1>1, <1>3, BystandersStep, BystandersKeepOnce, WorkersKeepOnce DEF Next, Bystanders, OnceInv
  <1> QED BY <1>2, <1>3

\* It holds in every reachable state.
LEMMA OnceInvariance == Spec => []OnceInv
  BY OnceInit, OnceStep, TypedInvariance, PTL DEF Spec

\* However deliveries are retried, rescued while they run, inserted again or
\* neutralised by a wakeup, the effect takes place at most once.
THEOREM AtMostOnce == Spec => []AtMostOnePerform
  <1>1. OnceInv => AtMostOnePerform
    BY DEF OnceInv, OnePerformer, AtMostOnePerform
  <1> QED BY <1>1, OnceInvariance, PTL

-----------------------------------------------------------------------------
(* The truth of the row, when no wakeup may overwrite it                   *)

\* Only a wakeup's dispatch is neutralised.
NeutralizedByWakeup == apc["coord"] = "neutralize" => Continuation

\* What the row and the workers hold is true of the effect.
RowIsTrue ==
  /\ dispatch = "effect_completed" => performed = 1
  /\ dispatch \in {"effect_failed", "effect_deferred"} =>
       performed = 0 /\ \A w \in Workers : wpc[w] # "perform"
  /\ \A w \in Workers : wpc[w] = "complete" => performed = 1

\* So is what a worker is about to record.
RecordIsTrue ==
  /\ \A w \in Workers : wpc[w] \in {"record", "appendOutcome"} /\ wout[w] = "effect_failed" =>
       /\ performed = 0 /\ dispatch \notin {"none", "requested"}
       /\ \A v \in Workers : wpc[v] # "perform"
  /\ \A w \in Workers : wpc[w] \in {"record", "appendOutcome"} /\ wout[w] = "effect_deferred" =>
       dispatch = "effect_deferred"

\* What is about to be published, or was, is what the row says.
PublishedIsRow ==
  /\ \A w \in Workers : wpc[w] = "appendOutcome" => dispatch = wout[w]
  /\ seen["recon"].dispatch \in Outcomes => dispatch = seen["recon"].dispatch
  /\ OutcomeEventsAgree

\* Nothing but a refused wakeup leads to neutralisation.
LEMMA NeutralizedStep == Typed /\ NeutralizedByWakeup /\ [Next]_vars => NeutralizedByWakeup'
  <1> SUFFICES ASSUME Typed, NeutralizedByWakeup, [Next]_vars, apc'["coord"] = "neutralize"
               PROVE  apc["coord"] = "neutralize" \/ Continuation
    BY DEF NeutralizedByWakeup
  <1>0. apc \in [Agents -> AgentPcs] /\ "coord" \in Agents /\ "recon" \in Agents
    BY DEF Typed, AgentsTyped, Agents
  <1>1. CASE UNCHANGED agentVars
    BY <1>1 DEF agentVars
  <1>2. CASE Coordinator
    BY <1>0, <1>2 DEF Coordinator, CreateRunAndDelivery, GrantRun, AppendRequested, CoordinatorGivesUp,
           LookUpDelivery, CreateIntentAndJob, InsertMissingJob, NeutralizeReads, NeutralizeWrites,
           Go, Stop, Delivered, Refused
  <1>3. CASE StartReconcile \/ Reconcile \/ RepairFails
    BY <1>0, <1>3 DEF StartReconcile, Reconcile, RepairFails, ScanRunOnly, ScanDispatches, RepairRun,
           RepairIntent, RepairStarted, RepairOutcomeEvent, RepairRunOnly, LookUpDelivery,
           CreateIntentAndJob, InsertMissingJob, Go, Delivered, Refused, NextItem
  <1>4. CASE \E w \in Workers : FetchJob(w) \/ WorkerSteps(w) \/ WorkerFails(w)
    BY <1>1, <1>4 DEF FetchJob, WorkerSteps, WorkerFails, PrepareRun, PrepareIntent, ClaimEffect,
           PerformEffect, CompleteEffect, RecordOutcome, AppendOutcome
  <1>5. CASE Environment \/ \E j \in Jobs : RescueJob(j)
    BY <1>0, <1>1, <1>5 DEF Environment, RunStarts, CancelRun, ProjectRun, WithdrawAuthority,
           FenceUnstarted, CancelJob, Crash, Restart, RescueJob, agentVars, Go
  <1> QED BY <1>1, <1>2, <1>3, <1>4, <1>5 DEF Next, vars

TruthInv == RowIsTrue /\ RecordIsTrue

\* Bystanders keep the row true, as long as none of them neutralises it.
LEMMA BystandersKeepTruth ==
  ASSUME Typed, OnceInv, TruthInv, Bystanding, apc["coord"] # "neutralize"
  PROVE  TruthInv'
  <1>1. \A w \in Workers : /\ wpc'[w] # "idle" => wpc'[w] = wpc[w] /\ wout'[w] = wout[w]
    BY DEF Bystanding
  <1>2. RowIsTrue'
    BY <1>1 DEF Bystanding, TruthInv, RowIsTrue
  <1>3. RecordIsTrue'
    BY <1>1 DEF Bystanding, TruthInv, RecordIsTrue
  <1> QED BY <1>2, <1>3 DEF TruthInv

\* So do the workers.
LEMMA WorkersKeepTruth ==
  ASSUME Typed, OnceInv, TruthInv, NEW w \in Workers, FetchJob(w) \/ WorkerSteps(w) \/ WorkerFails(w)
  PROVE  TruthInv'
  <1> USE WorkerMoves
  <1>0. /\ wpc \in [Workers -> WorkerPcs] /\ wout \in [Workers -> Outcomes \cup {"none"}]
        /\ performed \in Nat
    BY DEF Typed, WorkersTyped, RestTyped
  <1>1. CASE FetchJob(w) \/ PrepareRun(w) \/ PrepareIntent(w) \/ AppendOutcome(w) \/ WorkerFails(w)
    <2>1. UNCHANGED <<dispatch, performed>>
      BY <1>1 DEF FetchJob, PrepareRun, PrepareIntent, AppendOutcome, WorkerFails, rowVars
    <2>2. \/ \E pc \in {"prepare", "prepareIntent", "claim"} : wpc' = [wpc EXCEPT ![w] = pc] /\ wout' = wout
          \/ wpc' = [wpc EXCEPT ![w] = "idle"] /\ wout' = [wout EXCEPT ![w] = "none"]
          \/ wpc' = [wpc EXCEPT ![w] = "record"] /\ wout' = [wout EXCEPT ![w] = "effect_unknown"]
      BY <1>1 DEF FetchJob, PrepareRun, PrepareIntent, AppendOutcome, WorkerFails, Step
    <2> QED BY <1>0, <2>1, <2>2 DEF TruthInv, RowIsTrue, RecordIsTrue
  <1>2. CASE ClaimEffect(w)
    <2>0. performed' = performed
      BY <1>2 DEF ClaimEffect
    <2>1. CASE ClaimExecutes(w)
      <3>1. dispatch = "requested" /\ dispatch' = "effect_started"
            /\ wpc' = [wpc EXCEPT ![w] = "perform"] /\ wout' = wout
        BY <2>1 DEF ClaimExecutes
      <3> QED BY <1>0, <2>0, <3>1 DEF TruthInv, RowIsTrue, RecordIsTrue
    <2>2. CASE ClaimDefers(w)
      <3>1. /\ dispatch = "requested" /\ dispatch' = "effect_deferred"
            /\ wpc' = [wpc EXCEPT ![w] = "record"] /\ wout' = [wout EXCEPT ![w] = "effect_deferred"]
        BY <2>2 DEF ClaimDefers
      <3>2. performed = 0 /\ \A v \in Workers : wpc[v] # "perform"
        BY <3>1 DEF OnceInv, Unclaimed
      <3> QED BY <1>0, <2>0, <3>1, <3>2 DEF TruthInv, RowIsTrue, RecordIsTrue
    <2>3. CASE dispatch' \in {dispatch, "cancelled"} /\ \E r : Finish(w, r)
      <3>1. wpc' = [wpc EXCEPT ![w] = "idle"] /\ wout' = [wout EXCEPT ![w] = "none"]
        BY <2>3
      <3>2. dispatch' = dispatch \/ (dispatch = "requested" /\ dispatch' = "cancelled")
        BY <1>2, <2>3 DEF ClaimEffect, ClaimExecutes, ClaimUnauthorized, ClaimCancels, ClaimDefers,
                         ClaimSkips
      <3> QED BY <1>0, <2>0, <3>1, <3>2 DEF TruthInv, RowIsTrue, RecordIsTrue
    <2>4. CASE /\ dispatch' = dispatch
               /\ \/ Record(w, "effect_unknown")
                  \/ Record(w, "effect_deferred") /\ dispatch = "effect_deferred"
      <3>1. PICK o \in {"effect_unknown", "effect_deferred"} :
               /\ wpc' = [wpc EXCEPT ![w] = "record"] /\ wout' = [wout EXCEPT ![w] = o]
               /\ o = "effect_deferred" => dispatch = "effect_deferred"
        BY <2>4
      <3> QED BY <1>0, <2>0, <2>4, <3>1 DEF TruthInv, RowIsTrue, RecordIsTrue
    <2> QED BY <1>2, <2>1, <2>2, <2>3, <2>4
            DEF ClaimEffect, ClaimUnauthorized, ClaimCancels, ClaimSkips
  <1>3. CASE PerformEffect(w)
    <2>1. /\ performed = 0 /\ (\A v \in Workers : wpc[v] = "perform" => v = w)
          /\ dispatch \notin {"none", "requested", "cancelled", "effect_completed", "effect_failed",
                              "effect_deferred"}
      BY <1>3 DEF PerformEffect, OnceInv, OnePerformer, Unclaimed, TruthInv, RowIsTrue
    <2>2. \A v \in Workers : wpc[v] # "complete" /\
            ~(wpc[v] \in {"record", "appendOutcome"} /\ wout[v] \in {"effect_failed", "effect_deferred"})
      BY <1>3, <2>1 DEF PerformEffect, TruthInv, RowIsTrue, RecordIsTrue
    <2>3. dispatch' = dispatch
      BY <1>3 DEF PerformEffect, rowVars
    <2>4. \/ performed' = 1 /\ wpc' = [wpc EXCEPT ![w] = "complete"] /\ wout' = wout
          \/ /\ performed' = 0 /\ wpc' = [wpc EXCEPT ![w] = "record"]
             /\ wout' = [wout EXCEPT ![w] = "effect_failed"]
          \/ /\ wpc' = [wpc EXCEPT ![w] = "record"]
             /\ wout' = [wout EXCEPT ![w] = "effect_unknown"]
      BY <1>3, <2>1 DEF PerformEffect
    <2>5. RowIsTrue'
      BY <1>0, <2>1, <2>2, <2>3, <2>4 DEF RowIsTrue
    <2>6. RecordIsTrue'
      BY <1>0, <2>1, <2>2, <2>3, <2>4 DEF RecordIsTrue
    <2> QED BY <2>5, <2>6 DEF TruthInv
  <1>4. CASE CompleteEffect(w)
    <2>1. performed = 1 /\ performed' = 1
      BY <1>4 DEF CompleteEffect, TruthInv, RowIsTrue
    <2>2. \/ /\ dispatch' = "effect_completed" /\ dispatch \in {"effect_started", "effect_completed"}
             /\ wpc' = [wpc EXCEPT ![w] = "idle"] /\ wout' = [wout EXCEPT ![w] = "none"]
          \/ /\ dispatch' = dispatch /\ wpc' = [wpc EXCEPT ![w] = "record"]
             /\ wout' = [wout EXCEPT ![w] = "effect_unknown"]
      BY <1>4 DEF CompleteEffect
    <2> QED BY <1>0, <2>1, <2>2 DEF TruthInv, RowIsTrue, RecordIsTrue
  <1>5. CASE RecordOutcome(w)
    <2>1. wout[w] \in Outcomes /\ wpc[w] = "record" /\ performed' = performed
      BY <1>5 DEF RecordOutcome, Typed, WorkersTyped
    <2>2. \/ /\ dispatch \in {"effect_started", wout[w]} /\ dispatch' = wout[w]
             /\ wpc' = [wpc EXCEPT ![w] = "appendOutcome"] /\ wout' = wout
          \/ /\ dispatch' = dispatch
             /\ wpc' = [wpc EXCEPT ![w] = "idle"] /\ wout' = [wout EXCEPT ![w] = "none"]
      BY <1>5 DEF RecordOutcome
    <2>3. dispatch' # "effect_completed" \/ dispatch' = dispatch
      BY <2>1, <2>2 DEF Outcomes
    <2>4. dispatch' \in {"effect_failed", "effect_deferred"} =>
             performed = 0 /\ \A v \in Workers : wpc[v] # "perform"
      BY <2>1, <2>2 DEF TruthInv, RowIsTrue, RecordIsTrue
    <2>5. RowIsTrue'
      BY <1>0, <2>1, <2>2, <2>3, <2>4 DEF TruthInv, RowIsTrue
    <2>6. RecordIsTrue'
      BY <1>0, <2>1, <2>2 DEF TruthInv, RecordIsTrue, Outcomes
    <2> QED BY <2>5, <2>6 DEF TruthInv
  <1> QED BY <1>1, <1>2, <1>3, <1>4, <1>5 DEF WorkerSteps

\* An outcome on the row is there to stay.
LEMMA OutcomeStays ==
  ASSUME Typed, NothingWithoutRun, apc["coord"] # "neutralize", Next, dispatch \in Outcomes
  PROVE  dispatch' = dispatch
  <1>0. dispatch \notin {"none", "requested", "cancelled", "effect_started", "effect_completed"}
    BY DEF Outcomes
  <1>1. CASE Bystanders
    BY <1>0, <1>1, BystandersStep DEF Bystanding
  <1>2. CASE \E w \in Workers : FetchJob(w) \/ WorkerSteps(w) \/ WorkerFails(w)
    BY <1>0, <1>2 DEF FetchJob, WorkerSteps, WorkerFails, PrepareRun, PrepareIntent, ClaimEffect,
           ClaimExecutes, ClaimUnauthorized, ClaimCancels, ClaimDefers, ClaimSkips, PerformEffect,
           CompleteEffect, RecordOutcome, AppendOutcome, rowVars
  <1> QED BY <1>1, <1>2 DEF Next, Bystanders

\* The repair pass holds an outcome only as it read it, or as it wrote it.
LEMMA SeenStep ==
  ASSUME Typed, Next, seen'["recon"].dispatch \in Outcomes
  PROVE  seen'["recon"].dispatch \in {seen["recon"].dispatch, dispatch'}
  <1>0. AgentsTyped /\ "recon" \in Agents /\ "coord" \in Agents /\ NothingSeen.dispatch \notin Outcomes
    BY DEF Typed, Agents, NothingSeen, Outcomes
  <1>1. CASE UNCHANGED seen
    BY <1>1
  <1>2. CASE Forget("coord") \/ Forget("recon") \/ NextItem
    BY <1>0, <1>2 DEF Forget, NextItem, AgentsTyped
  <1>3. CASE Coordinator
    BY <1>1, <1>2, <1>3 DEF Coordinator, CreateRunAndDelivery, GrantRun, AppendRequested,
           CoordinatorGivesUp, LookUpDelivery, CreateIntentAndJob, InsertMissingJob,
           NeutralizeReads, NeutralizeWrites, Stop, Delivered, Refused
  <1>4. CASE ScanRunOnly
    BY <1>0, <1>4 DEF ScanRunOnly, AgentsTyped, Sightings
  <1>5. CASE ScanDispatches
    <2>1. dispatch' = dispatch
      BY <1>5 DEF ScanDispatches, rowVars
    <2>2. seen'["recon"].dispatch \in {dispatch, "none"}
      BY <1>0, <1>5 DEF ScanDispatches, AgentsTyped
    <2> QED BY <2>1, <2>2 DEF Outcomes
  <1>6. CASE RepairStarted
    <2>1. CASE dispatch' = "effect_unknown" /\ seen' = [seen EXCEPT !["recon"].dispatch = "effect_unknown",
                                                                     !["recon"].link = 0]
      BY <1>0, <2>1 DEF AgentsTyped, Sightings
    <2> QED BY <1>2, <1>6, <2>1 DEF RepairStarted, Refused
  <1>7. CASE StartReconcile \/ Reconcile \/ RepairFails
    BY <1>1, <1>2, <1>4, <1>5, <1>6, <1>7 DEF StartReconcile, Reconcile, RepairFails, RepairRun,
           RepairIntent, RepairOutcomeEvent, RepairRunOnly, LookUpDelivery, CreateIntentAndJob,
           InsertMissingJob, Delivered, Refused
  <1>8. CASE \E w \in Workers : FetchJob(w) \/ WorkerSteps(w) \/ WorkerFails(w)
    BY <1>1, <1>8 DEF FetchJob, WorkerSteps, WorkerFails, PrepareRun, PrepareIntent, ClaimEffect,
           PerformEffect, CompleteEffect, RecordOutcome, AppendOutcome, agentVars
  <1>9. CASE Environment \/ \E j \in Jobs : RescueJob(j)
    BY <1>0, <1>1, <1>9 DEF Environment, RunStarts, CancelRun, ProjectRun, WithdrawAuthority,
           FenceUnstarted, CancelJob, Crash, Restart, RescueJob, agentVars
  <1> QED BY <1>3, <1>7, <1>8, <1>9 DEF Next

\* An outcome is published by who recorded it, or by the repair pass that read it.
LEMMA LogStep ==
  ASSUME Typed, PublishedIsRow, Next, NEW o \in Outcomes, o \in log'
  PROVE  o \in log \/ dispatch = o
  <1>0. o \notin RequestedEvents \cup {"run.starting", "run.stopped"}
    BY DEF Outcomes, RequestedEvents
  <1>1. CASE UNCHANGED log \/ UNCHANGED rowVars
    BY <1>1 DEF rowVars
  <1>2. CASE Coordinator
    BY <1>0, <1>1, <1>2 DEF Coordinator, CreateRunAndDelivery, GrantRun, AppendRequested,
           CoordinatorGivesUp, LookUpDelivery, CreateIntentAndJob, InsertMissingJob,
           NeutralizeReads, NeutralizeWrites, RequestedEvents
  <1>3. CASE RepairOutcomeEvent
    BY <1>3 DEF RepairOutcomeEvent, Typed, AgentsTyped, PublishedIsRow
  <1>4. CASE StartReconcile \/ Reconcile \/ RepairFails
    BY <1>0, <1>1, <1>3, <1>4 DEF StartReconcile, Reconcile, RepairFails, ScanRunOnly, ScanDispatches,
           RepairRun, RepairIntent, RepairStarted, RepairRunOnly, LookUpDelivery, CreateIntentAndJob,
           InsertMissingJob, RequestedEvents
  <1>5. ASSUME NEW w \in Workers, AppendOutcome(w)
        PROVE  o \in log \/ dispatch = o
    BY <1>5 DEF AppendOutcome, PublishedIsRow
  <1>6. CASE \E w \in Workers : FetchJob(w) \/ WorkerSteps(w) \/ WorkerFails(w)
    BY <1>0, <1>1, <1>5, <1>6 DEF FetchJob, WorkerSteps, WorkerFails, PrepareRun, PrepareIntent,
           ClaimEffect, PerformEffect, CompleteEffect, RecordOutcome, RequestedEvents
  <1>7. CASE Environment \/ \E j \in Jobs : RescueJob(j)
    BY <1>0, <1>1, <1>7 DEF Environment, RunStarts, CancelRun, ProjectRun, WithdrawAuthority,
           FenceUnstarted, CancelJob, Crash, Restart, RescueJob, RequestedEvents
  <1> QED BY <1>2, <1>4, <1>6, <1>7 DEF Next

\* No step contradicts what is published or about to be.
LEMMA PublishedStep ==
  ASSUME Typed, NothingWithoutRun, apc["coord"] # "neutralize", PublishedIsRow, [Next]_vars
  PROVE  PublishedIsRow'
  <1>1. CASE UNCHANGED vars
    BY <1>1 DEF vars, rowVars, workerVars, agentVars, PublishedIsRow, OutcomeEventsAgree
  <1>2. CASE Next
    <2>1. ASSUME NEW w \in Workers, wpc'[w] = "appendOutcome"
          PROVE  dispatch' = wout'[w]
      <3>1. CASE wpc[w] = "appendOutcome" /\ wout'[w] = wout[w]
        <4>1. wout[w] \in Outcomes /\ dispatch = wout[w]
          BY <3>1 DEF Typed, WorkersTyped, PublishedIsRow
        <4> QED BY <1>2, <3>1, <4>1, OutcomeStays
      <3>2. CASE Bystanders
        BY <2>1, <3>1, <3>2, BystandersStep DEF Bystanding
      <3>3. ASSUME NEW v \in Workers, FetchJob(v) \/ WorkerSteps(v) \/ WorkerFails(v)
            PROVE  dispatch' = wout'[w]
        <4>0. wpc \in [Workers -> WorkerPcs] /\ wout \in [Workers -> Outcomes \cup {"none"}]
          BY DEF Typed, WorkersTyped
        <4>1. CASE RecordOutcome(v)
          BY <2>1, <3>1, <4>0, <4>1, WorkerMoves DEF RecordOutcome
        <4>2. CASE ~RecordOutcome(v)
          <5>1. \/ \E pc \in WorkerPcs \ {"appendOutcome"} : wpc' = [wpc EXCEPT ![v] = pc] /\ wout' = wout
                \/ /\ wpc' = [wpc EXCEPT ![v] = "idle"]
                   /\ wout' = [wout EXCEPT ![v] = "none"]
                \/ \E o : /\ wpc' = [wpc EXCEPT ![v] = "record"]
                          /\ wout' = [wout EXCEPT ![v] = o]
            BY <3>3, <4>2, WorkerMoves DEF FetchJob, WorkerSteps, WorkerFails, PrepareRun, PrepareIntent,
                 ClaimEffect, ClaimExecutes, ClaimUnauthorized, ClaimCancels, ClaimDefers, ClaimSkips,
                 PerformEffect, CompleteEffect, AppendOutcome, Step, WorkerPcs
          <5> QED BY <2>1, <3>1, <4>0, <5>1
        <4> QED BY <4>1, <4>2
      <3> QED BY <1>2, <3>2, <3>3 DEF Next, Bystanders
    <2>2. seen'["recon"].dispatch \in Outcomes => dispatch' = seen'["recon"].dispatch
      BY <1>2, SeenStep, OutcomeStays DEF PublishedIsRow
    <2>3. OutcomeEventsAgree'
      BY <1>2, LogStep, OutcomeStays DEF PublishedIsRow, OutcomeEventsAgree
    <2> QED BY <2>1, <2>2, <2>3 DEF PublishedIsRow
  <1> QED BY <1>1, <1>2

DeliveryInv == Typed /\ OnceInv /\ NeutralizedByWakeup /\ TruthInv /\ PublishedIsRow

\* Without a wakeup all of it holds in every reachable state.
LEMMA DeliveryInvariance ==
  ASSUME ~Continuation
  PROVE  Spec => []DeliveryInv
  <1>1. Init => DeliveryInv
    <2>1. Init => NeutralizedByWakeup /\ TruthInv /\ PublishedIsRow
      BY DEF Init, NeutralizedByWakeup, TruthInv, RowIsTrue, RecordIsTrue, PublishedIsRow,
             OutcomeEventsAgree, NothingSeen, Outcomes, Agents
    <2> QED BY <2>1, InitTyped, OnceInit DEF DeliveryInv
  <1>2. DeliveryInv /\ [Next]_vars => DeliveryInv'
    <2> SUFFICES ASSUME DeliveryInv, [Next]_vars PROVE DeliveryInv'
      OBVIOUS
    <2>1. apc["coord"] # "neutralize" /\ NothingWithoutRun
      BY DEF DeliveryInv, NeutralizedByWakeup, OnceInv
    <2>2. Typed' /\ OnceInv' /\ NeutralizedByWakeup' /\ PublishedIsRow'
      BY <2>1, StepTyped, OnceStep, NeutralizedStep, PublishedStep DEF DeliveryInv
    <2>3. TruthInv'
      <3>1. CASE UNCHANGED vars
        BY <3>1 DEF vars, rowVars, workerVars, DeliveryInv, TruthInv, RowIsTrue, RecordIsTrue
      <3>2. CASE Next
        BY <2>1, <3>2, BystandersStep, BystandersKeepTruth, WorkersKeepTruth
           DEF Next, Bystanders, DeliveryInv
      <3> QED BY <3>1, <3>2
    <2> QED BY <2>2, <2>3 DEF DeliveryInv
  <1> QED BY <1>1, <1>2, PTL DEF Spec

\* Unless a wakeup may refuse it, a status that claims to know what became of
\* the effect is true of the effect.
THEOREM StatusIsTrue ==
  ASSUME ~Continuation
  PROVE  Spec => []DefiniteStatusIsTrue
  <1>1. DeliveryInv => DefiniteStatusIsTrue
    BY DEF DeliveryInv, OnceInv, Unclaimed, TruthInv, RowIsTrue, DefiniteStatusIsTrue
  <1> QED BY <1>1, DeliveryInvariance, PTL

\* What the database holds of a delivery keeps its types; a published outcome is
\* never contradicted, and nothing starts behind the never-started fence.
THEOREM DeliveryRowsAgree ==
  ASSUME ~Continuation
  PROVE  Spec => []RowsAgree
  <1>1. DeliveryInv => RowsAgree
    BY TypedIsTypeOK DEF DeliveryInv, OnceInv, PublishedIsRow, RowsAgree
  <1> QED BY <1>1, DeliveryInvariance, PTL

-----------------------------------------------------------------------------
(* Delivery implements the effect gate                                     *)

\* What the row says of the gate.
LEMMA GateStates ==
  /\ GateState = "open" <=> dispatch \in {"none", "requested"}
  /\ GateState = "refused" <=> dispatch \in {"cancelled", "effect_deferred"}
  /\ GateState \in {"open", "refused", "claimed"}
  BY DEF GateState

\* The same of the row after a step.
LEMMA GateStatesNext ==
  /\ GateState' = "open" <=> dispatch' \in {"none", "requested"}
  /\ GateState' = "refused" <=> dispatch' \in {"cancelled", "effect_deferred"}
  /\ GateState' \in {"open", "refused", "claimed"}
  BY DEF GateState

\* Nobody takes an event back.
LEMMA IntentStays ==
  ASSUME Typed, Next
  PROVE  IntentRecorded => IntentRecorded'
  BY DEF IntentRecorded, Next, Coordinator, CreateRunAndDelivery, GrantRun, AppendRequested,
         CoordinatorGivesUp, LookUpDelivery, CreateIntentAndJob, InsertMissingJob, NeutralizeReads,
         NeutralizeWrites, StartReconcile, Reconcile, RepairFails, ScanRunOnly, ScanDispatches,
         RepairRun, RepairIntent, RepairStarted, RepairOutcomeEvent, RepairRunOnly, FetchJob,
         WorkerSteps, WorkerFails, PrepareRun, PrepareIntent, ClaimEffect, PerformEffect,
         CompleteEffect, RecordOutcome, AppendOutcome, RescueJob, Environment, RunStarts, CancelRun,
         ProjectRun, WithdrawAuthority, FenceUnstarted, CancelJob, Crash, Restart, rowVars

\* Every step of a delivery is a step of the gate or none.
LEMMA GateStep ==
  ASSUME DeliveryInv, apc["coord"] # "neutralize", Next
  PROVE  Gate!Next \/ UNCHANGED <<IntentRecorded, GateState, performed>>
  <1> USE GateStates, GateStatesNext
  <1>0. Typed /\ NothingWithoutRun /\ dispatch \in Statuses \cup {"none"} /\ IntentRecorded \in BOOLEAN
        /\ IntentRecorded' \in BOOLEAN
    BY DEF DeliveryInv, OnceInv, Typed, RowsTyped, IntentRecorded
  <1>1. CASE GateState' = GateState /\ performed' = performed
    <2>1. CASE IntentRecorded' = IntentRecorded
      BY <1>1, <2>1
    <2>2. CASE IntentRecorded' # IntentRecorded
      <3>1. ~IntentRecorded /\ IntentRecorded'
        BY <1>0, <2>2, IntentStays
      <3>2. Gate!Record
        BY <1>0, <1>1, <3>1 DEF Gate!Record
      <3> QED BY <3>2 DEF Gate!Next
    <2> QED BY <2>1, <2>2
  <1>2. CASE Bystanders
    <2>1. Bystanding
      BY <1>0, <1>2, BystandersStep
    <2>2. CASE dispatch = "requested" /\ dispatch' = "cancelled"
      <3>1. IntentRecorded' = IntentRecorded
        BY <1>2, <2>2 DEF Bystanders, Coordinator, CreateRunAndDelivery, GrantRun, AppendRequested,
           CoordinatorGivesUp, LookUpDelivery, CreateIntentAndJob, InsertMissingJob, NeutralizeReads,
           NeutralizeWrites, StartReconcile, Reconcile, RepairFails, ScanRunOnly, ScanDispatches,
           RepairRun, RepairIntent, RepairStarted, RepairOutcomeEvent, RepairRunOnly, RescueJob,
           Environment, RunStarts, CancelRun, ProjectRun, WithdrawAuthority, FenceUnstarted,
           CancelJob, Crash, Restart, rowVars, IntentRecorded
      <3>2. Gate!Refuse
        BY <2>1, <2>2, <3>1 DEF Bystanding, Gate!Refuse
      <3> QED BY <3>2 DEF Gate!Next
    <2>3. CASE ~(dispatch = "requested" /\ dispatch' = "cancelled")
      <3>1. GateState' = GateState
        BY <2>1, <2>3 DEF Bystanding, GateState
      <3> QED BY <1>1, <2>1, <3>1 DEF Bystanding
    <2> QED BY <2>2, <2>3
  <1>3. ASSUME NEW w \in Workers, FetchJob(w) \/ WorkerSteps(w) \/ WorkerFails(w)
        PROVE  Gate!Next \/ UNCHANGED <<IntentRecorded, GateState, performed>>
    <2>1. CASE dispatch' = dispatch /\ performed' = performed
      <3>1. GateState' = GateState
        BY <2>1 DEF GateState
      <3> QED BY <1>1, <2>1, <3>1
    <2>2. CASE ClaimEffect(w) /\ dispatch' # dispatch
      <3>1. UNCHANGED <<IntentRecorded, performed>> /\ dispatch = "requested" /\ IntentRecorded
        BY <2>2 DEF ClaimEffect, ClaimExecutes, ClaimUnauthorized, ClaimCancels, ClaimDefers, ClaimSkips,
                    IntentRecorded
      <3>2. dispatch' \in {"effect_started", "cancelled", "effect_deferred"}
        BY <2>2 DEF ClaimEffect, ClaimExecutes, ClaimUnauthorized, ClaimCancels, ClaimDefers, ClaimSkips
      <3>3. Gate!Claim \/ Gate!Refuse
        BY <3>1, <3>2 DEF Gate!Claim, Gate!Refuse
      <3> QED BY <3>3 DEF Gate!Next
    <2>3. CASE PerformEffect(w)
      <3>1. performed = 0 /\ dispatch \notin {"none", "requested", "cancelled", "effect_deferred"}
        BY <2>3 DEF PerformEffect, DeliveryInv, OnceInv, OnePerformer, Unclaimed, TruthInv, RowIsTrue
      <3>2. dispatch' = dispatch /\ log' = log /\ performed' \in {0, 1}
        BY <2>3, <3>1 DEF PerformEffect, rowVars
      <3>3. CASE performed' = 1
        <4>1. UNCHANGED <<IntentRecorded, GateState>> /\ GateState = "claimed"
          BY <3>1, <3>2 DEF IntentRecorded, GateState
        <4>2. Gate!Perform
          BY <3>1, <3>3, <4>1 DEF Gate!Perform
        <4> QED BY <4>2 DEF Gate!Next
      <3> QED BY <2>1, <3>1, <3>2, <3>3
    <2>4. CASE CompleteEffect(w) \/ RecordOutcome(w)
      <3>1. performed' = performed
        BY <2>4 DEF CompleteEffect, RecordOutcome
      <3>2. \/ dispatch' = dispatch
            \/ dispatch \in {"effect_started", "effect_completed"} /\ dispatch' = "effect_completed"
            \/ dispatch = "effect_started" /\ dispatch' \in {"effect_failed", "effect_unknown"}
        <4>1. wpc[w] = "record" => wout[w] \in Outcomes /\ (wout[w] = "effect_deferred" => dispatch = wout[w])
          BY <1>0 DEF Typed, WorkersTyped, DeliveryInv, TruthInv, RecordIsTrue
        <4> QED BY <2>4, <4>1 DEF CompleteEffect, RecordOutcome, Outcomes
      <3>3. GateState' = GateState
        BY <3>2 DEF GateState
      <3> QED BY <1>1, <3>1, <3>3
    <2> QED BY <1>3, <2>1, <2>2, <2>3, <2>4
            DEF FetchJob, WorkerSteps, WorkerFails, PrepareRun, PrepareIntent, ClaimEffect,
                AppendOutcome, rowVars
  <1> QED BY <1>2, <1>3 DEF Next, Bystanders

\* Unless a wakeup may refuse it, a delivery implements the gate in front of its
\* effect: recorded before claimed, claimed or refused once, performed once.
THEOREM DeliveryImplementsGate ==
  ASSUME ~Continuation
  PROVE  Spec => ImplementsGate
  <1>1. Init => Gate!Init
    BY DEF Init, Gate!Init, IntentRecorded, GateState
  <1>2. DeliveryInv /\ [Next]_vars => [Gate!Next]_Gate!gateVars
    <2> SUFFICES ASSUME DeliveryInv, [Next]_vars PROVE [Gate!Next]_Gate!gateVars
      OBVIOUS
    <2>1. CASE UNCHANGED vars
      BY <2>1 DEF vars, rowVars, Gate!gateVars, IntentRecorded, GateState
    <2>2. CASE Next
      BY <2>2, GateStep DEF DeliveryInv, NeutralizedByWakeup, Gate!gateVars
    <2> QED BY <2>1, <2>2
  <1> QED BY <1>1, <1>2, DeliveryInvariance, PTL DEF Spec, ImplementsGate, Gate!Spec

=============================================================================
