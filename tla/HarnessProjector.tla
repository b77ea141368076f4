-------------------------- MODULE HarnessProjector --------------------------
(***************************************************************************)
(* One goal's harness projection and the run intents it projects onto:     *)
(*   lib/shoestring/harness/projector.ex   trajectory events -> tables     *)
(*   lib/shoestring/harness/projector_transition.ex   the same, purely     *)
(*   lib/shoestring/harness/runs.ex        run rows, run.requested         *)
(*   lib/shoestring/cobbler/leases.ex      chain_snapshot                  *)
(*                                                                         *)
(* Every apply_next and every reset is one immediate transaction, so any   *)
(* number of processes that project or rebuild the goal is an interleaving *)
(* of ApplyNext and Reset; a rebuild is a Reset and then ordinary          *)
(* projecting, and it may die in between.  Run rows are inserted by the    *)
(* intent, before run.requested is appended, and are never deleted.        *)
(* Provider session ids and the other payload columns are left out.        *)
(***************************************************************************)
\* Some names begin with Proj: the proofs see this module beside TrajectoryWriter.
EXTENDS HarnessLifecycle, Naturals, Sequences, FiniteSets

CONSTANTS Runs, Grants, Checkpoints, Snapshots,
          Acts,        \* the actions of the events other components append
          MaxEvents,   \* bound: length of the trajectory
          MaxResets    \* bound: rebuilds
CONSTANT None

RunActs   == {"begin", "started", "pause", "suspend", "complete", "fail",
              "interrupt", "cancel", "cancelled"}
LeaseActs == {"grant", "activate", "renewal_due", "renew", "expire", "revoke",
              "require_checkpoint"}
AllActs   == RunActs \cup LeaseActs \cup {"propose", "checkpoint", "snapshot", "handoff"}

ASSUME ProjectorAssumption ==
  /\ Acts \subseteq AllActs
  /\ MaxEvents \in Nat /\ MaxResets \in Nat
  /\ None \notin Runs \cup Grants \cup Checkpoints \cup Snapshots \cup RunStatuses
  \* None is a missing row, and no row
  /\ None \notin [status : RunStatuses, seq : Nat] \cup [run : Runs, seq : Nat]
  /\ None \notin [status : LeaseStatuses, run : Runs]
              \cup [status : LeaseStatuses, run : Runs, snapshot : Snapshots]

VARIABLES
  log,         \* the goal's trajectory: [act, run, id, dep]
  pending,     \* per run: processes about to append its run.requested
  runs,        \* RunRecord rows: [status, seq]
  leases,      \* ExecutionLeaseRecord rows: [status, run, snapshot]
  checkpoints, \* CheckpointRecord rows: [run, seq]
  snapshots,   \* CapacitySnapshotRecord rows
  position,    \* ProjectorPosition: [last, status]
  resets

tables == <<runs, leases, checkpoints, snapshots>>
projVars == <<log, pending, tables, position, resets>>

Event(act, run, id, dep) == [act |-> act, run |-> run, id |-> id, dep |-> dep]
InLog(P(_)) == \E i \in 1..Len(log) : P(log[i])
Requested(r) == InLog(LAMBDA e : e.act = "request" /\ e.run = r)

NoLeases      == [g \in Grants |-> None]
NoCheckpoints == [c \in Checkpoints |-> None]

ProjInit ==
  /\ log = <<>>
  /\ leases = NoLeases /\ checkpoints = NoCheckpoints /\ snapshots = {}
  /\ pending = [r \in Runs |-> 0]
  /\ runs = [r \in Runs |-> None]
  /\ position = [last |-> 0, status |-> "ok"]
  /\ resets = 0

-----------------------------------------------------------------------------
(* Run intents: Runs.request and Runs.reconcile                            *)

Fresh == [status |-> "requested", seq |-> 0]

InsertIntent(r) ==         \* insert_or_recover
  /\ runs[r] = None
  /\ runs' = [runs EXCEPT ![r] = Fresh]
  /\ pending' = [pending EXCEPT ![r] = 1]
  /\ UNCHANGED <<log, leases, checkpoints, snapshots, position, resets>>

RequesterDies(r) ==        \* the intent stays without its event
  /\ pending[r] > 0
  /\ pending' = [pending EXCEPT ![r] = @ - 1]
  /\ UNCHANGED <<log, tables, position, resets>>

\* reconcile_run: a fresh row whose event is missing is to be repaired.
Reconcile(r) ==
  /\ pending[r] < 2 /\ runs[r] = Fresh /\ ~Requested(r)
  /\ pending' = [pending EXCEPT ![r] = @ + 1]
  /\ UNCHANGED <<log, tables, position, resets>>

\* append_requested, with the key run-requested:<dispatch_id>
AppendRequested(r) ==
  /\ pending[r] > 0 /\ Len(log) < MaxEvents
  /\ log' = IF Requested(r) THEN log ELSE Append(log, Event("request", r, None, None))
  /\ pending' = [pending EXCEPT ![r] = @ - 1]
  /\ UNCHANGED <<tables, position, resets>>

-----------------------------------------------------------------------------
(* Events of other components.  The trajectory checks that a run exists,   *)
(* never that its lifecycle allows the event.                              *)

Put(e) == /\ Len(log) < MaxEvents
          /\ e.act \in Acts
          /\ log' = Append(log, e)
          /\ UNCHANGED <<pending, tables, position, resets>>

New(act, id) == ~InLog(LAMBDA e : e.act = act /\ e.id = id)   \* keyed by the id

RunEvent(r) == Requested(r) /\ \E act \in RunActs : Put(Event(act, r, None, None))
LeaseEvent(g) == ~New("propose", g) /\ \E act \in LeaseActs : Put(Event(act, None, g, None))
Propose(g, r, s) == Requested(r) /\ New("propose", g) /\ Put(Event("propose", r, g, s))
CheckpointEvent(c, r) == Requested(r) /\ New("checkpoint", c) /\ Put(Event("checkpoint", r, c, None))
Handoff(c, r) == Requested(r) /\ Put(Event("handoff", r, c, None))
SnapshotEvent(s) == New("snapshot", s) /\ Put(Event("snapshot", None, s, None))

\* Leases.chain_snapshot: outside the projection, onto a row that exists.
ChainSnapshot(g, s) ==
  /\ leases[g] # None /\ s \in snapshots
  /\ leases' = [leases EXCEPT ![g].snapshot = s]
  /\ UNCHANGED <<log, pending, runs, checkpoints, snapshots, position, resets>>

-----------------------------------------------------------------------------
(* Projecting                                                              *)

Fail == /\ position' = [position EXCEPT !.status = "failed"]
        /\ UNCHANGED tables
Advance == position' = [position EXCEPT !.last = @ + 1]

\* persist_run: a run.requested for a row that is past it changes nothing.
PersistRun(e, n) ==
  LET to == RunTarget(runs[e.run].status, e.act)
  IN IF e.act = "request" /\ runs[e.run] # Fresh
     THEN Advance /\ UNCHANGED tables
     ELSE IF to = "illegal"
     THEN Fail
     ELSE /\ runs' = [runs EXCEPT ![e.run] = [status |-> to, seq |-> n]]
          /\ Advance /\ UNCHANGED <<leases, checkpoints, snapshots>>

\* persist_lease: a proposal needs its snapshot projected in this goal.
PersistLease(e) ==
  LET to == IF leases[e.id] = None THEN "illegal" ELSE LeaseTarget(leases[e.id].status, e.act)
  IN CASE e.act = "propose" /\ e.dep \notin snapshots -> Fail
       [] e.act = "propose" /\ e.dep \in snapshots /\ leases[e.id] # None ->
            Advance /\ UNCHANGED tables
       [] e.act = "propose" /\ e.dep \in snapshots /\ leases[e.id] = None ->
            /\ leases' = [leases EXCEPT ![e.id] =
                            [status |-> "proposed", run |-> e.run, snapshot |-> e.dep]]
            /\ Advance /\ UNCHANGED <<runs, checkpoints, snapshots>>
       [] e.act # "propose" /\ to # "illegal" ->
            /\ leases' = [leases EXCEPT ![e.id].status = to]
            /\ Advance /\ UNCHANGED <<runs, checkpoints, snapshots>>
       [] OTHER -> Fail

PersistCheckpoint(e, n) ==
  /\ checkpoints' = IF checkpoints[e.id] # None THEN checkpoints
                    ELSE [checkpoints EXCEPT ![e.id] = [run |-> e.run, seq |-> n]]
  /\ Advance /\ UNCHANGED <<runs, leases, snapshots>>

\* Mutant: a handoff waits for its checkpoint.
PersistHandoffWaits(e) ==
  checkpoints[e.id] # None /\ Advance /\ UNCHANGED tables

PersistHandoff(e) ==       \* the checkpoint must be projected already
  IF checkpoints[e.id] = None THEN Fail ELSE Advance /\ UNCHANGED tables

PersistSnapshot(e) ==
  /\ snapshots' = snapshots \cup {e.id}
  /\ Advance /\ UNCHANGED <<runs, leases, checkpoints>>

\* apply_next_in_transaction.  Sequence gaps do not occur (TrajectoryWriter).
ApplyNext ==
  LET n == position.last + 1
      e == log[n]
  IN /\ position.status = "ok" /\ n <= Len(log)
     /\ CASE e.act \in RunActs \cup {"request"} -> PersistRun(e, n)
          [] e.act \in LeaseActs \cup {"propose"} -> PersistLease(e)
          [] e.act = "checkpoint" -> PersistCheckpoint(e, n)
          [] e.act = "handoff" -> PersistHandoff(e)
          [] e.act = "snapshot" -> PersistSnapshot(e)
     /\ UNCHANGED <<log, pending, resets>>

\* Mutant: rows survive a reset, only the position goes back.
ResetKeepsRows ==
  /\ resets < MaxResets /\ resets' = resets + 1
  /\ position' = [last |-> 0, status |-> "ok"]
  /\ UNCHANGED <<log, pending, tables>>

\* rebuild's transaction, reset_derived_state
Reset ==
  /\ resets < MaxResets /\ resets' = resets + 1
  /\ leases' = NoLeases /\ checkpoints' = NoCheckpoints /\ snapshots' = {}
  /\ runs' = [r \in Runs |-> IF runs[r] = None THEN None ELSE Fresh]
  /\ position' = [last |-> 0, status |-> "ok"]
  /\ UNCHANGED <<log, pending>>

ProjNext ==
  \/ \E r \in Runs : \/ InsertIntent(r) \/ RequesterDies(r)
                     \/ Reconcile(r) \/ AppendRequested(r)
                     \/ RunEvent(r)
                     \/ \E g \in Grants, s \in Snapshots : Propose(g, r, s)
                     \/ \E c \in Checkpoints : CheckpointEvent(c, r) \/ Handoff(c, r)
  \/ \E g \in Grants : LeaseEvent(g) \/ \E s \in Snapshots : ChainSnapshot(g, s)
  \/ \E s \in Snapshots : SnapshotEvent(s)
  \/ ApplyNext
  \/ Reset

ProjSpec == ProjInit /\ [][ProjNext]_projVars

\* Whoever reads the tables projects first (Elves, wakeups, handoffs, ...).
ProjFairSpec == ProjSpec /\ WF_projVars(ApplyNext)
-----------------------------------------------------------------------------
(* replay_events: the same fold over the events alone                      *)

PureInit == [runs |-> [r \in Runs |-> None], leases |-> [g \in Grants |-> None],
             checkpoints |-> {}, snapshots |-> {}, ok |-> TRUE]

\* ProjectorTransition.apply
PureApply(s, e) ==
  LET runTo   == IF s.runs[e.run] = None THEN "illegal" ELSE RunTarget(s.runs[e.run], e.act)
      leaseTo == IF s.leases[e.id] = None THEN "illegal" ELSE LeaseTarget(s.leases[e.id].status, e.act)
      error   == [s EXCEPT !.ok = FALSE]
  IN CASE e.act = "request" -> [s EXCEPT !.runs[e.run] = "requested"]
       [] e.act \in RunActs -> IF runTo = "illegal" THEN error ELSE [s EXCEPT !.runs[e.run] = runTo]
       [] e.act = "propose" ->
            IF s.runs[e.run] = None THEN error
            ELSE [s EXCEPT !.leases[e.id] = [status |-> "proposed", run |-> e.run]]
       [] e.act \in LeaseActs ->
            IF leaseTo = "illegal" THEN error ELSE [s EXCEPT !.leases[e.id].status = leaseTo]
       [] e.act = "checkpoint" ->
            IF s.runs[e.run] = None THEN error
            ELSE [s EXCEPT !.checkpoints = @ \cup {<<e.id, e.run>>}]
       [] e.act = "handoff" -> s
       [] e.act = "snapshot" -> [s EXCEPT !.snapshots = @ \cup {e.id}]

Replay[n \in Nat] == IF n = 0 THEN PureInit ELSE PureApply(Replay[n - 1], log[n])
-----------------------------------------------------------------------------
(* Properties                                                              *)

ProjTypeOK ==
  /\ \A i \in 1..Len(log) :
       /\ log[i].act \in AllActs \cup {"request"} /\ log[i].run \in Runs \cup {None}
       /\ log[i].dep \in Snapshots \cup {None}
       /\ log[i].id \in Grants \cup Checkpoints \cup Snapshots \cup {None}
  /\ Len(log) <= MaxEvents
  /\ pending \in [Runs -> 0..2]
  /\ \A r \in Runs : runs[r] = None \/ runs[r] \in [status : RunStatuses, seq : 0..MaxEvents]
  /\ \A g \in Grants : leases[g] = None \/
       leases[g] \in [status : LeaseStatuses, run : Runs, snapshot : Snapshots]
  /\ \A c \in Checkpoints : checkpoints[c] = None \/
       checkpoints[c] \in [run : Runs, seq : 1..MaxEvents]
  /\ snapshots \subseteq Snapshots
  /\ position \in [last : 0..MaxEvents, status : {"ok", "failed"}]
  /\ resets \in 0..MaxResets

\* The two implementations agree: however projecting, rebuilding and failing
\* interleave, the tables are what the pure replay of the applied events
\* yields, and what the projector applied the replay accepts.
ReplayAgrees ==
  LET s == Replay[position.last]
  IN /\ s.ok
     /\ \A r \in Runs : IF s.runs[r] = None THEN runs[r] \in {None, Fresh}
                        ELSE runs[r] # None /\ runs[r].status = s.runs[r]
     /\ \A g \in Grants : IF s.leases[g] = None THEN leases[g] = None
                          ELSE /\ leases[g] # None
                               /\ leases[g].status = s.leases[g].status
                               /\ leases[g].run = s.leases[g].run
     /\ {<<c, checkpoints[c].run>> : c \in {d \in Checkpoints : checkpoints[d] # None}}
          = s.checkpoints
     /\ snapshots = s.snapshots

\* A run is requested once in the trajectory, although its requester may die
\* between row and event, reconcilers race it, and a reset makes its row look
\* as if it had never been projected.
RequestedOnce ==
  \A i, j \in 1..Len(log) :
    log[i].act = "request" /\ log[j].act = "request" /\ log[i].run = log[j].run => i = j

\* The tables are right: of their types, equal to the replay, and each run's row
\* behind one request.
TablesAreRight == ProjTypeOK /\ ReplayAgrees /\ RequestedOnce

\* Projection catches up with the trajectory or stops at an event it reports,
\* also when a rebuild dies right after its reset.
CatchesUp == []<>(position.last = Len(log) \/ position.status = "failed")
=============================================================================
