------------------------------ MODULE LeaseLoop ------------------------------
(***************************************************************************)
(* The execution lease of one run, enforced inside its Elf:                *)
(*   lib/shoestring/elves/elf.ex             lease_account and what follows*)
(*   lib/shoestring/cobbler/lease_bounds.ex  spend and the due latch       *)
(*   lib/shoestring/cobbler/lease_renewal.ex renewing at a safe boundary   *)
(*   lib/shoestring/cobbler/leases.ex        lifecycle appends             *)
(*                                                                         *)
(* The Elf decides from the lease ROW, which lags the trajectory until     *)
(* somebody projects the goal; every append validates against the row and  *)
(* has a key, per grant or per (grant, observed snapshot).  Others may     *)
(* project between any two steps of the Elf, the deadline may pass, and    *)
(* the Elf may die and be replaced.  Budgets are abstracted to the level   *)
(* LeaseBounds.due? reports.  The lease is granted, active and projected   *)
(* (load_lease projects the goal once if need be).                         *)
(***************************************************************************)
\* Some names begin with Lease: the proofs see this module beside Reservations.
EXTENDS HarnessLifecycle, Naturals, Sequences, FiniteSets

CONSTANTS Quota,      \* the provider may refuse the turn for quota
          Reuse,      \* a probe may return the reading it returned before
          Faults,     \* "append" | "observe" | "crash"
          MaxFaults,  \* bound: how many of them
          MaxReadings \* bound: capacity readings taken

ASSUME LeaseAssumption == /\ Quota \in BOOLEAN /\ Reuse \in BOOLEAN
                          /\ Faults \subseteq {"append", "observe", "crash"}
                          /\ MaxFaults \in Nat /\ MaxReadings \in Nat

VARIABLES
  log,      \* lease events of the grant: [act, key]
  applied,  \* how many of them are projected
  wedged,   \* the projector refused one of them: position failed
  leased,   \* the Elf's lease state and where it is
  deadline, \* the lease deadline has passed
  dueOnce,  \* the spend of the whole run has reached the due level
  verdict,  \* the result or error event that is persisted, if any
  reading,  \* id of the latest capacity reading
  epochs,   \* rearm_epoch calls
  faults    \* what has failed, in order

leaseVars == <<log, applied, wedged, leased, deadline, dueOnce, verdict, reading, epochs, faults>>

ByGrant == 0               \* the key without a snapshot
Keys    == 0..MaxReadings
Acts    == {"propose", "grant", "activate", "renewal_due", "renew", "expire",
            "revoke", "require_checkpoint"}
AccountKinds == {"none", "spend", "completed", "interrupted", "quota"}

Status[n \in Nat] == IF n = 0 THEN "proposed" ELSE LeaseTarget(Status[n - 1], log[n].act)
Row == Status[applied]     \* the lease row's status

Ended == leased.pc = "ended"
Fresh(level) == [pc |-> "idle", kind |-> "none", loaded |-> FALSE, level |-> level,
                 latch |-> level, effect |-> FALSE, spent |-> FALSE, stop |-> FALSE,
                 pending |-> FALSE, unjudged |-> FALSE, row |-> "none", admit |-> FALSE,
                 key |-> ByGrant]

LeaseInit ==
  /\ log = <<[act |-> "propose", key |-> ByGrant], [act |-> "grant", key |-> ByGrant],
             [act |-> "activate", key |-> ByGrant]>>
  /\ applied = 3 /\ wedged = FALSE
  /\ leased = Fresh(FALSE)
  /\ deadline = FALSE /\ dueOnce = FALSE /\ verdict = "none"
  /\ reading = 0 /\ epochs = 0 /\ faults = <<>>

Fault(kind) == kind \in Faults /\ Len(faults) < MaxFaults /\ faults' = Append(faults, kind)
Happened(kinds) == \E i \in 1..Len(faults) : faults[i] \in kinds

\* Projector.project: as far as the lifecycle table allows.
ProjectTo(n) == applied' = n /\ wedged' = (n < Len(log))
Project ==
  IF wedged THEN UNCHANGED <<applied, wedged>>
  ELSE \E n \in applied..Len(log) :
         /\ \A i \in applied + 1..n : Status[i] # "illegal"
         /\ n < Len(log) => Status[n + 1] = "illegal"
         /\ ProjectTo(n)

\* Trajectory.append under (act, key).
InLog(act, key) == \E i \in 1..Len(log) : log[i] = [act |-> act, key |-> key]
Append1(act, key) ==
  log' = IF InLog(act, key) THEN log ELSE Append(log, [act |-> act, key |-> key])

Others == UNCHANGED <<applied, wedged, deadline, dueOnce, verdict, reading, epochs>>
At(pc) == leased.pc = pc
Go(pc) == leased' = [leased EXCEPT !.pc = pc]

\* The append of the step succeeds and the Elf goes to ok, or fails and it
\* goes to err.
Step(act, key, ok, err) ==
  \/ Append1(act, key) /\ Go(ok) /\ UNCHANGED faults
  \/ Fault("append") /\ Go(err) /\ UNCHANGED log

-----------------------------------------------------------------------------
OtherProjects ==           \* wakeups, handoffs, screens: anyone projects
  /\ Project
  /\ UNCHANGED <<log, leased, deadline, dueOnce, verdict, reading, epochs, faults>>

DeadlinePasses ==
  /\ ~deadline /\ deadline' = TRUE
  /\ UNCHANGED <<log, applied, wedged, leased, dueOnce, verdict, reading, epochs, faults>>

-----------------------------------------------------------------------------
(* lease_account: spend, then quota_path, due_path, stop_path, renew_path  *)

AfterBounds(kind) == IF kind = "quota" THEN "quota" ELSE "due"

\* The first event after the bounds are built is part of what they were built
\* from: no effect, no new spend.
LeaseAccount(kind) ==
  /\ At("idle") /\ verdict = "none"
  /\ kind = "quota" => Quota
  /\ \E level \in BOOLEAN :
       /\ leased.level => level
       /\ kind # "spend" => level = leased.level
       /\ dueOnce' = (dueOnce \/ level)
       /\ LET counts == leased.loaded /\ kind = "spend"
          IN leased' = [leased EXCEPT !.pc = AfterBounds(kind), !.kind = kind, !.loaded = TRUE,
                       !.level = level, !.latch = level,
                       !.effect = counts /\ level /\ ~leased.latch,
                       !.spent = counts, !.unjudged = @ \/ counts]
  /\ verdict' = IF kind = "spend" THEN "none" ELSE kind
  /\ UNCHANGED <<log, applied, wedged, deadline, reading, epochs, faults>>

\* due_path: errors are ignored, the row decides whether the marker is legal.
DuePath ==
  /\ At("due")
  /\ IF (leased.effect \/ deadline) /\ LeaseTarget(Row, "renewal_due") # "illegal"
     THEN Step("renewal_due", ByGrant, "stop", "stop")
     ELSE Go("stop") /\ UNCHANGED <<log, faults>>
  /\ Others

\* stop_path: with a session only a passed deadline asks for a stop.
StopPath ==
  /\ At("stop")
  /\ \E stop \in BOOLEAN :
       /\ leased.stop => stop
       /\ stop => leased.stop \/ leased.level \/ deadline
       /\ leased' = [leased EXCEPT !.pc = "renew", !.stop = stop]
  /\ UNCHANGED <<log, faults>> /\ Others

RenewPath ==
  /\ At("renew")
  /\ LET due     == leased.level \/ deadline
         may     == due /\ (leased.stop \/ ~deadline)
         outcome == leased.kind \in {"completed", "interrupted"}
         judge   == IF outcome THEN leased.pending \/ leased.unjudged ELSE leased.spent
     IN Go(IF may /\ judge THEN "load" ELSE "done")
  /\ UNCHANGED <<log, faults>> /\ Others

QuotaPath == At("quota") /\ Go("load") /\ UNCHANGED <<log, faults>> /\ Others

\* Where an evaluation returns to: the rest of the event's account.
Return == IF leased.kind = "quota" THEN "due" ELSE "done"

-----------------------------------------------------------------------------
(* LeaseRenewal                                                            *)

\* renew_only: a refusal, or a dead lease, waits for the outcome.
Defer == leased' = [leased EXCEPT !.pc = Return, !.pending = TRUE, !.unjudged = FALSE]
MidTurn == leased.kind = "spend"

\* The expired outcome at the Elf: quota and interrupted turns decline.
Expired == IF leased.kind = "completed"
           THEN leased' = [leased EXCEPT !.pc = Return, !.pending = FALSE, !.unjudged = FALSE]
           ELSE Go(Return)

Renewable == {"active", "renewal_due", "renewed"}

Load ==
  /\ At("load")
  /\ CASE Row \in Renewable -> leased' = [leased EXCEPT !.pc = "observe", !.row = Row]
       [] Row \notin Renewable /\ MidTurn -> Defer
       [] Row \notin Renewable /\ ~MidTurn /\ leased.kind # "quota"
            /\ Row \in {"expired", "checkpoint_required"} -> Expired
       [] OTHER -> Go(Return)
  /\ UNCHANGED <<log, faults>> /\ Others

\* Mutant: a refused mid-turn evaluation is settled like any other.
ObserveSettles ==
  /\ At("observe") /\ reading < MaxReadings /\ reading' = reading + 1
  /\ \E admit \in BOOLEAN :
       leased' = [leased EXCEPT !.pc = "persist", !.key = reading + 1, !.admit = admit]
  /\ UNCHANGED <<log, applied, wedged, deadline, dueOnce, verdict, epochs, faults>>

\* evaluate_fresh; a refused mid-turn evaluation appends nothing at all.
Observe ==
  /\ At("observe")
  /\ \/ \E r \in {reading, reading + 1} \cap 1..MaxReadings, admit \in BOOLEAN :
          /\ r = reading => Reuse
          /\ reading' = r
          /\ IF ~admit /\ MidTurn THEN Defer
             ELSE leased' = [leased EXCEPT !.pc = "persist", !.key = r, !.admit = admit]
          /\ UNCHANGED faults
     \/ /\ Fault("observe") /\ UNCHANGED reading
        /\ IF MidTurn THEN Go(Return)
           ELSE leased' = [leased EXCEPT !.pc = "expire", !.key = ByGrant]
  /\ UNCHANGED <<log, applied, wedged, deadline, dueOnce, verdict, epochs>>

\* persist_and_settle: snapshot and decision, project, read the row again.
Persist ==
  /\ At("persist")
  /\ \/ /\ Project
        /\ LET row == Status[applied']
           IN CASE wedged' -> Go(Return)
                [] ~wedged' /\ row \in {"expired", "checkpoint_required"} -> Expired
                [] ~wedged' /\ row \in Renewable ->
                     leased' = [leased EXCEPT !.pc = IF leased.admit THEN "mark" ELSE "expire", !.row = row]
                [] OTHER -> Go(Return)
        /\ UNCHANGED faults
     \/ Fault("append") /\ Go(Return) /\ UNCHANGED <<applied, wedged>>
  /\ UNCHANGED <<log, deadline, dueOnce, verdict, reading, epochs>>

\* settle, admitted: ensure_due, whose transition validates against the row
\* as it is now, and then the renewal.
Mark ==
  /\ At("mark")
  /\ CASE leased.row = "renewal_due" -> Go("renewing") /\ UNCHANGED <<log, faults>>
       [] leased.row # "renewal_due" /\ LeaseTarget(Row, "renewal_due") # "illegal" ->
            Step("renewal_due", leased.key, "renewing", Return)
       [] OTHER -> Go(Return) /\ UNCHANGED <<log, faults>>
  /\ Others

\* Mutant: renewals are keyed by the grant alone.
RenewByGrant ==
  /\ At("renewing") /\ Append1("renew", ByGrant)
  /\ leased' = [leased EXCEPT !.pc = Return, !.level = FALSE, !.latch = FALSE, !.stop = FALSE,
               !.pending = FALSE, !.unjudged = FALSE]
  /\ epochs' = epochs + 1
  /\ UNCHANGED <<applied, wedged, deadline, dueOnce, verdict, reading, faults>>

Renew ==
  /\ At("renewing")
  /\ \/ /\ Append1("renew", leased.key) /\ UNCHANGED faults
        /\ IF leased.kind = "quota"
           THEN /\ leased' = [leased EXCEPT !.pc = Return, !.pending = FALSE, !.unjudged = FALSE]
                /\ UNCHANGED epochs
           ELSE /\ leased' = [leased EXCEPT !.pc = Return, !.level = FALSE, !.latch = FALSE,
                             !.stop = FALSE, !.pending = FALSE, !.unjudged = FALSE]
                /\ epochs' = epochs + 1
     \/ /\ Fault("append")    \* or chain_snapshot fails after the append
        /\ UNCHANGED log \/ Append1("renew", leased.key)
        /\ Go(Return) /\ UNCHANGED epochs
  /\ UNCHANGED <<applied, wedged, deadline, dueOnce, verdict, reading>>

\* expire_closed, from the status read before; a decline only checkpoints and
\* suspends, its appends are not lease events.
Expire ==
  /\ At("expire")
  /\ IF LeaseTarget(leased.row, "expire") # "illegal"
     THEN Step("expire", leased.key, "require", Return)
     ELSE Go(Return) /\ UNCHANGED <<log, faults>>
  /\ Others

Require ==
  /\ At("require")
  /\ \/ Append1("require_checkpoint", leased.key) /\ Expired /\ UNCHANGED faults
     \/ Fault("append") /\ Go(Return) /\ UNCHANGED log
  /\ Others

-----------------------------------------------------------------------------
(* The end of the event, and of the run                                    *)

Done ==
  /\ At("done")
  /\ leased' = [leased EXCEPT !.pc = IF verdict = "none" THEN "idle" ELSE "terminal", !.kind = "none",
               !.effect = FALSE, !.spent = FALSE, !.row = "none", !.admit = FALSE, !.key = ByGrant]
  /\ UNCHANGED <<log, faults>> /\ Others

\* project_after_terminal and settle_terminal_lease
Terminal ==
  /\ At("terminal") /\ Project
  /\ Go(IF ~wedged' /\ verdict = "completed"
           /\ Status[applied'] \in {"granted"} \cup Renewable THEN "revoke" ELSE "last")
  /\ UNCHANGED <<log, deadline, dueOnce, verdict, reading, epochs, faults>>

Revoke ==
  /\ \/ At("revoke") /\ Step("revoke", ByGrant, "retire", "ended")
     \/ At("retire") /\ Step("require_checkpoint", ByGrant, "last", "ended")
  /\ Others

Last ==
  /\ At("last") /\ Project /\ Go("ended")
  /\ UNCHANGED <<log, deadline, dueOnce, verdict, reading, epochs, faults>>

\* The Elf dies; its successor rebuilds the spend of the whole run, and ends
\* the run at once if a verdict is on record.
ElfReplaced ==
  /\ ~Ended /\ Fault("crash")
  /\ leased' = [Fresh(dueOnce) EXCEPT !.pc = IF verdict = "none" THEN "idle" ELSE "terminal"]
  /\ UNCHANGED <<log, applied, wedged, deadline, dueOnce, verdict, reading, epochs>>

Elf == \/ DuePath \/ StopPath \/ RenewPath \/ QuotaPath
       \/ Load \/ Observe \/ Persist \/ Mark \/ Renew \/ Expire \/ Require
       \/ Done \/ Terminal \/ Revoke \/ Last

LeaseNext ==
  \/ \E kind \in AccountKinds \ {"none"} : LeaseAccount(kind)
  \/ Elf \/ ElfReplaced
  \/ OtherProjects \/ DeadlinePasses

LeaseSpec == LeaseInit /\ [][LeaseNext]_leaseVars
-----------------------------------------------------------------------------
(* Properties                                                              *)

LeaseTypeOK ==
  /\ Len(log) \in 3..(7 + 4 * MaxReadings)
  /\ \A i \in 1..Len(log) : log[i] \in [act : Acts, key : Keys]
  /\ \A i, j \in 1..Len(log) : log[i] = log[j] => i = j
  /\ applied \in 3..Len(log) /\ Row \in LeaseStatuses
  /\ leased.row \in LeaseStatuses \cup {"none"} /\ leased.kind \in AccountKinds
  /\ reading \in 0..MaxReadings /\ epochs \in Nat /\ faults \in Seq(Faults)
  /\ verdict \in AccountKinds /\ {wedged, deadline, dueOnce} \subseteq BOOLEAN

\* lease_state_machine.ex and the harness projector: whatever the Elf appends
\* while it reads a row that lags behind its own appends, the lifecycle table
\* accepts it, so the lease never stops the projection of its goal.
LeaseProjects == \A i \in 1..Len(log) : Status[i] # "illegal"

\* A lease whose provider refuses nothing for quota, whose Elf lives on and
\* whose appends succeed always projects, although the Elf reads a row that
\* lags behind its own appends, others project in between and probes fail.
SteadyLeaseProjects ==
  verdict # "quota" /\ ~Happened({"crash", "append"}) => LeaseProjects

\* A completed run leaves no allowance behind: when nothing failed on the way
\* its lease is retired, by expiry or by revocation, whichever races it ran.
CompletedRetiresLease ==
  Ended /\ verdict = "completed" /\ faults = <<>> => Status[Len(log)] = "checkpoint_required"

\* leases.ex:84-91: the epoch is the count of durable lease.renewed events,
\* matching the resets of the counters.
EpochsAreDurable ==
  epochs <= Cardinality({i \in 1..Len(log) : log[i].act = "renew"})

\* A mid-turn refusal never precedes the turn's outcome with durable
\* artifacts: an expired lease implies that the outcome is on record.
NoMidTurnExpiry == (\E k \in Keys : InLog("expire", k)) => verdict # "none"

\* The allowance is what the log says, from the first epoch to the last: the three
\* properties above, over a log of the right type that holds nothing twice.
LeaseIsKept == LeaseTypeOK /\ CompletedRetiresLease /\ EpochsAreDurable /\ NoMidTurnExpiry
=============================================================================
