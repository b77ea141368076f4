-------------------------- MODULE HarnessLifecycle --------------------------
(***************************************************************************)
(* The two pure lifecycle tables of the harness:                           *)
(*   lib/shoestring/harness/run_state_machine.ex                           *)
(*   lib/shoestring/harness/lease_state_machine.ex                         *)
(* Target gives the state an action leads to, or "illegal".  :resume and   *)
(* :continue are left out: no event type carries them.                     *)
(***************************************************************************)

RunStatuses == {"requested", "starting", "running", "pausing", "suspended",
                "completed", "failed", "interrupted", "cancelling", "cancelled"}

LeaseStatuses == {"proposed", "granted", "active", "renewal_due", "renewed",
                  "expired", "revoked", "checkpoint_required"}

InFlight == {"starting", "running", "pausing", "suspended"}

\* RunStateMachine.target/2
RunTarget(s, a) ==
  CASE a = "request"   /\ s = "requested"                                -> "requested"
    [] a = "begin"     /\ s \in {"requested", "suspended", "interrupted"} -> "starting"
    [] a = "started"   /\ s = "starting"                                 -> "running"
    [] a = "pause"     /\ s = "running"                                  -> "pausing"
    [] a = "suspend"   /\ s = "pausing"                                  -> "suspended"
    [] a = "complete"  /\ s \in {"running", "suspended", "completed"}    -> "completed"
    [] a = "fail"      /\ s \in InFlight \cup {"requested", "failed"}    -> "failed"
    [] a = "interrupt" /\ s \in InFlight \cup {"interrupted"}            -> "interrupted"
    [] a = "cancel"    /\ s \in InFlight \cup {"requested"}              -> "cancelling"
    [] a = "cancelled" /\ s \in {"cancelling", "cancelled"}              -> "cancelled"
    [] OTHER -> "illegal"

\* LeaseStateMachine.target/2
LeaseTarget(s, a) ==
  CASE a = "propose"     /\ s = "proposed"                     -> "proposed"
    [] a = "grant"       /\ s = "proposed"                     -> "granted"
    [] a = "activate"    /\ s \in {"granted", "renewed"}       -> "active"
    [] a = "renewal_due" /\ s \in {"active", "renewed"}        -> "renewal_due"
    [] a = "renew"       /\ s = "renewal_due"                  -> "renewed"
    [] a = "expire"      /\ s \in {"granted", "active", "renewal_due", "renewed"} -> "expired"
    [] a = "revoke"      /\ s \in {"granted", "active", "renewal_due", "renewed"} -> "revoked"
    [] a = "require_checkpoint" /\ s \in {"expired", "revoked", "checkpoint_required"} ->
         "checkpoint_required"
    [] OTHER -> "illegal"
=============================================================================
