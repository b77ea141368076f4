---------------------------- MODULE Replacements ----------------------------
(***************************************************************************)
(* The orchestrator's recovery seam of one goal:                           *)
(*   lib/shoestring/elves/orchestrator.ex     record_choice,               *)
(*       request_replacement, link_replacement_claim,                      *)
(*       reconcile_replacement_claim                                       *)
(*   lib/shoestring/trajectory/writer.ex      append_replacement_claim     *)
(*                                                                         *)
(* A run that ended (or was explicitly reconciled) may be replaced, one    *)
(* round after the other.  A caller claims the next round, launches a run  *)
(* and links it to the claim; a claim that came to nothing is reconciled.  *)
(* The round is derived inside the goal's writer; every other check is     *)
(* made by the caller, before its append is queued to the writer.  Callers *)
(* race, give up while their message is still queued, and call again with  *)
(* the same decision; the writer stops at any point.                       *)
(***************************************************************************)
EXTENDS Naturals, Sequences, FiniteSets

CONSTANTS Callers,
          Runs,        \* run records of the goal, started or still to be started
          Replaced,    \* bound: those of them the callers ask to replace
          Decisions,   \* decision ids the callers own
          Choices,     \* bound: which of the calls they make, links and reconciliations
                       \* of claims apart; "wait" stands for every choice without effect
          None,
          Unheard,     \* bound: the calls a caller may give up once they are queued
          MaxOrphans   \* bound: queued messages whose caller has given up

ASSUME ReplacementsAssumption ==
  /\ Replaced \subseteq Runs
  /\ Choices \subseteq {"request", "replace", "reconcile", "wait"}
  /\ None \notin Callers \cup Runs \cup Decisions
  /\ MaxOrphans \in Nat

VARIABLES
  records,  \* runs that have a RunRecord
  ended,    \* runs with a terminal event in the log
  claims,   \* per run: the decisions of its elf.replacement_claimed events, by round
  linked,   \* elf.replacement_linked events
  decided,  \* elf.recovery_decided events
  mailbox,  \* the writer's message queue; its head is the message in hand
  round,    \* the round replacement_round derived for that message, or 0
  at,       \* per caller: where it is
  call,     \* per caller: the call it is making, or None
  told      \* per caller: the claim its last answer, :allowed or a link, is about

logVars    == <<records, ended, claims, linked, decided>>
callerVars == <<at, call, told>>
vars       == <<logVars, mailbox, round, callerVars>>

-----------------------------------------------------------------------------
(* Types                                                                   *)

\* A claim is the claim event of one round of one run.
Claim == Replaced \X (Nat \ {0})

\* reconcile_replacement_claim owns one decision id per claim.
DecisionIds == Decisions \cup Claim

Call == [do : {"request", "replace", "reconcile", "wait", "link"},
         run : Replaced, dec : DecisionIds, claim : Claim \cup {None}, target : Runs \cup {None}]

Link     == [claim : Claim, run : Runs]
Decision == [dec : DecisionIds, do : {"replace", "reconcile", "wait"},
             run : Replaced, claim : Claim \cup {None}]

\* What is asked of the writer; from = None when nobody waits for the answer.
Message == [from : Callers \cup {None}, ask : {"claim", "decide", "link"}, call : Call]

\* Every variable keeps its type, and a queued message names a caller only as
\* long as that caller waits for it.
TypeOK ==
  /\ records \subseteq Runs /\ ended \subseteq records
  /\ claims \in [Replaced -> Seq(Decisions)]
  /\ linked \subseteq Link
  /\ decided \subseteq Decision
  /\ mailbox \in Seq(Message)
  /\ round \in Nat
  /\ at \in [Callers -> {"idle", "claim", "decide", "link", "waiting"}]
  /\ call \in [Callers -> Call \cup {None}]
  /\ told \in [Callers -> Claim \cup {None}]
  /\ \A i \in 1..Len(mailbox) : mailbox[i].from # None =>
       at[mailbox[i].from] = "waiting" /\ call[mailbox[i].from] = mailbox[i].call

Init ==
  /\ records = Replaced /\ ended = {}
  /\ claims = [r \in Replaced |-> <<>>]
  /\ linked = {} /\ decided = {}
  /\ mailbox = <<>> /\ round = 0
  /\ at = [p \in Callers |-> "idle"]
  /\ call = [p \in Callers |-> None]
  /\ told = [p \in Callers |-> None]

-----------------------------------------------------------------------------
(* What the queries read from the log                                      *)

\* The claim events of the log.
Claimed == UNION {{r} \X (1..Len(claims[r])) : r \in Replaced}

Reconciliations == {e \in decided : e.do = "reconcile"}

\* reconciled?: an explicit reconciliation recorded for the run.
Reconciled(r) == \E e \in Reconciliations : e.run = r

\* claim_reconciled?: one that names the claim.
ClaimReconciled(k) == \E e \in Reconciliations : e.claim = k

\* linked_replacement_run_id
LinkedRuns(k) == {l.run : l \in {x \in linked : x.claim = k}}

\* guard_allows / can_replace?
GuardAllows(r) == r \in ended \/ Reconciled(r)

\* replacement_claim_ready?
ReplacementClaimReady(k) == LinkedRuns(k) \cap ended # {} \/ ClaimReconciled(k)

\* The rounds of run r that decision d has claimed.
RoundsOf(r, d) == {n \in 1..Len(claims[r]) : claims[r][n] = d}

\* Mutant: any link settles the last round.
RoundBehindLink(r, d) ==
  IF RoundsOf(r, d) # {}
  THEN CHOOSE n \in RoundsOf(r, d) : \A m \in RoundsOf(r, d) : n <= m
  ELSE IF Len(claims[r]) = 0 \/ LinkedRuns(<<r, Len(claims[r])>>) # {}
  THEN Len(claims[r]) + 1
  ELSE 0

\* replacement_round: the round the decision already has, or the next one if
\* the last is settled; 0 stands for :prior_replacement_active.
ReplacementRound(r, d) ==
  IF RoundsOf(r, d) # {}
  THEN CHOOSE n \in RoundsOf(r, d) : \A m \in RoundsOf(r, d) : n <= m
  ELSE IF Len(claims[r]) = 0 \/ ReplacementClaimReady(<<r, Len(claims[r])>>)
  THEN Len(claims[r]) + 1
  ELSE 0

-----------------------------------------------------------------------------
(* The callers                                                             *)

\* Caller p makes call c, whose checks passed, and will ask the writer for
\* this.  A call that is refused by its checks changes nothing.
Begin(p, c, ask) == /\ at[p] = "idle"
                    /\ at' = [at EXCEPT ![p] = ask]
                    /\ call' = [call EXCEPT ![p] = c]
                    /\ told' = [told EXCEPT ![p] = None]
                    /\ UNCHANGED <<logVars, mailbox, round>>

MakeCall(do, r, d, k, t) == [do |-> do, run |-> r, dec |-> d, claim |-> k, target |-> t]

\* request_replacement, alone or from record_choice with action "replace":
\* the guard on the prior run.
RequestReplacement(p) ==
  \E do \in Choices \cap {"request", "replace"}, r \in Replaced, d \in Decisions :
    /\ GuardAllows(r)
    /\ Begin(p, MakeCall(do, r, d, None, None), "claim")

\* record_choice with an action that asks for nothing else, and with
\* "reconcile" for the run as a whole.
RecordChoice(p) ==
  \E do \in Choices \cap {"reconcile", "wait"}, r \in Replaced, d \in Decisions :
    Begin(p, MakeCall(do, r, d, None, None), "decide")

\* reconciliation_allowed?
ReconciliationAllowed(k) == LinkedRuns(k) \subseteq ended

\* validate_reconciliation of a reconciliation that names a claim, recorded
\* by reconcile_replacement_claim or, as a choice, under the caller's own
\* decision id.
ReconcileClaim(p) ==
  \E k \in Claimed : \E d \in {k} \cup {x \in Decisions : "reconcile" \in Choices} :
    /\ ReconciliationAllowed(k)
    /\ Begin(p, MakeCall("reconcile", k[1], d, k, None), "decide")

\* link_allowed?: not linked to another run, and not reconciled.
LinkAllowed(k, t) == \/ LinkedRuns(k) = {t}
                     \/ LinkedRuns(k) = {} /\ ~ClaimReconciled(k)

\* link_replacement_claim: the checks of the caller.
LinkReplacementClaim(p) ==
  \E k \in Claimed, t \in Runs :
    /\ LinkAllowed(k, t)
    /\ t \in records
    /\ Begin(p, MakeCall("link", k[1], k, k, t), "link")

\* The call to the goal's writer.
Send(p) ==
  /\ at[p] \in {"claim", "decide", "link"}
  /\ mailbox' = Append(mailbox, [from |-> p, ask |-> at[p], call |-> call[p]])
  /\ at' = [at EXCEPT ![p] = "waiting"]
  /\ UNCHANGED <<logVars, round, call, told>>

Orphans == {i \in 1..Len(mailbox) : mailbox[i].from = None}

\* The caller crashes, or its call times out: what it queued stays queued.
GiveUp(p) ==
  /\ at[p] # "idle"
  /\ at[p] = "waiting" => call[p].do \in Unheard /\ Cardinality(Orphans) < MaxOrphans
  /\ mailbox' = [i \in 1..Len(mailbox) |->
                   IF mailbox[i].from = p THEN [mailbox[i] EXCEPT !.from = None] ELSE mailbox[i]]
  /\ at' = [at EXCEPT ![p] = "idle"]
  /\ call' = [call EXCEPT ![p] = None]
  /\ told' = [told EXCEPT ![p] = None]
  /\ UNCHANGED <<logVars, round>>

-----------------------------------------------------------------------------
(* The writer                                                              *)

\* The reply to the message in hand: the caller, if it still waits, learns
\* about claim k (None: nothing but the end of the call).
ReplyTo(p, k) ==
  /\ mailbox' = Tail(mailbox)
  /\ round' = 0
  /\ IF p = None
     THEN UNCHANGED callerVars
     ELSE /\ at' = [at EXCEPT ![p] = "idle"]
          /\ call' = [call EXCEPT ![p] = IF k = None THEN None ELSE @]
          /\ told' = [told EXCEPT ![p] = k]

\* The claim of record_choice's "replace" is made: the caller, if it still
\* waits, goes on to record the choice.
GoOnToDecide(p) ==
  /\ mailbox' = Tail(mailbox)
  /\ round' = 0
  /\ at' = IF p = None THEN at ELSE [at EXCEPT ![p] = "decide"]
  /\ UNCHANGED <<call, told>>

\* The message in hand asks for this, and nothing was done about it yet.
InHand(ask) == mailbox # <<>> /\ Head(mailbox).ask = ask

\* handle_call({:append_replacement_claim, ...}): the reads that derive the
\* round.  They are no part of the transaction that appends the claim.
DeriveRound ==
  /\ InHand("claim") /\ round = 0
  /\ LET c == Head(mailbox).call
     IN /\ ReplacementRound(c.run, c.dec) # 0
        /\ round' = ReplacementRound(c.run, c.dec)
  /\ UNCHANGED <<logVars, mailbox, callerVars>>

\* Mutant: the refusal does not keep the choice from being recorded.
RefuseRoundGoesOn ==
  /\ InHand("claim") /\ round = 0
  /\ ReplacementRound(Head(mailbox).call.run, Head(mailbox).call.dec) = 0
  /\ GoOnToDecide(Head(mailbox).from)
  /\ UNCHANGED logVars

\* {:error, :prior_replacement_active}
RefuseRound ==
  /\ InHand("claim") /\ round = 0
  /\ ReplacementRound(Head(mailbox).call.run, Head(mailbox).call.dec) = 0
  /\ ReplyTo(Head(mailbox).from, None)
  /\ UNCHANGED logVars

\* handle_append of the claim under the key of its round: a new claim, or the
\* one that round already has.  Its decision tells the caller whether it won;
\* a "replace" choice then has its decision recorded.
AppendReplacementClaim ==
  /\ InHand("claim") /\ round # 0
  /\ LET c == Head(mailbox).call
         known == round <= Len(claims[c.run])
         won == known => claims[c.run][round] = c.dec
     IN /\ claims' = IF known THEN claims ELSE [claims EXCEPT ![c.run] = Append(@, c.dec)]
        /\ IF won /\ c.do = "replace"
           THEN GoOnToDecide(Head(mailbox).from)
           ELSE ReplyTo(Head(mailbox).from, IF won THEN <<c.run, round>> ELSE None)
  /\ UNCHANGED <<records, ended, linked, decided>>

\* The append of elf.recovery_decided under the key of its decision id: the
\* first choice recorded under an id is the one that stands.
AppendDecision ==
  /\ InHand("decide")
  /\ LET c == Head(mailbox).call
         e == [dec |-> c.dec, do |-> c.do, run |-> c.run, claim |-> c.claim]
     IN decided' = IF \E x \in decided : x.dec = c.dec THEN decided ELSE decided \cup {e}
  /\ ReplyTo(Head(mailbox).from, None)
  /\ UNCHANGED <<records, ended, claims, linked>>

\* Mutant: a link that was there already counts as the caller's.
AppendLinkTrustsKey ==
  /\ InHand("link")
  /\ LET c == Head(mailbox).call
     IN linked' = IF LinkedRuns(c.claim) = {}
                  THEN linked \cup {[claim |-> c.claim, run |-> c.target]}
                  ELSE linked
  /\ ReplyTo(Head(mailbox).from, Head(mailbox).call.claim)
  /\ UNCHANGED <<records, ended, claims, decided>>

\* The append of elf.replacement_linked under the key of its claim; a link of
\* the claim to another run is :replacement_claim_already_linked.
AppendLink ==
  /\ InHand("link")
  /\ LET c == Head(mailbox).call
     IN /\ linked' = IF LinkedRuns(c.claim) = {}
                     THEN linked \cup {[claim |-> c.claim, run |-> c.target]}
                     ELSE linked
        /\ ReplyTo(Head(mailbox).from, IF LinkedRuns(c.claim) \subseteq {c.target} THEN c.claim ELSE None)
  /\ UNCHANGED <<records, ended, claims, decided>>

\* The writer stops (killed, shut down): its queue is lost, and the callers'
\* calls exit.
WriterStops ==
  /\ mailbox # <<>>
  /\ mailbox' = <<>> /\ round' = 0
  /\ at' = [p \in Callers |-> IF at[p] = "waiting" THEN "idle" ELSE at[p]]
  /\ call' = [p \in Callers |-> IF at[p] = "waiting" THEN None ELSE call[p]]
  /\ UNCHANGED <<logVars, told>>

-----------------------------------------------------------------------------
(* The runs                                                                *)

\* Somebody starts a run, for instance the caller that was allowed to.
Launch(r) == /\ r \in Runs \ records
             /\ records' = records \cup {r}
             /\ UNCHANGED <<ended, claims, linked, decided, mailbox, round, callerVars>>

\* Its Elf, or a recovery through a transaction of its own, commits the
\* terminal event.
RunEnds(r) == /\ r \in records \ ended
              /\ ended' = ended \cup {r}
              /\ UNCHANGED <<records, claims, linked, decided, mailbox, round, callerVars>>

-----------------------------------------------------------------------------
Caller(p) == \/ RequestReplacement(p) \/ RecordChoice(p) \/ ReconcileClaim(p)
             \/ LinkReplacementClaim(p) \/ Send(p) \/ GiveUp(p)

Writer == \/ DeriveRound \/ RefuseRound \/ AppendReplacementClaim
          \/ AppendDecision \/ AppendLink

Next == \/ \E p \in Callers : Caller(p)
        \/ Writer
        \/ WriterStops
        \/ \E r \in Runs : Launch(r) \/ RunEnds(r)

Spec == Init /\ [][Next]_vars

-----------------------------------------------------------------------------
(* Properties                                                              *)

\* Rounds follow each other: a run is claimed only after it ended or was
\* reconciled, and a later round exists only if every earlier one is settled,
\* by the end of the run linked to it or by its own reconciliation.
RoundsOpenInTurn ==
  \A r \in Replaced :
    /\ claims[r] # <<>> => GuardAllows(r)
    /\ \A n \in 1..(Len(claims[r]) - 1) : ReplacementClaimReady(<<r, n>>)

\* A decision has at most one round of a run, however often it is repeated and
\* however late (a retry of a decision whose round is long over opens no new
\* one), and a caller is allowed only what its own decision claimed.
ClaimsAreExclusive ==
  /\ \A r \in Replaced : \A m, n \in 1..Len(claims[r]) : claims[r][m] = claims[r][n] => m = n
  /\ \A p \in Callers : told[p] # None =>
       /\ told[p] \in Claimed
       /\ call[p].do = "request" =>
            told[p][1] = call[p].run /\ claims[told[p][1]][told[p][2]] = call[p].dec

\* A claim is linked to one run for ever, and a caller that is told its link
\* stands is told the truth, also when another caller linked the claim between
\* the check and the append.
LinkAnswersAreTrue ==
  /\ \A x, y \in linked : x.claim = y.claim => x = y
  /\ \A p \in Callers : told[p] # None /\ call[p].do = "link" =>
       [claim |-> told[p], run |-> call[p].target] \in linked

\* A claim belongs to one decision and to one run, and what callers are told
\* about it is true.
ClaimsAreOwned == TypeOK /\ ClaimsAreExclusive /\ LinkAnswersAreTrue

\* A recorded choice to replace a run is backed by a claim of that decision,
\* whatever crashed or was repeated in between.
ReplaceIsClaimed ==
  \A e \in decided : e.do = "replace" => RoundsOf(e.run, e.dec) # {}

\* "A linked claim can be reconciled only after its replacement run has been
\* explicitly cancelled or otherwise terminalized" (orchestrator.ex:330-332):
\* no claim is reconciled while the run linked to it is active.
ReconciledHasEnded == \A l \in linked : ClaimReconciled(l.claim) => l.run \in ended

-----------------------------------------------------------------------------
(* The inductive invariant behind the safety properties                    *)

\* The runs that may be replaced, the claims that are settled, and the
\* decisions that hold a round of a run.  None of them ever shrinks.
Replaceable == {r \in Replaced : GuardAllows(r)}
Settled     == {k \in Claim : ReplacementClaimReady(k)}
Holding     == {x \in Replaced \X Decisions : RoundsOf(x[1], x[2]) # {}}

\* What may be asked of the writer, with the checks that were made before and
\* have not become false since.
Fitting ==
  {x \in [ask : {"claim", "decide", "link"}, call : Call] :
     /\ x.ask = "claim" => /\ x.call.do \in {"request", "replace"}
                           /\ x.call.dec \in Decisions
                           /\ x.call.run \in Replaceable
     /\ x.ask = "decide" => /\ x.call.do \in {"replace", "reconcile", "wait"}
                            /\ x.call.do = "replace" => <<x.call.run, x.call.dec>> \in Holding
     /\ x.ask = "link" => /\ x.call.do = "link"
                          /\ x.call.claim \in Claimed /\ x.call.target \in Runs}

Pending == \A p \in Callers : at[p] \in {"claim", "decide", "link"} =>
             [ask |-> at[p], call |-> call[p]] \in Fitting

Queued == \A i \in 1..Len(mailbox) :
            [ask |-> mailbox[i].ask, call |-> mailbox[i].call] \in Fitting

\* A caller has one message in the queue at a time.
OneMessage == \A i, j \in 1..Len(mailbox) :
                mailbox[i].from # None /\ mailbox[i].from = mailbox[j].from => i = j

\* The round in hand is the decision's own, or the next one of a run whose
\* last round is settled.
RoundIsOpen ==
  round # 0 =>
    /\ mailbox # <<>> /\ mailbox[1].ask = "claim"
    /\ LET c == mailbox[1].call
       IN \/ round \in RoundsOf(c.run, c.dec)
          \/ /\ RoundsOf(c.run, c.dec) = {}
             /\ round = Len(claims[c.run]) + 1
             /\ claims[c.run] = <<>> \/ <<c.run, Len(claims[c.run])>> \in Settled

\* Only a request or a link tells its caller about a claim, when it is over.
ToldCalls == \A p \in Callers : told[p] # None =>
               at[p] = "idle" /\ call[p].do \in {"request", "link"}

SeamInv == /\ TypeOK /\ Pending /\ Queued /\ OneMessage /\ RoundIsOpen /\ ToldCalls
           /\ RoundsOpenInTurn /\ ClaimsAreExclusive /\ LinkAnswersAreTrue /\ ReplaceIsClaimed
=============================================================================
