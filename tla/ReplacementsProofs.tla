------------------------- MODULE ReplacementsProofs -------------------------
(***************************************************************************)
(* Machine-checked proofs about the recovery seam, for every set of        *)
(* callers, runs and decisions, and any number of orphaned messages.  The  *)
(* argument: the log only grows, so a check that was true when a caller    *)
(* made it is still true when its message is served (Fitting never         *)
(* shrinks); the round is derived from claims that nobody else appends.    *)
(***************************************************************************)
EXTENDS Replacements, TLAPS

-----------------------------------------------------------------------------
(* The writer's queue                                                      *)

\* A message joins the queue at its end.
LEMMA QueueAppend ==
  ASSUME NEW q \in Seq(Message), NEW m \in Message
  PROVE  /\ Append(q, m) \in Seq(Message)
         /\ Len(Append(q, m)) = Len(q) + 1 /\ Len(q) \in Nat
         /\ \A i \in 1..Len(q) : Append(q, m)[i] = q[i]
         /\ Append(q, m)[Len(q) + 1] = m
  OBVIOUS

\* The served message leaves at the front.
LEMMA QueueTail ==
  ASSUME NEW q \in Seq(Message), q # <<>>
  PROVE  /\ Head(q) = q[1] /\ Head(q) \in Message /\ 1 \in 1..Len(q)
         /\ Tail(q) \in Seq(Message)
         /\ Len(Tail(q)) = Len(q) - 1 /\ Len(q) \in Nat
         /\ \A i \in 1..Len(Tail(q)) : Tail(q)[i] = q[i + 1] /\ i + 1 \in 1..Len(q)
  OBVIOUS

\* A claim joins the claims of its run.
LEMMA ClaimAppend ==
  ASSUME NEW s \in Seq(Decisions), NEW d \in Decisions
  PROVE  /\ Append(s, d) \in Seq(Decisions)
         /\ Len(Append(s, d)) = Len(s) + 1 /\ Len(s) \in Nat
         /\ \A i \in 1..Len(s) : Append(s, d)[i] = s[i]
         /\ Append(s, d)[Len(s) + 1] = d
  OBVIOUS

-----------------------------------------------------------------------------
(* The log only grows                                                      *)

\* A step that leaves the log alone leaves what is read from it alone.
LEMMA LogSame ==
  ASSUME UNCHANGED logVars
  PROVE  /\ Replaceable' = Replaceable /\ Settled' = Settled /\ Holding' = Holding
         /\ Fitting' = Fitting /\ Claimed' = Claimed
         /\ RoundsOpenInTurn' <=> RoundsOpenInTurn
         /\ ReplaceIsClaimed' <=> ReplaceIsClaimed
         /\ \A r, d : RoundsOf(r, d)' = RoundsOf(r, d)
  <1>1. /\ Replaceable' = Replaceable /\ Settled' = Settled /\ Holding' = Holding
        /\ Claimed' = Claimed
    BY DEF logVars, Replaceable, GuardAllows, Reconciled, Reconciliations, Settled,
           ReplacementClaimReady, LinkedRuns, ClaimReconciled, Holding, RoundsOf, Claimed
  <1>2. Fitting' = Fitting
    BY <1>1 DEF Fitting
  <1>3. /\ RoundsOpenInTurn' <=> RoundsOpenInTurn
        /\ ReplaceIsClaimed' <=> ReplaceIsClaimed
        /\ \A r, d : RoundsOf(r, d)' = RoundsOf(r, d)
    BY DEF logVars, RoundsOpenInTurn, GuardAllows, Reconciled, Reconciliations,
           ReplacementClaimReady, LinkedRuns, ClaimReconciled, ReplaceIsClaimed, RoundsOf
  <1> QED BY <1>1, <1>2, <1>3

\* What may be replaced or is settled stays so when events are added.
LEMMA MoreEvents ==
  ASSUME ended \subseteq ended', linked \subseteq linked', decided \subseteq decided'
  PROVE  /\ Replaceable \subseteq Replaceable' /\ Settled \subseteq Settled'
         /\ \A k : ReplacementClaimReady(k) => ReplacementClaimReady(k)'
         /\ \A r : GuardAllows(r) => GuardAllows(r)'
  BY DEF Replaceable, GuardAllows, Reconciled, Reconciliations, Settled,
         ReplacementClaimReady, LinkedRuns, ClaimReconciled

\* What fits keeps fitting as the log grows.
LEMMA FittingGrows ==
  ASSUME Replaceable \subseteq Replaceable', Holding \subseteq Holding', Claimed \subseteq Claimed'
  PROVE  Fitting \subseteq Fitting'
  BY DEF Fitting

\* A step that adds events other than claims.
LEMMA OtherEvents ==
  ASSUME ended \subseteq ended', linked \subseteq linked', decided \subseteq decided',
         UNCHANGED claims
  PROVE  /\ Replaceable \subseteq Replaceable' /\ Settled \subseteq Settled'
         /\ Holding' = Holding /\ Fitting \subseteq Fitting' /\ Claimed' = Claimed
         /\ RoundsOpenInTurn => RoundsOpenInTurn'
         /\ \A r, d : RoundsOf(r, d)' = RoundsOf(r, d)
  <1>1. Replaceable \subseteq Replaceable' /\ Settled \subseteq Settled'
    BY MoreEvents
  <1>2. /\ Holding' = Holding /\ Claimed' = Claimed
        /\ \A r, d : RoundsOf(r, d)' = RoundsOf(r, d)
    BY DEF Holding, RoundsOf, Claimed
  <1>3. Fitting \subseteq Fitting'
    BY <1>1, <1>2, FittingGrows
  <1>4. RoundsOpenInTurn => RoundsOpenInTurn'
    BY MoreEvents DEF RoundsOpenInTurn
  <1> QED BY <1>1, <1>2, <1>3, <1>4

-----------------------------------------------------------------------------
(* The callers                                                             *)

\* Beginning a call whose checks passed preserves the invariant.
LEMMA BeginKeeps ==
  ASSUME SeamInv, NEW p \in Callers, NEW c \in Call, NEW ask \in {"claim", "decide", "link"},
         [ask |-> ask, call |-> c] \in Fitting, Begin(p, c, ask)
  PROVE  SeamInv'
  <1> USE ReplacementsAssumption DEF SeamInv
  <1>d. /\ Fitting' = Fitting /\ Claimed' = Claimed /\ Settled' = Settled
        /\ RoundsOpenInTurn' /\ ReplaceIsClaimed'
        /\ \A r, d : RoundsOf(r, d)' = RoundsOf(r, d)
    BY LogSame DEF Begin
  <1>n. at[p] = "idle" /\ \A i \in 1..Len(mailbox) : mailbox[i] \in Message
    BY DEF Begin, TypeOK
  <1>1. TypeOK'
    <2>1. \A i \in 1..Len(mailbox) : mailbox[i].from # None => mailbox[i].from \in Callers \ {p}
      BY <1>n DEF TypeOK, Message
    <2>2. \A i \in 1..Len(mailbox') : mailbox'[i].from # None =>
            at'[mailbox'[i].from] = "waiting" /\ call'[mailbox'[i].from] = mailbox'[i].call
      BY <2>1 DEF Begin, TypeOK
    <2>3. /\ at' \in [Callers -> {"idle", "claim", "decide", "link", "waiting"}]
          /\ call' \in [Callers -> Call \cup {None}] /\ told' \in [Callers -> Claim \cup {None}]
      BY DEF Begin, TypeOK
    <2> QED BY <2>2, <2>3 DEF Begin, TypeOK, logVars
  <1>2. Pending'
    BY <1>d DEF Begin, TypeOK, Pending
  <1>3. Queued' /\ OneMessage'
    BY <1>d DEF Begin, Queued, OneMessage
  <1>4. RoundIsOpen'
    BY <1>d DEF Begin, RoundIsOpen, logVars
  <1>5. ToldCalls'
    BY DEF Begin, TypeOK, ToldCalls
  <1>6. ClaimsAreExclusive'
    BY <1>d DEF Begin, TypeOK, ClaimsAreExclusive, logVars
  <1>7. LinkAnswersAreTrue'
    BY DEF Begin, TypeOK, LinkAnswersAreTrue, logVars
  <1> QED BY <1>d, <1>1, <1>2, <1>3, <1>4, <1>5, <1>6, <1>7

\* A claim of the log is a claim.
LEMMA ClaimedIsClaim ==
  ASSUME TypeOK
  PROVE  Claimed \subseteq Claim /\ \A k \in Claimed : k[1] \in Replaced
  BY DEF Claimed, Claim, TypeOK

\* request_replacement starts with its guard, which stays true.
LEMMA RequestReplacementKeeps ==
  ASSUME SeamInv, NEW p \in Callers, RequestReplacement(p)
  PROVE  SeamInv'
  <1>1. PICK do \in Choices \cap {"request", "replace"}, r \in Replaced, d \in Decisions :
           GuardAllows(r) /\ Begin(p, MakeCall(do, r, d, None, None), "claim")
    BY DEF RequestReplacement
  <1>2. MakeCall(do, r, d, None, None) \in Call
    BY <1>1 DEF MakeCall, Call, DecisionIds
  <1>3. [ask |-> "claim", call |-> MakeCall(do, r, d, None, None)] \in Fitting
    BY <1>1, <1>2 DEF MakeCall, Fitting, Replaceable
  <1> QED BY <1>1, <1>2, <1>3, BeginKeeps

\* record_choice of a choice without a check.
LEMMA RecordChoiceKeeps ==
  ASSUME SeamInv, NEW p \in Callers, RecordChoice(p)
  PROVE  SeamInv'
  <1>1. PICK do \in Choices \cap {"reconcile", "wait"}, r \in Replaced, d \in Decisions :
           Begin(p, MakeCall(do, r, d, None, None), "decide")
    BY DEF RecordChoice
  <1>2. MakeCall(do, r, d, None, None) \in Call
    BY <1>1 DEF MakeCall, Call, DecisionIds
  <1>3. [ask |-> "decide", call |-> MakeCall(do, r, d, None, None)] \in Fitting
    BY <1>1, <1>2 DEF MakeCall, Fitting
  <1> QED BY <1>1, <1>2, <1>3, BeginKeeps

\* A reconciliation that names a claim.
LEMMA ReconcileClaimKeeps ==
  ASSUME SeamInv, NEW p \in Callers, ReconcileClaim(p)
  PROVE  SeamInv'
  <1>1. PICK k \in Claimed : \E d \in Decisions \cup {k} :
           Begin(p, MakeCall("reconcile", k[1], d, k, None), "decide")
    BY DEF ReconcileClaim
  <1>2. PICK d \in Decisions \cup {k} : Begin(p, MakeCall("reconcile", k[1], d, k, None), "decide")
    BY <1>1
  <1>3. k \in Claim /\ k[1] \in Replaced
    BY ClaimedIsClaim DEF SeamInv
  <1>4. MakeCall("reconcile", k[1], d, k, None) \in Call
    BY <1>3 DEF MakeCall, Call, DecisionIds
  <1>5. [ask |-> "decide", call |-> MakeCall("reconcile", k[1], d, k, None)] \in Fitting
    BY <1>4 DEF MakeCall, Fitting
  <1> QED BY <1>2, <1>4, <1>5, BeginKeeps

\* link_replacement_claim.
LEMMA LinkReplacementClaimKeeps ==
  ASSUME SeamInv, NEW p \in Callers, LinkReplacementClaim(p)
  PROVE  SeamInv'
  <1>1. PICK k \in Claimed, t \in Runs : Begin(p, MakeCall("link", k[1], k, k, t), "link")
    BY DEF LinkReplacementClaim
  <1>2. k \in Claim /\ k[1] \in Replaced
    BY ClaimedIsClaim DEF SeamInv
  <1>3. MakeCall("link", k[1], k, k, t) \in Call
    BY <1>2 DEF MakeCall, Call, DecisionIds
  <1>4. [ask |-> "link", call |-> MakeCall("link", k[1], k, k, t)] \in Fitting
    BY <1>3 DEF MakeCall, Fitting
  <1> QED BY <1>1, <1>3, <1>4, BeginKeeps

\* The call to the writer.
LEMMA SendKeeps ==
  ASSUME SeamInv, NEW p \in Callers, Send(p)
  PROVE  SeamInv'
  <1> USE ReplacementsAssumption DEF SeamInv
  <1> DEFINE m == [from |-> p, ask |-> at[p], call |-> call[p]]
  <1>d. /\ Fitting' = Fitting /\ Claimed' = Claimed /\ Settled' = Settled
        /\ RoundsOpenInTurn' /\ ReplaceIsClaimed'
        /\ \A r, d : RoundsOf(r, d)' = RoundsOf(r, d)
    BY LogSame DEF Send
  <1>f. [ask |-> at[p], call |-> call[p]] \in Fitting
    BY DEF Send, Pending
  <1>m. m \in Message /\ m.from = p /\ m.call = call[p] /\ m.ask = at[p]
    BY <1>f DEF Message, Fitting
  <1>q. /\ mailbox' \in Seq(Message) /\ Len(mailbox') = Len(mailbox) + 1 /\ Len(mailbox) \in Nat
        /\ \A i \in 1..Len(mailbox) : mailbox'[i] = mailbox[i]
        /\ mailbox'[Len(mailbox) + 1] = m
    BY <1>m, QueueAppend DEF Send, TypeOK
  <1>w. at[p] # "waiting" /\ \A i \in 1..Len(mailbox) : mailbox[i].from # p
    BY DEF Send, TypeOK
  <1>1. TypeOK'
    <2>1. \A i \in 1..Len(mailbox') : mailbox'[i].from # None =>
            at'[mailbox'[i].from] = "waiting" /\ call'[mailbox'[i].from] = mailbox'[i].call
      <3>1. \A i \in 1..Len(mailbox) : mailbox[i] \in Message
        BY DEF TypeOK
      <3>2. \A i \in 1..Len(mailbox) : mailbox[i].from # None =>
              at'[mailbox[i].from] = "waiting" /\ call'[mailbox[i].from] = mailbox[i].call
        BY <3>1, <1>w DEF Send, TypeOK, Message
      <3>3. at'[p] = "waiting" /\ call'[p] = m.call
        BY <1>m DEF Send, TypeOK
      <3> QED BY <1>q, <1>m, <3>2, <3>3
    <2> QED BY <1>q, <2>1 DEF Send, TypeOK, logVars
  <1>2. Pending'
    BY <1>d DEF Send, TypeOK, Pending
  <1>3. Queued'
    BY <1>d, <1>f, <1>m, <1>q DEF Queued
  <1>4. OneMessage'
    BY <1>m, <1>q, <1>w DEF OneMessage
  <1>5. RoundIsOpen'
    <2>1. CASE round = 0
      BY <2>1 DEF Send, RoundIsOpen
    <2>2. CASE round # 0
      <3>1. mailbox'[1] = mailbox[1] /\ mailbox' # <<>>
        BY <2>2, <1>q DEF RoundIsOpen, TypeOK
      <3> QED BY <2>2, <3>1, <1>d DEF Send, RoundIsOpen, logVars
    <2> QED BY <2>1, <2>2
  <1>6. ToldCalls' /\ LinkAnswersAreTrue'
    BY DEF Send, ToldCalls, LinkAnswersAreTrue, logVars
  <1>7. ClaimsAreExclusive'
    BY <1>d DEF Send, ClaimsAreExclusive, logVars
  <1> QED BY <1>d, <1>1, <1>2, <1>3, <1>4, <1>5, <1>6, <1>7

\* Giving up: the message stays, without anybody waiting for its answer.
LEMMA GiveUpKeeps ==
  ASSUME SeamInv, NEW p \in Callers, GiveUp(p)
  PROVE  SeamInv'
  <1> USE ReplacementsAssumption DEF SeamInv
  <1>d. /\ Fitting' = Fitting /\ Claimed' = Claimed /\ Settled' = Settled
        /\ RoundsOpenInTurn' /\ ReplaceIsClaimed'
        /\ \A r, d : RoundsOf(r, d)' = RoundsOf(r, d)
    BY LogSame DEF GiveUp
  <1>m. \A i \in 1..Len(mailbox) : mailbox[i] \in Message
    BY DEF TypeOK
  <1>q. /\ Len(mailbox') = Len(mailbox) /\ Len(mailbox) \in Nat
        /\ mailbox' \in Seq(Message)
        /\ \A i \in 1..Len(mailbox) :
             /\ mailbox'[i].ask = mailbox[i].ask /\ mailbox'[i].call = mailbox[i].call
             /\ mailbox'[i].from = IF mailbox[i].from = p THEN None ELSE mailbox[i].from
    <2> DEFINE f(i) == IF mailbox[i].from = p THEN [mailbox[i] EXCEPT !.from = None] ELSE mailbox[i]
    <2>1. mailbox' = [i \in 1..Len(mailbox) |-> f(i)]
      BY DEF GiveUp
    <2>2. \A i \in 1..Len(mailbox) :
             /\ f(i) \in Message
             /\ f(i).ask = mailbox[i].ask /\ f(i).call = mailbox[i].call
             /\ f(i).from = IF mailbox[i].from = p THEN None ELSE mailbox[i].from
      BY <1>m DEF Message
    <2>3. Len(mailbox) \in Nat
      BY DEF TypeOK
    <2> HIDE DEF f
    <2>4. mailbox' \in Seq(Message) /\ Len(mailbox') = Len(mailbox)
      BY <2>1, <2>2, <2>3
    <2>5. \A i \in 1..Len(mailbox) : mailbox'[i] = f(i)
      BY <2>1
    <2> QED BY <2>2, <2>3, <2>4, <2>5
  <1>1. TypeOK'
    <2>1. \A i \in 1..Len(mailbox') : mailbox'[i].from # None =>
            at'[mailbox'[i].from] = "waiting" /\ call'[mailbox'[i].from] = mailbox'[i].call
      <3> SUFFICES ASSUME NEW i \in 1..Len(mailbox), mailbox'[i].from # None
                   PROVE  at'[mailbox'[i].from] = "waiting"
                          /\ call'[mailbox'[i].from] = mailbox'[i].call
        BY <1>q
      <3>1. /\ mailbox'[i].from = mailbox[i].from /\ mailbox[i].from # p
            /\ mailbox[i].from \in Callers /\ mailbox'[i].call = mailbox[i].call
        BY <1>q, <1>m DEF Message
      <3>2. at[mailbox[i].from] = "waiting" /\ call[mailbox[i].from] = mailbox[i].call
        BY <3>1 DEF TypeOK
      <3> QED BY <3>1, <3>2 DEF GiveUp, TypeOK
    <2>2. at' \in [Callers -> {"idle", "claim", "decide", "link", "waiting"}]
          /\ call' \in [Callers -> Call \cup {None}] /\ told' \in [Callers -> Claim \cup {None}]
      BY DEF GiveUp, TypeOK
    <2> QED BY <1>q, <2>1, <2>2 DEF GiveUp, TypeOK, logVars
  <1>2. Pending'
    BY <1>d DEF GiveUp, TypeOK, Pending
  <1>3. Queued'
    BY <1>d, <1>q DEF Queued
  <1>4. OneMessage'
    BY <1>q DEF OneMessage
  <1>5. RoundIsOpen'
    <2>1. CASE round = 0
      BY <2>1 DEF GiveUp, RoundIsOpen
    <2>2. CASE round # 0
      <3>1. /\ mailbox'[1].ask = mailbox[1].ask /\ mailbox'[1].call = mailbox[1].call
            /\ mailbox' # <<>>
        BY <2>2, <1>q DEF RoundIsOpen, TypeOK
      <3>2. round' = round /\ claims' = claims
        BY DEF GiveUp, logVars
      <3> QED BY <2>2, <3>1, <3>2, <1>d DEF RoundIsOpen, RoundsOf
    <2> QED BY <2>1, <2>2
  <1>6. ToldCalls' /\ LinkAnswersAreTrue'
    BY DEF GiveUp, TypeOK, ToldCalls, LinkAnswersAreTrue, logVars
  <1>7. ClaimsAreExclusive'
    BY <1>d DEF GiveUp, TypeOK, ClaimsAreExclusive, logVars
  <1> QED BY <1>d, <1>1, <1>2, <1>3, <1>4, <1>5, <1>6, <1>7

-----------------------------------------------------------------------------
(* The writer                                                              *)

\* Serving the message in hand leaves the queue behind it as it was.
LEMMA Served ==
  ASSUME SeamInv, mailbox # <<>>, mailbox' = Tail(mailbox), Fitting \subseteq Fitting'
  PROVE  /\ Head(mailbox) = mailbox[1] /\ Head(mailbox) \in Message
         /\ [ask |-> Head(mailbox).ask, call |-> Head(mailbox).call] \in Fitting
         /\ Head(mailbox).from # None => /\ at[Head(mailbox).from] = "waiting"
                                         /\ call[Head(mailbox).from] = Head(mailbox).call
         /\ mailbox' \in Seq(Message)
         /\ \A i \in 1..Len(mailbox') : mailbox'[i].from # None =>
              /\ mailbox'[i].from \in Callers \ {Head(mailbox).from}
              /\ at[mailbox'[i].from] = "waiting"
              /\ call[mailbox'[i].from] = mailbox'[i].call
         /\ Queued' /\ OneMessage'
  <1> USE DEF SeamInv
  <1>1. /\ Head(mailbox) = mailbox[1] /\ Head(mailbox) \in Message /\ 1 \in 1..Len(mailbox)
        /\ mailbox' \in Seq(Message)
        /\ Len(mailbox') = Len(mailbox) - 1 /\ Len(mailbox) \in Nat
        /\ \A i \in 1..Len(mailbox') : mailbox'[i] = mailbox[i + 1] /\ i + 1 \in 1..Len(mailbox)
    BY QueueTail DEF TypeOK
  <1>2. /\ [ask |-> Head(mailbox).ask, call |-> Head(mailbox).call] \in Fitting
        /\ Head(mailbox).from # None => /\ at[Head(mailbox).from] = "waiting"
                                        /\ call[Head(mailbox).from] = Head(mailbox).call
    BY <1>1 DEF Queued, TypeOK
  <1>3. \A i \in 1..Len(mailbox) : mailbox[i] \in Message
    BY DEF TypeOK
  <1>4. ASSUME NEW i \in 1..Len(mailbox'), mailbox'[i].from # None
        PROVE  /\ mailbox'[i].from \in Callers \ {Head(mailbox).from}
               /\ at[mailbox'[i].from] = "waiting"
               /\ call[mailbox'[i].from] = mailbox'[i].call
    <2>1. mailbox'[i] = mailbox[i + 1] /\ i + 1 \in 1..Len(mailbox) /\ i + 1 # 1
      BY <1>1
    <2>2. mailbox[i + 1].from \in Callers /\ mailbox[i + 1].from # mailbox[1].from
      BY <1>1, <1>3, <1>4, <2>1 DEF Message, OneMessage
    <2> QED BY <1>1, <1>4, <2>1, <2>2 DEF TypeOK
  <1>5. Queued'
    <2>1. \A i \in 1..Len(mailbox') :
             [ask |-> mailbox'[i].ask, call |-> mailbox'[i].call] \in Fitting
      BY <1>1 DEF Queued
    <2> QED BY <2>1 DEF Queued
  <1>6. OneMessage'
    BY <1>1 DEF OneMessage
  <1> QED BY <1>1, <1>2, <1>4, <1>5, <1>6

\* A reply: the caller of the message in hand is told, nobody else notices.
LEMMA ReplyMoves ==
  ASSUME SeamInv, mailbox # <<>>, NEW k \in Claim \cup {None}, ReplyTo(Head(mailbox).from, k),
         Fitting \subseteq Fitting', k # None => Head(mailbox).call.do \in {"request", "link"}
  PROVE  /\ mailbox' \in Seq(Message) /\ round' = 0
         /\ at' \in [Callers -> {"idle", "claim", "decide", "link", "waiting"}]
         /\ call' \in [Callers -> Call \cup {None}] /\ told' \in [Callers -> Claim \cup {None}]
         /\ \A i \in 1..Len(mailbox') : mailbox'[i].from # None =>
              at'[mailbox'[i].from] = "waiting" /\ call'[mailbox'[i].from] = mailbox'[i].call
         /\ Pending' /\ Queued' /\ OneMessage' /\ RoundIsOpen' /\ ToldCalls'
         /\ \A q \in Callers : \/ told'[q] = told[q] /\ call'[q] = call[q]
                               \/ told'[q] = None
                               \/ told'[q] = k /\ call'[q] = Head(mailbox).call
  <1> USE DEF SeamInv
  <1> DEFINE p == Head(mailbox).from
  <1>m. mailbox' = Tail(mailbox) /\ round' = 0
    BY DEF ReplyTo
  <1>s. /\ Head(mailbox) \in Message
        /\ p # None => call[p] = Head(mailbox).call
        /\ mailbox' \in Seq(Message)
        /\ \A i \in 1..Len(mailbox') : mailbox'[i].from # None =>
             /\ mailbox'[i].from \in Callers \ {p}
             /\ at[mailbox'[i].from] = "waiting"
             /\ call[mailbox'[i].from] = mailbox'[i].call
        /\ Queued' /\ OneMessage'
    BY <1>m, Served
  <1>c. p \in Callers \cup {None}
    BY <1>s DEF Message
  <1>r. RoundIsOpen'
    BY <1>m DEF RoundIsOpen
  <1> HIDE DEF p
  <1>1. CASE p = None
    <2>1. UNCHANGED callerVars
      BY <1>1 DEF ReplyTo, p
    <2>2. Pending' /\ ToldCalls'
      BY <2>1 DEF callerVars, Pending, ToldCalls
    <2> QED BY <1>m, <1>s, <1>r, <2>1, <2>2 DEF callerVars, TypeOK
  <1>2. CASE p # None
    <2>1. /\ at' = [at EXCEPT ![p] = "idle"]
          /\ call' = [call EXCEPT ![p] = IF k = None THEN None ELSE @]
          /\ told' = [told EXCEPT ![p] = k] /\ p \in Callers
      BY <1>2, <1>c DEF ReplyTo, p
    <2>2. /\ at' \in [Callers -> {"idle", "claim", "decide", "link", "waiting"}]
          /\ call' \in [Callers -> Call \cup {None}] /\ told' \in [Callers -> Claim \cup {None}]
      BY <2>1 DEF TypeOK
    <2>3. \A i \in 1..Len(mailbox') : mailbox'[i].from # None =>
             at'[mailbox'[i].from] = "waiting" /\ call'[mailbox'[i].from] = mailbox'[i].call
      BY <1>s, <2>1 DEF TypeOK
    <2>4. Pending'
      <3>1. \A q \in Callers : at'[q] \in {"claim", "decide", "link"} =>
               [ask |-> at'[q], call |-> call'[q]] \in Fitting
        BY <2>1 DEF Pending, TypeOK
      <3> QED BY <3>1 DEF Pending
    <2>5. \A q \in Callers : \/ told'[q] = told[q] /\ call'[q] = call[q]
                             \/ told'[q] = None
                             \/ told'[q] = k /\ call'[q] = Head(mailbox).call
      BY <1>2, <1>s, <2>1 DEF TypeOK
    <2>6. ToldCalls'
      BY <1>2, <1>s, <2>1 DEF TypeOK, ToldCalls
    <2> QED BY <1>m, <1>s, <1>r, <2>2, <2>3, <2>4, <2>5, <2>6
  <1> QED BY <1>1, <1>2

\* The claim of a "replace" choice is made, and the choice fits.
LEMMA GoOnMoves ==
  ASSUME SeamInv, mailbox # <<>>, GoOnToDecide(Head(mailbox).from), Fitting \subseteq Fitting',
         [ask |-> "decide", call |-> Head(mailbox).call] \in Fitting'
  PROVE  /\ mailbox' \in Seq(Message) /\ round' = 0
         /\ at' \in [Callers -> {"idle", "claim", "decide", "link", "waiting"}]
         /\ UNCHANGED <<call, told>>
         /\ \A i \in 1..Len(mailbox') : mailbox'[i].from # None =>
              at'[mailbox'[i].from] = "waiting" /\ call'[mailbox'[i].from] = mailbox'[i].call
         /\ Pending' /\ Queued' /\ OneMessage' /\ RoundIsOpen' /\ ToldCalls'
  <1> USE DEF SeamInv
  <1> DEFINE p == Head(mailbox).from
  <1>m. mailbox' = Tail(mailbox) /\ round' = 0 /\ UNCHANGED <<call, told>>
    BY DEF GoOnToDecide
  <1>s. /\ Head(mailbox) \in Message
        /\ p # None => at[p] = "waiting" /\ call[p] = Head(mailbox).call
        /\ mailbox' \in Seq(Message)
        /\ \A i \in 1..Len(mailbox') : mailbox'[i].from # None =>
             /\ mailbox'[i].from \in Callers \ {p}
             /\ at[mailbox'[i].from] = "waiting"
             /\ call[mailbox'[i].from] = mailbox'[i].call
        /\ Queued' /\ OneMessage'
    BY <1>m, Served
  <1>c. p \in Callers \cup {None}
    BY <1>s DEF Message
  <1>a. at' = IF p = None THEN at ELSE [at EXCEPT ![p] = "decide"]
    BY DEF GoOnToDecide
  <1> HIDE DEF p
  <1>1. at' \in [Callers -> {"idle", "claim", "decide", "link", "waiting"}]
    BY <1>a, <1>c DEF TypeOK
  <1>2. \A i \in 1..Len(mailbox') : mailbox'[i].from # None =>
           at'[mailbox'[i].from] = "waiting" /\ call'[mailbox'[i].from] = mailbox'[i].call
    BY <1>a, <1>c, <1>m, <1>s DEF TypeOK
  <1>3. Pending'
    <2>1. \A q \in Callers : at'[q] \in {"claim", "decide", "link"} =>
             [ask |-> at'[q], call |-> call'[q]] \in Fitting'
      <3> SUFFICES ASSUME NEW q \in Callers, at'[q] \in {"claim", "decide", "link"}
                   PROVE  [ask |-> at'[q], call |-> call'[q]] \in Fitting'
        OBVIOUS
      <3>1. CASE q = p
        <4>1. p # None /\ at'[q] = "decide" /\ call'[q] = Head(mailbox).call
          BY <3>1, <1>a, <1>m, <1>s, ReplacementsAssumption DEF TypeOK
        <4> QED BY <4>1
      <3>2. CASE q # p
        BY <3>2, <1>a, <1>m DEF Pending, TypeOK
      <3> QED BY <3>1, <3>2
    <2> QED BY <2>1 DEF Pending
  <1>4. RoundIsOpen' /\ ToldCalls'
    <2>1. \A q \in Callers : told[q] # None => at'[q] = "idle"
      BY <1>a, <1>s, <1>c DEF TypeOK, ToldCalls
    <2> QED BY <1>m, <2>1 DEF RoundIsOpen, ToldCalls
  <1> QED BY <1>m, <1>s, <1>1, <1>2, <1>3, <1>4

\* The derived round is open: the decision's own, or the next.
LEMMA DeriveRoundKeeps ==
  ASSUME SeamInv, DeriveRound
  PROVE  SeamInv'
  <1> USE DEF SeamInv
  <1> DEFINE c == Head(mailbox).call
  <1>d. /\ Fitting' = Fitting /\ Claimed' = Claimed /\ Settled' = Settled
        /\ RoundsOpenInTurn' /\ ReplaceIsClaimed' /\ UNCHANGED <<logVars, mailbox, callerVars>>
    BY LogSame DEF DeriveRound
  <1>h. /\ mailbox # <<>> /\ Head(mailbox) = mailbox[1] /\ mailbox[1].ask = "claim"
        /\ c \in Call /\ c.run \in Replaced /\ c.dec \in Decisions
    BY QueueTail DEF DeriveRound, InHand, TypeOK, Queued, Fitting, Call
  <1>r. round' = ReplacementRound(c.run, c.dec) /\ round' # 0
    BY DEF DeriveRound
  <1>t. claims[c.run] \in Seq(Decisions) /\ Len(claims[c.run]) \in Nat
    BY <1>h DEF TypeOK
  <1>o. \/ round' \in RoundsOf(c.run, c.dec)
        \/ /\ RoundsOf(c.run, c.dec) = {}
           /\ round' = Len(claims[c.run]) + 1
           /\ claims[c.run] = <<>> \/ <<c.run, Len(claims[c.run])>> \in Settled
    <2>1. CASE RoundsOf(c.run, c.dec) # {}
      <3>1. PICK n \in RoundsOf(c.run, c.dec) : TRUE
        BY <2>1
      <3>2. \A m \in RoundsOf(c.run, c.dec) : n <= m
        BY <1>h, <1>t, <3>1 DEF RoundsOf, ClaimsAreExclusive
      <3>3. round' = CHOOSE x \in RoundsOf(c.run, c.dec) :
                        \A m \in RoundsOf(c.run, c.dec) : x <= m
        BY <1>r, <2>1 DEF ReplacementRound
      <3> QED BY <3>1, <3>2, <3>3
    <2>2. CASE RoundsOf(c.run, c.dec) = {}
      <3>1. /\ round' = Len(claims[c.run]) + 1
            /\ Len(claims[c.run]) = 0 \/ ReplacementClaimReady(<<c.run, Len(claims[c.run])>>)
        BY <1>r, <2>2 DEF ReplacementRound
      <3>2. Len(claims[c.run]) # 0 => <<c.run, Len(claims[c.run])>> \in Claim
        BY <1>h, <1>t DEF Claim
      <3>3. claims[c.run] = <<>> \/ <<c.run, Len(claims[c.run])>> \in Settled
        BY <1>t, <3>1, <3>2 DEF Settled
      <3> QED BY <2>2, <3>1, <3>3
    <2> QED BY <2>1, <2>2
  <1>n. round' \in Nat
    BY <1>o, <1>t DEF RoundsOf
  <1>1. TypeOK'
    BY <1>d, <1>n DEF TypeOK, logVars, callerVars
  <1>2. RoundIsOpen'
    <2>1. claims' = claims /\ mailbox' = mailbox
      BY <1>d DEF logVars
    <2> QED BY <2>1, <1>d, <1>h, <1>o DEF RoundIsOpen, RoundsOf
  <1>3. Pending' /\ Queued' /\ OneMessage' /\ ToldCalls'
    BY <1>d DEF callerVars, Pending, Queued, OneMessage, ToldCalls
  <1>4. ClaimsAreExclusive' /\ LinkAnswersAreTrue'
    BY <1>d DEF logVars, callerVars, ClaimsAreExclusive, LinkAnswersAreTrue
  <1> QED BY <1>d, <1>1, <1>2, <1>3, <1>4

\* The refusal of a round.
LEMMA RefuseRoundKeeps ==
  ASSUME SeamInv, RefuseRound
  PROVE  SeamInv'
  <1> USE DEF SeamInv
  <1>d. /\ Fitting' = Fitting /\ Claimed' = Claimed
        /\ RoundsOpenInTurn' /\ ReplaceIsClaimed' /\ UNCHANGED logVars
    BY LogSame DEF RefuseRound
  <1>m. mailbox # <<>> /\ ReplyTo(Head(mailbox).from, None)
    BY DEF RefuseRound, InHand
  <1>r. /\ mailbox' \in Seq(Message) /\ round' = 0
        /\ at' \in [Callers -> {"idle", "claim", "decide", "link", "waiting"}]
        /\ call' \in [Callers -> Call \cup {None}] /\ told' \in [Callers -> Claim \cup {None}]
        /\ \A i \in 1..Len(mailbox') : mailbox'[i].from # None =>
             at'[mailbox'[i].from] = "waiting" /\ call'[mailbox'[i].from] = mailbox'[i].call
        /\ Pending' /\ Queued' /\ OneMessage' /\ RoundIsOpen' /\ ToldCalls'
        /\ \A q \in Callers : (told'[q] = told[q] /\ call'[q] = call[q]) \/ told'[q] = None
    BY <1>d, <1>m, ReplyMoves
  <1>1. TypeOK'
    BY <1>d, <1>r DEF TypeOK, logVars
  <1>2. ClaimsAreExclusive'
    BY <1>d, <1>r DEF ClaimsAreExclusive, logVars
  <1>3. LinkAnswersAreTrue'
    BY <1>d, <1>r DEF LinkAnswersAreTrue, logVars
  <1> QED BY <1>d, <1>r, <1>1, <1>2, <1>3

\* A new claim: one round more for its run, nothing else.
LEMMA ClaimGrows ==
  ASSUME TypeOK, NEW r \in Replaced, NEW d \in Decisions,
         claims' = [claims EXCEPT ![r] = Append(@, d)]
  PROVE  /\ claims' \in [Replaced -> Seq(Decisions)]
         /\ \A q \in Replaced \ {r} : claims'[q] = claims[q]
         /\ Len(claims'[r]) = Len(claims[r]) + 1 /\ claims'[r][Len(claims[r]) + 1] = d
         /\ \A q \in Replaced : /\ Len(claims[q]) \in Nat /\ Len(claims'[q]) \in Nat
                                /\ \A n \in 1..Len(claims[q]) :
                                     n \in 1..Len(claims'[q]) /\ claims'[q][n] = claims[q][n]
  <1>1. claims[r] \in Seq(Decisions) /\ \A q \in Replaced : Len(claims[q]) \in Nat
    BY DEF TypeOK
  <1>2. /\ Append(claims[r], d) \in Seq(Decisions)
        /\ Len(Append(claims[r], d)) = Len(claims[r]) + 1
        /\ \A i \in 1..Len(claims[r]) : Append(claims[r], d)[i] = claims[r][i]
        /\ Append(claims[r], d)[Len(claims[r]) + 1] = d
    BY <1>1, ClaimAppend
  <1>3. claims'[r] = Append(claims[r], d) /\ \A q \in Replaced \ {r} : claims'[q] = claims[q]
    BY DEF TypeOK
  <1>4. claims' \in [Replaced -> Seq(Decisions)]
    BY <1>2 DEF TypeOK
  <1>5. ASSUME NEW q \in Replaced
        PROVE  /\ Len(claims'[q]) \in Nat
               /\ \A n \in 1..Len(claims[q]) :
                    n \in 1..Len(claims'[q]) /\ claims'[q][n] = claims[q][n]
    <2>1. CASE q = r
      BY <2>1, <1>1, <1>2, <1>3
    <2>2. CASE q # r
      BY <2>2, <1>1, <1>3
    <2> QED BY <2>1, <2>2
  <1> QED BY <1>1, <1>2, <1>3, <1>4, <1>5

\* The claim of the round in hand: the one the decision has, or a new one.
LEMMA AppendReplacementClaimKeeps ==
  ASSUME SeamInv, AppendReplacementClaim
  PROVE  SeamInv'
  <1> USE ReplacementsAssumption DEF SeamInv
  <1> DEFINE c == Head(mailbox).call
             k == <<c.run, round>>
  <1>e. UNCHANGED <<records, ended, linked, decided>>
    BY DEF AppendReplacementClaim
  <1>h. /\ mailbox # <<>> /\ Head(mailbox) = mailbox[1]
        /\ [ask |-> "claim", call |-> c] \in Fitting
        /\ c \in Call /\ c.run \in Replaced /\ c.dec \in Decisions /\ GuardAllows(c.run)
        /\ c.do \in {"request", "replace"}
    BY QueueTail DEF AppendReplacementClaim, InHand, TypeOK, Queued, Fitting, Call, Replaceable
  <1>t. claims[c.run] \in Seq(Decisions) /\ Len(claims[c.run]) \in Nat /\ round \in Nat /\ round # 0
    BY <1>h DEF TypeOK, AppendReplacementClaim
  <1>o. \/ round \in RoundsOf(c.run, c.dec)
        \/ /\ RoundsOf(c.run, c.dec) = {}
           /\ round = Len(claims[c.run]) + 1
           /\ claims[c.run] = <<>> \/ <<c.run, Len(claims[c.run])>> \in Settled
    BY <1>h, <1>t DEF RoundIsOpen
  <1>k. k \in Claim
    BY <1>h, <1>t DEF Claim
  <1>w. /\ claims' = IF round <= Len(claims[c.run])
                     THEN claims ELSE [claims EXCEPT ![c.run] = Append(@, c.dec)]
        /\ IF c.do = "replace" THEN GoOnToDecide(Head(mailbox).from)
                               ELSE ReplyTo(Head(mailbox).from, k)
    BY <1>o, <1>t DEF AppendReplacementClaim, RoundsOf
  <1>g. /\ claims' \in [Replaced -> Seq(Decisions)]
        /\ \A q \in Replaced : /\ Len(claims[q]) \in Nat /\ Len(claims'[q]) \in Nat
                               /\ \A n \in 1..Len(claims[q]) :
                                    n \in 1..Len(claims'[q]) /\ claims'[q][n] = claims[q][n]
        /\ round \in 1..Len(claims'[c.run]) /\ claims'[c.run][round] = c.dec
        /\ \/ claims' = claims
           \/ /\ \A q \in Replaced \ {c.run} : claims'[q] = claims[q]
              /\ Len(claims'[c.run]) = Len(claims[c.run]) + 1
              /\ claims'[c.run][Len(claims[c.run]) + 1] = c.dec
              /\ RoundsOf(c.run, c.dec) = {}
              /\ claims[c.run] = <<>> \/ <<c.run, Len(claims[c.run])>> \in Settled
    <2>1. CASE round \in RoundsOf(c.run, c.dec)
      <3>1. claims' = claims
        BY <2>1, <1>w DEF RoundsOf
      <3>2. \A q \in Replaced : Len(claims[q]) \in Nat
        BY DEF TypeOK
      <3> QED BY <2>1, <3>1, <3>2 DEF RoundsOf, TypeOK
    <2>2. CASE round \notin RoundsOf(c.run, c.dec)
      <3>1. claims' = [claims EXCEPT ![c.run] = Append(@, c.dec)]
        BY <2>2, <1>o, <1>t, <1>w
      <3>2. /\ claims' \in [Replaced -> Seq(Decisions)]
            /\ \A q \in Replaced \ {c.run} : claims'[q] = claims[q]
            /\ Len(claims'[c.run]) = Len(claims[c.run]) + 1
            /\ claims'[c.run][Len(claims[c.run]) + 1] = c.dec
            /\ \A q \in Replaced : /\ Len(claims[q]) \in Nat /\ Len(claims'[q]) \in Nat
                                   /\ \A n \in 1..Len(claims[q]) :
                                        n \in 1..Len(claims'[q]) /\ claims'[q][n] = claims[q][n]
        BY <1>h, <3>1, ClaimGrows
      <3> QED BY <2>2, <1>o, <1>t, <3>2
    <2> QED BY <2>1, <2>2
  <1> HIDE DEF c, k
  <1>1. /\ Replaceable' = Replaceable /\ Settled' = Settled
        /\ \A r : GuardAllows(r)' <=> GuardAllows(r)
        /\ \A x : ReplacementClaimReady(x)' <=> ReplacementClaimReady(x)
    BY <1>e DEF Replaceable, GuardAllows, Reconciled, Reconciliations, Settled,
                ReplacementClaimReady, LinkedRuns, ClaimReconciled
  <1>2. Holding \subseteq Holding' /\ <<c.run, c.dec>> \in Holding'
    <2>1. Holding' = {x \in Replaced \X Decisions :
                        \E n \in 1..Len(claims'[x[1]]) : claims'[x[1]][n] = x[2]}
      BY DEF Holding, RoundsOf
    <2>2. \A x \in Holding : /\ x \in Replaced \X Decisions
                             /\ \E n \in 1..Len(claims[x[1]]) : claims[x[1]][n] = x[2]
      BY DEF Holding, RoundsOf
    <2>3. Holding \subseteq Holding'
      <3> SUFFICES ASSUME NEW x \in Holding PROVE x \in Holding'
        OBVIOUS
      <3>1. x[1] \in Replaced /\ x \in Replaced \X Decisions
        BY <2>2
      <3>2. PICK n \in 1..Len(claims[x[1]]) : claims[x[1]][n] = x[2]
        BY <2>2
      <3>3. n \in 1..Len(claims'[x[1]]) /\ claims'[x[1]][n] = x[2]
        BY <1>g, <3>1, <3>2
      <3> QED BY <2>1, <3>1, <3>3
    <2>4. <<c.run, c.dec>> \in Holding'
      BY <1>g, <1>h, <2>1
    <2> QED BY <2>3, <2>4
  <1>4. /\ \A y \in Claimed : y \in Claimed' /\ claims'[y[1]][y[2]] = claims[y[1]][y[2]]
        /\ k \in Claimed' /\ k[1] = c.run /\ k[2] = round
    BY <1>g, <1>h DEF Claimed, k
  <1>3. Fitting \subseteq Fitting'
    BY <1>1, <1>2, <1>4, FittingGrows
  <1>5. /\ mailbox' \in Seq(Message) /\ round' = 0
        /\ at' \in [Callers -> {"idle", "claim", "decide", "link", "waiting"}]
        /\ call' \in [Callers -> Call \cup {None}] /\ told' \in [Callers -> Claim \cup {None}]
        /\ \A i \in 1..Len(mailbox') : mailbox'[i].from # None =>
             at'[mailbox'[i].from] = "waiting" /\ call'[mailbox'[i].from] = mailbox'[i].call
        /\ Pending' /\ Queued' /\ OneMessage' /\ RoundIsOpen' /\ ToldCalls'
        /\ \A q \in Callers : \/ told'[q] = told[q] /\ call'[q] = call[q]
                              \/ told'[q] = None
                              \/ told'[q] = k /\ call'[q] = c /\ c.do = "request"
    <2>1. CASE c.do = "replace"
      <3>1. GoOnToDecide(Head(mailbox).from)
        BY <2>1, <1>w
      <3>2. [ask |-> "decide", call |-> Head(mailbox).call] \in Fitting'
        BY <2>1, <1>2, <1>h DEF Fitting, c
      <3>3. /\ mailbox' \in Seq(Message) /\ round' = 0
            /\ at' \in [Callers -> {"idle", "claim", "decide", "link", "waiting"}]
            /\ UNCHANGED <<call, told>>
            /\ \A i \in 1..Len(mailbox') : mailbox'[i].from # None =>
                 at'[mailbox'[i].from] = "waiting" /\ call'[mailbox'[i].from] = mailbox'[i].call
            /\ Pending' /\ Queued' /\ OneMessage' /\ RoundIsOpen' /\ ToldCalls'
        BY <1>3, <1>h, <3>1, <3>2, GoOnMoves
      <3> QED BY <3>3 DEF TypeOK
    <2>2. CASE c.do = "request"
      <3>1. ReplyTo(Head(mailbox).from, k)
        BY <2>2, <1>w
      <3>2. k \in Claim \cup {None} /\ (k # None => Head(mailbox).call.do \in {"request", "link"})
        BY <1>k, <2>2 DEF c
      <3>3. /\ mailbox' \in Seq(Message) /\ round' = 0
            /\ at' \in [Callers -> {"idle", "claim", "decide", "link", "waiting"}]
            /\ call' \in [Callers -> Call \cup {None}] /\ told' \in [Callers -> Claim \cup {None}]
            /\ \A i \in 1..Len(mailbox') : mailbox'[i].from # None =>
                 at'[mailbox'[i].from] = "waiting" /\ call'[mailbox'[i].from] = mailbox'[i].call
            /\ Pending' /\ Queued' /\ OneMessage' /\ RoundIsOpen' /\ ToldCalls'
            /\ \A q \in Callers : \/ told'[q] = told[q] /\ call'[q] = call[q]
                                  \/ told'[q] = None
                                  \/ told'[q] = k /\ call'[q] = Head(mailbox).call
        BY <1>3, <1>h, <3>1, <3>2, ReplyMoves
      <3> QED BY <2>2, <3>3 DEF c
    <2> QED BY <1>h, <2>1, <2>2
  <1>6. TypeOK'
    BY <1>e, <1>g, <1>5 DEF TypeOK
  <1>7. RoundsOpenInTurn'
    <2> SUFFICES ASSUME NEW r \in Replaced
                 PROVE  /\ claims'[r] # <<>> => GuardAllows(r)
                        /\ \A n \in 1..(Len(claims'[r]) - 1) : ReplacementClaimReady(<<r, n>>)
      BY <1>1 DEF RoundsOpenInTurn
    <2>1. CASE claims'[r] = claims[r]
      BY <2>1 DEF RoundsOpenInTurn
    <2>2. CASE claims'[r] # claims[r]
      <3>1. /\ r = c.run /\ Len(claims'[r]) = Len(claims[r]) + 1 /\ Len(claims[r]) \in Nat
            /\ claims[r] = <<>> \/ <<r, Len(claims[r])>> \in Settled
        BY <2>2, <1>g
      <3>2. ASSUME NEW n \in 1..(Len(claims'[r]) - 1)
            PROVE  ReplacementClaimReady(<<r, n>>)
        <4>1. CASE n = Len(claims[r])
          <5>1. claims[r] # <<>>
            BY <3>1, <3>2, <4>1
          <5> QED BY <3>1, <4>1, <5>1 DEF Settled
        <4>2. CASE n # Len(claims[r])
          <5>1. n \in 1..(Len(claims[r]) - 1)
            BY <3>1, <3>2, <4>2
          <5> QED BY <5>1 DEF RoundsOpenInTurn
        <4> QED BY <4>1, <4>2
      <3> QED BY <1>h, <3>1, <3>2
    <2> QED BY <2>1, <2>2
  <1>8. ClaimsAreExclusive'
    <2>1. ASSUME NEW r \in Replaced, NEW m \in 1..Len(claims'[r]), NEW n \in 1..Len(claims'[r]),
                 claims'[r][m] = claims'[r][n]
          PROVE  m = n
      <3>1. CASE claims'[r] = claims[r]
        BY <2>1, <3>1 DEF ClaimsAreExclusive
      <3>2. CASE claims'[r] # claims[r]
        <4>1. /\ r = c.run /\ Len(claims'[r]) = Len(claims[r]) + 1 /\ Len(claims[r]) \in Nat
              /\ claims'[r][Len(claims[r]) + 1] = c.dec
              /\ \A i \in 1..Len(claims[r]) : claims'[r][i] = claims[r][i] /\ claims[r][i] # c.dec
          BY <3>2, <1>g, <1>h DEF RoundsOf
        <4>2. CASE m \in 1..Len(claims[r]) /\ n \in 1..Len(claims[r])
          BY <2>1, <4>1, <4>2 DEF ClaimsAreExclusive
        <4>3. CASE m = Len(claims[r]) + 1 \/ n = Len(claims[r]) + 1
          <5>1. m \in 1..Len(claims[r]) \/ m = Len(claims[r]) + 1
            BY <4>1
          <5>2. n \in 1..Len(claims[r]) \/ n = Len(claims[r]) + 1
            BY <4>1
          <5> QED BY <2>1, <4>1, <4>3, <5>1, <5>2
        <4> QED BY <4>1, <4>2, <4>3
      <3> QED BY <3>1, <3>2
    <2>2. ASSUME NEW p \in Callers, told'[p] # None
          PROVE  /\ told'[p] \in Claimed'
                 /\ call'[p].do = "request" =>
                      /\ told'[p][1] = call'[p].run
                      /\ claims'[told'[p][1]][told'[p][2]] = call'[p].dec
      <3>1. CASE told'[p] = told[p] /\ call'[p] = call[p]
        BY <2>2, <3>1, <1>4 DEF ClaimsAreExclusive
      <3>2. CASE told'[p] = k /\ call'[p] = c
        BY <3>2, <1>4, <1>g
      <3> QED BY <2>2, <3>1, <3>2, <1>5
    <2> QED BY <2>1, <2>2 DEF ClaimsAreExclusive
  <1>9. LinkAnswersAreTrue'
    BY <1>5, <1>e DEF LinkAnswersAreTrue
  <1>10. ReplaceIsClaimed'
    <2>1. \A e \in decided : e.do = "replace" => e.run \in Replaced /\ RoundsOf(e.run, e.dec) # {}
      BY DEF ReplaceIsClaimed, TypeOK, Decision
    <2> QED BY <2>1, <1>e, <1>g DEF ReplaceIsClaimed, RoundsOf
  <1> QED BY <1>5, <1>6, <1>7, <1>8, <1>9, <1>10

\* The record of a choice: the first under its decision id, or nothing.
LEMMA AppendDecisionKeeps ==
  ASSUME SeamInv, AppendDecision
  PROVE  SeamInv'
  <1> USE DEF SeamInv
  <1> DEFINE c == Head(mailbox).call
             e == [dec |-> c.dec, do |-> c.do, run |-> c.run, claim |-> c.claim]
  <1>h. /\ mailbox # <<>> /\ c \in Call
        /\ c.do \in {"replace", "reconcile", "wait"}
        /\ c.do = "replace" => <<c.run, c.dec>> \in Holding
    BY QueueTail DEF AppendDecision, InHand, TypeOK, Queued, Fitting
  <1>w. /\ decided' \subseteq decided \cup {e} /\ decided \subseteq decided'
        /\ UNCHANGED <<records, ended, claims, linked>>
        /\ ReplyTo(Head(mailbox).from, None)
    BY DEF AppendDecision
  <1>e. e \in Decision /\ (e.do = "replace" => RoundsOf(e.run, e.dec) # {})
    BY <1>h DEF Call, Decision, Holding
  <1> HIDE DEF c, e
  <1>d. /\ Fitting \subseteq Fitting' /\ Claimed' = Claimed /\ RoundsOpenInTurn'
        /\ \A r, d : RoundsOf(r, d)' = RoundsOf(r, d)
    BY <1>w, OtherEvents
  <1>r. /\ mailbox' \in Seq(Message) /\ round' = 0
        /\ at' \in [Callers -> {"idle", "claim", "decide", "link", "waiting"}]
        /\ call' \in [Callers -> Call \cup {None}] /\ told' \in [Callers -> Claim \cup {None}]
        /\ \A i \in 1..Len(mailbox') : mailbox'[i].from # None =>
             at'[mailbox'[i].from] = "waiting" /\ call'[mailbox'[i].from] = mailbox'[i].call
        /\ Pending' /\ Queued' /\ OneMessage' /\ RoundIsOpen' /\ ToldCalls'
        /\ \A q \in Callers : (told'[q] = told[q] /\ call'[q] = call[q]) \/ told'[q] = None
    BY <1>d, <1>h, <1>w, ReplyMoves
  <1>1. TypeOK'
    BY <1>e, <1>r, <1>w DEF TypeOK
  <1>2. ClaimsAreExclusive'
    BY <1>d, <1>r, <1>w DEF ClaimsAreExclusive
  <1>3. LinkAnswersAreTrue'
    BY <1>r, <1>w DEF LinkAnswersAreTrue
  <1>4. ReplaceIsClaimed'
    <2>1. \A x \in decided' : x.do = "replace" => RoundsOf(x.run, x.dec) # {}
      BY <1>e, <1>w DEF ReplaceIsClaimed
    <2> QED BY <2>1, <1>w DEF ReplaceIsClaimed, RoundsOf
  <1> QED BY <1>d, <1>r, <1>1, <1>2, <1>3, <1>4

\* A link: the first of its claim, or nothing.
LEMMA AppendLinkKeeps ==
  ASSUME SeamInv, AppendLink
  PROVE  SeamInv'
  <1> USE DEF SeamInv
  <1> DEFINE c == Head(mailbox).call
             l == [claim |-> c.claim, run |-> c.target]
             k == IF LinkedRuns(c.claim) \subseteq {c.target} THEN c.claim ELSE None
  <1>h. /\ mailbox # <<>> /\ c \in Call /\ c.do = "link"
        /\ c.claim \in Claimed /\ c.claim \in Claim /\ c.target \in Runs
    <2>1. /\ mailbox # <<>> /\ Head(mailbox) = mailbox[1] /\ mailbox[1] \in Message
          /\ 1 \in 1..Len(mailbox) /\ mailbox[1].ask = "link"
      BY QueueTail DEF AppendLink, InHand, TypeOK
    <2>2. [ask |-> mailbox[1].ask, call |-> mailbox[1].call] \in Fitting
      BY <2>1 DEF Queued
    <2>3. c \in Call
      BY <2>1 DEF Message
    <2>4. c.do = "link" /\ c.claim \in Claimed /\ c.target \in Runs
      BY <2>1, <2>2 DEF Fitting
    <2> QED BY <2>1, <2>3, <2>4, ClaimedIsClaim
  <1>w. /\ linked' = IF LinkedRuns(c.claim) = {} THEN linked \cup {l} ELSE linked
        /\ UNCHANGED <<records, ended, claims, decided>>
        /\ ReplyTo(Head(mailbox).from, k)
    BY DEF AppendLink
  <1>l. l \in Link /\ l.claim = c.claim /\ l.run = c.target
    BY <1>h DEF Link
  <1>k. k \in Claim \cup {None} /\ (k # None => k = c.claim /\ LinkedRuns(c.claim) \subseteq {c.target})
    BY <1>h
  <1>t. k # None => l \in linked'
    <2>1. CASE LinkedRuns(c.claim) = {}
      BY <2>1, <1>w
    <2>2. CASE LinkedRuns(c.claim) # {}
      <3> SUFFICES ASSUME k # None PROVE l \in linked'
        OBVIOUS
      <3>1. PICK x \in linked : x.claim = c.claim
        BY <2>2 DEF LinkedRuns
      <3>2. x.run = c.target
        BY <1>k, <3>1 DEF LinkedRuns
      <3>3. x = l
        BY <3>1, <3>2 DEF TypeOK, Link
      <3> QED BY <2>2, <1>w, <3>3
    <2> QED BY <2>1, <2>2
  <1>s. k # None => Head(mailbox).call.do \in {"request", "link"}
    BY <1>h
  <1> HIDE DEF c, l, k
  <1>d. /\ Fitting \subseteq Fitting' /\ Claimed' = Claimed /\ RoundsOpenInTurn'
    BY <1>w, OtherEvents
  <1>r. /\ mailbox' \in Seq(Message) /\ round' = 0
        /\ at' \in [Callers -> {"idle", "claim", "decide", "link", "waiting"}]
        /\ call' \in [Callers -> Call \cup {None}] /\ told' \in [Callers -> Claim \cup {None}]
        /\ \A i \in 1..Len(mailbox') : mailbox'[i].from # None =>
             at'[mailbox'[i].from] = "waiting" /\ call'[mailbox'[i].from] = mailbox'[i].call
        /\ Pending' /\ Queued' /\ OneMessage' /\ RoundIsOpen' /\ ToldCalls'
        /\ \A q \in Callers : \/ told'[q] = told[q] /\ call'[q] = call[q]
                              \/ told'[q] = None
                              \/ told'[q] = k /\ call'[q] = Head(mailbox).call
    BY <1>d, <1>h, <1>k, <1>s, <1>w, ReplyMoves
  <1>1. TypeOK'
    BY <1>l, <1>r, <1>w DEF TypeOK
  <1>3. LinkAnswersAreTrue'
    <2>1. \A x, y \in linked' : x.claim = y.claim => x = y
      <3>1. CASE LinkedRuns(c.claim) = {}
        <4>1. \A x \in linked : x.claim # c.claim
          BY <3>1 DEF LinkedRuns
        <4> QED BY <3>1, <4>1, <1>l, <1>w DEF LinkAnswersAreTrue
      <3>2. CASE LinkedRuns(c.claim) # {}
        BY <3>2, <1>w DEF LinkAnswersAreTrue
      <3> QED BY <3>1, <3>2
    <2>2. ASSUME NEW p \in Callers, told'[p] # None, call'[p].do = "link"
          PROVE  [claim |-> told'[p], run |-> call'[p].target] \in linked'
      <3>1. CASE told'[p] = told[p] /\ call'[p] = call[p]
        BY <2>2, <3>1, <1>w DEF LinkAnswersAreTrue
      <3>2. CASE told'[p] = k /\ call'[p] = Head(mailbox).call
        <4>1. k = c.claim /\ call'[p] = c
          BY <2>2, <3>2, <1>k DEF c
        <4> QED BY <2>2, <3>2, <4>1, <1>t DEF l
      <3> QED BY <2>2, <3>1, <3>2, <1>r
    <2> QED BY <2>1, <2>2 DEF LinkAnswersAreTrue
  <1>2. ClaimsAreExclusive'
    <2>1. ASSUME NEW p \in Callers, told'[p] # None
          PROVE  /\ told'[p] \in Claimed
                 /\ call'[p].do = "request" =>
                      /\ told'[p][1] = call'[p].run
                      /\ claims[told'[p][1]][told'[p][2]] = call'[p].dec
      <3>1. CASE told'[p] = told[p] /\ call'[p] = call[p]
        BY <2>1, <3>1 DEF ClaimsAreExclusive
      <3>2. CASE told'[p] = k /\ call'[p] = Head(mailbox).call
        <4>1. k = c.claim /\ call'[p].do = "link"
          BY <2>1, <3>2, <1>h, <1>k DEF c
        <4> QED BY <3>2, <4>1, <1>h
      <3> QED BY <2>1, <3>1, <3>2, <1>r
    <2> QED BY <2>1, <1>d, <1>w DEF ClaimsAreExclusive
  <1>4. ReplaceIsClaimed'
    BY <1>w DEF ReplaceIsClaimed, RoundsOf
  <1> QED BY <1>d, <1>r, <1>1, <1>2, <1>3, <1>4

-----------------------------------------------------------------------------
(* The writer stops; the runs                                              *)

\* The queue is lost, and whoever waited for an answer is free again.
LEMMA WriterStopsKeeps ==
  ASSUME SeamInv, WriterStops
  PROVE  SeamInv'
  <1> USE ReplacementsAssumption DEF SeamInv
  <1>d. /\ Fitting' = Fitting /\ Claimed' = Claimed
        /\ RoundsOpenInTurn' /\ ReplaceIsClaimed' /\ UNCHANGED logVars
    BY LogSame DEF WriterStops
  <1>e. UNCHANGED <<records, ended, claims, linked, decided, told>>
    BY DEF WriterStops, logVars
  <1>w. /\ mailbox' = <<>> /\ Len(mailbox') = 0 /\ mailbox' \in Seq(Message) /\ round' = 0
        /\ at' = [p \in Callers |-> IF at[p] = "waiting" THEN "idle" ELSE at[p]]
        /\ call' = [p \in Callers |-> IF at[p] = "waiting" THEN None ELSE call[p]]
    BY DEF WriterStops
  <1>t. \A p \in Callers : told[p] # None => at[p] # "waiting"
    BY DEF ToldCalls
  <1>1. TypeOK'
    BY <1>e, <1>w DEF TypeOK
  <1>2. Pending'
    BY <1>d, <1>w DEF Pending
  <1>3. Queued' /\ OneMessage' /\ RoundIsOpen'
    BY <1>w DEF Queued, OneMessage, RoundIsOpen
  <1>4. ToldCalls'
    BY <1>e, <1>w, <1>t DEF ToldCalls
  <1>5. ClaimsAreExclusive'
    BY <1>d, <1>e, <1>w, <1>t DEF ClaimsAreExclusive
  <1>6. LinkAnswersAreTrue'
    BY <1>e, <1>w, <1>t DEF LinkAnswersAreTrue
  <1> QED BY <1>d, <1>1, <1>2, <1>3, <1>4, <1>5, <1>6

\* A run starts, or a run ends: the queue and the callers do not move.
LEMMA RunMovesKeeps ==
  ASSUME SeamInv, NEW r \in Runs, Launch(r) \/ RunEnds(r)
  PROVE  SeamInv'
  <1> USE DEF SeamInv
  <1>w. /\ UNCHANGED <<claims, linked, decided, mailbox, round, at, call, told>>
        /\ ended \subseteq ended' /\ records' \subseteq Runs /\ ended' \subseteq records'
    BY DEF Launch, RunEnds, callerVars, TypeOK
  <1>d. /\ Fitting \subseteq Fitting' /\ Claimed' = Claimed /\ RoundsOpenInTurn'
        /\ Settled \subseteq Settled'
        /\ \A q, d : RoundsOf(q, d)' = RoundsOf(q, d)
    BY <1>w, OtherEvents
  <1>1. TypeOK'
    BY <1>w DEF TypeOK
  <1>2. Pending' /\ Queued'
    BY <1>d, <1>w DEF Pending, Queued
  <1>3. OneMessage' /\ ToldCalls' /\ LinkAnswersAreTrue'
    BY <1>w DEF OneMessage, ToldCalls, LinkAnswersAreTrue
  <1>4. RoundIsOpen'
    BY <1>d, <1>w DEF RoundIsOpen, RoundsOf
  <1>5. ClaimsAreExclusive'
    BY <1>d, <1>w DEF ClaimsAreExclusive
  <1>6. ReplaceIsClaimed'
    BY <1>w DEF ReplaceIsClaimed, RoundsOf
  <1> QED BY <1>d, <1>1, <1>2, <1>3, <1>4, <1>5, <1>6

-----------------------------------------------------------------------------
(* The invariant                                                           *)

\* Nothing was claimed, linked or decided yet, and nobody calls.
LEMMA InitSeamInv == Init => SeamInv
  <1> SUFFICES ASSUME Init PROVE SeamInv
    OBVIOUS
  <1> USE ReplacementsAssumption DEF Init
  <1>m. Len(mailbox) = 0 /\ mailbox \in Seq(Message)
    OBVIOUS
  <1>c. \A r \in Replaced : claims[r] = <<>> /\ Len(claims[r]) = 0
    OBVIOUS
  <1>1. TypeOK
    BY <1>m DEF TypeOK
  <1>2. Pending /\ Queued /\ OneMessage /\ RoundIsOpen /\ ToldCalls
    BY <1>m DEF Pending, Queued, OneMessage, RoundIsOpen, ToldCalls
  <1>3. RoundsOpenInTurn /\ ClaimsAreExclusive
    BY <1>c DEF RoundsOpenInTurn, ClaimsAreExclusive
  <1>4. LinkAnswersAreTrue /\ ReplaceIsClaimed
    BY DEF LinkAnswersAreTrue, ReplaceIsClaimed
  <1> QED BY <1>1, <1>2, <1>3, <1>4 DEF SeamInv

\* A step that changes nothing.
LEMMA StutterKeeps ==
  ASSUME SeamInv, UNCHANGED vars
  PROVE  SeamInv'
  <1> USE DEF SeamInv
  <1>d. /\ Fitting' = Fitting /\ Settled' = Settled
        /\ RoundsOpenInTurn' /\ ReplaceIsClaimed' /\ Claimed' = Claimed
    BY LogSame DEF vars
  <1>w. UNCHANGED <<records, ended, claims, linked, decided, mailbox, round, at, call, told>>
    BY DEF vars, logVars, callerVars
  <1>1. TypeOK'
    BY <1>w DEF TypeOK
  <1>2. Pending' /\ Queued' /\ OneMessage' /\ ToldCalls' /\ LinkAnswersAreTrue'
    BY <1>d, <1>w DEF Pending, Queued, OneMessage, ToldCalls, LinkAnswersAreTrue
  <1>3. RoundIsOpen' /\ ClaimsAreExclusive'
    BY <1>d, <1>w DEF RoundIsOpen, ClaimsAreExclusive, RoundsOf
  <1> QED BY <1>d, <1>1, <1>2, <1>3

\* Every step keeps the invariant.
LEMMA NextSeamInv == SeamInv /\ [Next]_vars => SeamInv'
  <1> SUFFICES ASSUME SeamInv, [Next]_vars PROVE SeamInv'
    OBVIOUS
  <1>1. ASSUME NEW p \in Callers, Caller(p) PROVE SeamInv'
    BY <1>1, RequestReplacementKeeps, RecordChoiceKeeps, ReconcileClaimKeeps,
       LinkReplacementClaimKeeps, SendKeeps, GiveUpKeeps DEF Caller
  <1>2. ASSUME Writer PROVE SeamInv'
    BY <1>2, DeriveRoundKeeps, RefuseRoundKeeps, AppendReplacementClaimKeeps,
       AppendDecisionKeeps, AppendLinkKeeps DEF Writer
  <1> QED BY <1>1, <1>2, WriterStopsKeeps, RunMovesKeeps, StutterKeeps DEF Next

\* The whole invariant of the seam holds in every behaviour: the types, what
\* the pending and queued calls were checked for, the round in hand, and the
\* properties below.
THEOREM SeamInvariance == Spec => []SeamInv
  BY InitSeamInv, NextSeamInv, PTL DEF Spec

\* A run is claimed only after it may be replaced, and a round is opened only
\* after every earlier one is settled: for any number of callers, runs,
\* decisions and rounds, and also when the writer derived the round before
\* the runs went on (append_replacement_claim).
THEOREM RoundsInTurn == Spec => []RoundsOpenInTurn
  <1>1. SeamInv => RoundsOpenInTurn
    BY DEF SeamInv
  <1> QED BY <1>1, SeamInvariance, PTL

\* A decision claims at most one round of a run, a claim is linked to one run,
\* and what request_replacement and link_replacement_claim answer is true when
\* other callers claim and link at the same time, give up, or call again.
THEOREM ClaimsOwned == Spec => []ClaimsAreOwned
  <1>1. SeamInv => ClaimsAreOwned
    BY DEF SeamInv, ClaimsAreOwned
  <1> QED BY <1>1, SeamInvariance, PTL

\* A recorded "replace" choice has its claim, whatever crashed between the
\* claim and the record (record_choice).
THEOREM ReplaceClaimed == Spec => []ReplaceIsClaimed
  <1>1. SeamInv => ReplaceIsClaimed
    BY DEF SeamInv
  <1> QED BY <1>1, SeamInvariance, PTL
=============================================================================
