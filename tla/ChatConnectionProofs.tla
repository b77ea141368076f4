------------------------ MODULE ChatConnectionProofs ------------------------
(***************************************************************************)
(* Machine-checked proofs about the chat screen's connection, for any      *)
(* messages and cancels and any number of lost connections, handoffs and   *)
(* events: nothing typed disappears, a cancel reaches the engine once, the *)
(* service watches what the screen shows, and events are shown in order.   *)
(***************************************************************************)
EXTENDS ChatConnection, FiniteSetTheorems, WellFoundedInduction, TLAPS

-----------------------------------------------------------------------------
(* Sequences                                                               *)

\* What appending to a queue does.
LEMMA AppendFacts ==
  ASSUME NEW T, NEW q \in Seq(T), NEW e \in T
  PROVE  /\ Append(q, e) \in Seq(T)
         /\ Len(Append(q, e)) = Len(q) + 1
         /\ \A i \in 1..Len(q) : Append(q, e)[i] = q[i]
         /\ Append(q, e)[Len(q) + 1] = e
  OBVIOUS

\* What taking the head of a queue does.
LEMMA TailFacts ==
  ASSUME NEW T, NEW q \in Seq(T), q # <<>>
  PROVE  /\ Len(q) \in Nat /\ Len(q) >= 1
         /\ Head(q) = q[1] /\ Head(q) \in T
         /\ Tail(q) \in Seq(T)
         /\ Len(Tail(q)) = Len(q) - 1
         /\ \A i \in 1..(Len(q) - 1) : Tail(q)[i] = q[i + 1]
  OBVIOUS

\* What joining two queues does.
LEMMA ConcatFacts ==
  ASSUME NEW T, NEW q \in Seq(T), NEW r \in Seq(T)
  PROVE  /\ q \o r \in Seq(T)
         /\ Len(q \o r) = Len(q) + Len(r)
         /\ \A i \in 1..Len(q) : (q \o r)[i] = q[i]
         /\ \A i \in 1..Len(r) : (q \o r)[Len(q) + i] = r[i]
  OBVIOUS

\* What cutting a queue does.
LEMMA PrefixFacts ==
  ASSUME NEW T, NEW q \in Seq(T), NEW n \in 0..Len(q)
  PROVE  /\ SubSeq(q, 1, n) \in Seq(T)
         /\ Len(SubSeq(q, 1, n)) = n
         /\ \A i \in 1..n : SubSeq(q, 1, n)[i] = q[i]
  OBVIOUS

\* A queue of some things is a queue of more things.
LEMMA SeqWidens ==
  ASSUME NEW S, NEW T, S \subseteq T, NEW q \in Seq(S)
  PROVE  q \in Seq(T)
  OBVIOUS

\* An element of a queue.
LEMMA SeqElement ==
  ASSUME NEW T, NEW q \in Seq(T), NEW i \in 1..Len(q)
  PROVE  q[i] \in T
  OBVIOUS

\* A queue is empty when its length says so.
LEMMA SeqEmpty ==
  ASSUME NEW T, NEW q \in Seq(T)
  PROVE  Len(q) \in Nat /\ (q = <<>> <=> Len(q) = 0) /\ (q # <<>> => Len(q) >= 1)
  OBVIOUS

\* A set of numbers has a least one.
LEMMA LeastExists ==
  ASSUME NEW S \in SUBSET Nat, S # {}
  PROVE  \E x \in S : \A y \in S : x <= y
  <1> DEFINE UpTo(x) == {y \in S : y <= x}
             starts  == {UpTo(x) : x \in S}
             smaller == StrictSubsetOrdering(S)
  <1>1. IsWellFoundedOn(smaller, FiniteSubsetsOf(S))
    BY FS_StrictSubsetOrderingWellFounded
  <1>2. starts \subseteq FiniteSubsetsOf(S) /\ starts # {}
    <2>1. ASSUME NEW x \in S  PROVE IsFiniteSet(UpTo(x))
      BY FS_BoundedSetOfNaturals
    <2>2. PICK n \in S : TRUE  OBVIOUS
    <2>3. UpTo(n) \in starts  BY <2>2
    <2> QED BY <2>1, <2>3 DEF FiniteSubsetsOf
  <1> HIDE DEF smaller
  <1>3. PICK U \in starts : \A V \in starts : ~(<<V, U>> \in smaller)
    <2> HIDE DEF starts
    <2> QED BY <1>1, <1>2, WFMin
  <1>4. PICK x \in S : U = UpTo(x)
    BY <1>3
  <1>5. ASSUME NEW y \in S, ~(x <= y)  PROVE FALSE
    <2> x \in Nat /\ y \in Nat /\ \A z \in S : z \in Nat
      OBVIOUS
    <2>1. y < x
      BY <1>5
    <2>2. UpTo(y) \subseteq UpTo(x) /\ x \in UpTo(x) /\ x \notin UpTo(y)
      <3>1. \A z \in S : z <= y => z <= x  BY <2>1
      <3>2. x <= x /\ ~(x <= y)  BY <2>1
      <3> QED BY <3>1, <3>2, Zenon
    <2>3. UpTo(y) \in SUBSET S /\ UpTo(x) \in SUBSET S /\ UpTo(y) # UpTo(x)
      BY <2>2
    <2>4. <<UpTo(y), UpTo(x)>> \in smaller
      <3> HIDE DEF UpTo
      <3> QED BY <2>2, <2>3 DEF smaller, StrictSubsetOrdering
    <2> QED BY <1>3, <1>4, <2>4
  <1> QED BY <1>5

\* What taking an element out of a queue does.
LEMMA RemoveFacts ==
  ASSUME NEW T, NEW q \in Seq(T), NEW e
  PROVE  /\ RemoveFirst(q, e) \in Seq(T)
         /\ \A i \in 1..Len(RemoveFirst(q, e)) : \E j \in 1..Len(q) : RemoveFirst(q, e)[i] = q[j]
         /\ \A j \in 1..Len(q) : q[j] # e =>
              \E i \in 1..Len(RemoveFirst(q, e)) : RemoveFirst(q, e)[i] = q[j]
  <1>1. CASE ~\E i \in 1..Len(q) : q[i] = e
    <2>1. RemoveFirst(q, e) = q
      BY <1>1 DEF RemoveFirst
    <2> QED BY <2>1
  <1>2. CASE \E i \in 1..Len(q) : q[i] = e
    <2> DEFINE places == {i \in 1..Len(q) : q[i] = e}
               n == Min(places)
    <2>1. RemoveFirst(q, e) = SubSeq(q, 1, n - 1) \o SubSeq(q, n + 1, Len(q))
      BY <1>2 DEF RemoveFirst, RemoveAt, SelectInSeq
    <2>2. n \in places
      <3>1. places \in SUBSET Nat /\ places # {}
        BY <1>2
      <3>2. \E x \in places : \A y \in places : x <= y
        BY <3>1, LeastExists
      <3> QED BY <3>2 DEF Min
    <2>3. n \in 1..Len(q) /\ q[n] = e
      BY <2>2
    <2> HIDE DEF places, n
    <2> Len(q) \in Nat  OBVIOUS
    <2> DEFINE r == SubSeq(q, 1, n - 1) \o SubSeq(q, n + 1, Len(q))
    <2>4. /\ r \in Seq(T) /\ Len(r) = Len(q) - 1
          /\ \A i \in 1..(n - 1) : r[i] = q[i]
          /\ \A i \in n..(Len(q) - 1) : r[i] = q[i + 1]
      <3> DEFINE a == SubSeq(q, 1, n - 1)
                 b == SubSeq(q, n + 1, Len(q))
      <3>1. a \in Seq(T) /\ Len(a) = n - 1 /\ \A i \in 1..(n - 1) : a[i] = q[i]
        BY <2>3
      <3>2. b \in Seq(T) /\ Len(b) = Len(q) - n /\ \A i \in 1..(Len(q) - n) : b[i] = q[n + i]
        BY <2>3
      <3> HIDE DEF a, b
      <3>3. /\ a \o b \in Seq(T) /\ Len(a \o b) = Len(a) + Len(b)
            /\ \A i \in 1..Len(a) : (a \o b)[i] = a[i]
            /\ \A i \in 1..Len(b) : (a \o b)[Len(a) + i] = b[i]
        <4>1. a \in Seq(T) /\ b \in Seq(T)  BY <3>1, <3>2
        <4> QED BY <4>1, ConcatFacts
      <3>4. \A i \in 1..(n - 1) : (a \o b)[i] = q[i]
        BY <3>1, <3>3
      <3>5. ASSUME NEW i \in n..(Len(q) - 1)  PROVE (a \o b)[i] = q[i + 1]
        <4>1. i - (n - 1) \in 1..(Len(q) - n) /\ (n - 1) + (i - (n - 1)) = i
              /\ n + (i - (n - 1)) = i + 1
          BY <2>3
        <4>2. (a \o b)[i] = b[i - (n - 1)]
          BY <3>1, <3>2, <3>3, <4>1
        <4>3. b[i - (n - 1)] = q[i + 1]
          BY <3>2, <4>1
        <4> QED BY <4>2, <4>3
      <3>6. Len(a \o b) = Len(q) - 1
        BY <2>3, <3>1, <3>2, <3>3
      <3> QED BY <3>3, <3>4, <3>5, <3>6 DEF r, a, b
    <2> HIDE DEF r
    <2>5. ASSUME NEW i \in 1..Len(r)  PROVE \E j \in 1..Len(q) : r[i] = q[j]
      <3>1. CASE i < n
        <4>1. i \in 1..(n - 1) /\ i \in 1..Len(q)  BY <2>3, <2>4, <3>1
        <4> QED BY <2>4, <4>1
      <3>2. CASE ~(i < n)
        <4>1. i \in n..(Len(q) - 1) /\ i + 1 \in 1..Len(q)  BY <2>3, <2>4, <3>2
        <4> QED BY <2>4, <4>1
      <3> QED BY <3>1, <3>2
    <2>6. ASSUME NEW j \in 1..Len(q), q[j] # e  PROVE \E i \in 1..Len(r) : r[i] = q[j]
      <3>1. j # n  BY <2>3, <2>6
      <3>2. CASE j < n
        <4>1. j \in 1..(n - 1) /\ j \in 1..Len(r)  BY <2>3, <2>4, <3>2
        <4> QED BY <2>4, <4>1
      <3>3. CASE ~(j < n)
        <4>1. j - 1 \in n..(Len(q) - 1) /\ j - 1 \in 1..Len(r)  BY <2>3, <2>4, <3>1, <3>3
        <4>2. r[j - 1] = q[j]  BY <2>4, <4>1
        <4> QED BY <4>1, <4>2
      <3> QED BY <3>2, <3>3
    <2> QED BY <2>1, <2>4, <2>5, <2>6 DEF r
  <1> QED BY <1>1, <1>2

-----------------------------------------------------------------------------
(* What every state satisfies, whatever is asked of it                     *)

EventTypes == {"opened", "human", "other", "handed_off", "received"}
Events  == [type : EventTypes, id : Messages \cup {0}]
Joins   == [op : {"join"}, id : {0}, after : Nat, conv : 0..(MaxHandoffs + 1)]
JoinedFrames == [op : {"joined"}, conv : Conversations]
EventFrames  == [op : {"event"}, conv : Conversations, seq : Nat, type : EventTypes]
ReplyFrames  == [op : {"reply"}, of : Requests, ok : BOOLEAN]
Frames  == JoinedFrames \cup EventFrames \cup ReplyFrames
Notices == {ReadBacklog} \cup (Conversations \X Nat)

Typed ==
  /\ TypeOK
  /\ up \in Seq(Requests \cup Joins) /\ late \in Seq(Requests \cup Joins)
  /\ mailbox \in Seq(Notices)
  /\ log \in [Conversations -> Seq(Events)]
  /\ shown \in Seq(Conversations \X Nat)
  /\ interrupts \in [Cancels -> Nat]

\* A log is closed by its handed_off; those to come are empty.
Logs ==
  /\ prepared => current <= MaxHandoffs
  /\ \A c \in Conversations : c > current => log[c] = <<>>
  /\ \A c \in Conversations : \A i \in 1..Len(log[c]) :
       log[c][i].type = "handed_off" => i = Len(log[c]) /\ c < current

\* How far the join of a connection has come.
Phases ==
  /\ conn \notin {"joining", "live"} => ~channel.live /\ up = <<>>
  /\ ~channel.live => down = <<>> /\ mailbox = <<>>
  /\ conn = "live" => channel.live /\ up \in Seq(Requests)
  /\ conn = "joining" /\ ~channel.live =>
       up = <<[op |-> "join", id |-> 0, after |-> lastSeq, conv |-> convId]>>
  /\ conn = "joining" /\ channel.live =>
       /\ up = <<>> /\ ~channel.watching
       /\ down # <<>> /\ down[1].op = "joined" /\ convId <= down[1].conv
  /\ channel.live => channel.conv \in 1..current
  /\ convId <= current

\* The channel's mailbox: the backlog to read, then the last events of its
\* conversation.
Waits == IF channel.ready THEN 0 ELSE 1

Mail ==
  channel.live =>
    /\ Len(mailbox) >= Waits
    /\ Len(mailbox) - Waits <= Len(log[channel.conv])
    /\ ~channel.ready => mailbox[1] = ReadBacklog
    /\ \A j \in (Waits + 1)..Len(mailbox) :
         mailbox[j] = <<channel.conv, Len(log[channel.conv]) - (Len(mailbox) - j)>>

Recorded == {m \in Messages : \E c \in Conversations : m \in Said(c)}

\* The frames that tell what is recorded.
TrueFrames ==
  {f \in Frames :
     /\ f.op = "joined" => f.conv <= current
     /\ f.op = "event" =>
          /\ f.conv <= current /\ f.seq \in 1..Len(log[f.conv])
          /\ f.type = log[f.conv][f.seq].type
     /\ f.op = "reply" => (f.ok /\ f.of.op = "say" => f.of.id \in Recorded)}

Told == down \in Seq(TrueFrames)

Base == Typed /\ Logs /\ Phases /\ Mail /\ Told

-----------------------------------------------------------------------------
(* Cancels: each is in one place only, and not where it was interrupted    *)

Cancelling(c) == [op |-> "cancel", id |-> c]
Places(q, c)  == {i \in 1..Len(q) : q[i] = Cancelling(c)}
AtMostOne(S)  == \A i, j \in S : i = j

CancelInv ==
  \A c \in Cancels :
    /\ interrupts[c] <= 1
    /\ AtMostOne(Places(outbox, c)) /\ AtMostOne(Places(up, c)) /\ AtMostOne(Places(late, c))
    /\ Places(outbox, c) = {} \/ (Places(up, c) = {} /\ Places(late, c) = {})
    /\ Places(up, c) = {} \/ Places(late, c) = {}
    /\ interrupts[c] # 0 => Places(outbox, c) = {} /\ Places(up, c) = {} /\ Places(late, c) = {}
    /\ c \notin typed => interrupts[c] = 0 /\ Places(outbox, c) = {}
                         /\ Places(up, c) = {} /\ Places(late, c) = {}

-----------------------------------------------------------------------------
(* Watching: the last word on its way, else the channel, agrees            *)

Words  == {"watch", "unwatch"}
Silent(q) == \A i \in 1..Len(q) : q[i].op \notin Words
LastIs(q, word) ==
  \A i \in 1..Len(q) :
    q[i].op \in Words /\ (\A j \in (i + 1)..Len(q) : q[j].op \notin Words) => q[i].op = word

Wanted == IF detail THEN "watch" ELSE "unwatch"

WatchInv ==
  /\ LastIs(outbox, Wanted)
  /\ conn = "live" /\ Silent(outbox) => LastIs(up, Wanted)
  /\ conn = "live" /\ Silent(outbox) /\ Silent(up) => channel.watching = detail

-----------------------------------------------------------------------------
(* Order: the client, the frames on their way and the channel count along  *)
(* one path                                                                *)

Spots == Nat \X Nat
After(f) == IF f.type = "handed_off" THEN <<f.conv + 1, 0>> ELSE <<f.conv, f.seq>>

Leads(p, f, q) ==
  /\ f.op = "joined" => q = <<f.conv, IF p[1] \notin {0, f.conv} THEN 0 ELSE p[2]>>
  /\ f.op = "event" => f.conv = p[1] /\ f.seq = p[2] + 1 /\ q = After(f)
  /\ f.op = "reply" => q = p

\* The frames lead from one spot to the other.
Reaches(frames, p, q) ==
  \E pos \in [1..(Len(frames) + 1) -> Spots] :
    /\ pos[1] = p /\ pos[Len(frames) + 1] = q
    /\ \A i \in 1..Len(frames) : Leads(pos[i], frames[i], pos[i + 1])

\* The channel has delivered the end of a conversation that it cannot leave.
Stuck ==
  /\ channel.ready /\ channel.last \in 1..Len(log[channel.conv])
  /\ log[channel.conv][channel.last].type = "handed_off"

Here == <<convId, lastSeq>>
Ahead == {<<channel.conv, channel.last>>} \cup (IF Stuck THEN {<<channel.conv + 1, 0>>} ELSE {})

Counted ==
  channel.live =>
    /\ \E q \in Ahead : Reaches(down, Here, q)
    /\ channel.last <= Len(log[channel.conv])
    /\ channel.ready => Len(log[channel.conv]) - Len(mailbox) <= channel.last

ShownHere ==
  /\ \A p \in 1..Len(shown) :
       shown[p][1] <= convId /\ (shown[p][1] = convId => shown[p][2] <= lastSeq)
  /\ \A k \in 1..lastSeq : \E p \in 1..Len(shown) : shown[p] = <<convId, k>>
  /\ convId = 0 => lastSeq = 0

OrderInv == ShownInOrder /\ ShownHere /\ Counted

\* A channel that leaves a conversation shows its successor next
\* (lib/shoestring_web/channels/chat_channel.ex, follow).
FollowsSuccessor ==
  channel.live /\ channel'.live => channel'.conv \in {channel.conv, channel.conv + 1}

-----------------------------------------------------------------------------
(* Logs grow, and what was true of them stays true                         *)

LogTyped == log \in [Conversations -> Seq(Events)]

Grows ==
  /\ current' \in Conversations /\ current <= current'
  /\ \A c \in Conversations :
       /\ Len(log[c]) <= Len(log'[c])
       /\ \A i \in 1..Len(log[c]) : log'[c][i] = log[c][i]

\* A log that is left alone grows by nothing.
LEMMA LogStays ==
  ASSUME Typed, Logs, UNCHANGED <<log, current, prepared>>
  PROVE  LogTyped' /\ Logs' /\ Grows
  <1>1. LogTyped' /\ current' \in Conversations
    BY DEF Typed, TypeOK, LogTyped
  <1>2. Logs'
    BY DEF Logs
  <1>3. \A c \in Conversations : Len(log[c]) \in Nat
    BY DEF Typed
  <1>4. current \in Nat
    BY BoundsAssumption DEF Typed, TypeOK, Conversations
  <1> QED BY <1>1, <1>2, <1>3, <1>4 DEF Grows

\* An event of the current conversation is added at its end.
LEMMA LogCommits ==
  ASSUME Typed, Logs, NEW event \in Events, event.type # "handed_off",
         log' = [log EXCEPT ![current] = Append(@, event)], UNCHANGED <<current, prepared>>
  PROVE  /\ LogTyped' /\ Logs' /\ Grows
         /\ log'[current] = Append(log[current], event)
         /\ \A c \in Conversations : c # current => log'[c] = log[c]
  <1>1. current \in Conversations /\ log \in [Conversations -> Seq(Events)] /\ current \in Nat
    BY BoundsAssumption DEF Typed, TypeOK, Conversations
  <1>2. log'[current] = Append(log[current], event)
    BY <1>1
  <1>3. \A c \in Conversations : c # current => log'[c] = log[c]
    BY <1>1
  <1>4. LogTyped'
    BY <1>1, AppendFacts DEF LogTyped
  <1>5. ASSUME NEW c \in Conversations
        PROVE  /\ Len(log[c]) <= Len(log'[c])
               /\ \A i \in 1..Len(log[c]) : log'[c][i] = log[c][i]
    <2>1. log[c] \in Seq(Events)  BY <1>1
    <2>2. CASE c = current
      BY <1>2, <2>1, <2>2, AppendFacts
    <2>3. CASE c # current
      BY <1>3, <2>1, <2>3
    <2> QED BY <2>2, <2>3
  <1>6. Grows
    BY <1>1, <1>5 DEF Grows
  <1>7. Logs'
    <2>1. ASSUME NEW c \in Conversations, c > current'  PROVE log'[c] = <<>>
      BY <1>1, <1>3, <2>1 DEF Logs
    <2>2. ASSUME NEW c \in Conversations, NEW i \in 1..Len(log'[c]), log'[c][i].type = "handed_off"
          PROVE  i = Len(log'[c]) /\ c < current'
      <3>1. CASE c # current
        BY <1>3, <2>2, <3>1 DEF Logs
      <3>2. CASE c = current
        <4>1. log[c] \in Seq(Events)  BY <1>1
        <4>2. i \in 1..(Len(log[c]) + 1) /\ i # Len(log[c]) + 1
          BY <1>2, <2>2, <3>2, <4>1, AppendFacts
        <4>3. i \in 1..Len(log[c]) /\ log[c][i].type = "handed_off"
          BY <1>2, <2>2, <3>2, <4>1, <4>2, AppendFacts
        <4> QED BY <3>2, <4>3, <1>1 DEF Logs
      <3> QED BY <3>1, <3>2
    <2> QED BY <2>1, <2>2 DEF Logs
  <1> QED BY <1>2, <1>3, <1>4, <1>6, <1>7

\* A handoff closes the current conversation and opens an empty one.
LEMMA LogHandsOff ==
  ASSUME Typed, Logs, HandOff
  PROVE  /\ LogTyped' /\ Logs' /\ Grows /\ current' = current + 1
         /\ log'[current] = Append(log[current], Event("handed_off", 0))
         /\ \A c \in Conversations : c <= current' /\ c # current /\ c # current' => log'[c] = log[c]
  <1>1. current \in Conversations /\ log \in [Conversations -> Seq(Events)] /\ current \in Nat
    BY BoundsAssumption DEF Typed, TypeOK, Conversations
  <1>2. current + 1 \in Conversations /\ current' = current + 1 /\ ~prepared'
    BY <1>1, BoundsAssumption DEF HandOff, Logs, Conversations
  <1> DEFINE closing == Event("handed_off", 0)
             opening == <<Event("opened", 0), Event("received", 0)>>
  <1>3. closing \in Events /\ closing.type = "handed_off"
    BY DEF Event, Events, EventTypes
  <1>4. /\ opening \in Seq(Events) /\ Len(opening) = 2
        /\ \A i \in 1..2 : opening[i].type # "handed_off"
    <2>1. Event("opened", 0) \in Events /\ Event("received", 0) \in Events
      BY DEF Event, Events, EventTypes
    <2>2. Event("opened", 0).type # "handed_off" /\ Event("received", 0).type # "handed_off"
      BY DEF Event
    <2> QED BY <2>1, <2>2
  <1>5. log' = [log EXCEPT ![current] = Append(@, closing), ![current + 1] = opening]
    BY DEF HandOff
  <1>6. log'[current] = Append(log[current], closing) /\ log'[current + 1] = opening
    <2> HIDE DEF closing, opening
    <2> QED BY <1>1, <1>2, <1>5
  <1>7. \A c \in Conversations : c # current /\ c # current + 1 => log'[c] = log[c]
    <2> HIDE DEF closing, opening
    <2> QED BY <1>1, <1>2, <1>5
  <1>8. LogTyped'
    <2> HIDE DEF closing, opening
    <2>1. Append(log[current], closing) \in Seq(Events)
      BY <1>1, <1>3, AppendFacts
    <2> QED BY <1>1, <1>2, <1>4, <1>5, <2>1 DEF LogTyped
  <1>9. log[current + 1] = <<>>
    BY <1>1, <1>2 DEF Logs
  <1> HIDE DEF closing, opening
  <1>10. Grows
    <2>1. ASSUME NEW c \in Conversations
          PROVE  /\ Len(log[c]) <= Len(log'[c])
                 /\ \A i \in 1..Len(log[c]) : log'[c][i] = log[c][i]
      <3>1. log[c] \in Seq(Events)  BY <1>1
      <3>2. CASE c = current
        BY <1>3, <1>6, <3>1, <3>2, AppendFacts
      <3>3. CASE c = current + 1
        BY <1>4, <1>6, <1>9, <3>3
      <3>4. CASE c # current /\ c # current + 1
        BY <1>7, <3>1, <3>4
      <3> QED BY <3>2, <3>3, <3>4
    <2> QED BY <1>1, <1>2, <2>1 DEF Grows
  <1>11. Logs'
    <2>1. ASSUME NEW c \in Conversations, c > current'  PROVE log'[c] = <<>>
      <3>1. c > current /\ c # current /\ c # current + 1
        BY <1>1, <1>2, <2>1 DEF Conversations
      <3> QED BY <1>7, <3>1 DEF Logs
    <2>2. ASSUME NEW c \in Conversations, NEW i \in 1..Len(log'[c]), log'[c][i].type = "handed_off"
          PROVE  i = Len(log'[c]) /\ c < current'
      <3>1. CASE c # current /\ c # current + 1
        <4>1. i = Len(log'[c]) /\ c < current
          BY <1>7, <2>2, <3>1 DEF Logs
        <4> QED BY <1>1, <1>2, <4>1 DEF Conversations
      <3>2. CASE c = current + 1
        BY <1>4, <1>6, <2>2, <3>2
      <3>3. CASE c = current
        <4>1. log[c] \in Seq(Events)  BY <1>1
        <4>2. Len(log'[c]) = Len(log[c]) + 1
          BY <1>3, <1>6, <3>3, <4>1, AppendFacts
        <4>3. CASE i = Len(log[c]) + 1
          BY <1>1, <1>2, <3>3, <4>2, <4>3
        <4>4. CASE i # Len(log[c]) + 1
          <5>1. i \in 1..Len(log[c])  BY <4>1, <4>2, <4>4
          <5>2. log[c][i].type = "handed_off"
            BY <1>3, <1>6, <2>2, <3>3, <4>1, <5>1, AppendFacts
          <5>3. c < current
            BY <5>1, <5>2 DEF Logs
          <5> QED BY <1>1, <3>3, <5>3
        <4> QED BY <4>3, <4>4
      <3> QED BY <3>1, <3>2, <3>3
    <2> QED BY <1>2, <2>1, <2>2 DEF Logs
  <1> QED BY <1>1, <1>2, <1>6, <1>7, <1>8, <1>10, <1>11 DEF closing

\* Nothing recorded is lost, and a frame that was true stays true.
LEMMA TruthGrows ==
  ASSUME Typed, LogTyped', Grows
  PROVE  Recorded \subseteq Recorded' /\ TrueFrames \subseteq TrueFrames'
  <1>1. log \in [Conversations -> Seq(Events)]
    BY DEF Typed
  <1>2. ASSUME NEW m \in Recorded  PROVE m \in Recorded'
    <2>1. PICK c \in Conversations : m \in Said(c)
      BY DEF Recorded
    <2>2. PICK i \in 1..Len(log[c]) : log[c][i].type = "human" /\ m = log[c][i].id
      BY <2>1 DEF Said
    <2>3. i \in 1..Len(log'[c]) /\ log'[c][i] = log[c][i]
      <3>1. log[c] \in Seq(Events) /\ log'[c] \in Seq(Events)
        BY <1>1 DEF LogTyped
      <3>2. Len(log[c]) \in Nat /\ Len(log'[c]) \in Nat
        BY <3>1
      <3> QED BY <3>2 DEF Grows
    <2>4. m \in {log'[c][j].id : j \in {k \in 1..Len(log'[c]) : log'[c][k].type = "human"}}
      BY <2>2, <2>3
    <2> QED BY <2>4 DEF Recorded, Said
  <1>3. ASSUME NEW f \in TrueFrames  PROVE f \in TrueFrames'
    <2>1. f \in Frames
      BY DEF TrueFrames
    <2>2. f.op = "joined" => f.conv <= current'
      <3> SUFFICES ASSUME f.op = "joined" PROVE f.conv <= current'
        OBVIOUS
      <3>1. f.conv \in Nat
        BY <2>1, BoundsAssumption DEF Frames, JoinedFrames, EventFrames, ReplyFrames, Conversations
      <3>2. f.conv <= current
        BY DEF TrueFrames
      <3>3. current \in Nat /\ current' \in Nat /\ current <= current'
        BY BoundsAssumption DEF Grows, Typed, TypeOK, Conversations
      <3> QED BY <3>1, <3>2, <3>3
    <2>3. f.op = "event" =>
            /\ f.conv <= current' /\ f.seq \in 1..Len(log'[f.conv])
            /\ f.type = log'[f.conv][f.seq].type
      <3> SUFFICES ASSUME f.op = "event"
                   PROVE  /\ f.conv <= current' /\ f.seq \in 1..Len(log'[f.conv])
                          /\ f.type = log'[f.conv][f.seq].type
        OBVIOUS
      <3>1. f.conv \in Conversations /\ f.conv \in Nat
        BY <2>1, BoundsAssumption DEF Frames, JoinedFrames, EventFrames, ReplyFrames, Conversations
      <3>2. f.conv <= current /\ f.seq \in 1..Len(log[f.conv]) /\ f.type = log[f.conv][f.seq].type
        BY DEF TrueFrames
      <3>3. current \in Nat /\ current' \in Nat /\ current <= current'
        BY BoundsAssumption DEF Grows, Typed, TypeOK, Conversations
      <3>4. Len(log[f.conv]) \in Nat /\ Len(log'[f.conv]) \in Nat
        BY <1>1, <3>1 DEF LogTyped
      <3>5. Len(log[f.conv]) <= Len(log'[f.conv]) /\ log'[f.conv][f.seq] = log[f.conv][f.seq]
        BY <3>1, <3>2 DEF Grows
      <3> QED BY <3>1, <3>2, <3>3, <3>4, <3>5
    <2>4. f.op = "reply" => (f.ok /\ f.of.op = "say" => f.of.id \in Recorded')
      BY <1>2 DEF TrueFrames
    <2> HIDE DEF Recorded
    <2> QED BY <2>1, <2>2, <2>3, <2>4 DEF TrueFrames, Frames, EventFrames, JoinedFrames,
                                        ReplyFrames, Requests, Conversations
  <1> QED BY <1>2, <1>3

-----------------------------------------------------------------------------
(* Every step keeps the base                                               *)

\* What a step leaves on the wire to the client stays true.
LEMMA ToldStays ==
  ASSUME Typed, LogTyped', Grows, down' \in Seq(TrueFrames)
  PROVE  Told'
  <1>1. TrueFrames \subseteq TrueFrames'
    BY TruthGrows
  <1> HIDE DEF TrueFrames
  <1> QED BY <1>1, SeqWidens DEF Told

\* The current conversation gets an event, and the channel that follows it is told.
Notified ==
  mailbox' = IF channel.live /\ channel.conv = current
             THEN Append(mailbox, <<current, Len(log[current]) + 1>>) ELSE mailbox

\* The mailbox of a channel that follows the log gets what is added to it.
LEMMA MailFollows ==
  ASSUME Typed, Phases, Mail, NEW event \in Events,
         log'[current] = Append(log[current], event),
         channel.conv # current => log'[channel.conv] = log[channel.conv],
         Notified,
         channel'.live = channel.live, channel'.conv = channel.conv,
         channel'.ready = channel.ready
  PROVE  Mail' /\ mailbox' \in Seq(Notices) /\ (~channel.live => mailbox' = mailbox)
  <1>1. /\ current \in Conversations /\ mailbox \in Seq(Notices)
        /\ \A c \in Conversations : log[c] \in Seq(Events)
    BY DEF Typed, TypeOK
  <1>2. CASE ~(channel.live /\ channel.conv = current)
    <2>1. mailbox' = mailbox
      BY <1>2 DEF Notified
    <2>2. channel.live => log'[channel.conv] = log[channel.conv]
      BY <1>2
    <2> QED BY <1>1, <2>1, <2>2 DEF Mail, Waits
  <1>3. CASE channel.live /\ channel.conv = current
    <2> DEFINE entry == <<current, Len(log[current]) + 1>>
    <2>1. log[current] \in Seq(Events) /\ Len(log[current]) \in Nat
      BY <1>1
    <2>2. entry \in Notices
      BY <1>1, <2>1 DEF Notices
    <2>3. mailbox' = Append(mailbox, entry)
      BY <1>3 DEF Notified
    <2> HIDE DEF entry
    <2>4. /\ Append(mailbox, entry) \in Seq(Notices)
          /\ Len(Append(mailbox, entry)) = Len(mailbox) + 1
          /\ \A i \in 1..Len(mailbox) : Append(mailbox, entry)[i] = mailbox[i]
          /\ Append(mailbox, entry)[Len(mailbox) + 1] = entry
      <3>1. mailbox \in Seq(Notices)  BY <1>1
      <3> QED BY <2>2, <3>1, AppendFacts
    <2>5. mailbox' \in Seq(Notices) /\ Len(mailbox') = Len(mailbox) + 1
      BY <2>3, <2>4
    <2>6. Len(log'[current]) = Len(log[current]) + 1
      BY <2>1, AppendFacts
    <2>7. Waits' = Waits /\ Waits \in 0..1 /\ (~channel.ready => Waits = 1)
      BY DEF Waits
    <2>8. /\ Len(mailbox) >= Waits /\ Len(mailbox) - Waits <= Len(log[current])
          /\ ~channel.ready => mailbox[1] = ReadBacklog
      BY <1>3 DEF Mail
    <2>9. \A j \in (Waits + 1)..Len(mailbox) :
               mailbox[j] = <<current, Len(log[current]) - (Len(mailbox) - j)>>
      BY <1>3 DEF Mail
    <2>10. Len(mailbox) \in Nat
      BY <1>1
    <2>11. ASSUME NEW j \in (Waits + 1)..Len(mailbox')
           PROVE  mailbox'[j] = <<current, Len(log'[current]) - (Len(mailbox') - j)>>
      <3>1. CASE j \in 1..Len(mailbox)
        <4>1. mailbox'[j] = <<current, Len(log[current]) - (Len(mailbox) - j)>>
          BY <2>3, <2>4, <2>7, <2>9, <2>10, <3>1
        <4>2. Len(log'[current]) - (Len(mailbox') - j) = Len(log[current]) - (Len(mailbox) - j)
          BY <2>1, <2>5, <2>6, <2>10, <3>1
        <4> QED BY <4>1, <4>2
      <3>2. CASE j = Len(mailbox) + 1
        <4>1. Len(log'[current]) - (Len(mailbox') - j) = Len(log[current]) + 1
          BY <2>1, <2>5, <2>6, <2>10, <3>2
        <4>2. mailbox'[j] = entry
          BY <2>3, <2>4, <3>2
        <4> QED BY <4>1, <4>2 DEF entry
      <3> QED BY <2>5, <2>7, <2>10, <3>1, <3>2
    <2>12. ~channel.ready => mailbox'[1] = ReadBacklog
      BY <2>3, <2>4, <2>7, <2>8, <2>10
    <2>13. Len(mailbox') >= Waits /\ Len(mailbox') - Waits <= Len(log'[current])
      BY <2>1, <2>5, <2>6, <2>7, <2>8, <2>10
    <2> QED BY <1>3, <2>5, <2>7, <2>11, <2>12, <2>13 DEF Mail
  <1> QED BY <1>2, <1>3

\* At first nothing is on its way.
LEMMA BaseInit == Init => Base
  <1> SUFFICES ASSUME Init PROVE Base
    OBVIOUS
  <1> USE DEF Init, None
  <1>1. 1 \in Conversations /\ \A c \in Conversations : c \in Nat /\ c >= 1
    BY BoundsAssumption DEF Conversations
  <1>2. Event("opened", 0) \in Events /\ Event("opened", 0).type # "handed_off"
    BY DEF Event, Events, EventTypes
  <1>3. log \in [Conversations -> Seq(Events)]
    BY <1>1, <1>2
  <1>4. TypeOK
    <2>1. channel \in [live : BOOLEAN, conv : 0..(MaxHandoffs + 1), last : Nat, ready : BOOLEAN,
                      watching : BOOLEAN]
      BY BoundsAssumption
    <2>2. outbox \in Seq(Requests) /\ unsent \in Seq(Requests) /\ Len(unsent) = 0
      OBVIOUS
    <2>3. convId \in 0..(MaxHandoffs + 1) /\ lastSeq \in Nat
      BY BoundsAssumption
    <2>4. conn = "connecting" /\ detail \in BOOLEAN /\ prepared \in BOOLEAN
          /\ noted = {} /\ typed = {} /\ current \in Conversations
      BY <1>1
    <2> QED BY <2>1, <2>2, <2>3, <2>4 DEF TypeOK
  <1>5. Typed
    BY <1>3, <1>4 DEF Typed
  <1>6. Logs
    BY <1>1, <1>2 DEF Logs
  <1>7. Phases /\ Mail
    BY <1>1 DEF Phases, Mail
  <1>8. Told
    BY DEF Told
  <1> QED BY <1>5, <1>6, <1>7, <1>8 DEF Base

\* What the person does puts a request in the queue.
LEMMA BaseQueues ==
  ASSUME Base, NEW item \in Requests, outbox' = Append(outbox, item),
         typed' \subseteq Messages \cup Cancels, detail' \in BOOLEAN,
         UNCHANGED <<conn, lastSeq, convId, shown, unsent, noted, wire, server, session>>
  PROVE  Base'
  <1> USE DEF Base, wire, server, session
  <1>1. outbox' \in Seq(Requests)
    BY AppendFacts DEF Typed, TypeOK
  <1>2. Typed'
    BY <1>1 DEF Typed, TypeOK
  <1>3. LogTyped' /\ Logs' /\ Grows
    BY LogStays
  <1>4. Told'
    BY <1>3, ToldStays DEF Told
  <1>5. Phases' /\ Mail'
    BY DEF Phases, Mail, Waits
  <1> QED BY <1>2, <1>3, <1>4, <1>5

\* The person's requests are requests.
LEMMA BasePerson ==
  ASSUME Base,
         \/ \E m \in Messages : Say(m)
         \/ \E c \in Cancels : CancelTurn(c)
         \/ OpenDetail \/ CloseDetail
  PROVE  Base'
  <1>1. CASE \E m \in Messages : Say(m)
    <2> PICK m \in Messages : Say(m)  BY <1>1
    <2>1. [op |-> "say", id |-> m] \in Requests  BY DEF Requests
    <2> QED BY <2>1, BaseQueues DEF Say, Queue, Base, Typed, TypeOK
  <1>2. CASE \E c \in Cancels : CancelTurn(c)
    <2> PICK c \in Cancels : CancelTurn(c)  BY <1>2
    <2>1. [op |-> "cancel", id |-> c] \in Requests  BY DEF Requests
    <2> QED BY <2>1, BaseQueues DEF CancelTurn, Queue, Base, Typed, TypeOK
  <1>3. CASE OpenDetail
    <2>1. [op |-> "watch", id |-> 0] \in Requests  BY DEF Requests
    <2> QED BY <1>3, <2>1, BaseQueues DEF OpenDetail, Queue, Base, Typed, TypeOK
  <1>4. CASE CloseDetail
    <2>1. [op |-> "unwatch", id |-> 0] \in Requests  BY DEF Requests
    <2> QED BY <1>4, <2>1, BaseQueues DEF CloseDetail, Queue, Base, Typed, TypeOK
  <1> QED BY <1>1, <1>2, <1>3, <1>4

\* A connection that is given up, lost, or tried again.
LEMMA BaseDrops ==
  ASSUME Base, Leave \/ Refuse \/ Lost
  PROVE  Base'
  <1> USE DEF Base, session
  <1>1. /\ UNCHANGED <<log, current, prepared, convId, lastSeq, shown, unsent, interrupts>>
        /\ conn' \in {"closed", "refused", "waiting"}
        /\ channel' = None /\ mailbox' = <<>> /\ up' = <<>> /\ down' = <<>>
    BY DEF Leave, Refuse, Lost
  <1>2. late' \in Seq(Requests \cup Joins)
    <2>1. CASE Lost
      <3>1. up \in Seq(Requests \cup Joins) /\ late \in Seq(Requests \cup Joins)
        BY DEF Typed
      <3>2. PICK n \in 0..Len(up) : late' = late \o SubSeq(up, 1, n)
        BY <2>1 DEF Lost
      <3> QED BY <3>1, <3>2, PrefixFacts, ConcatFacts
    <2>2. CASE Leave \/ Refuse
      <3>1. late' = <<>>
        BY <2>2 DEF Leave, Refuse
      <3> QED BY <3>1
    <2> QED BY <2>1, <2>2
  <1>3. outbox' \in Seq(Requests) /\ UNCHANGED <<detail, noted, typed>>
    <2>1. UNCHANGED <<detail, noted, typed>> /\ outbox' \in {outbox, <<>>}
      BY DEF Leave, Refuse, Lost
    <2>2. outbox \in Seq(Requests) /\ <<>> \in Seq(Requests)
      BY DEF Typed, TypeOK
    <2> QED BY <2>1, <2>2
  <1>4. Typed'
    BY <1>1, <1>2, <1>3, BoundsAssumption DEF Typed, TypeOK, None
  <1>5. LogTyped' /\ Logs' /\ Grows
    BY <1>1, LogStays
  <1>6. Told'
    BY <1>1 DEF Told
  <1>7. Phases' /\ Mail'
    BY <1>1 DEF Phases, Mail, None
  <1> QED BY <1>4, <1>5, <1>6, <1>7

\* A connection is opened and asks to join.
LEMMA BaseConnects ==
  ASSUME Base, Connect \/ Retry
  PROVE  Base'
  <1> USE DEF Base, session, server, wire
  <1>1. UNCHANGED <<log, current, prepared, convId, lastSeq, shown, unsent, interrupts, channel,
                    mailbox, down, outbox, detail, noted, typed, late>>
    BY DEF Connect, Retry
  <1>2. LogTyped' /\ Logs' /\ Grows
    BY <1>1, LogStays
  <1>3. Told' /\ Mail'
    BY <1>1, <1>2, ToldStays DEF Told, Mail, Waits
  <1>4. CASE Connect
    <2> DEFINE join == [op |-> "join", id |-> 0, after |-> lastSeq, conv |-> convId]
    <2>1. up' = <<join>> /\ conn' = "joining" /\ ~channel.live
      BY <1>4 DEF Connect, Phases
    <2>2. join \in Requests \cup Joins
      BY DEF Joins, Typed, TypeOK
    <2> HIDE DEF join
    <2>3. Typed'
      BY <1>1, <2>1, <2>2 DEF Typed, TypeOK
    <2>4. Phases'
      BY <1>1, <2>1 DEF Phases, join
    <2> QED BY <1>2, <1>3, <2>3, <2>4
  <1>5. CASE Retry
    BY <1>1, <1>2, <1>3, <1>5 DEF Retry, Typed, TypeOK, Phases
  <1> QED BY <1>4, <1>5

\* What the client reads from the service is true.
LEMMA HeadIsTrue ==
  ASSUME Told, down # <<>>
  PROVE  /\ Head(down) = down[1] /\ Head(down) \in TrueFrames
         /\ Tail(down) \in Seq(TrueFrames)
  <1> HIDE DEF TrueFrames
  <1> QED BY TailFacts DEF Told

\* The join is answered: what was not answered before goes out again.
LEMMA BaseJoins ==
  ASSUME Base, JoinReply
  PROVE  Base'
  <1> USE DEF Base, session, server
  <1>1. /\ conn = "joining" /\ down # <<>> /\ Head(down).op = "joined" /\ conn' = "live"
        /\ down' = Tail(down) /\ up' = up \o Resend \o Rewatch
        /\ convId' = Head(down).conv
        /\ lastSeq' = IF convId \notin {0, Head(down).conv} THEN 0 ELSE lastSeq
        /\ UNCHANGED <<shown, detail, outbox, unsent, noted, typed, late, channel, mailbox, log,
                       current, prepared, interrupts>>
    BY DEF JoinReply, Joined
  <1>2. channel.live /\ up = <<>>
    BY <1>1 DEF Phases
  <1>3. Head(down) = down[1] /\ Head(down) \in TrueFrames /\ Tail(down) \in Seq(TrueFrames)
    BY <1>1, HeadIsTrue
  <1>4. convId' \in Conversations /\ convId' <= current
    BY <1>1, <1>3 DEF TrueFrames, Frames, JoinedFrames, EventFrames, ReplyFrames
  <1>5. up' \in Seq(Requests)
    <2>1. Resend \in Seq(Requests) /\ Rewatch \in Seq(Requests) /\ up \in Seq(Requests)
      <3>1. [op |-> "watch", id |-> 0] \in Requests  BY DEF Requests
      <3> QED BY <1>2, <3>1 DEF Typed, TypeOK, Resend, Rewatch
    <2> QED BY <1>1, <2>1, ConcatFacts
  <1>6. LogTyped' /\ Logs' /\ Grows
    BY <1>1, LogStays
  <1>7. Told'
    BY <1>1, <1>3, <1>6, ToldStays
  <1>8. Typed'
    <2>1. up' \in Seq(Requests \cup Joins)
      BY <1>5, SeqWidens
    <2>2. lastSeq' \in Nat /\ convId' \in 0..(MaxHandoffs + 1)
      BY <1>1, <1>4, BoundsAssumption DEF Typed, TypeOK, Conversations
    <2> QED BY <1>1, <2>1, <2>2 DEF Typed, TypeOK
  <1>9. Phases' /\ Mail'
    BY <1>1, <1>2, <1>4, <1>5 DEF Phases, Mail, Waits
  <1> QED BY <1>6, <1>7, <1>8, <1>9

\* A request goes from the queue to the socket.
LEMMA BaseTakes ==
  ASSUME Base, TakeOutbox
  PROVE  Base'
  <1> USE DEF Base, session, server
  <1>1. /\ conn = "live" /\ outbox # <<>> /\ outbox' = Tail(outbox)
        /\ unsent' = IF Head(outbox).op = "say" THEN Append(unsent, Head(outbox)) ELSE unsent
        /\ up' = Append(up, Head(outbox))
        /\ UNCHANGED <<conn, lastSeq, convId, shown, detail, noted, typed, down, late, channel,
                       mailbox, log, current, prepared, interrupts>>
    BY DEF TakeOutbox, LeftInOutbox, KeptForResend
  <1>2. outbox' \in Seq(Requests) /\ Head(outbox) \in Requests
    <2>1. outbox \in Seq(Requests)  BY DEF Typed, TypeOK
    <2> HIDE DEF Requests
    <2> QED BY <1>1, <2>1, TailFacts
  <1>3. unsent' \in Seq(Requests) /\ \A i \in 1..Len(unsent') : unsent'[i].op = "say"
    <2>1. unsent \in Seq(Requests) /\ \A i \in 1..Len(unsent) : unsent[i].op = "say"
      BY DEF Typed, TypeOK
    <2>2. CASE Head(outbox).op = "say"
      <3>1. unsent' = Append(unsent, Head(outbox))  BY <1>1, <2>2
      <3> DEFINE item == Head(outbox)
      <3>2. item \in Requests /\ item.op = "say"  BY <1>2, <2>2
      <3> HIDE DEF item, Requests
      <3>3. /\ Append(unsent, item) \in Seq(Requests)
            /\ Len(Append(unsent, item)) = Len(unsent) + 1
            /\ \A i \in 1..Len(unsent) : Append(unsent, item)[i] = unsent[i]
            /\ Append(unsent, item)[Len(unsent) + 1] = item
        BY <2>1, <3>2, AppendFacts
      <3>4. Len(unsent) \in Nat  BY <2>1
      <3>5. \A i \in 1..(Len(unsent) + 1) : Append(unsent, item)[i].op = "say"
        <4> TAKE i \in 1..(Len(unsent) + 1)
        <4>1. CASE i \in 1..Len(unsent)  BY <2>1, <3>3, <4>1
        <4>2. CASE i = Len(unsent) + 1  BY <3>2, <3>3, <4>2
        <4> QED BY <3>4, <4>1, <4>2
      <3> QED BY <3>1, <3>3, <3>5 DEF item
    <2>3. CASE Head(outbox).op # "say"
      BY <1>1, <2>1, <2>3
    <2> QED BY <2>2, <2>3
  <1>4. up' \in Seq(Requests)
    <2>1. up \in Seq(Requests)  BY <1>1 DEF Phases
    <2> QED BY <1>1, <1>2, <2>1, AppendFacts
  <1>5. LogTyped' /\ Logs' /\ Grows
    BY <1>1, LogStays
  <1>6. Told'
    BY <1>1, <1>5, ToldStays DEF Told
  <1>7. Typed'
    <2>1. up' \in Seq(Requests \cup Joins)
      BY <1>4, SeqWidens
    <2> QED BY <1>1, <1>2, <1>3, <2>1 DEF Typed, TypeOK
  <1>8. Phases' /\ Mail'
    BY <1>1, <1>4 DEF Phases, Mail, Waits
  <1> QED BY <1>5, <1>6, <1>7, <1>8

\* An event that tells of a handoff is followed by another conversation.
LEMMA HandedOffIsPast ==
  ASSUME Base, NEW f \in TrueFrames, f.op = "event"
  PROVE  /\ f.conv \in Conversations /\ f.seq \in Nat /\ f.conv <= current
         /\ f.seq \in 1..Len(log[f.conv]) /\ f.type = log[f.conv][f.seq].type
         /\ f.type = "handed_off" => f.conv + 1 <= current /\ f.seq = Len(log[f.conv])
  <1>1. f.conv \in Conversations /\ f.seq \in Nat
    BY DEF TrueFrames, Frames, JoinedFrames, EventFrames, ReplyFrames
  <1>2. f.conv <= current /\ f.seq \in 1..Len(log[f.conv]) /\ f.type = log[f.conv][f.seq].type
    BY DEF TrueFrames
  <1>3. f.type = "handed_off" => f.conv < current /\ f.seq = Len(log[f.conv])
    BY <1>1, <1>2 DEF Base, Logs
  <1>4. current \in Nat /\ f.conv \in Nat
    BY <1>1, BoundsAssumption DEF Base, Typed, TypeOK, Conversations
  <1> QED BY <1>1, <1>2, <1>3, <1>4

\* An event or a reply is received.
LEMMA BaseReceives ==
  ASSUME Base, ReceiveEvent \/ ReceiveReply
  PROVE  Base'
  <1> USE DEF Base, session, server
  <1>1. /\ conn = "live" /\ down # <<>> /\ down' = Tail(down)
        /\ UNCHANGED <<conn, detail, outbox, typed, up, late, channel, mailbox, log, current,
                       prepared, interrupts>>
    BY DEF ReceiveEvent, ReceiveReply, Receives
  <1>2. Head(down) = down[1] /\ Head(down) \in TrueFrames /\ Tail(down) \in Seq(TrueFrames)
    BY <1>1, HeadIsTrue
  <1>3. LogTyped' /\ Logs' /\ Grows
    BY <1>1, LogStays
  <1>4. Told'
    BY <1>1, <1>2, <1>3, ToldStays
  <1>5. CASE ReceiveEvent
    <2>1. Head(down).op = "event" /\ UNCHANGED <<unsent, noted>>
      BY <1>5 DEF ReceiveEvent, Receives
    <2>2. /\ Head(down).conv \in Conversations /\ Head(down).seq \in Nat
          /\ Head(down).type = "handed_off" => Head(down).conv + 1 <= current
      BY <1>2, <2>1, HandedOffIsPast
    <2>3. \/ UNCHANGED <<lastSeq, convId, shown>>
          \/ /\ shown' = Append(shown, <<Head(down).conv, Head(down).seq>>)
             /\ lastSeq' = IF Head(down).type = "handed_off" THEN 0 ELSE Head(down).seq
             /\ convId' = IF Head(down).type = "handed_off" THEN Head(down).conv + 1 ELSE convId
      BY <1>5 DEF ReceiveEvent
    <2>4. convId \in 0..(MaxHandoffs + 1) /\ convId <= current /\ current \in Nat
          /\ current <= MaxHandoffs + 1
      BY BoundsAssumption DEF Typed, TypeOK, Phases, Conversations
    <2>5. lastSeq' \in Nat /\ convId' \in 0..(MaxHandoffs + 1) /\ convId' <= current
      <3>1. CASE UNCHANGED <<lastSeq, convId, shown>>
        BY <2>4, <3>1 DEF Typed, TypeOK
      <3>2. CASE /\ lastSeq' = IF Head(down).type = "handed_off" THEN 0 ELSE Head(down).seq
                 /\ convId' = IF Head(down).type = "handed_off" THEN Head(down).conv + 1 ELSE convId
        <4>1. Head(down).conv \in Nat  BY <2>2, BoundsAssumption DEF Conversations
        <4> QED BY <2>2, <2>4, <3>2, <4>1, BoundsAssumption
      <3> QED BY <2>3, <3>1, <3>2
    <2>6. shown' \in Seq(Conversations \X Nat)
      <3>1. shown \in Seq(Conversations \X Nat)  BY DEF Typed
      <3>2. <<Head(down).conv, Head(down).seq>> \in Conversations \X Nat  BY <2>2
      <3>3. Append(shown, <<Head(down).conv, Head(down).seq>>) \in Seq(Conversations \X Nat)
        BY <3>1, <3>2, AppendFacts
      <3> QED BY <2>3, <3>1, <3>3
    <2>7. Typed'
      BY <1>1, <2>1, <2>5, <2>6 DEF Typed, TypeOK
    <2>8. Phases' /\ Mail'
      BY <1>1, <2>5 DEF Phases, Mail, Waits
    <2> QED BY <1>3, <1>4, <2>7, <2>8
  <1>6. CASE ReceiveReply
    <2> DEFINE request == Head(down).of
    <2>1. Head(down).op = "reply" /\ unsent' = RemoveFirst(unsent, request)
          /\ noted' = (IF Head(down).ok \/ request.op # "say" THEN noted ELSE noted \cup {request.id})
          /\ UNCHANGED <<lastSeq, convId, shown>>
      BY <1>6 DEF ReceiveReply, Receives
    <2>2. request \in Requests
      BY <1>2, <2>1 DEF TrueFrames, Frames, JoinedFrames, EventFrames, ReplyFrames
    <2>3. noted' \subseteq Messages
      <3>1. request.op = "say" => request.id \in Messages  BY <2>2 DEF Requests
      <3> QED BY <2>1, <3>1 DEF Typed, TypeOK
    <2>4. unsent' \in Seq(Requests) /\ \A i \in 1..Len(unsent') : unsent'[i].op = "say"
      <3>1. unsent \in Seq(Requests) /\ \A i \in 1..Len(unsent) : unsent[i].op = "say"
        BY DEF Typed, TypeOK
      <3> HIDE DEF request
      <3> QED BY <2>1, <3>1, RemoveFacts
    <2>5. Typed'
      BY <1>1, <2>1, <2>3, <2>4 DEF Typed, TypeOK
    <2>6. Phases' /\ Mail'
      BY <1>1, <2>1 DEF Phases, Mail, Waits
    <2> QED BY <1>3, <1>4, <2>5, <2>6
  <1> QED BY <1>5, <1>6

\* An event is committed to the current conversation.
LEMMA Commits ==
  ASSUME Base, NEW event \in Events, event.type # "handed_off", Commit(event, mailbox),
         UNCHANGED <<current, prepared>>, channel'.live = channel.live,
         channel'.conv = channel.conv, channel'.ready = channel.ready
  PROVE  /\ LogTyped' /\ Logs' /\ Grows
         /\ Mail' /\ mailbox' \in Seq(Notices) /\ (~channel.live => mailbox' = mailbox)
         /\ event.type = "human" /\ event.id \in Messages => event.id \in Recorded'
  <1> USE DEF Base
  <1>1. log' = [log EXCEPT ![current] = Append(@, event)]
    BY DEF Commit
  <1>2. /\ LogTyped' /\ Logs' /\ Grows /\ log'[current] = Append(log[current], event)
        /\ \A c \in Conversations : c # current => log'[c] = log[c]
    BY <1>1, LogCommits
  <1>3. Notified
    BY DEF Commit, Notified
  <1>4. channel.conv # current => log'[channel.conv] = log[channel.conv]
    <2>1. CASE channel.conv \in Conversations  BY <1>2, <2>1
    <2>2. CASE channel.conv \notin Conversations
      BY <1>1, <2>2 DEF Typed
    <2> QED BY <2>1, <2>2
  <1>5. Mail' /\ mailbox' \in Seq(Notices) /\ (~channel.live => mailbox' = mailbox)
    BY <1>2, <1>3, <1>4, MailFollows
  <1>6. ASSUME event.type = "human", event.id \in Messages  PROVE event.id \in Recorded'
    <2>1. log[current] \in Seq(Events) /\ current \in Conversations
      BY DEF Typed, TypeOK
    <2>2. Len(log'[current]) = Len(log[current]) + 1 /\ log'[current][Len(log[current]) + 1] = event
      BY <1>2, <2>1, AppendFacts
    <2>3. Len(log[current]) + 1 \in 1..Len(log'[current])
      BY <2>1, <2>2
    <2>4. event.id \in {log'[current][i].id :
                        i \in {j \in 1..Len(log'[current]) : log'[current][j].type = "human"}}
      BY <1>6, <2>2, <2>3
    <2> QED BY <1>6, <2>1, <2>4 DEF Recorded, Said
  <1> QED BY <1>2, <1>5, <1>6

\* A request reaches the engine, on this connection or an earlier one.
LEMMA Handles ==
  ASSUME Base, NEW item \in Requests \cup Joins, NEW ok \in BOOLEAN, Handle(item, ok),
         UNCHANGED <<current, prepared>>
  PROVE  /\ LogTyped' /\ Logs' /\ Grows /\ UNCHANGED channel
         /\ Mail' /\ mailbox' \in Seq(Notices) /\ (~channel.live => mailbox' = mailbox)
         /\ interrupts' \in [Cancels -> Nat]
         /\ ok /\ item.op = "say" => item.id \in Recorded'
  <1> USE DEF Base
  <1>1. CASE item.op = "say" /\ Accepted(item.id, ok, mailbox) /\ UNCHANGED <<channel, interrupts>>
    <2>1. item.id \in Messages
      BY <1>1 DEF Requests, Joins
    <2>2. CASE UNCHANGED log /\ mailbox' = mailbox /\ (ok => item.id \in Said(current))
      <3>1. LogTyped' /\ Logs' /\ Grows
        BY <2>2, LogStays
      <3>2. Mail' /\ mailbox' \in Seq(Notices)
        BY <1>1, <2>2 DEF Mail, Waits, Typed
      <3>3. ok => item.id \in Recorded
        BY <2>1, <2>2 DEF Recorded, Typed, TypeOK
      <3>4. ok => item.id \in Recorded'
        BY <3>1, <3>3, TruthGrows
      <3> QED BY <1>1, <2>2, <3>1, <3>2, <3>4 DEF Typed
    <2>3. CASE Commit(Event("human", item.id), mailbox)
      <3> DEFINE event == Event("human", item.id)
      <3>1. event \in Events /\ event.type = "human" /\ event.id = item.id
        BY <2>1 DEF Event, Events, EventTypes
      <3> HIDE DEF event
      <3>2. Commit(event, mailbox)
        BY <2>3 DEF event
      <3>3. /\ LogTyped' /\ Logs' /\ Grows
            /\ Mail' /\ mailbox' \in Seq(Notices) /\ (~channel.live => mailbox' = mailbox)
            /\ event.id \in Messages => event.id \in Recorded'
        BY <1>1, <3>1, <3>2, Commits
      <3> QED BY <1>1, <2>1, <3>1, <3>3 DEF Typed
    <2>4. \/ UNCHANGED log /\ mailbox' = mailbox /\ (ok => item.id \in Said(current))
          \/ Commit(Event("human", item.id), mailbox)
      BY <1>1 DEF Accepted
    <2> QED BY <2>2, <2>3, <2>4
  <1>2. CASE /\ item.op = "cancel" /\ ok
             /\ interrupts' = [interrupts EXCEPT ![item.id] = @ + 1]
             /\ UNCHANGED <<channel, log, mailbox>>
    <2>1. LogTyped' /\ Logs' /\ Grows
      BY <1>2, LogStays
    <2>2. Mail' /\ mailbox' \in Seq(Notices)
      BY <1>2 DEF Mail, Waits, Typed
    <2>3. interrupts' \in [Cancels -> Nat]
      <3>1. item.id \in Cancels  BY <1>2 DEF Requests, Joins
      <3> QED BY <1>2, <3>1 DEF Typed
    <2> QED BY <1>2, <2>1, <2>2, <2>3
  <1> QED BY <1>1, <1>2 DEF Handle

\* Which connection a join is on.
LEMMA JoinIsFirst ==
  ASSUME Base, up # <<>>
  PROVE  /\ Head(up) \in Requests \cup Joins /\ Tail(up) \in Seq(Requests \cup Joins)
         /\ Head(up).op = "join" =>
              /\ conn = "joining" /\ ~channel.live /\ Tail(up) = <<>>
              /\ Head(up).conv = convId /\ Head(up).after = lastSeq
         /\ Head(up).op # "join" => conn = "live" /\ Head(up) \in Requests /\ Tail(up) \in Seq(Requests)
  <1> USE DEF Base
  <1>1. Head(up) \in Requests \cup Joins /\ Tail(up) \in Seq(Requests \cup Joins)
    <2>1. up \in Seq(Requests \cup Joins)  BY DEF Typed
    <2> HIDE DEF Requests, Joins
    <2> QED BY <2>1, TailFacts
  <1>2. CASE conn = "live"
    <2>1. up \in Seq(Requests)  BY <1>2 DEF Phases
    <2>2. Head(up) \in Requests /\ Tail(up) \in Seq(Requests)  BY <2>1, TailFacts
    <2>3. Head(up).op # "join"  BY <2>2 DEF Requests
    <2> QED BY <1>1, <1>2, <2>2, <2>3
  <1>3. CASE conn # "live"
    <2>1. /\ conn = "joining" /\ ~channel.live
          /\ up = <<[op |-> "join", id |-> 0, after |-> lastSeq, conv |-> convId]>>
      BY <1>3 DEF Phases
    <2>2. Head(up).op = "join" /\ Head(up).conv = convId /\ Head(up).after = lastSeq /\ Tail(up) = <<>>
      BY <2>1
    <2> QED BY <1>1, <2>1, <2>2
  <1> QED BY <1>2, <1>3

\* A join is served.
LEMMA BaseServesJoin ==
  ASSUME Base, ServeJoin
  PROVE  Base'
  <1> USE DEF Base, session, client
  <1>1. /\ up # <<>> /\ Head(up).op = "join" /\ up' = Tail(up)
        /\ channel' = [live |-> TRUE, conv |-> current, ready |-> FALSE, watching |-> FALSE,
                       last |-> IF Head(up).conv \in {0, current} THEN Head(up).after ELSE 0]
        /\ mailbox' = <<ReadBacklog>>
        /\ down' = Append(down, [op |-> "joined", conv |-> current])
        /\ UNCHANGED <<conn, lastSeq, convId, shown, detail, outbox, unsent, noted, typed, late, log,
                       current, prepared, interrupts>>
    BY DEF ServeJoin
  <1>2. /\ conn = "joining" /\ ~channel.live /\ up' = <<>>
        /\ Head(up).conv = convId /\ Head(up).after = lastSeq
    BY <1>1, JoinIsFirst
  <1>3. down = <<>>
    BY <1>2 DEF Phases
  <1>4. current \in Conversations /\ current \in Nat /\ current <= MaxHandoffs + 1
        /\ current >= 1
    BY BoundsAssumption DEF Typed, TypeOK, Conversations
  <1>5. LogTyped' /\ Logs' /\ Grows
    BY <1>1, LogStays
  <1> DEFINE frame == [op |-> "joined", conv |-> current]
  <1>6. frame \in TrueFrames
    BY <1>4 DEF TrueFrames, Frames, JoinedFrames
  <1>7. down' = <<frame>> /\ down' \in Seq(TrueFrames)
    <2> HIDE DEF TrueFrames
    <2>1. down' = Append(<<>>, frame)  BY <1>1, <1>3
    <2> HIDE DEF frame
    <2> QED BY <1>6, <2>1
  <1>8. Told'
    BY <1>5, <1>7, ToldStays
  <1>9. mailbox' \in Seq(Notices)
    BY <1>1 DEF Notices
  <1>10. channel' \in [live : BOOLEAN, conv : 0..(MaxHandoffs + 1), last : Nat, ready : BOOLEAN,
                       watching : BOOLEAN]
    BY <1>1, <1>2, <1>4 DEF Typed, TypeOK
  <1>11. Typed'
    BY <1>1, <1>2, <1>9, <1>10 DEF Typed, TypeOK
  <1>12. Phases'
    <2>1. down' # <<>> /\ down'[1].op = "joined" /\ down'[1].conv = current
      BY <1>7
    <2>2. convId <= current
      BY DEF Phases
    <2>3. channel'.live /\ ~channel'.watching /\ channel'.conv = current
      BY <1>1
    <2> QED BY <1>1, <1>2, <1>4, <2>1, <2>2, <2>3 DEF Phases
  <1>13. Mail'
    <2>1. Len(mailbox') = 1 /\ mailbox'[1] = ReadBacklog /\ ~channel'.ready /\ channel'.conv = current
      BY <1>1
    <2>2. Waits' = 1  BY <2>1 DEF Waits
    <2>3. Len(log'[current]) \in Nat  BY <1>4, <1>5 DEF LogTyped
    <2> QED BY <1>1, <2>1, <2>2, <2>3 DEF Mail
  <1> QED BY <1>5, <1>8, <1>11, <1>12, <1>13

\* A channel serves a conversation there is.
LEMMA ChannelServes ==
  ASSUME Base, channel.live
  PROVE  /\ channel.conv \in Conversations /\ channel.conv <= current
         /\ channel.conv \in Nat /\ current \in Nat /\ channel.last \in Nat
         /\ log[channel.conv] \in Seq(Events) /\ Len(log[channel.conv]) \in Nat
  <1> USE DEF Base
  <1>1. channel.conv \in 1..current /\ current \in Conversations /\ channel.last \in Nat
    BY DEF Phases, Typed, TypeOK
  <1>2. channel.conv \in Conversations /\ channel.conv <= current /\ channel.conv \in Nat
        /\ current \in Nat
    BY <1>1, BoundsAssumption DEF Conversations
  <1>3. log[channel.conv] \in Seq(Events)
    BY <1>2 DEF Typed
  <1> QED BY <1>1, <1>2, <1>3

\* A frame made of an event of the log is true.
LEMMA EventIsTrue ==
  ASSUME Base, NEW c \in Conversations, c <= current, NEW i \in 1..Len(log[c])
  PROVE  /\ EventFrame(c, i) \in TrueFrames
         /\ EventFrame(c, i).op = "event" /\ EventFrame(c, i).conv = c /\ EventFrame(c, i).seq = i
         /\ EventFrame(c, i).type = log[c][i].type
  <1>1. log[c] \in Seq(Events)
    BY DEF Base, Typed
  <1>2. log[c][i].type \in EventTypes /\ i \in Nat
    <2>1. log[c][i] \in Events  BY <1>1, SeqElement
    <2> QED BY <2>1 DEF Events
  <1> DEFINE t == log[c][i].type
             f == [op |-> "event", conv |-> c, seq |-> i, type |-> t]
  <1>3. EventFrame(c, i) = f
    BY DEF EventFrame
  <1>4. f \in Frames
    BY <1>2 DEF Frames, EventFrames
  <1>5. f.op = "event" /\ f.conv = c /\ f.seq = i /\ f.type = t
    OBVIOUS
  <1>6. f \in TrueFrames
    <2> HIDE DEF f
    <2> QED BY <1>4, <1>5 DEF TrueFrames
  <1> QED BY <1>3, <1>5, <1>6

\* The channel has dealt with the first message of its mailbox.
LEMMA MailShrinks ==
  ASSUME Base, mailbox # <<>>, channel'.live = channel.live, channel'.conv = channel.conv,
         channel'.ready, log' = log, mailbox' = Tail(mailbox)
  PROVE  Mail' /\ mailbox' \in Seq(Notices)
  <1> USE DEF Base
  <1>1. mailbox \in Seq(Notices)
    BY DEF Typed
  <1>2. /\ mailbox' \in Seq(Notices) /\ Len(mailbox) \in Nat /\ Len(mailbox) >= 1
        /\ Len(mailbox') = Len(mailbox) - 1
        /\ \A i \in 1..(Len(mailbox) - 1) : mailbox'[i] = mailbox[i + 1]
    <2> HIDE DEF Notices
    <2> QED BY <1>1, TailFacts
  <1>3. channel.live
    BY DEF Phases
  <1>4. Len(log[channel.conv]) \in Nat
    BY <1>3, ChannelServes
  <1>5. Waits' = 0 /\ Waits \in 0..1
    BY DEF Waits
  <1>6. /\ Len(mailbox) - Waits <= Len(log[channel.conv])
        /\ \A j \in (Waits + 1)..Len(mailbox) :
             mailbox[j] = <<channel.conv, Len(log[channel.conv]) - (Len(mailbox) - j)>>
    BY <1>3 DEF Mail
  <1>7. ASSUME NEW j \in 1..Len(mailbox')
        PROVE  mailbox'[j] = <<channel.conv, Len(log[channel.conv]) - (Len(mailbox') - j)>>
    <2>1. j \in 1..(Len(mailbox) - 1) /\ j + 1 \in (Waits + 1)..Len(mailbox)
      BY <1>2, <1>5
    <2>2. mailbox'[j] = <<channel.conv, Len(log[channel.conv]) - (Len(mailbox) - (j + 1))>>
      BY <1>2, <1>6, <2>1
    <2>3. Len(mailbox) - (j + 1) = Len(mailbox') - j
      BY <1>2
    <2> QED BY <2>2, <2>3
  <1>8. Len(mailbox') >= 0 /\ Len(mailbox') <= Len(log[channel.conv])
    BY <1>2, <1>4, <1>5, <1>6
  <1>9. \A j \in (Waits' + 1)..Len(mailbox') :
           mailbox'[j] = <<channel'.conv, Len(log'[channel'.conv]) - (Len(mailbox') - j)>>
    BY <1>5, <1>7
  <1>10. Len(mailbox') >= Waits' /\ Len(mailbox') - Waits' <= Len(log'[channel'.conv])
    BY <1>2, <1>5, <1>8
  <1> QED BY <1>2, <1>9, <1>10 DEF Mail

\* The frames of a backlog: those after the last one delivered.
BacklogFrames ==
  [i \in 1..(Len(log[channel.conv]) - channel.last) |-> EventFrame(channel.conv, channel.last + i)]

LEMMA BacklogIsTrue ==
  ASSUME Base, channel.live
  PROVE  /\ BacklogFrames \in Seq(TrueFrames)
         /\ channel.last <= Len(log[channel.conv]) =>
              Len(BacklogFrames) = Len(log[channel.conv]) - channel.last
         /\ channel.last >= Len(log[channel.conv]) => Len(BacklogFrames) = 0
         /\ \A i \in 1..Len(BacklogFrames) :
              BacklogFrames[i] = EventFrame(channel.conv, channel.last + i)
  <1> DEFINE c == channel.conv
             n == IF channel.last <= Len(log[c]) THEN Len(log[c]) - channel.last ELSE 0
  <1>1. c \in Conversations /\ c <= current /\ channel.last \in Nat /\ Len(log[c]) \in Nat
    BY ChannelServes
  <1>2. n \in Nat /\ 1..(Len(log[c]) - channel.last) = 1..n
    BY <1>1
  <1>3. \A i \in 1..n : channel.last + i \in 1..Len(log[c])
    BY <1>1
  <1>4. BacklogFrames = [i \in 1..n |-> EventFrame(c, channel.last + i)]
    BY <1>2 DEF BacklogFrames
  <1>5. \A i \in 1..n : EventFrame(c, channel.last + i) \in TrueFrames
    <2> HIDE DEF n, TrueFrames, c
    <2> QED BY <1>1, <1>3, EventIsTrue
  <1>6. n = IF channel.last <= Len(log[c]) THEN Len(log[c]) - channel.last ELSE 0
    OBVIOUS
  <1> HIDE DEF n, TrueFrames, c
  <1>7. BacklogFrames \in Seq(TrueFrames) /\ Len(BacklogFrames) = n
    BY <1>2, <1>4, <1>5
  <1>8. \A i \in 1..Len(BacklogFrames) : BacklogFrames[i] = EventFrame(c, channel.last + i)
    BY <1>4, <1>7
  <1> QED BY <1>1, <1>6, <1>7, <1>8 DEF c

\* The backlog is read.
LEMMA BaseBacklog ==
  ASSUME Base, Backlog
  PROVE  Base'
  <1> USE DEF Base, session, client
  <1>1. /\ mailbox # <<>> /\ mailbox' = Tail(mailbox)
        /\ down' = down \o BacklogFrames
        /\ channel' = [channel EXCEPT !.last = Len(log[channel.conv]), !.ready = TRUE]
        /\ UNCHANGED <<conn, lastSeq, convId, shown, detail, outbox, unsent, noted, typed, up, late,
                       log, current, prepared, interrupts>>
    BY DEF Backlog, BacklogFrames
  <1>2. channel.live
    BY <1>1 DEF Phases
  <1>3. /\ channel \in [live : BOOLEAN, conv : 0..(MaxHandoffs + 1), last : Nat, ready : BOOLEAN,
                        watching : BOOLEAN]
        /\ Len(log[channel.conv]) \in Nat
    BY <1>2, ChannelServes DEF Typed, TypeOK
  <1>4. /\ channel' \in [live : BOOLEAN, conv : 0..(MaxHandoffs + 1), last : Nat, ready : BOOLEAN,
                         watching : BOOLEAN]
        /\ channel'.live = channel.live /\ channel'.conv = channel.conv /\ channel'.ready
        /\ channel'.watching = channel.watching
    BY <1>1, <1>3
  <1>5. LogTyped' /\ Logs' /\ Grows
    BY <1>1, LogStays
  <1>6. Mail' /\ mailbox' \in Seq(Notices)
    BY <1>1, <1>4, MailShrinks
  <1>7. /\ down' \in Seq(TrueFrames) /\ (down # <<>> => down' # <<>> /\ down'[1] = down[1])
    <2>1. BacklogFrames \in Seq(TrueFrames)
      BY <1>2, BacklogIsTrue
    <2>2. down \in Seq(TrueFrames)
      BY DEF Told
    <2> HIDE DEF TrueFrames
    <2>3. /\ down' \in Seq(TrueFrames) /\ Len(down') = Len(down) + Len(BacklogFrames)
          /\ \A i \in 1..Len(down) : down'[i] = down[i]
      BY <1>1, <2>1, <2>2, ConcatFacts
    <2>4. Len(down) \in Nat /\ Len(BacklogFrames) \in Nat /\ (down # <<>> => Len(down) >= 1)
      BY <2>1, <2>2
    <2> QED BY <2>3, <2>4
  <1>8. Told'
    BY <1>5, <1>7, ToldStays
  <1>9. Typed'
    BY <1>1, <1>4, <1>6 DEF Typed, TypeOK
  <1>10. Phases'
    BY <1>1, <1>2, <1>4, <1>7 DEF Phases
  <1> QED BY <1>5, <1>6, <1>8, <1>9, <1>10

\* A committed event in the mailbox of a channel is one of its conversation.
LEMMA CommittedHead ==
  ASSUME Base, mailbox # <<>>, Head(mailbox) # ReadBacklog
  PROVE  /\ channel.live /\ channel.ready
         /\ Head(mailbox)[1] = channel.conv
         /\ Head(mailbox)[2] = Len(log[channel.conv]) - (Len(mailbox) - 1)
         /\ Head(mailbox)[2] \in 1..Len(log[channel.conv])
         /\ Len(mailbox) \in Nat /\ Len(mailbox) >= 1
  <1> USE DEF Base
  <1>1. Head(mailbox) = mailbox[1] /\ Len(mailbox) \in Nat /\ Len(mailbox) >= 1
    <2>1. mailbox \in Seq(Notices)  BY DEF Typed
    <2> HIDE DEF Notices
    <2> QED BY <2>1, TailFacts
  <1>2. channel.live
    BY DEF Phases
  <1>3. channel.ready
    BY <1>1, <1>2 DEF Mail
  <1>4. Waits = 0
    BY <1>3 DEF Waits
  <1>5. /\ Len(mailbox) <= Len(log[channel.conv])
        /\ mailbox[1] = <<channel.conv, Len(log[channel.conv]) - (Len(mailbox) - 1)>>
    <2>1. /\ Len(mailbox) - 0 <= Len(log[channel.conv])
          /\ \A j \in 1..Len(mailbox) :
               mailbox[j] = <<channel.conv, Len(log[channel.conv]) - (Len(mailbox) - j)>>
      BY <1>2, <1>4 DEF Mail
    <2>2. 1 \in 1..Len(mailbox)
      BY <1>1
    <2> QED BY <1>1, <2>1, <2>2
  <1>6. Len(log[channel.conv]) \in Nat
    BY <1>2, ChannelServes
  <1>7. Len(log[channel.conv]) - (Len(mailbox) - 1) \in 1..Len(log[channel.conv])
    BY <1>1, <1>5, <1>6
  <1> QED BY <1>1, <1>2, <1>3, <1>5, <1>7

\* A committed event is passed on, left out, or leads to the next conversation.
LEMMA BaseCommitted ==
  ASSUME Base, Committed
  PROVE  Base'
  <1> USE DEF Base, session, client
  <1> DEFINE c == Head(mailbox)[1]
             i == Head(mailbox)[2]
  <1>1. /\ mailbox # <<>> /\ Head(mailbox) # ReadBacklog
        /\ UNCHANGED <<conn, lastSeq, convId, shown, detail, outbox, unsent, noted, typed, up, late,
                       log, current, prepared, interrupts>>
    BY DEF Committed
  <1>2. /\ channel.live /\ channel.ready /\ c = channel.conv
        /\ i = Len(log[channel.conv]) - (Len(mailbox) - 1) /\ i \in 1..Len(log[channel.conv])
        /\ Len(mailbox) \in Nat /\ Len(mailbox) >= 1
    BY <1>1, CommittedHead
  <1>3. /\ c \in Conversations /\ c <= current /\ c \in Nat /\ current \in Nat
        /\ Len(log[c]) \in Nat /\ i \in Nat /\ i \in 1..Len(log[c])
    BY <1>2, ChannelServes
  <1>4. LogTyped' /\ Logs' /\ Grows
    BY <1>1, LogStays
  <1>5. \/ mailbox' = Tail(mailbox) /\ UNCHANGED <<down, channel>>
        \/ /\ down' = Append(down, EventFrame(c, i))
           /\ IF log[c][i].type = "handed_off"
              THEN /\ channel' = [channel EXCEPT !.conv = current, !.last = 0, !.ready = FALSE]
                   /\ mailbox' = Append(Tail(mailbox), ReadBacklog)
              ELSE /\ channel' = [channel EXCEPT !.last = i]
                   /\ mailbox' = Tail(mailbox)
    BY DEF Committed
  <1>6. EventFrame(c, i) \in TrueFrames
    BY <1>3, EventIsTrue
  <1> DEFINE frame == EventFrame(c, i)
  <1>7. /\ down \in Seq(TrueFrames)
        /\ Append(down, frame) \in Seq(TrueFrames) /\ Append(down, frame) # <<>>
        /\ (down # <<>> => Append(down, frame)[1] = down[1])
    <2>1. down \in Seq(TrueFrames)  BY DEF Told
    <2> HIDE DEF TrueFrames, frame
    <2>2. frame \in TrueFrames  BY <1>6 DEF frame
    <2>3. Len(down) \in Nat /\ (down # <<>> => Len(down) >= 1)  BY <2>1
    <2>4. /\ Append(down, frame) \in Seq(TrueFrames) /\ Len(Append(down, frame)) = Len(down) + 1
          /\ \A k \in 1..Len(down) : Append(down, frame)[k] = down[k]
      BY <2>1, <2>2, AppendFacts
    <2>5. Append(down, frame) # <<>>
      <3>1. Len(Append(down, frame)) # 0  BY <2>3, <2>4
      <3>2. Append(down, frame) \in Seq(TrueFrames)  BY <2>4
      <3> QED BY <3>1, <3>2, SeqEmpty
    <2>6. down # <<>> => Append(down, frame)[1] = down[1]  BY <2>3, <2>4
    <2> QED BY <2>1, <2>4, <2>5, <2>6
  <1>8. /\ channel \in [live : BOOLEAN, conv : 0..(MaxHandoffs + 1), last : Nat, ready : BOOLEAN,
                        watching : BOOLEAN]
        /\ current \in 0..(MaxHandoffs + 1) /\ current >= 1
    BY BoundsAssumption DEF Typed, TypeOK, Conversations
  <1>9. /\ down' \in Seq(TrueFrames) /\ (down # <<>> => down' # <<>> /\ down'[1] = down[1])
        /\ channel' \in [live : BOOLEAN, conv : 0..(MaxHandoffs + 1), last : Nat, ready : BOOLEAN,
                         watching : BOOLEAN]
        /\ channel'.live /\ channel'.conv \in 1..current /\ channel'.watching = channel.watching
    <2>1. down' \in Seq(TrueFrames) /\ (down # <<>> => down' # <<>> /\ down'[1] = down[1])
      <3> HIDE DEF frame, TrueFrames
      <3>1. down' \in {down, Append(down, frame)}  BY <1>5 DEF frame
      <3> QED BY <1>7, <3>1
    <2>2. channel.conv \in 1..current
      BY <1>2, <1>3, BoundsAssumption DEF Conversations
    <2>3. CASE channel' = [channel EXCEPT !.conv = current, !.last = 0, !.ready = FALSE]
      <3> HIDE DEF c, i
      <3>1. /\ channel' \in [live : BOOLEAN, conv : 0..(MaxHandoffs + 1), last : Nat,
                             ready : BOOLEAN, watching : BOOLEAN]
            /\ channel'.live = channel.live /\ channel'.conv = current
            /\ channel'.watching = channel.watching
        BY <1>8, <2>3
      <3>2. current \in 1..current
        BY <1>3, <1>8
      <3> QED BY <1>2, <2>1, <3>1, <3>2
    <2>4. CASE channel' = [channel EXCEPT !.last = i]
      BY <1>2, <1>3, <1>8, <2>1, <2>2, <2>4
    <2>5. CASE channel' = channel
      BY <1>2, <1>8, <2>1, <2>2, <2>5
    <2> QED BY <1>5, <2>3, <2>4, <2>5
  <1>10. Told'
    BY <1>4, <1>9, ToldStays
  <1>11. Mail' /\ mailbox' \in Seq(Notices)
    <2>1. CASE /\ mailbox' = Tail(mailbox)
               /\ channel' = channel \/ channel' = [channel EXCEPT !.last = i]
      <3>1. channel'.live = channel.live /\ channel'.conv = channel.conv /\ channel'.ready
        BY <1>2, <1>8, <2>1
      <3> QED BY <1>1, <2>1, <3>1, MailShrinks
    <2>2. CASE /\ log[c][i].type = "handed_off"
               /\ channel' = [channel EXCEPT !.conv = current, !.last = 0, !.ready = FALSE]
               /\ mailbox' = Append(Tail(mailbox), ReadBacklog)
      <3>1. i = Len(log[c])
        BY <1>3, <2>2 DEF Logs
      <3>2. Len(mailbox) = 1
        <4>1. i = Len(log[c]) - (Len(mailbox) - 1)  BY <1>2
        <4>2. Len(mailbox) \in Nat /\ Len(log[c]) \in Nat  BY <1>2, <1>3
        <4> DEFINE n == Len(log[c])
                   k == Len(mailbox)
        <4>3. i = n - (k - 1) /\ i = n /\ n \in Nat /\ k \in Nat
          BY <1>2, <3>1, <4>1, <4>2
        <4> HIDE DEF n, k, c, i
        <4>4. n = n - (k - 1) /\ n \in Nat /\ k \in Nat  BY <4>3
        <4>5. k = 1  BY ONLY <4>4
        <4> QED BY <4>5 DEF k
      <3>3. mailbox \in Seq(Notices)  BY DEF Typed
      <3>4. Tail(mailbox) = <<>>
        <4> HIDE DEF Notices
        <4>1. Tail(mailbox) \in Seq(Notices) /\ Len(Tail(mailbox)) = 0
          BY <1>1, <3>2, <3>3, TailFacts
        <4> QED BY <4>1, SeqEmpty
      <3>5. mailbox' = <<ReadBacklog>>
        <4>1. mailbox' = Append(<<>>, ReadBacklog)
          BY <2>2, <3>4
        <4> QED BY <4>1
      <3>6. mailbox' \in Seq(Notices)
        BY <3>5 DEF Notices
      <3>7. Len(mailbox') = 1 /\ mailbox'[1] = ReadBacklog /\ ~channel'.ready /\ channel'.conv = current
        BY <1>8, <2>2, <3>5
      <3>8. Waits' = 1  BY <3>7 DEF Waits
      <3>9. Len(log'[current]) \in Nat
        BY <1>4 DEF LogTyped, Grows, Typed, TypeOK
      <3> QED BY <1>1, <3>6, <3>7, <3>8, <3>9 DEF Mail
    <2> QED BY <1>5, <2>1, <2>2
  <1>12. Typed'
    BY <1>1, <1>9, <1>11 DEF Typed, TypeOK
  <1>13. Phases'
    BY <1>1, <1>2, <1>9 DEF Phases
  <1> QED BY <1>4, <1>10, <1>11, <1>12, <1>13

\* A request of this connection is served and answered.
LEMMA BaseServes ==
  ASSUME Base, Serve
  PROVE  Base'
  <1> USE DEF Base, client
  <1>1. PICK ok \in BOOLEAN :
          /\ \/ Handle(Head(up), ok)
             \/ /\ Head(up).op \in {"watch", "unwatch"} /\ ok
                /\ channel' = [channel EXCEPT !.watching = Head(up).op = "watch"]
                /\ UNCHANGED <<log, mailbox, interrupts>>
          /\ down' = Append(down, [op |-> "reply", of |-> Head(up), ok |-> ok])
    BY DEF Serve
  <1>2. /\ channel.live /\ up # <<>> /\ Head(up).op # "join" /\ up' = Tail(up)
        /\ UNCHANGED <<conn, lastSeq, convId, shown, detail, outbox, unsent, noted, typed, late,
                       current, prepared>>
    BY DEF Serve
  <1>3. conn = "live" /\ Head(up) \in Requests /\ up' \in Seq(Requests)
        /\ up' \in Seq(Requests \cup Joins)
    BY <1>2, JoinIsFirst
  <1>4. channel \in [live : BOOLEAN, conv : 0..(MaxHandoffs + 1), last : Nat, ready : BOOLEAN,
                     watching : BOOLEAN]
    BY DEF Typed, TypeOK
  <1>5. /\ LogTyped' /\ Logs' /\ Grows /\ Mail' /\ mailbox' \in Seq(Notices)
        /\ interrupts' \in [Cancels -> Nat]
        /\ ok /\ Head(up).op = "say" => Head(up).id \in Recorded'
        /\ channel' \in [live : BOOLEAN, conv : 0..(MaxHandoffs + 1), last : Nat, ready : BOOLEAN,
                         watching : BOOLEAN]
        /\ channel'.live /\ channel'.conv = channel.conv
    <2>1. CASE Handle(Head(up), ok)
      <3>1. Head(up) \in Requests \cup Joins
        BY <1>3
      <3> QED BY <1>2, <1>4, <2>1, <3>1, Handles
    <2>2. CASE /\ Head(up).op \in {"watch", "unwatch"} /\ ok
               /\ channel' = [channel EXCEPT !.watching = Head(up).op = "watch"]
               /\ UNCHANGED <<log, mailbox, interrupts>>
      <3>1. LogTyped' /\ Logs' /\ Grows
        BY <1>2, <2>2, LogStays
      <3>2. /\ channel' \in [live : BOOLEAN, conv : 0..(MaxHandoffs + 1), last : Nat, ready : BOOLEAN,
                             watching : BOOLEAN]
            /\ channel'.live /\ channel'.conv = channel.conv /\ channel'.ready = channel.ready
        <4> DEFINE w == Head(up).op = "watch"
        <4>1. w \in BOOLEAN /\ channel' = [channel EXCEPT !.watching = w]
          BY <2>2
        <4> HIDE DEF w
        <4> QED BY <1>2, <1>4, <4>1
      <3>3. Mail' /\ mailbox' \in Seq(Notices) /\ interrupts' \in [Cancels -> Nat]
        BY <1>2, <2>2, <3>2 DEF Mail, Waits, Typed
      <3> QED BY <2>2, <3>1, <3>2, <3>3
    <2> QED BY <1>1, <2>1, <2>2
  <1> DEFINE frame == [op |-> "reply", of |-> Head(up), ok |-> ok]
  <1>6. Told'
    <2>1. frame \in TrueFrames'
      <3>1. frame \in ReplyFrames /\ frame.op = "reply" /\ frame.of = Head(up) /\ frame.ok = ok
        BY <1>3 DEF ReplyFrames
      <3> HIDE DEF frame
      <3> QED BY <1>5, <3>1 DEF TrueFrames, Frames
    <2>2. TrueFrames \subseteq TrueFrames'
      BY <1>5, TruthGrows
    <2> HIDE DEF TrueFrames, frame
    <2>3. down \in Seq(TrueFrames')
      BY <2>2, SeqWidens DEF Told
    <2>4. down' = Append(down, frame)
      BY <1>1 DEF frame
    <2> QED BY <2>1, <2>3, <2>4, AppendFacts DEF Told
  <1>7. Typed'
    BY <1>2, <1>3, <1>5 DEF Typed, TypeOK, LogTyped
  <1>8. Phases'
    BY <1>2, <1>3, <1>5 DEF Phases
  <1> QED BY <1>5, <1>6, <1>7, <1>8

\* A request of an earlier connection is served, and nobody hears of it.
LEMMA BaseServesLate ==
  ASSUME Base, ServeLate
  PROVE  Base'
  <1> USE DEF Base, client
  <1>1. /\ late # <<>> /\ late' = Tail(late)
        /\ UNCHANGED <<conn, lastSeq, convId, shown, detail, outbox, unsent, noted, typed, up, down,
                       current, prepared>>
    BY DEF ServeLate
  <1>2. Head(late) \in Requests \cup Joins /\ late' \in Seq(Requests \cup Joins)
    <2>1. late \in Seq(Requests \cup Joins)  BY DEF Typed
    <2> HIDE DEF Requests, Joins
    <2> QED BY <1>1, <2>1, TailFacts
  <1>3. /\ LogTyped' /\ Logs' /\ Grows /\ Mail' /\ mailbox' \in Seq(Notices)
        /\ interrupts' \in [Cancels -> Nat] /\ UNCHANGED channel
        /\ ~channel.live => mailbox' = mailbox
    <2>1. CASE \E ok \in BOOLEAN : Handle(Head(late), ok)
      BY <1>1, <1>2, <2>1, Handles
    <2>2. CASE UNCHANGED <<channel, log, mailbox, interrupts>>
      <3>1. LogTyped' /\ Logs' /\ Grows
        BY <1>1, <2>2, LogStays
      <3> QED BY <1>1, <2>2, <3>1 DEF Mail, Waits, Typed
    <2> QED BY <2>1, <2>2 DEF ServeLate
  <1>4. Told'
    BY <1>1, <1>3, ToldStays DEF Told
  <1>5. Typed'
    BY <1>1, <1>2, <1>3 DEF Typed, TypeOK, LogTyped
  <1>6. Phases'
    BY <1>1, <1>3 DEF Phases
  <1> QED BY <1>3, <1>4, <1>5, <1>6

\* The engine's own events and the two steps of a handoff.
LEMMA BaseEngine ==
  ASSUME Base, OtherEvent \/ PrepareHandoff \/ HandOff
  PROVE  Base'
  <1> USE DEF Base, client, wire, server
  <1>1. /\ UNCHANGED <<conn, lastSeq, convId, shown, detail, outbox, unsent, noted, typed, up, down,
                       late, channel, interrupts>>
        /\ prepared' \in BOOLEAN
    BY DEF OtherEvent, PrepareHandoff, HandOff, Typed, TypeOK
  <1>2. /\ LogTyped' /\ Logs' /\ Grows /\ Mail' /\ mailbox' \in Seq(Notices)
        /\ ~channel.live => mailbox' = mailbox
    <2>1. CASE OtherEvent
      <3> DEFINE event == Event("other", 0)
      <3>1. event \in Events /\ event.type # "handed_off"
        BY DEF Event, Events, EventTypes
      <3>2. Commit(event, mailbox) /\ UNCHANGED <<current, prepared>>
        BY <2>1 DEF OtherEvent
      <3> HIDE DEF event
      <3> QED BY <1>1, <3>1, <3>2, Commits
    <2>2. CASE PrepareHandoff
      <3>1. UNCHANGED <<log, current, mailbox>> /\ (prepared' => current <= MaxHandoffs)
        BY <2>2 DEF PrepareHandoff
      <3>2. current \in Nat /\ \A c \in Conversations : Len(log[c]) \in Nat
        BY BoundsAssumption DEF Typed, TypeOK, Conversations
      <3>3. LogTyped' /\ Logs' /\ Grows
        BY <3>1, <3>2 DEF Typed, TypeOK, Logs, LogTyped, Grows
      <3> QED BY <1>1, <3>1, <3>3 DEF Mail, Waits, Typed
    <2>3. CASE HandOff
      <3> DEFINE event == Event("handed_off", 0)
      <3>1. event \in Events
        BY DEF Event, Events, EventTypes
      <3>2. /\ LogTyped' /\ Logs' /\ Grows /\ current' = current + 1
            /\ log'[current] = Append(log[current], event)
            /\ \A c \in Conversations : c <= current' /\ c # current /\ c # current' => log'[c] = log[c]
        BY <2>3, LogHandsOff
      <3>3. Notified
        BY <2>3 DEF HandOff, Notified
      <3> HIDE DEF event
      <3>4. CASE channel.live
        <4>1. channel.conv \in Conversations /\ channel.conv \in Nat /\ channel.conv <= current
              /\ current \in Nat
          BY <3>4, ChannelServes
        <4>2. channel.conv # current => log'[channel.conv] = log[channel.conv]
          BY <3>2, <4>1
        <4>3. Mail' /\ mailbox' \in Seq(Notices)
          BY <1>1, <3>1, <3>2, <3>3, <4>2, MailFollows
        <4> QED BY <3>2, <3>4, <4>3
      <3>5. CASE ~channel.live
        <4>1. mailbox' = mailbox
          BY <3>3, <3>5 DEF Notified
        <4> QED BY <1>1, <3>2, <3>5, <4>1 DEF Mail, Typed
      <3> QED BY <3>4, <3>5
    <2> QED BY <2>1, <2>2, <2>3
  <1>3. Told'
    BY <1>1, <1>2, ToldStays DEF Told
  <1>4. current' \in Conversations /\ current <= current' /\ current \in Nat /\ current' \in Nat
    BY <1>2, BoundsAssumption DEF Grows, Typed, TypeOK, Conversations
  <1>5. Typed'
    BY <1>1, <1>2, <1>4 DEF Typed, TypeOK, LogTyped
  <1>6. Phases'
    <2>1. convId <= current => convId <= current'
      BY <1>4, BoundsAssumption DEF Typed, TypeOK
    <2>2. channel.conv \in 1..current => channel.conv \in 1..current'
      BY <1>4
    <2> QED BY <1>1, <1>2, <2>1, <2>2 DEF Phases
  <1> QED BY <1>2, <1>3, <1>5, <1>6

\* Every step keeps the base.
LEMMA BaseStep ==
  ASSUME Base, [Next]_vars
  PROVE  Base'
  <1>1. CASE UNCHANGED vars
    <2> USE DEF vars, client, wire, server, session
    <2>1. LogTyped' /\ Logs' /\ Grows
      BY <1>1, LogStays DEF Base
    <2>2. Told'
      BY <1>1, <2>1, ToldStays DEF Base, Told
    <2>3. Typed' /\ Phases' /\ Mail'
      BY <1>1 DEF Base, Typed, TypeOK, Phases, Mail, Waits
    <2> QED BY <2>1, <2>2, <2>3 DEF Base
  <1>2. CASE Next
    BY <1>2, BasePerson, BaseDrops, BaseConnects, BaseJoins, BaseTakes, BaseReceives, BaseServesJoin,
       BaseBacklog, BaseCommitted, BaseServes, BaseServesLate, BaseEngine
       DEF Next, ClientStep, ServiceStep
  <1> QED BY <1>1, <1>2

\* Every state satisfies the base.
THEOREM BaseInvariance == Spec => []Base
  BY BaseInit, BaseStep, PTL DEF Spec

\* What the connection keeps is of its type in every reachable state.
THEOREM TypeCorrect == Spec => []TypeOK
  <1>1. Base => TypeOK
    BY DEF Base, Typed
  <1> QED BY <1>1, BaseInvariance, PTL

-----------------------------------------------------------------------------
(* A cancel reaches the engine at most once                                *)

\* Where a cancel is after something is appended.
LEMMA PlacesAppend ==
  ASSUME NEW T, NEW q \in Seq(T), NEW e \in T, NEW c
  PROVE  /\ e # Cancelling(c) => Places(Append(q, e), c) = Places(q, c)
         /\ e = Cancelling(c) => Places(Append(q, e), c) = Places(q, c) \cup {Len(q) + 1}
  <1>1. /\ Len(Append(q, e)) = Len(q) + 1 /\ Append(q, e)[Len(q) + 1] = e
        /\ \A i \in 1..Len(q) : Append(q, e)[i] = q[i]
    BY AppendFacts
  <1>2. Len(q) \in Nat
    OBVIOUS
  <1> DEFINE r == Append(q, e)
  <1> HIDE DEF r
  <1>3. \A i \in 1..(Len(q) + 1) : i \in 1..Len(q) \/ i = Len(q) + 1
    BY <1>2
  <1>4. 1..Len(q) \subseteq 1..(Len(q) + 1) /\ Len(q) + 1 \in 1..(Len(q) + 1)
    BY <1>2
  <1>5. Len(r) = Len(q) + 1 /\ r[Len(q) + 1] = e /\ \A i \in 1..Len(q) : r[i] = q[i]
    BY <1>1 DEF r
  <1> HIDE DEF Cancelling
  <1>6. /\ e # Cancelling(c) => Places(r, c) = Places(q, c)
        /\ e = Cancelling(c) => Places(r, c) = Places(q, c) \cup {Len(q) + 1}
    BY <1>3, <1>4, <1>5 DEF Places
  <1> QED BY <1>6 DEF r

\* Where a cancel is after the head is taken: not twice, and not at all when it was the head.
LEMMA PlacesTail ==
  ASSUME NEW T, NEW q \in Seq(T), q # <<>>, NEW c, AtMostOne(Places(q, c))
  PROVE  /\ AtMostOne(Places(Tail(q), c))
         /\ Places(q, c) = {} => Places(Tail(q), c) = {} /\ Head(q) # Cancelling(c)
         /\ Head(q) = Cancelling(c) => Places(Tail(q), c) = {}
         /\ Places(Tail(q), c) # {} => Places(q, c) # {}
  <1>1. /\ Len(q) \in Nat /\ Len(q) >= 1 /\ Head(q) = q[1]
        /\ Len(Tail(q)) = Len(q) - 1
        /\ \A i \in 1..(Len(q) - 1) : Tail(q)[i] = q[i + 1]
    BY TailFacts
  <1> DEFINE r == Tail(q)
  <1>2. Len(r) = Len(q) - 1 /\ \A i \in 1..(Len(q) - 1) : r[i] = q[i + 1]
    BY <1>1
  <1> HIDE DEF r
  <1>3. ASSUME NEW i \in Places(r, c)  PROVE i \in Nat /\ i >= 1 /\ i + 1 \in Places(q, c)
    BY <1>1, <1>2 DEF Places
  <1>4. Head(q) = Cancelling(c) => 1 \in Places(q, c)
    BY <1>1 DEF Places
  <1>5. \A i, j \in Places(q, c) : i = j
    BY DEF AtMostOne
  <1>6. AtMostOne(Places(r, c))
    <2> SUFFICES ASSUME NEW i \in Places(r, c), NEW j \in Places(r, c)  PROVE i = j
      BY DEF AtMostOne
    <2> QED BY <1>3, <1>5
  <1>7. Places(q, c) = {} => Places(r, c) = {} /\ Head(q) # Cancelling(c)
    BY <1>3, <1>4
  <1>8. Head(q) = Cancelling(c) => Places(r, c) = {}
    <2> SUFFICES ASSUME Head(q) = Cancelling(c), NEW i \in Places(r, c)  PROVE FALSE
      OBVIOUS
    <2>1. i + 1 = 1
      BY <1>3, <1>4, <1>5
    <2> QED BY <1>3, <2>1
  <1> QED BY <1>6, <1>7, <1>8 DEF r

\* A late queue that gets what was written, where only one of the two holds a cancel.
LEMMA PlacesConcat ==
  ASSUME NEW T, NEW q \in Seq(T), NEW u \in Seq(T), NEW n \in 0..Len(u), NEW c,
         AtMostOne(Places(q, c)), AtMostOne(Places(u, c)),
         Places(q, c) = {} \/ Places(u, c) = {}
  PROVE  /\ AtMostOne(Places(q \o SubSeq(u, 1, n), c))
         /\ Places(q, c) = {} /\ Places(u, c) = {} => Places(q \o SubSeq(u, 1, n), c) = {}
  <1> DEFINE p == SubSeq(u, 1, n)
             r == q \o p
  <1>1. p \in Seq(T) /\ Len(p) = n /\ \A i \in 1..n : p[i] = u[i]
    BY PrefixFacts
  <1> HIDE DEF p
  <1>2. /\ Len(r) = Len(q) + Len(p) /\ \A i \in 1..Len(q) : r[i] = q[i]
        /\ \A i \in 1..Len(p) : r[Len(q) + i] = p[i]
    <2>1. p \in Seq(T)  BY <1>1
    <2> QED BY <2>1, ConcatFacts
  <1> HIDE DEF r
  <1>3. Len(q) \in Nat /\ Len(u) \in Nat /\ n \in Nat /\ n <= Len(u)
    OBVIOUS
  <1>4. ASSUME NEW i \in Places(r, c)
        PROVE  i \in Places(q, c) \/ (i - Len(q) \in Places(u, c) /\ i \in Nat)
    <2>1. i \in 1..(Len(q) + n) /\ r[i] = Cancelling(c)
      BY <1>1, <1>2 DEF Places
    <2>2. CASE i <= Len(q)
      <3>1. i \in 1..Len(q)  BY <1>3, <2>1, <2>2
      <3> QED BY <1>2, <2>1, <3>1 DEF Places
    <2>3. CASE ~(i <= Len(q))
      <3> DEFINE k == i - Len(q)
      <3>1. k \in 1..n /\ Len(q) + k = i /\ k \in 1..Len(u)  BY <1>3, <2>1, <2>3
      <3>2. r[i] = u[k]  BY <1>1, <1>2, <3>1
      <3>3. k \in Places(u, c)  BY <2>1, <3>1, <3>2 DEF Places
      <3> QED BY <2>1, <3>3
    <2> QED BY <2>2, <2>3
  <1>5. Places(q, c) = {} /\ Places(u, c) = {} => Places(r, c) = {}
    BY <1>4
  <1>6. AtMostOne(Places(r, c))
    <2> SUFFICES ASSUME NEW i \in Places(r, c), NEW j \in Places(r, c)  PROVE i = j
      BY DEF AtMostOne
    <2>1. CASE Places(u, c) = {}
      BY <1>4, <2>1 DEF AtMostOne
    <2>2. CASE Places(q, c) = {}
      <3>1. i - Len(q) \in Places(u, c) /\ j - Len(q) \in Places(u, c) /\ i \in Nat /\ j \in Nat
        BY <1>4, <2>2
      <3>2. i - Len(q) = j - Len(q)  BY <3>1 DEF AtMostOne
      <3> QED BY <1>3, <3>1, <3>2
    <2> QED BY <2>1, <2>2
  <1> QED BY <1>5, <1>6 DEF r, p

\* A queue without cancels has none of them anywhere.
LEMMA PlacesNowhere ==
  ASSUME NEW q, \A i \in 1..Len(q) : q[i].op # "cancel", NEW c
  PROVE  Places(q, c) = {} /\ AtMostOne(Places(q, c))
  BY DEF Places, Cancelling, AtMostOne

\* A request that cancels names the cancel it was typed as.
LEMMA CancelIsNamed ==
  ASSUME NEW item \in Requests \cup Joins
  PROVE  /\ item.op = "cancel" => item.id \in Cancels /\ item = Cancelling(item.id)
         /\ item.op # "cancel" => \A c \in Cancels : item # Cancelling(c)
         /\ \A c \in Cancels : item = Cancelling(c) => item.op = "cancel" /\ item.id = c
  BY DEF Requests, Joins, Cancelling

\* A step that leaves the queues and the interrupts alone.
LEMMA CancelStays ==
  ASSUME CancelInv, UNCHANGED <<outbox, up, late, interrupts, typed>>
  PROVE  CancelInv'
  BY DEF CancelInv

\* What the person types.
LEMMA CancelTyped ==
  ASSUME Base, CancelInv,
         \/ \E m \in Messages : Say(m)
         \/ \E c \in Cancels : CancelTurn(c)
         \/ OpenDetail \/ CloseDetail
  PROVE  CancelInv'
  <1> DEFINE Queued(item) ==
          /\ outbox' = Append(outbox, item)
          /\ \/ item.op # "cancel" /\ \A c \in Cancels : c \in typed' <=> c \in typed
             \/ /\ item.op = "cancel" /\ item.id \in Cancels /\ item.id \notin typed
                /\ typed' = typed \cup {item.id}
          /\ UNCHANGED <<up, late, interrupts>>
  <1>1. PICK item \in Requests : Queued(item)
    <2> USE DEF session, wire
    <2>1. ASSUME NEW m \in Messages, Say(m)  PROVE \E item \in Requests : Queued(item)
      <3> DEFINE item == [op |-> "say", id |-> m]
      <3>1. item \in Requests  BY DEF Requests
      <3>2. m \notin Cancels  BY NamesAssumption
      <3>3. Queued(item)  BY <2>1, <3>2 DEF Say, Queue
      <3> QED BY <3>1, <3>3
    <2>2. ASSUME NEW c \in Cancels, CancelTurn(c)  PROVE \E item \in Requests : Queued(item)
      <3> DEFINE item == [op |-> "cancel", id |-> c]
      <3>1. item \in Requests  BY DEF Requests
      <3>2. Queued(item)  BY <2>2 DEF CancelTurn, Queue
      <3> QED BY <3>1, <3>2
    <2>3. ASSUME OpenDetail \/ CloseDetail  PROVE \E item \in Requests : Queued(item)
      <3>1. PICK op \in {"watch", "unwatch"} :
              outbox' = Append(outbox, [op |-> op, id |-> 0]) /\ UNCHANGED <<typed, up, late, interrupts>>
        BY <2>3 DEF OpenDetail, CloseDetail, Queue
      <3> DEFINE item == [op |-> op, id |-> 0]
      <3>2. item \in Requests  BY DEF Requests
      <3>3. Queued(item)  BY <3>1
      <3> QED BY <3>2, <3>3
    <2> QED BY <2>1, <2>2, <2>3
  <1>2. outbox \in Seq(Requests)
    BY DEF Base, Typed, TypeOK
  <1>3. ASSUME NEW c \in Cancels
        PROVE  /\ item # Cancelling(c) => Places(Append(outbox, item), c) = Places(outbox, c)
               /\ item = Cancelling(c) =>
                    Places(Append(outbox, item), c) = Places(outbox, c) \cup {Len(outbox) + 1}
    <2> HIDE DEF Requests
    <2> QED BY <1>2, PlacesAppend
  <1>4. item \in Requests \cup Joins
    OBVIOUS
  <1>5. ASSUME NEW c \in Cancels, item # Cancelling(c)
        PROVE  Places(outbox', c) = Places(outbox, c) /\ (c \notin typed' => c \notin typed)
    BY <1>1, <1>3, <1>5
  <1>6. ASSUME NEW c \in Cancels, item = Cancelling(c)
        PROVE  /\ c \notin typed /\ c \in typed'
               /\ Places(outbox', c) = Places(outbox, c) \cup {Len(outbox) + 1}
    <2>1. item.op = "cancel" /\ item.id = c
      BY <1>4, <1>6, CancelIsNamed
    <2> QED BY <1>1, <1>3, <1>6, <2>1
  <1>7. ASSUME NEW c \in Cancels
        PROVE  /\ interrupts'[c] <= 1
               /\ AtMostOne(Places(outbox', c)) /\ AtMostOne(Places(up', c)) /\ AtMostOne(Places(late', c))
               /\ Places(outbox', c) = {} \/ (Places(up', c) = {} /\ Places(late', c) = {})
               /\ Places(up', c) = {} \/ Places(late', c) = {}
               /\ interrupts'[c] # 0 =>
                    Places(outbox', c) = {} /\ Places(up', c) = {} /\ Places(late', c) = {}
               /\ c \notin typed' => interrupts'[c] = 0 /\ Places(outbox', c) = {}
                                     /\ Places(up', c) = {} /\ Places(late', c) = {}
    <2>1. UNCHANGED <<up, late, interrupts>>
      BY <1>1
    <2>2. CASE item # Cancelling(c)
      BY <1>5, <2>1, <2>2 DEF CancelInv
    <2>3. CASE item = Cancelling(c)
      <3>1. Places(outbox, c) = {} /\ interrupts[c] = 0 /\ Places(up, c) = {} /\ Places(late, c) = {}
        BY <1>6, <2>3 DEF CancelInv
      <3>2. AtMostOne(Places(outbox', c))
        BY <1>6, <2>3, <3>1 DEF AtMostOne
      <3> QED BY <1>6, <2>1, <2>3, <3>1, <3>2 DEF AtMostOne
    <2> QED BY <2>2, <2>3
  <1> QED BY <1>7 DEF CancelInv

\* The connection is opened, dropped, or lost with some of what was written on its way.
LEMMA CancelDrops ==
  ASSUME Base, CancelInv, Leave \/ Refuse \/ Lost \/ Connect \/ JoinReply
  PROVE  CancelInv'
  <1> USE DEF session
  <1>1. /\ up \in Seq(Requests \cup Joins) /\ late \in Seq(Requests \cup Joins)
        /\ unsent \in Seq(Requests) /\ \A i \in 1..Len(unsent) : unsent[i].op = "say"
    BY DEF Base, Typed, TypeOK
  <1>2. CASE Leave \/ Refuse
    <2>1. outbox' = <<>> /\ up' = <<>> /\ late' = <<>> /\ UNCHANGED <<interrupts, typed>>
      BY <1>2 DEF Leave, Refuse
    <2>2. ASSUME NEW c \in Cancels  PROVE Places(<<>>, c) = {} /\ AtMostOne(Places(<<>>, c))
      BY PlacesNowhere
    <2> QED BY <2>1, <2>2 DEF CancelInv
  <1>3. CASE Lost
    <2>1. PICK n \in 0..Len(up) :
            /\ late' = late \o SubSeq(up, 1, n) /\ up' = <<>>
            /\ UNCHANGED <<outbox, interrupts, typed>>
      BY <1>3 DEF Lost
    <2>2. ASSUME NEW c \in Cancels  PROVE Places(up', c) = {} /\ AtMostOne(Places(up', c))
      BY <2>1, PlacesNowhere
    <2>3. ASSUME NEW c \in Cancels
          PROVE  /\ AtMostOne(Places(late', c))
                 /\ Places(late, c) = {} /\ Places(up, c) = {} => Places(late', c) = {}
      <3>1. /\ AtMostOne(Places(late, c)) /\ AtMostOne(Places(up, c))
            /\ Places(late, c) = {} \/ Places(up, c) = {}
        BY DEF CancelInv
      <3> DEFINE T == Requests \cup Joins
      <3>2. up \in Seq(T) /\ late \in Seq(T)  BY <1>1
      <3> HIDE DEF T
      <3> QED BY <2>1, <3>1, <3>2, PlacesConcat
    <2> QED BY <2>1, <2>2, <2>3 DEF CancelInv
  <1>4. CASE Connect \/ JoinReply
    <2>1. up = <<>> /\ UNCHANGED <<outbox, late, interrupts, typed>>
      BY <1>4 DEF Connect, JoinReply, Base, Phases
    <2>2. \A i \in 1..Len(up') : up'[i].op # "cancel"
      <3>1. CASE Connect
        BY <3>1 DEF Connect
      <3>2. CASE JoinReply
        <4>1. up' = <<>> \o unsent \o Rewatch
          BY <2>1, <3>2 DEF JoinReply, Resend
        <4>2. <<>> \o unsent = unsent
          BY <1>1
        <4>3. Rewatch \in Seq(Requests) /\ \A i \in 1..Len(Rewatch) : Rewatch[i].op # "cancel"
          <5>1. [op |-> "watch", id |-> 0] \in Requests  BY DEF Requests
          <5> HIDE DEF Requests
          <5>2. CASE detail
            BY <5>1, <5>2 DEF Rewatch
          <5>3. CASE ~detail
            BY <5>3 DEF Rewatch
          <5> QED BY <5>2, <5>3
        <4>4. Len(unsent) \in Nat /\ Len(Rewatch) \in Nat
          BY <1>1, <4>3
        <4> DEFINE w == Rewatch
        <4> HIDE DEF Requests, w
        <4>5. w \in Seq(Requests) /\ \A i \in 1..Len(w) : w[i].op # "cancel"
          BY <4>3 DEF w
        <4>6. /\ Len(unsent \o w) = Len(unsent) + Len(w)
              /\ \A i \in 1..Len(unsent) : (unsent \o w)[i] = unsent[i]
              /\ \A i \in 1..Len(w) : (unsent \o w)[Len(unsent) + i] = w[i]
          BY <1>1, <4>5, ConcatFacts
        <4>7. ASSUME NEW i \in 1..Len(unsent \o w)  PROVE (unsent \o w)[i].op # "cancel"
          <5>1. CASE i \in 1..Len(unsent)
            BY <1>1, <4>6, <5>1
          <5>2. CASE i \notin 1..Len(unsent)
            <6>1. i - Len(unsent) \in 1..Len(w) /\ Len(unsent) + (i - Len(unsent)) = i
              BY <4>4, <4>6, <5>2 DEF w
            <6> QED BY <4>5, <4>6, <6>1
          <5> QED BY <5>1, <5>2
        <4>8. up' = unsent \o w
          BY <4>1, <4>2 DEF w
        <4> QED BY <4>7, <4>8
      <3> QED BY <1>4, <3>1, <3>2
    <2>3. ASSUME NEW c \in Cancels
          PROVE  Places(up', c) = {} /\ AtMostOne(Places(up', c)) /\ Places(up, c) = {}
      BY <2>1, <2>2, PlacesNowhere
    <2> QED BY <2>1, <2>3 DEF CancelInv
  <1> QED BY <1>2, <1>3, <1>4

\* A request goes from the queue to the socket: it is in one place only.
LEMMA CancelTakes ==
  ASSUME Base, CancelInv, TakeOutbox
  PROVE  CancelInv'
  <1>1. /\ outbox # <<>> /\ outbox' = Tail(outbox) /\ up' = Append(up, Head(outbox))
        /\ UNCHANGED <<late, interrupts, typed>>
    BY DEF TakeOutbox, LeftInOutbox, session
  <1> DEFINE T == Requests \cup Joins
             item == Head(outbox)
  <1>2. outbox \in Seq(T) /\ up \in Seq(T)
    <2>1. outbox \in Seq(Requests)  BY DEF Base, Typed, TypeOK
    <2> QED BY <2>1, SeqWidens DEF Base, Typed
  <1> HIDE DEF T
  <1>3. item \in T
    BY <1>1, <1>2, TailFacts
  <1> HIDE DEF item
  <1>4. ASSUME NEW c \in Cancels
        PROVE  /\ interrupts'[c] <= 1
               /\ AtMostOne(Places(outbox', c)) /\ AtMostOne(Places(up', c)) /\ AtMostOne(Places(late', c))
               /\ Places(outbox', c) = {} \/ (Places(up', c) = {} /\ Places(late', c) = {})
               /\ Places(up', c) = {} \/ Places(late', c) = {}
               /\ interrupts'[c] # 0 =>
                    Places(outbox', c) = {} /\ Places(up', c) = {} /\ Places(late', c) = {}
               /\ c \notin typed' => interrupts'[c] = 0 /\ Places(outbox', c) = {}
                                     /\ Places(up', c) = {} /\ Places(late', c) = {}
    <2>1. AtMostOne(Places(outbox, c))
      BY DEF CancelInv
    <2>2. /\ AtMostOne(Places(outbox', c))
          /\ Places(outbox, c) = {} => Places(outbox', c) = {} /\ item # Cancelling(c)
          /\ item = Cancelling(c) => Places(outbox', c) = {}
      BY <1>1, <1>2, <2>1, PlacesTail DEF item
    <2>3. /\ item # Cancelling(c) => Places(up', c) = Places(up, c)
          /\ item = Cancelling(c) => Places(up', c) = Places(up, c) \cup {Len(up) + 1}
      <3>1. up' = Append(up, item)  BY <1>1 DEF item
      <3> QED BY <1>2, <1>3, <3>1, PlacesAppend
    <2>4. CASE item # Cancelling(c)
      BY <1>1, <2>2, <2>3, <2>4 DEF CancelInv
    <2>5. CASE item = Cancelling(c)
      <3>1. /\ Places(up, c) = {} /\ Places(late, c) = {} /\ interrupts[c] = 0 /\ c \in typed
            /\ Places(outbox', c) = {}
        <4>1. Places(outbox, c) # {} /\ Places(outbox', c) = {}  BY <2>2, <2>5
        <4>2. interrupts[c] # 0 => Places(outbox, c) = {}  BY DEF CancelInv
        <4>3. c \notin typed => Places(outbox, c) = {}  BY DEF CancelInv
        <4>4. Places(outbox, c) = {} \/ (Places(up, c) = {} /\ Places(late, c) = {})  BY DEF CancelInv
        <4> QED BY <4>1, <4>2, <4>3, <4>4
      <3>2. AtMostOne(Places(up', c)) /\ AtMostOne(Places(late, c))
        BY <2>3, <2>5, <3>1 DEF AtMostOne
      <3> QED BY <1>1, <2>2, <3>1, <3>2
    <2> QED BY <2>4, <2>5
  <1> QED BY <1>4 DEF CancelInv

\* A request that reaches the engine interrupts for the cancel it is, if any.
LEMMA HandleInterrupts ==
  ASSUME Base, NEW item \in Requests \cup Joins, NEW ok, Handle(item, ok), NEW c \in Cancels
  PROVE  /\ item # Cancelling(c) => interrupts'[c] = interrupts[c]
         /\ item = Cancelling(c) => interrupts'[c] = interrupts[c] + 1
  <1>1. interrupts \in [Cancels -> Nat]
    BY DEF Base, Typed
  <1>2. CASE item.op = "say" /\ UNCHANGED interrupts
    BY <1>2, CancelIsNamed
  <1>3. CASE item.op = "cancel" /\ interrupts' = [interrupts EXCEPT ![item.id] = @ + 1]
    <2>1. item.id \in Cancels /\ item = Cancelling(item.id)
      BY <1>3, CancelIsNamed
    <2>2. item = Cancelling(c) <=> item.id = c
      BY <2>1, CancelIsNamed
    <2> QED BY <1>1, <1>3, <2>1, <2>2
  <1> QED BY <1>2, <1>3 DEF Handle

\* The service takes a request of this connection.
LEMMA CancelServes ==
  ASSUME Base, CancelInv, ServeJoin \/ Serve
  PROVE  CancelInv'
  <1> USE DEF client, session
  <1>1. up # <<>> /\ up' = Tail(up) /\ UNCHANGED <<outbox, late, typed>>
    BY DEF ServeJoin, Serve
  <1> DEFINE T == Requests \cup Joins
             item == Head(up)
  <1>2. up \in Seq(T)
    BY DEF Base, Typed
  <1>3. item \in Requests \cup Joins
    BY <1>1, JoinIsFirst
  <1>4. ASSUME NEW c \in Cancels
        PROVE  /\ item # Cancelling(c) => interrupts'[c] = interrupts[c]
               /\ item = Cancelling(c) => interrupts'[c] = interrupts[c] + 1
    <2>1. CASE UNCHANGED interrupts /\ item.op # "cancel"
      BY <1>3, <2>1, CancelIsNamed
    <2>2. CASE \E ok \in BOOLEAN : Handle(item, ok)
      BY <1>3, <2>2, HandleInterrupts
    <2> QED BY <2>1, <2>2 DEF ServeJoin, Serve
  <1> HIDE DEF T, item
  <1>5. ASSUME NEW c \in Cancels
        PROVE  /\ interrupts'[c] <= 1
               /\ AtMostOne(Places(outbox', c)) /\ AtMostOne(Places(up', c)) /\ AtMostOne(Places(late', c))
               /\ Places(outbox', c) = {} \/ (Places(up', c) = {} /\ Places(late', c) = {})
               /\ Places(up', c) = {} \/ Places(late', c) = {}
               /\ interrupts'[c] # 0 =>
                    Places(outbox', c) = {} /\ Places(up', c) = {} /\ Places(late', c) = {}
               /\ c \notin typed' => interrupts'[c] = 0 /\ Places(outbox', c) = {}
                                     /\ Places(up', c) = {} /\ Places(late', c) = {}
    <2>1. AtMostOne(Places(up, c))
      BY DEF CancelInv
    <2>2. /\ AtMostOne(Places(up', c))
          /\ Places(up, c) = {} => Places(up', c) = {} /\ item # Cancelling(c)
          /\ item = Cancelling(c) => Places(up', c) = {}
      BY <1>1, <1>2, <2>1, PlacesTail DEF item
    <2>3. CASE item # Cancelling(c)
      BY <1>1, <1>4, <2>2, <2>3 DEF CancelInv
    <2>4. CASE item = Cancelling(c)
      <3>1. Places(up, c) # {}
        BY <2>2, <2>4
      <3>2. /\ Places(outbox, c) = {} /\ Places(late, c) = {} /\ interrupts[c] = 0 /\ c \in typed
        BY <3>1 DEF CancelInv
      <3> QED BY <1>1, <1>4, <2>2, <2>4, <3>2 DEF AtMostOne
    <2> QED BY <2>3, <2>4
  <1> QED BY <1>5 DEF CancelInv

\* The service takes a request of an earlier connection.
LEMMA CancelServesLate ==
  ASSUME Base, CancelInv, ServeLate
  PROVE  CancelInv'
  <1> USE DEF client
  <1>1. late # <<>> /\ late' = Tail(late) /\ UNCHANGED <<outbox, up, typed>>
    BY DEF ServeLate
  <1> DEFINE T == Requests \cup Joins
             item == Head(late)
  <1>2. late \in Seq(T)
    BY DEF Base, Typed
  <1>3. item \in Requests \cup Joins
    <2> HIDE DEF item
    <2>1. item \in T
      <3> HIDE DEF T
      <3> QED BY <1>1, <1>2, TailFacts DEF item
    <2> QED BY <2>1
  <1>4. ASSUME NEW c \in Cancels
        PROVE  /\ item # Cancelling(c) => interrupts'[c] = interrupts[c]
               /\ item = Cancelling(c) => interrupts'[c] = interrupts[c] + 1
    <2>1. CASE UNCHANGED interrupts /\ item.op # "cancel"
      BY <1>3, <2>1, CancelIsNamed
    <2>2. CASE \E ok \in BOOLEAN : Handle(item, ok)
      BY <1>3, <2>2, HandleInterrupts
    <2> QED BY <2>1, <2>2 DEF ServeLate
  <1> HIDE DEF T, item
  <1>5. ASSUME NEW c \in Cancels
        PROVE  /\ interrupts'[c] <= 1
               /\ AtMostOne(Places(outbox', c)) /\ AtMostOne(Places(up', c)) /\ AtMostOne(Places(late', c))
               /\ Places(outbox', c) = {} \/ (Places(up', c) = {} /\ Places(late', c) = {})
               /\ Places(up', c) = {} \/ Places(late', c) = {}
               /\ interrupts'[c] # 0 =>
                    Places(outbox', c) = {} /\ Places(up', c) = {} /\ Places(late', c) = {}
               /\ c \notin typed' => interrupts'[c] = 0 /\ Places(outbox', c) = {}
                                     /\ Places(up', c) = {} /\ Places(late', c) = {}
    <2>1. AtMostOne(Places(late, c))
      BY DEF CancelInv
    <2>2. /\ AtMostOne(Places(late', c))
          /\ Places(late, c) = {} => Places(late', c) = {} /\ item # Cancelling(c)
          /\ item = Cancelling(c) => Places(late', c) = {}
      BY <1>1, <1>2, <2>1, PlacesTail DEF item
    <2>3. CASE item # Cancelling(c)
      BY <1>1, <1>4, <2>2, <2>3 DEF CancelInv
    <2>4. CASE item = Cancelling(c)
      <3>1. Places(late, c) # {}
        BY <2>2, <2>4
      <3>2. /\ Places(outbox, c) = {} /\ Places(up, c) = {} /\ interrupts[c] = 0 /\ c \in typed
        BY <3>1 DEF CancelInv
      <3> QED BY <1>1, <1>4, <2>2, <2>4, <3>2 DEF AtMostOne
    <2> QED BY <2>3, <2>4
  <1> QED BY <1>5 DEF CancelInv

\* A cancel reaches the engine at most once, whatever connections are lost between typing it and
\* serving it: it is never sent again (CancelledOnce; connection.rs, session: only a message is kept
\* in unsent).
THEOREM CancelIsServedOnce == Spec => []CancelledOnce
  <1>1. Init => CancelInv
    <2> SUFFICES ASSUME Init  PROVE CancelInv
      OBVIOUS
    <2>1. /\ outbox = <<>> /\ up = <<>> /\ late = <<>> /\ typed = {}
          /\ \A c \in Cancels : interrupts[c] = 0
      BY DEF Init
    <2>2. ASSUME NEW c \in Cancels  PROVE Places(<<>>, c) = {} /\ AtMostOne(Places(<<>>, c))
      BY PlacesNowhere
    <2> QED BY <2>1, <2>2 DEF CancelInv
  <1>2. Base /\ CancelInv /\ [Next]_vars => CancelInv'
    <2> SUFFICES ASSUME Base, CancelInv, [Next]_vars  PROVE CancelInv'
      OBVIOUS
    <2>1. CASE Next
      <3>1. CASE \/ Retry \/ ReceiveEvent \/ ReceiveReply \/ Backlog \/ Committed
                 \/ OtherEvent \/ PrepareHandoff \/ HandOff
        <4>1. UNCHANGED <<outbox, up, late, interrupts, typed>>
          BY <3>1 DEF Retry, ReceiveEvent, ReceiveReply, Backlog, Committed, OtherEvent,
                      PrepareHandoff, HandOff, wire, client, session
        <4> QED BY <4>1, CancelStays
      <3> QED BY <2>1, <3>1, CancelTyped, CancelDrops, CancelTakes, CancelServes, CancelServesLate
              DEF Next, ClientStep, ServiceStep
    <2>2. CASE UNCHANGED vars
      BY <2>2, CancelStays DEF vars, client, wire, session
    <2> QED BY <2>1, <2>2
  <1>3. CancelInv => CancelledOnce
    BY DEF CancelInv, CancelledOnce
  <1> QED BY <1>1, <1>2, <1>3, BaseInvariance, PTL DEF Spec

-----------------------------------------------------------------------------
(* No message disappears                                                   *)

\* What is in a queue, by its places.
LEMMA InQueue ==
  ASSUME NEW T, NEW q \in Seq(T), NEW e
  PROVE  e \in ToSet(q) <=> \E i \in 1..Len(q) : q[i] = e
  BY DEF ToSet

\* Adding to a queue keeps what is in it.
LEMMA QueueAdds ==
  ASSUME NEW T, NEW q \in Seq(T), NEW e \in T
  PROVE  ToSet(q) \subseteq ToSet(Append(q, e)) /\ e \in ToSet(Append(q, e))
  <1> DEFINE r == Append(q, e)
  <1>1. /\ r \in Seq(T) /\ Len(r) = Len(q) + 1 /\ r[Len(q) + 1] = e
        /\ \A i \in 1..Len(q) : r[i] = q[i]
    BY AppendFacts
  <1> HIDE DEF r
  <1>2. Len(q) \in Nat
    OBVIOUS
  <1>3. 1..Len(q) \subseteq 1..Len(r) /\ Len(q) + 1 \in 1..Len(r)
    BY <1>1, <1>2
  <1>4. e \in ToSet(r)
    BY <1>1, <1>3, InQueue
  <1>5. ASSUME NEW x \in ToSet(q)  PROVE x \in ToSet(r)
    <2>1. PICK i \in 1..Len(q) : q[i] = x  BY InQueue
    <2> QED BY <1>1, <1>3, <2>1, InQueue
  <1> QED BY <1>4, <1>5 DEF r

\* Taking the head keeps everything else.
LEMMA QueueDrops ==
  ASSUME NEW T, NEW q \in Seq(T), q # <<>>
  PROVE  ToSet(q) \subseteq ToSet(Tail(q)) \cup {Head(q)}
  <1> DEFINE r == Tail(q)
  <1>1. /\ Len(q) \in Nat /\ Head(q) = q[1] /\ r \in Seq(T) /\ Len(r) = Len(q) - 1
        /\ \A i \in 1..(Len(q) - 1) : r[i] = q[i + 1]
    BY TailFacts
  <1> HIDE DEF r
  <1>2. ASSUME NEW x \in ToSet(q), x # Head(q)  PROVE x \in ToSet(r)
    <2>1. PICK i \in 1..Len(q) : q[i] = x  BY InQueue
    <2>2. i - 1 \in 1..(Len(q) - 1) /\ (i - 1) + 1 = i  BY <1>1, <1>2, <2>1
    <2>3. r[i - 1] = x  BY <1>1, <2>1, <2>2
    <2> QED BY <1>1, <2>2, <2>3, InQueue
  <1> QED BY <1>2 DEF r

Saying(m) == [op |-> "say", id |-> m]
Kept == {m \in Messages : Saying(m) \in ToSet(outbox) \cup ToSet(unsent)}

\* A step lets no log shrink.
LEMMA StepGrows ==
  ASSUME Base, [Next]_vars
  PROVE  Grows
  <1> USE DEF Base, client, wire, server, session
  <1>1. CASE UNCHANGED <<log, current>>
    <2>1. current \in Nat /\ \A c \in Conversations : Len(log[c]) \in Nat
      BY BoundsAssumption DEF Typed, TypeOK, Conversations
    <2> QED BY <1>1, <2>1 DEF Grows, Typed, TypeOK
  <1>2. CASE Serve
    <2>1. UNCHANGED <<current, prepared>> /\ up # <<>>
      BY <1>2 DEF Serve
    <2>2. Head(up) \in Requests \cup Joins
      BY <2>1, JoinIsFirst
    <2>3. (\E ok \in BOOLEAN : Handle(Head(up), ok)) \/ UNCHANGED log
      BY <1>2 DEF Serve
    <2> QED BY <1>1, <2>1, <2>2, <2>3, Handles
  <1>3. CASE ServeLate
    <2>1. UNCHANGED <<current, prepared>> /\ late # <<>>
      BY <1>3 DEF ServeLate
    <2>2. Head(late) \in Requests \cup Joins
      <3>1. late \in Seq(Requests \cup Joins)  BY DEF Typed
      <3> HIDE DEF Requests, Joins
      <3> QED BY <2>1, <3>1, TailFacts
    <2>3. (\E ok \in BOOLEAN : Handle(Head(late), ok)) \/ UNCHANGED log
      BY <1>3 DEF ServeLate
    <2> QED BY <1>1, <2>1, <2>2, <2>3, Handles
  <1>4. CASE OtherEvent
    <2> DEFINE event == Event("other", 0)
    <2>1. event \in Events /\ event.type # "handed_off"
      BY DEF Event, Events, EventTypes
    <2>2. Commit(event, mailbox) /\ UNCHANGED <<current, prepared, channel>>
      BY <1>4 DEF OtherEvent
    <2> HIDE DEF event
    <2> QED BY <2>1, <2>2, Commits
  <1>5. CASE HandOff
    BY <1>5, LogHandsOff
  <1>6. UNCHANGED <<log, current>> \/ Serve \/ ServeLate \/ OtherEvent \/ HandOff
    BY DEF Next, ClientStep, ServiceStep, Connect, Retry, JoinReply, TakeOutbox, ReceiveEvent,
           ReceiveReply, ServeJoin, Backlog, Committed, Say, CancelTurn, OpenDetail, CloseDetail,
           Leave, Lost, Refuse, PrepareHandoff, vars
  <1> QED BY <1>1, <1>2, <1>3, <1>4, <1>5, <1>6

\* What is recorded stays recorded.
LEMMA RecordedGrows ==
  ASSUME Base, [Next]_vars
  PROVE  Recorded \subseteq Recorded'
  <1>1. Grows
    BY StepGrows
  <1>2. Typed /\ LogTyped'
    BY BaseStep DEF Base, Typed, LogTyped
  <1> QED BY <1>1, <1>2, TruthGrows

\* A step loses no message that keeps those it has, but for the answered ones.
LEMMA NothingLost ==
  ASSUME NoSilentLoss, Recorded \subseteq Recorded', Present' => Present, noted \subseteq noted',
         typed' \cap Messages \subseteq typed \cup Kept',
         Kept \subseteq Kept' \cup noted' \cup Recorded'
  PROVE  NoSilentLoss'
  <1>1. NoSilentLoss <=> (Present => typed \cap Messages \subseteq Kept \cup noted \cup Recorded)
    BY DEF NoSilentLoss, Kept, Saying, Recorded
  <1>2. NoSilentLoss' <=> (Present' => typed' \cap Messages \subseteq Kept' \cup noted' \cup Recorded')
    BY DEF NoSilentLoss, Kept, Saying, Recorded
  <1> QED BY <1>1, <1>2

\* What is typed is kept.
LEMMA TypedIsKept ==
  ASSUME Base, NoSilentLoss, Recorded \subseteq Recorded',
         \/ \E m \in Messages : Say(m)
         \/ \E c \in Cancels : CancelTurn(c)
         \/ OpenDetail \/ CloseDetail
  PROVE  NoSilentLoss'
  <1> DEFINE Queued(item) ==
          /\ outbox' = Append(outbox, item)
          /\ typed' \cap Messages \subseteq typed \cup {m \in Messages : item = Saying(m)}
          /\ UNCHANGED <<unsent, noted>> /\ Present
  <1>1. PICK item \in Requests : Queued(item)
    <2>1. ASSUME NEW m \in Messages, Say(m)  PROVE \E item \in Requests : Queued(item)
      <3>1. Saying(m) \in Requests  BY DEF Requests, Saying
      <3>2. Queued(Saying(m))
        <4>1. outbox' = Append(outbox, Saying(m)) /\ typed' = typed \cup {m}
              /\ UNCHANGED <<unsent, noted>> /\ Present
          BY <2>1 DEF Say, Queue, Saying
        <4> QED BY <4>1
      <3> HIDE DEF Queued, Requests
      <3> QED BY <3>1, <3>2
    <2>2. ASSUME NEW c \in Cancels, CancelTurn(c)  PROVE \E item \in Requests : Queued(item)
      <3> DEFINE item == [op |-> "cancel", id |-> c]
      <3>1. item \in Requests  BY DEF Requests
      <3>2. Queued(item)
        <4>1. outbox' = Append(outbox, item) /\ typed' = typed \cup {c}
              /\ UNCHANGED <<unsent, noted>> /\ Present
          BY <2>2 DEF CancelTurn, Queue
        <4>2. c \notin Messages  BY NamesAssumption
        <4> QED BY <4>1, <4>2
      <3> QED BY <3>1, <3>2
    <2>3. ASSUME OpenDetail \/ CloseDetail  PROVE \E item \in Requests : Queued(item)
      <3>1. PICK op \in {"watch", "unwatch"} :
              outbox' = Append(outbox, [op |-> op, id |-> 0]) /\ UNCHANGED <<typed, unsent, noted>>
              /\ Present
        BY <2>3 DEF OpenDetail, CloseDetail, Queue
      <3> DEFINE item == [op |-> op, id |-> 0]
      <3>2. item \in Requests  BY DEF Requests
      <3>3. Queued(item)  BY <3>1
      <3> QED BY <3>2, <3>3
    <2> QED BY <2>1, <2>2, <2>3
  <1>2. ToSet(outbox) \subseteq ToSet(outbox') /\ item \in ToSet(outbox')
    <2>1. outbox \in Seq(Requests)  BY DEF Base, Typed, TypeOK
    <2> HIDE DEF Requests
    <2> QED BY <1>1, <2>1, QueueAdds
  <1> HIDE DEF Requests
  <1>3. Kept \subseteq Kept' /\ \A m \in Messages : item = Saying(m) => m \in Kept'
    <2>1. unsent' = unsent  BY <1>1
    <2>2. Kept' = {m \in Messages : Saying(m) \in ToSet(outbox') \cup ToSet(unsent')}
      BY DEF Kept, Saying
    <2> HIDE DEF Saying, Queued
    <2> QED BY <1>2, <2>1, <2>2 DEF Kept
  <1>4. typed' \cap Messages \subseteq typed \cup Kept'
    <2> HIDE DEF Kept
    <2> QED BY <1>1, <1>3
  <1> QED BY <1>1, <1>3, <1>4, NothingLost

\* A message taken from the queue is kept for a resend.
LEMMA TakenIsKept ==
  ASSUME Base, NoSilentLoss, Recorded \subseteq Recorded', TakeOutbox
  PROVE  NoSilentLoss'
  <1> DEFINE item == Head(outbox)
  <1>1. /\ conn = "live" /\ outbox # <<>> /\ outbox' = Tail(outbox)
        /\ unsent' = IF item.op = "say" THEN Append(unsent, item) ELSE unsent
        /\ UNCHANGED <<conn, noted, typed>>
    BY DEF TakeOutbox, LeftInOutbox, KeptForResend
  <1>2. outbox \in Seq(Requests) /\ unsent \in Seq(Requests)
    BY DEF Base, Typed, TypeOK
  <1>3. item \in Requests /\ ToSet(outbox) \subseteq ToSet(outbox') \cup {item}
    <2> HIDE DEF Requests
    <2> QED BY <1>1, <1>2, TailFacts, QueueDrops
  <1> HIDE DEF item, Requests
  <1>4. ToSet(unsent) \subseteq ToSet(unsent') /\ (item.op = "say" => item \in ToSet(unsent'))
    <2>1. CASE item.op = "say"
      <3>1. unsent' = Append(unsent, item)  BY <1>1, <2>1
      <3> QED BY <1>2, <1>3, <3>1, QueueAdds
    <2>2. CASE item.op # "say"
      BY <1>1, <2>2
    <2> QED BY <2>1, <2>2
  <1>5. \A m \in Messages : Saying(m).op = "say"
    BY DEF Saying
  <1>6. Kept' = {m \in Messages : Saying(m) \in ToSet(outbox') \cup ToSet(unsent')}
    BY DEF Kept, Saying
  <1>7. Kept \subseteq Kept'
    <2> HIDE DEF Saying
    <2> QED BY <1>3, <1>4, <1>5, <1>6 DEF Kept
  <1>8. Present' => Present
    BY <1>1 DEF Present
  <1> QED BY <1>1, <1>7, <1>8, NothingLost

\* A message that is answered is recorded or reported.
LEMMA AnsweredIsTold ==
  ASSUME Base, NoSilentLoss, Recorded \subseteq Recorded', ReceiveReply
  PROVE  NoSilentLoss'
  <1> DEFINE request == Head(down).of
  <1>1. /\ conn = "live" /\ down # <<>> /\ Head(down).op = "reply"
        /\ unsent' = RemoveFirst(unsent, request)
        /\ noted' = (IF Head(down).ok \/ request.op # "say" THEN noted ELSE noted \cup {request.id})
        /\ UNCHANGED <<conn, outbox, typed, log>>
    BY DEF ReceiveReply, Receives, session
  <1>2. Head(down) \in TrueFrames
    BY <1>1, HeadIsTrue DEF Base
  <1>3. Head(down).ok /\ request.op = "say" => request.id \in Recorded
    BY <1>1, <1>2 DEF TrueFrames
  <1> HIDE DEF request
  <1>4. ASSUME NEW e \in ToSet(unsent), e # request  PROVE e \in ToSet(unsent')
    <2>1. unsent \in Seq(Requests)  BY DEF Base, Typed, TypeOK
    <2> HIDE DEF Requests
    <2>2. PICK j \in 1..Len(unsent) : unsent[j] = e  BY <2>1, InQueue
    <2>3. unsent' \in Seq(Requests) /\ \E i \in 1..Len(unsent') : unsent'[i] = e
      BY <1>1, <1>4, <2>1, <2>2, RemoveFacts
    <2> QED BY <2>3, InQueue
  <1>5. ASSUME NEW m \in Kept  PROVE m \in Kept' \cup noted' \cup Recorded'
    <2>1. m \in Messages /\ Saying(m) \in ToSet(outbox) \cup ToSet(unsent)
      BY DEF Kept
    <2>2. Kept' = {k \in Messages : Saying(k) \in ToSet(outbox') \cup ToSet(unsent')}
      BY DEF Kept, Saying
    <2>3. CASE Saying(m) \in ToSet(outbox) \/ Saying(m) # request
      <3> HIDE DEF Saying
      <3> QED BY <1>1, <1>4, <2>1, <2>2, <2>3
    <2>4. CASE Saying(m) = request
      <3>1. request.op = "say" /\ request.id = m  BY <2>4 DEF Saying
      <3>2. CASE Head(down).ok  BY <1>3, <3>1, <3>2
      <3>3. CASE ~Head(down).ok  BY <1>1, <3>1, <3>3
      <3> QED BY <3>2, <3>3
    <2> QED BY <2>3, <2>4
  <1>6. noted \subseteq noted' /\ (Present' => Present) /\ typed' = typed
    BY <1>1 DEF Present
  <1> QED BY <1>5, <1>6, NothingLost

\* No message disappears: until the screen is left, each one typed waits, is kept for a resend, is
\* recorded or was reported, whatever connections were lost in between (NoSilentLoss; connection.rs,
\* session and reply).
THEOREM NoMessageDisappears == Spec => []NoSilentLoss
  <1>1. Init => NoSilentLoss
    BY DEF Init, NoSilentLoss
  <1>2. Base /\ NoSilentLoss /\ [Next]_vars => NoSilentLoss'
    <2> SUFFICES ASSUME Base, NoSilentLoss, [Next]_vars  PROVE NoSilentLoss'
      OBVIOUS
    <2>1. Recorded \subseteq Recorded'
      BY RecordedGrows
    <2>2. CASE Leave \/ Refuse
      BY <2>2 DEF Leave, Refuse, NoSilentLoss, Present
    <2>3. CASE UNCHANGED <<outbox, unsent, noted, typed>> /\ (Present' => Present)
      <3>1. Kept' = Kept
        BY <2>3 DEF Kept
      <3> QED BY <2>1, <2>3, <3>1, NothingLost
    <2>4. CASE \/ Lost \/ Connect \/ Retry \/ JoinReply \/ ReceiveEvent \/ ServiceStep
               \/ OtherEvent \/ PrepareHandoff \/ UNCHANGED vars
      <3>1. UNCHANGED <<outbox, unsent, noted, typed>> /\ (Present' => Present)
        BY <2>4 DEF Lost, Connect, Retry, JoinReply, ReceiveEvent, Receives, ServiceStep, ServeJoin,
                    Backlog, Committed, Serve, ServeLate, HandOff, OtherEvent, PrepareHandoff, vars,
                    client, Present
      <3> QED BY <2>3, <3>1
    <2> QED BY <2>1, <2>2, <2>4, TypedIsKept, TakenIsKept, AnsweredIsTold
            DEF Next, ClientStep
  <1> QED BY <1>1, <1>2, BaseInvariance, PTL DEF Spec

-----------------------------------------------------------------------------
(* The service watches what the screen shows                               *)

\* The last word of a queue that something is added to.
LEMMA WordAdded ==
  ASSUME NEW T, NEW q \in Seq(T), NEW e \in T, NEW word
  PROVE  /\ e.op \notin Words /\ LastIs(q, word) => LastIs(Append(q, e), word)
         /\ e.op \notin Words => (Silent(Append(q, e)) <=> Silent(q))
         /\ e.op \in Words => LastIs(Append(q, e), e.op) /\ ~Silent(Append(q, e))
  <1> DEFINE r == Append(q, e)
  <1>1. /\ Len(r) = Len(q) + 1 /\ r[Len(q) + 1] = e
        /\ \A i \in 1..Len(q) : r[i] = q[i]
    BY AppendFacts
  <1> HIDE DEF r
  <1>2. Len(q) \in Nat
    OBVIOUS
  <1>3. \A i \in 1..Len(r) : i \in 1..Len(q) \/ i = Len(q) + 1
    BY <1>1, <1>2
  <1>4. 1..Len(q) \subseteq 1..Len(r) /\ Len(q) + 1 \in 1..Len(r)
    BY <1>1, <1>2
  <1> HIDE DEF Words
  <1>5. ASSUME e.op \notin Words  PROVE Silent(r) <=> Silent(q)
    BY <1>1, <1>3, <1>4, <1>5 DEF Silent
  <1>6. ASSUME e.op \notin Words, LastIs(q, word)  PROVE LastIs(r, word)
    <2> SUFFICES ASSUME NEW i \in 1..Len(r), r[i].op \in Words,
                        \A j \in (i + 1)..Len(r) : r[j].op \notin Words
                 PROVE  r[i].op = word
      BY DEF LastIs
    <2>1. i \in 1..Len(q)  BY <1>1, <1>3, <1>6
    <2>2. ASSUME NEW j \in (i + 1)..Len(q)  PROVE q[j].op \notin Words
      <3>1. j \in 1..Len(q) /\ j \in (i + 1)..Len(r)  BY <1>1, <1>2, <2>1
      <3> QED BY <1>1, <3>1
    <2> QED BY <1>1, <1>6, <2>1, <2>2 DEF LastIs
  <1>7. ASSUME e.op \in Words  PROVE LastIs(r, e.op) /\ ~Silent(r)
    <2>1. ~Silent(r)  BY <1>1, <1>4, <1>7 DEF Silent
    <2> SUFFICES ASSUME NEW i \in 1..Len(r), \A j \in (i + 1)..Len(r) : r[j].op \notin Words
                 PROVE  r[i].op = e.op
      BY <2>1 DEF LastIs
    <2>2. ~(i \in 1..Len(q))
      <3>1. i \in 1..Len(q) => Len(q) + 1 \in (i + 1)..Len(r)  BY <1>1, <1>2
      <3> QED BY <1>1, <1>7, <3>1
    <2> QED BY <1>1, <1>3, <2>2
  <1> QED BY <1>5, <1>6, <1>7 DEF r

\* The last word of a queue whose head is taken.
LEMMA WordTaken ==
  ASSUME NEW T, NEW q \in Seq(T), q # <<>>, NEW word
  PROVE  /\ LastIs(q, word) => LastIs(Tail(q), word)
         /\ Silent(Tail(q)) /\ LastIs(q, word) => Head(q).op \notin Words \/ Head(q).op = word
         /\ Silent(q) <=> Silent(Tail(q)) /\ Head(q).op \notin Words
  <1> DEFINE r == Tail(q)
  <1>1. /\ Len(q) \in Nat /\ Len(q) >= 1 /\ Head(q) = q[1]
        /\ Len(r) = Len(q) - 1 /\ \A i \in 1..(Len(q) - 1) : r[i] = q[i + 1]
    BY TailFacts
  <1> HIDE DEF r, Words
  <1>2. \A i \in 1..Len(r) : i + 1 \in 1..Len(q) /\ r[i] = q[i + 1]
    BY <1>1
  <1>3. \A i \in 2..Len(q) : i - 1 \in 1..Len(r) /\ r[i - 1] = q[i]
    BY <1>1
  <1>4. 1 \in 1..Len(q) /\ \A i \in 1..Len(q) : i = 1 \/ i \in 2..Len(q)
    BY <1>1
  <1>5. Silent(q) <=> Silent(r) /\ q[1].op \notin Words
    BY <1>2, <1>3, <1>4 DEF Silent
  <1>6. ASSUME LastIs(q, word)  PROVE LastIs(r, word)
    <2> SUFFICES ASSUME NEW i \in 1..Len(r), r[i].op \in Words,
                        \A j \in (i + 1)..Len(r) : r[j].op \notin Words
                 PROVE  r[i].op = word
      BY DEF LastIs
    <2>1. ASSUME NEW j \in ((i + 1) + 1)..Len(q)  PROVE q[j].op \notin Words
      <3>1. j - 1 \in (i + 1)..Len(r) /\ j \in 2..Len(q)  BY <1>1
      <3> QED BY <1>3, <3>1
    <2> QED BY <1>2, <1>6, <2>1 DEF LastIs
  <1>7. ASSUME LastIs(q, word), Silent(r), q[1].op \in Words  PROVE q[1].op = word
    <2>1. \A j \in (1 + 1)..Len(q) : q[j].op \notin Words
      BY <1>3, <1>7 DEF Silent
    <2> QED BY <1>4, <1>7, <2>1 DEF LastIs
  <1> QED BY <1>1, <1>5, <1>6, <1>7 DEF r

\* A queue without words.
LEMMA WordNowhere ==
  ASSUME NEW q, \A i \in 1..Len(q) : q[i].op \notin Words, NEW word
  PROVE  Silent(q) /\ LastIs(q, word)
  BY DEF Silent, LastIs

\* What the person does puts the word for the detail in the queue.
LEMMA WatchTyped ==
  ASSUME Base, WatchInv,
         \/ \E m \in Messages : Say(m)
         \/ \E c \in Cancels : CancelTurn(c)
         \/ OpenDetail \/ CloseDetail
  PROVE  WatchInv'
  <1> DEFINE Queued(item) ==
          /\ outbox' = Append(outbox, item) /\ UNCHANGED <<conn, up, channel>>
          /\ item.op \notin Words => detail' = detail
          /\ item.op \in Words => item.op = Wanted'
  <1>1. PICK item \in Requests : Queued(item)
    <2> USE DEF wire, server
    <2>1. ASSUME NEW m \in Messages, Say(m)  PROVE \E item \in Requests : Queued(item)
      <3> DEFINE item == [op |-> "say", id |-> m]
      <3>1. item \in Requests  BY DEF Requests
      <3>2. Queued(item)  BY <2>1 DEF Say, Queue, Words
      <3> QED BY <3>1, <3>2
    <2>2. ASSUME NEW c \in Cancels, CancelTurn(c)  PROVE \E item \in Requests : Queued(item)
      <3> DEFINE item == [op |-> "cancel", id |-> c]
      <3>1. item \in Requests  BY DEF Requests
      <3>2. Queued(item)  BY <2>2 DEF CancelTurn, Queue, Words
      <3> QED BY <3>1, <3>2
    <2>3. ASSUME OpenDetail  PROVE \E item \in Requests : Queued(item)
      <3> DEFINE item == [op |-> "watch", id |-> 0]
      <3>1. item \in Requests  BY DEF Requests
      <3>2. Queued(item)  BY <2>3 DEF OpenDetail, Queue, Words, Wanted
      <3> QED BY <3>1, <3>2
    <2>4. ASSUME CloseDetail  PROVE \E item \in Requests : Queued(item)
      <3> DEFINE item == [op |-> "unwatch", id |-> 0]
      <3>1. item \in Requests  BY DEF Requests
      <3>2. Queued(item)  BY <2>4 DEF CloseDetail, Queue, Words, Wanted
      <3> QED BY <3>1, <3>2
    <2> QED BY <2>1, <2>2, <2>3, <2>4
  <1>2. /\ item.op \notin Words /\ LastIs(outbox, Wanted) => LastIs(outbox', Wanted)
        /\ item.op \notin Words => (Silent(outbox') <=> Silent(outbox))
        /\ item.op \in Words => LastIs(outbox', item.op) /\ ~Silent(outbox')
    <2>1. outbox \in Seq(Requests)  BY DEF Base, Typed, TypeOK
    <2> HIDE DEF Requests
    <2> QED BY <1>1, <2>1, WordAdded
  <1>3. CASE item.op \notin Words
    <2>1. Wanted' = Wanted  BY <1>1, <1>3 DEF Wanted
    <2> QED BY <1>1, <1>2, <1>3, <2>1 DEF WatchInv
  <1>4. CASE item.op \in Words
    <2>1. item.op = Wanted'  BY <1>1, <1>4
    <2> QED BY <1>1, <1>2, <1>4, <2>1 DEF WatchInv
  <1> QED BY <1>3, <1>4

\* A connection that is not live.
LEMMA WatchAway ==
  ASSUME WatchInv, conn' # "live", outbox' = <<>> \/ UNCHANGED <<outbox, detail>>
  PROVE  WatchInv'
  <1>1. CASE outbox' = <<>>
    <2>1. LastIs(<<>>, Wanted')  BY WordNowhere
    <2> QED BY <1>1, <2>1 DEF WatchInv
  <1>2. CASE UNCHANGED <<outbox, detail>>
    BY <1>2 DEF WatchInv, Wanted
  <1> QED BY <1>1, <1>2

\* The connection is live again, and what is open is watched again.
LEMMA WatchJoins ==
  ASSUME Base, WatchInv, JoinReply
  PROVE  WatchInv'
  <1>1. /\ up = <<>> /\ ~channel.watching
        /\ up' = up \o Resend \o Rewatch /\ UNCHANGED <<detail, outbox, channel>>
    BY DEF JoinReply, Base, Phases, server
  <1>2. unsent \in Seq(Requests) /\ \A i \in 1..Len(unsent) : unsent[i].op \notin Words
    BY DEF Base, Typed, TypeOK, Words
  <1>3. Silent(unsent) /\ LastIs(unsent, Wanted)
    BY <1>2, WordNowhere
  <1>4. <<>> \o unsent = unsent
    BY <1>2
  <1> HIDE DEF Requests
  <1>5. CASE detail
    <2> DEFINE item == [op |-> "watch", id |-> 0]
    <2>1. item \in Requests /\ item.op \in Words /\ item.op = Wanted
      BY <1>5 DEF Requests, Words, Wanted
    <2>2. up' = unsent \o <<item>>
      BY <1>1, <1>4, <1>5 DEF Resend, Rewatch
    <2> HIDE DEF item
    <2>3. up' = Append(unsent, item)
      BY <1>2, <2>1, <2>2
    <2>4. LastIs(up', Wanted) /\ ~Silent(up')
      BY <1>2, <2>1, <2>3, WordAdded
    <2> QED BY <1>1, <2>4 DEF WatchInv, Wanted
  <1>6. CASE ~detail
    <2>1. up' = unsent \o <<>>
      BY <1>1, <1>4, <1>6 DEF Resend, Rewatch
    <2>2. up' = unsent
      BY <1>2, <2>1
    <2>3. channel.watching = detail
      BY <1>1, <1>6 DEF Base, Typed, TypeOK
    <2> QED BY <1>1, <1>3, <2>2, <2>3 DEF WatchInv, Wanted
  <1> QED BY <1>5, <1>6

\* A word goes from the queue to the socket.
LEMMA WatchTakes ==
  ASSUME Base, WatchInv, TakeOutbox
  PROVE  WatchInv'
  <1> DEFINE item == Head(outbox)
  <1>1. /\ conn = "live" /\ outbox # <<>> /\ outbox' = Tail(outbox) /\ up' = Append(up, item)
        /\ UNCHANGED <<conn, detail, channel>>
    BY DEF TakeOutbox, LeftInOutbox, server
  <1>2. outbox \in Seq(Requests) /\ up \in Seq(Requests)
    BY <1>1 DEF Base, Typed, TypeOK, Phases
  <1> HIDE DEF Requests
  <1>3. item \in Requests
    BY <1>1, <1>2, TailFacts
  <1>4. /\ LastIs(outbox, Wanted) => LastIs(outbox', Wanted)
        /\ Silent(outbox') /\ LastIs(outbox, Wanted) => item.op \notin Words \/ item.op = Wanted
        /\ Silent(outbox) <=> Silent(outbox') /\ item.op \notin Words
    BY <1>1, <1>2, WordTaken
  <1> HIDE DEF item
  <1>5. /\ item.op \notin Words /\ LastIs(up, Wanted) => LastIs(up', Wanted)
        /\ item.op \notin Words => (Silent(up') <=> Silent(up))
        /\ item.op \in Words => LastIs(up', item.op) /\ ~Silent(up')
    BY <1>1, <1>2, <1>3, WordAdded
  <1>6. Wanted' = Wanted
    BY <1>1 DEF Wanted
  <1> QED BY <1>1, <1>4, <1>5, <1>6 DEF WatchInv

\* The service serves a word.
LEMMA WatchServes ==
  ASSUME Base, WatchInv, Serve
  PROVE  WatchInv'
  <1> DEFINE item == Head(up)
  <1>1. /\ up # <<>> /\ item.op # "join" /\ up' = Tail(up) /\ UNCHANGED <<conn, detail, outbox>>
    BY DEF Serve, client
  <1>2. conn = "live" /\ up \in Seq(Requests)
    BY <1>1, JoinIsFirst DEF Base, Phases
  <1>3. /\ LastIs(up, Wanted) => LastIs(up', Wanted)
        /\ Silent(up') /\ LastIs(up, Wanted) => item.op \notin Words \/ item.op = Wanted
        /\ Silent(up) <=> Silent(up') /\ item.op \notin Words
    <2> HIDE DEF Requests
    <2> QED BY <1>1, <1>2, WordTaken
  <1>4. \/ item.op \notin Words /\ channel' = channel
        \/ item.op \in Words /\ channel'.watching = (item.op = "watch")
    <2>1. CASE \E ok \in BOOLEAN : Handle(item, ok)
      BY <2>1 DEF Handle, Words
    <2>2. CASE item.op \in Words /\ channel' = [channel EXCEPT !.watching = item.op = "watch"]
      <3>1. channel \in [live : BOOLEAN, conv : 0..(MaxHandoffs + 1), last : Nat, ready : BOOLEAN,
                         watching : BOOLEAN]
        BY DEF Base, Typed, TypeOK
      <3> QED BY <2>2, <3>1
    <2> QED BY <2>1, <2>2 DEF Serve, Words
  <1>5. Wanted' = Wanted /\ (item.op = Wanted => (item.op = "watch") = detail)
    <2>1. detail \in BOOLEAN  BY DEF Base, Typed, TypeOK
    <2>2. Wanted' = Wanted  BY <1>1 DEF Wanted
    <2>3. item.op = Wanted => (item.op = "watch") = detail
      <3> HIDE DEF item
      <3>1. CASE detail = TRUE  BY <3>1 DEF Wanted
      <3>2. CASE detail = FALSE  BY <3>2 DEF Wanted
      <3> QED BY <2>1, <3>1, <3>2
    <2> QED BY <2>2, <2>3
  <1> HIDE DEF item
  <1>6. CASE item.op \notin Words
    BY <1>1, <1>2, <1>3, <1>4, <1>5, <1>6 DEF WatchInv
  <1>7. CASE item.op \in Words
    <2>1. LastIs(outbox, Wanted) /\ (Silent(outbox) => LastIs(up, Wanted))
      BY <1>2 DEF WatchInv
    <2>2. Silent(outbox) /\ Silent(up') => channel'.watching = detail
      BY <1>3, <1>4, <1>5, <1>7, <2>1
    <2> QED BY <1>1, <1>3, <1>5, <2>1, <2>2 DEF WatchInv
  <1> QED BY <1>6, <1>7

\* A step that leaves the queues alone, and what is watched.
LEMMA WatchStays ==
  ASSUME WatchInv, UNCHANGED <<conn, outbox, up, detail>>, channel'.watching = channel.watching
  PROVE  WatchInv'
  <1>1. Wanted' = Wanted
    BY DEF Wanted
  <1> QED BY <1>1 DEF WatchInv

\* What the connection keeps is of its type, a cancel is never kept for a resend, and the service
\* watches what the screen shows once everything has arrived (ConnectionIsSound; connection.rs,
\* session, which watches the open detail again after a join).
THEOREM SoundConnection == Spec => []ConnectionIsSound
  <1>1. Init => WatchInv
    <2> SUFFICES ASSUME Init  PROVE WatchInv
      OBVIOUS
    <2>1. outbox = <<>> /\ conn = "connecting"
      BY DEF Init
    <2>2. LastIs(<<>>, Wanted)
      BY WordNowhere
    <2> QED BY <2>1, <2>2 DEF WatchInv
  <1>2. Base /\ WatchInv /\ [Next]_vars => WatchInv'
    <2> SUFFICES ASSUME Base, WatchInv, [Next]_vars  PROVE WatchInv'
      OBVIOUS
    <2>1. CASE Leave \/ Refuse \/ Lost \/ Connect \/ Retry
      <3>1. conn' # "live" /\ (outbox' = <<>> \/ UNCHANGED <<outbox, detail>>)
        BY <2>1 DEF Leave, Refuse, Lost, Connect, Retry
      <3> QED BY <3>1, WatchAway
    <2>2. CASE ServeJoin
      <3>1. conn' # "live" /\ UNCHANGED <<outbox, detail>>
        BY <2>2, JoinIsFirst DEF ServeJoin, client
      <3> QED BY <3>1, WatchAway
    <2>3. CASE \/ ReceiveEvent \/ ReceiveReply \/ ServeLate \/ OtherEvent \/ PrepareHandoff \/ HandOff
               \/ UNCHANGED vars
      <3>1. UNCHANGED <<conn, outbox, up, detail, channel>>
        BY <2>3 DEF ReceiveEvent, ReceiveReply, ServeLate, Handle, OtherEvent, PrepareHandoff, HandOff,
                    vars, client, wire, server
      <3> QED BY <3>1, WatchStays
    <2>4. CASE Backlog \/ Committed
      <3>1. UNCHANGED <<conn, outbox, up, detail>>
        BY <2>4 DEF Backlog, Committed, client
      <3>2. channel'.watching = channel.watching
        <4>1. channel \in [live : BOOLEAN, conv : 0..(MaxHandoffs + 1), last : Nat, ready : BOOLEAN,
                           watching : BOOLEAN]
          BY DEF Base, Typed, TypeOK
        <4> QED BY <2>4, <4>1 DEF Backlog, Committed
      <3> QED BY <3>1, <3>2, WatchStays
    <2> QED BY <2>1, <2>2, <2>3, <2>4, WatchTyped, WatchJoins, WatchTakes, WatchServes
            DEF Next, ClientStep, ServiceStep
  <1>3. Base /\ WatchInv => ConnectionIsSound
    <2> SUFFICES ASSUME Base, WatchInv, conn = "live", outbox = <<>>, up = <<>>
                 PROVE  channel.watching = detail
      BY DEF Base, Typed, ConnectionIsSound, WatchAgrees
    <2>1. Silent(<<>>)
      BY WordNowhere
    <2> QED BY <2>1 DEF WatchInv
  <1> QED BY <1>1, <1>2, <1>3, BaseInvariance, PTL DEF Spec

-----------------------------------------------------------------------------
(* Frames lead from one spot to another                                    *)

\* No frames lead nowhere.
LEMMA ReachesNone ==
  ASSUME NEW p \in Spots
  PROVE  Reaches(<<>>, p, p)
  <1> DEFINE pos == [i \in 1..1 |-> p]
  <1>1. pos \in [1..1 -> Spots] /\ pos[1] = p
    OBVIOUS
  <1>2. Len(<<>>) = 0 /\ 0 + 1 = 1 /\ 1..0 = {}
    OBVIOUS
  <1> HIDE DEF pos, Spots
  <1>3. \A i \in 1..Len(<<>>) : Leads(pos[i], <<>>[i], pos[i + 1])
    BY <1>2
  <1> QED BY <1>1, <1>2, <1>3 DEF Reaches

\* The spots on the way.
LEMMA ReachesSpots ==
  ASSUME NEW T, NEW d \in Seq(T), NEW p, NEW q, Reaches(d, p, q)
  PROVE  p \in Spots /\ q \in Spots
  <1>1. PICK pos \in [1..(Len(d) + 1) -> Spots] : pos[1] = p /\ pos[Len(d) + 1] = q
    BY DEF Reaches
  <1>2. Len(d) \in Nat
    OBVIOUS
  <1>3. 1 \in 1..(Len(d) + 1) /\ Len(d) + 1 \in 1..(Len(d) + 1)
    BY <1>2
  <1> HIDE DEF Spots
  <1> QED BY <1>1, <1>3

\* The first frame leads to where the others start.
LEMMA ReachesTail ==
  ASSUME NEW T, NEW d \in Seq(T), d # <<>>, NEW p, NEW q, Reaches(d, p, q)
  PROVE  \E r \in Spots : Leads(p, Head(d), r) /\ Reaches(Tail(d), r, q)
  <1>1. PICK pos \in [1..(Len(d) + 1) -> Spots] :
          /\ pos[1] = p /\ pos[Len(d) + 1] = q
          /\ \A i \in 1..Len(d) : Leads(pos[i], d[i], pos[i + 1])
    BY DEF Reaches
  <1> DEFINE t == Tail(d)
             n == Len(t)
             rest == [i \in 1..(n + 1) |-> pos[i + 1]]
  <1>2. /\ Len(d) \in Nat /\ Len(d) >= 1 /\ Head(d) = d[1] /\ n = Len(d) - 1
        /\ \A i \in 1..(Len(d) - 1) : t[i] = d[i + 1]
    BY TailFacts
  <1> HIDE DEF t, Spots
  <1>3. Len(d) = n + 1 /\ n \in Nat /\ n = Len(t)
    BY <1>2
  <1> HIDE DEF n
  <1>4. rest \in [1..(n + 1) -> Spots]
    BY <1>1, <1>3
  <1>5. \A i \in 1..(n + 1) : rest[i] = pos[i + 1]
    OBVIOUS
  <1> HIDE DEF rest
  <1>6. 1 \in 1..(n + 1) /\ n + 1 \in 1..(n + 1) /\ (n + 1) + 1 = Len(d) + 1 /\ 1 \in 1..Len(d)
        /\ 1 + 1 \in 1..(Len(d) + 1)
    BY <1>3
  <1>7. rest[1] = pos[1 + 1] /\ rest[n + 1] = q
    BY <1>1, <1>5, <1>6
  <1>8. ASSUME NEW i \in 1..n  PROVE Leads(rest[i], t[i], rest[i + 1])
    <2>1. i \in 1..(n + 1) /\ i + 1 \in 1..(n + 1) /\ i + 1 \in 1..Len(d) /\ i \in 1..(Len(d) - 1)
      BY <1>3
    <2>2. rest[i] = pos[i + 1] /\ rest[i + 1] = pos[(i + 1) + 1] /\ t[i] = d[i + 1]
      BY <1>2, <1>5, <2>1
    <2> QED BY <1>1, <2>1, <2>2
  <1>9. Reaches(t, rest[1], q)
    BY <1>3, <1>4, <1>7, <1>8 DEF Reaches
  <1>10. Leads(p, Head(d), rest[1]) /\ rest[1] \in Spots
    BY <1>1, <1>2, <1>4, <1>6, <1>7
  <1> QED BY <1>9, <1>10 DEF t

\* Frames after frames.
LEMMA ReachesConcat ==
  ASSUME NEW T, NEW d \in Seq(T), NEW e \in Seq(T), NEW p, NEW r, NEW q,
         Reaches(d, p, r), Reaches(e, r, q)
  PROVE  Reaches(d \o e, p, q)
  <1>1. PICK a \in [1..(Len(d) + 1) -> Spots] :
          /\ a[1] = p /\ a[Len(d) + 1] = r
          /\ \A i \in 1..Len(d) : Leads(a[i], d[i], a[i + 1])
    BY DEF Reaches
  <1>2. PICK b \in [1..(Len(e) + 1) -> Spots] :
          /\ b[1] = r /\ b[Len(e) + 1] = q
          /\ \A i \in 1..Len(e) : Leads(b[i], e[i], b[i + 1])
    BY DEF Reaches
  <1> DEFINE n == Len(d)
             m == Len(e)
             s == d \o e
             pos == [i \in 1..((n + m) + 1) |-> IF i <= n THEN a[i] ELSE b[i - n]]
  <1>3. /\ Len(s) = n + m /\ \A i \in 1..n : s[i] = d[i]
        /\ \A i \in 1..m : s[n + i] = e[i]
    BY ConcatFacts
  <1>4. n \in Nat /\ m \in Nat
    OBVIOUS
  <1> HIDE DEF s, Spots
  <1>5. /\ a \in [1..(n + 1) -> Spots] /\ a[1] = p /\ a[n + 1] = r
        /\ \A i \in 1..n : Leads(a[i], d[i], a[i + 1])
        /\ b \in [1..(m + 1) -> Spots] /\ b[1] = r /\ b[m + 1] = q
        /\ \A i \in 1..m : Leads(b[i], e[i], b[i + 1])
    BY <1>1, <1>2
  <1> HIDE DEF n, m
  <1>6. pos \in [1..((n + m) + 1) -> Spots]
    <2> SUFFICES ASSUME NEW i \in 1..((n + m) + 1)  PROVE (IF i <= n THEN a[i] ELSE b[i - n]) \in Spots
      OBVIOUS
    <2>1. CASE i <= n
      <3>1. i \in 1..(n + 1)  BY <1>4, <2>1
      <3> QED BY <1>5, <2>1, <3>1
    <2>2. CASE ~(i <= n)
      <3>1. i - n \in 1..(m + 1)  BY <1>4, <2>2
      <3> QED BY <1>5, <2>2, <3>1
    <2> QED BY <2>1, <2>2
  <1>7. \A i \in 1..((n + m) + 1) : pos[i] = IF i <= n THEN a[i] ELSE b[i - n]
    OBVIOUS
  <1> HIDE DEF pos
  <1>8. \A i \in 1..(n + 1) : pos[i] = a[i]
    <2> TAKE i \in 1..(n + 1)
    <2>1. i \in 1..((n + m) + 1)  BY <1>4
    <2>2. CASE i <= n  BY <1>7, <2>1, <2>2
    <2>3. CASE ~(i <= n)
      <3>1. i = n + 1 /\ i - n = 1  BY <1>4, <2>3
      <3>2. pos[i] = b[i - n]  BY <1>7, <2>1, <2>3
      <3> QED BY <1>5, <3>1, <3>2
    <2> QED BY <2>2, <2>3
  <1>9. \A i \in 1..(m + 1) : pos[n + i] = b[i]
    <2> TAKE i \in 1..(m + 1)
    <2>1. n + i \in 1..((n + m) + 1) /\ ~(n + i <= n) /\ (n + i) - n = i  BY <1>4
    <2> QED BY <1>7, <2>1
  <1>10. pos[1] = p /\ pos[(n + m) + 1] = q
    <2>1. 1 \in 1..(n + 1) /\ m + 1 \in 1..(m + 1) /\ n + (m + 1) = (n + m) + 1  BY <1>4
    <2>2. pos[1] = p  BY <1>5, <1>8, <2>1
    <2>3. pos[n + (m + 1)] = q  BY <1>5, <1>9, <2>1
    <2> QED BY <2>1, <2>2, <2>3
  <1>11. ASSUME NEW i \in 1..(n + m)  PROVE Leads(pos[i], s[i], pos[i + 1])
    <2>1. CASE i <= n
      <3>1. i \in 1..n /\ i \in 1..(n + 1) /\ i + 1 \in 1..(n + 1)  BY <1>4, <2>1
      <3> QED BY <1>3, <1>5, <1>8, <3>1
    <2>2. CASE ~(i <= n)
      <3> DEFINE k == i - n
      <3>1. k \in 1..m /\ k \in 1..(m + 1) /\ k + 1 \in 1..(m + 1) /\ n + k = i /\ n + (k + 1) = i + 1
        BY <1>4, <2>2
      <3> HIDE DEF k
      <3>2. pos[n + k] = b[k] /\ pos[n + (k + 1)] = b[k + 1] /\ s[n + k] = e[k]
        BY <1>3, <1>9, <3>1
      <3>3. Leads(b[k], e[k], b[k + 1])  BY <1>5, <3>1
      <3> QED BY <3>1, <3>2, <3>3
    <2> QED BY <2>1, <2>2
  <1>12. Reaches(s, p, q)
    <2>1. Len(s) = n + m  BY <1>3 DEF n, m
    <2> QED BY <1>6, <1>10, <1>11, <2>1 DEF Reaches
  <1> QED BY <1>12 DEF s

\* One more frame.
LEMMA ReachesAppend ==
  ASSUME NEW T, NEW d \in Seq(T), NEW f \in T, NEW p, NEW r, NEW q \in Spots,
         Reaches(d, p, r), Leads(r, f, q)
  PROVE  Reaches(Append(d, f), p, q)
  <1>1. r \in Spots
    BY ReachesSpots
  <1> HIDE DEF Spots
  <1> DEFINE pos == [i \in 1..2 |-> IF i = 1 THEN r ELSE q]
             one == <<f>>
  <1>2. pos \in [1..2 -> Spots] /\ pos[1] = r /\ pos[2] = q
    BY <1>1
  <1>3. one \in Seq(T) /\ Len(one) = 1 /\ one[1] = f
    OBVIOUS
  <1>4. d \o one = Append(d, f)
    OBVIOUS
  <1> HIDE DEF pos, one
  <1>5. 1 + 1 = 2 /\ \A i \in 1..1 : i = 1
    OBVIOUS
  <1>6. \A i \in 1..Len(one) : Leads(pos[i], one[i], pos[i + 1])
    BY <1>2, <1>3, <1>5
  <1>7. Reaches(one, r, q)
    BY <1>2, <1>3, <1>5, <1>6 DEF Reaches
  <1>8. Reaches(d \o one, p, q)
    BY <1>3, <1>7, ReachesConcat
  <1> QED BY <1>4, <1>8

-----------------------------------------------------------------------------
(* Events are shown in order                                               *)

\* A step that shows nothing new leaves what is shown in order.
LEMMA ShownStays ==
  ASSUME Base, ShownInOrder, ShownHere, LogTyped', Grows, UNCHANGED <<shown, convId, lastSeq>>
  PROVE  ShownInOrder' /\ ShownHere'
  <1>1. ShownHere'
    BY DEF ShownHere
  <1>2. ASSUME NEW p \in 1..Len(shown)
        PROVE  /\ shown[p][1] \in Conversations /\ shown[p][2] \in 1..Len(log'[shown[p][1]])
               /\ \A q \in 1..(p - 1) : shown[q][1] = shown[p][1] => shown[q][2] < shown[p][2]
               /\ \A k \in 1..(shown[p][2] - 1) : \E q \in 1..(p - 1) : shown[q] = <<shown[p][1], k>>
    <2>1. /\ shown[p][1] \in Conversations /\ shown[p][2] \in 1..Len(log[shown[p][1]])
          /\ \A q \in 1..(p - 1) : shown[q][1] = shown[p][1] => shown[q][2] < shown[p][2]
          /\ \A k \in 1..(shown[p][2] - 1) : \E q \in 1..(p - 1) : shown[q] = <<shown[p][1], k>>
      BY DEF ShownInOrder
    <2> DEFINE c == shown[p][1]
               n == shown[p][2]
    <2>2. Len(log[c]) \in Nat /\ Len(log'[c]) \in Nat /\ Len(log[c]) <= Len(log'[c])
      <3>1. c \in Conversations  BY <2>1
      <3> HIDE DEF c
      <3>2. Len(log[c]) \in Nat  BY <3>1 DEF Base, Typed
      <3>3. Len(log[c]) <= Len(log'[c])  BY <3>1 DEF Grows
      <3>4. Len(log'[c]) \in Nat
        BY <3>1 DEF LogTyped
      <3> QED BY <3>2, <3>3, <3>4
    <2>3. n \in 1..Len(log[c])  BY <2>1
    <2>4. n \in 1..Len(log'[c])
      <3> HIDE DEF c, n
      <3> QED BY <2>2, <2>3
    <2> QED BY <2>1, <2>4
  <1> QED BY <1>1, <1>2 DEF ShownInOrder

\* What is shown of the conversation the client counts in.
LEMMA ShownFacts ==
  ASSUME Base, ShownInOrder, ShownHere
  PROVE  /\ \A p \in 1..Len(shown) : shown[p] \in Conversations \X Nat
         /\ convId \in Nat /\ lastSeq \in Nat /\ Len(shown) \in Nat
         /\ convId # 0 => convId \in Conversations /\ lastSeq <= Len(log[convId])
         /\ convId = 0 => lastSeq = 0
  <1>1. shown \in Seq(Conversations \X Nat) /\ convId \in 0..(MaxHandoffs + 1) /\ lastSeq \in Nat
    BY DEF Base, Typed, TypeOK
  <1>2. \A p \in 1..Len(shown) : shown[p] \in Conversations \X Nat
    BY <1>1, SeqElement
  <1>3. convId \in Nat /\ Len(shown) \in Nat /\ (convId # 0 => convId \in Conversations)
    BY <1>1, BoundsAssumption DEF Conversations
  <1>4. ASSUME convId # 0  PROVE lastSeq <= Len(log[convId])
    <2>1. Len(log[convId]) \in Nat
      BY <1>3, <1>4 DEF Base, Typed
    <2>2. CASE lastSeq = 0
      BY <2>1, <2>2
    <2>3. CASE lastSeq # 0
      <3>1. lastSeq \in 1..lastSeq  BY <1>1, <2>3
      <3>2. PICK p \in 1..Len(shown) : shown[p] = <<convId, lastSeq>>  BY <3>1 DEF ShownHere
      <3>3. shown[p][1] = convId /\ shown[p][2] = lastSeq  BY <3>2
      <3>4. shown[p][2] \in 1..Len(log[shown[p][1]])  BY DEF ShownInOrder
      <3> QED BY <2>1, <3>3, <3>4
    <2> QED BY <2>2, <2>3
  <1> QED BY <1>1, <1>2, <1>3, <1>4 DEF ShownHere

\* The next event of the conversation the client counts in is shown.
ShowsNext(f) ==
  /\ f.op = "event" /\ f.conv = convId /\ f.seq = lastSeq + 1
  /\ shown' = Append(shown, <<f.conv, f.seq>>) /\ UNCHANGED log
  /\ lastSeq' = IF f.type = "handed_off" THEN 0 ELSE f.seq
  /\ convId' = IF f.type = "handed_off" THEN f.conv + 1 ELSE convId

LEMMA ShownGrows ==
  ASSUME Base, ShownInOrder, ShownHere, NEW f \in TrueFrames, ShowsNext(f)
  PROVE  ShownInOrder' /\ ShownHere'
  <1>1. /\ \A p \in 1..Len(shown) : shown[p] \in Conversations \X Nat
        /\ convId \in Nat /\ lastSeq \in Nat /\ Len(shown) \in Nat
    BY ShownFacts
  <1>2. f.conv \in Conversations /\ f.seq \in 1..Len(log[f.conv])
    BY HandedOffIsPast DEF ShowsNext
  <1> DEFINE N == Len(shown)
             new == <<convId, lastSeq + 1>>
  <1>3. /\ Len(shown') = N + 1 /\ shown'[N + 1] = new
        /\ \A p \in 1..N : shown'[p] = shown[p]
    <2>1. shown \in Seq(Conversations \X Nat)  BY DEF Base, Typed
    <2>2. new \in Conversations \X Nat  BY <1>1, <1>2 DEF ShowsNext
    <2>3. shown' = Append(shown, new)  BY DEF ShowsNext
    <2> HIDE DEF new
    <2> QED BY <2>1, <2>2, <2>3, AppendFacts
  <1>4. new[1] = convId /\ new[2] = lastSeq + 1
    OBVIOUS
  <1>5. N \in Nat
    BY <1>1
  <1>6. convId \in Conversations /\ lastSeq + 1 \in 1..Len(log[convId])
    BY <1>2 DEF ShowsNext
  <1> HIDE DEF new, N
  <1>7. ASSUME NEW p \in 1..N
        PROVE  /\ shown[p][1] \in Conversations /\ shown[p][2] \in 1..Len(log[shown[p][1]])
               /\ \A q \in 1..(p - 1) : shown[q][1] = shown[p][1] => shown[q][2] < shown[p][2]
               /\ \A k \in 1..(shown[p][2] - 1) : \E q \in 1..(p - 1) : shown[q] = <<shown[p][1], k>>
               /\ shown[p][1] <= convId /\ (shown[p][1] = convId => shown[p][2] <= lastSeq)
    BY DEF ShownInOrder, ShownHere, N
  <1>8. \A k \in 1..lastSeq : \E p \in 1..N : shown[p] = <<convId, k>>
    BY DEF ShownHere, N
  <1>9. ASSUME NEW p \in 1..(N + 1)
        PROVE  /\ shown'[p][1] \in Conversations /\ shown'[p][2] \in 1..Len(log[shown'[p][1]])
               /\ \A q \in 1..(p - 1) : shown'[q][1] = shown'[p][1] => shown'[q][2] < shown'[p][2]
               /\ \A k \in 1..(shown'[p][2] - 1) : \E q \in 1..(p - 1) : shown'[q] = <<shown'[p][1], k>>
    <2>1. CASE p \in 1..N
      <3>1. shown'[p] = shown[p] /\ \A q \in 1..(p - 1) : q \in 1..N /\ shown'[q] = shown[q]
        BY <1>3, <1>5, <2>1
      <3> QED BY <1>7, <2>1, <3>1
    <2>2. CASE p = N + 1
      <3>1. \A q \in 1..(p - 1) : q \in 1..N /\ shown'[q] = shown[q]
        BY <1>3, <1>5, <2>2
      <3>2. shown'[p][1] = convId /\ shown'[p][2] = lastSeq + 1
        BY <1>3, <1>4, <2>2
      <3>3. ASSUME NEW q \in 1..(p - 1), shown'[q][1] = shown'[p][1]
            PROVE  shown'[q][2] < shown'[p][2]
        <4>1. q \in 1..N /\ shown'[q] = shown[q]  BY <3>1
        <4>2. shown[q][2] <= lastSeq  BY <1>7, <3>2, <3>3, <4>1
        <4>3. shown[q][2] \in Nat  BY <1>1, <4>1 DEF N
        <4> QED BY <1>1, <3>2, <4>1, <4>2, <4>3
      <3>4. ASSUME NEW k \in 1..(shown'[p][2] - 1)
            PROVE  \E q \in 1..(p - 1) : shown'[q] = <<shown'[p][1], k>>
        <4>1. k \in 1..lastSeq  BY <1>1, <3>2
        <4>2. PICK q \in 1..N : shown[q] = <<convId, k>>  BY <1>8, <4>1
        <4>3. q \in 1..(p - 1)  BY <1>5, <2>2
        <4> QED BY <3>1, <3>2, <4>2, <4>3
      <3>5. shown'[p][1] \in Conversations /\ shown'[p][2] \in 1..Len(log[shown'[p][1]])
        BY <1>6, <3>2
      <3>6. \A q \in 1..(p - 1) : shown'[q][1] = shown'[p][1] => shown'[q][2] < shown'[p][2]
        BY <3>3
      <3>7. \A k \in 1..(shown'[p][2] - 1) : \E q \in 1..(p - 1) : shown'[q] = <<shown'[p][1], k>>
        BY <3>4
      <3> QED BY <3>5, <3>6, <3>7
    <2>3. p \in 1..N \/ p = N + 1
      BY <1>5
    <2> QED BY <2>1, <2>2, <2>3, Zenon
  <1>10. ShownInOrder'
    <2>1. log' = log  BY DEF ShowsNext
    <2> QED BY <1>3, <1>9, <2>1 DEF ShownInOrder
  <1>11. \A p \in 1..(N + 1) : shown'[p][1] \in Nat /\ shown'[p][1] <= convId
                               /\ (shown'[p][1] = convId => shown'[p][2] <= lastSeq + 1)
    <2> TAKE p \in 1..(N + 1)
    <2>1. CASE p \in 1..N
      <3>1. shown[p][1] \in Nat /\ shown[p][2] \in Nat
        BY <1>1, <2>1, BoundsAssumption DEF N, Conversations
      <3>2. shown[p][1] <= convId /\ (shown[p][1] = convId => shown[p][2] <= lastSeq)
        BY <1>7, <2>1
      <3>3. shown'[p] = shown[p]
        BY <1>3, <2>1
      <3> QED BY <1>1, <3>1, <3>2, <3>3
    <2>2. CASE p = N + 1
      <3>1. shown'[p][1] = convId /\ shown'[p][2] = lastSeq + 1
        BY <1>3, <1>4, <2>2
      <3> QED BY <1>1, <3>1
    <2> QED BY <1>5, <2>1, <2>2
  <1>12. CASE f.type = "handed_off"
    <2>1. convId' = convId + 1 /\ lastSeq' = 0
      BY <1>12 DEF ShowsNext
    <2>2. \A p \in 1..(N + 1) : shown'[p][1] <= convId' /\ shown'[p][1] # convId'
      BY <1>1, <1>11, <2>1
    <2>3. 1..lastSeq' = {} /\ convId' # 0
      BY <1>1, <2>1
    <2>4. ShownHere'
      BY <1>3, <2>1, <2>2, <2>3 DEF ShownHere
    <2> QED BY <1>10, <2>4
  <1>13. CASE f.type # "handed_off"
    <2>1. convId' = convId /\ lastSeq' = lastSeq + 1
      BY <1>13 DEF ShowsNext
    <2>2. ASSUME NEW k \in 1..lastSeq'  PROVE \E p \in 1..(N + 1) : shown'[p] = <<convId', k>>
      <3>1. CASE k \in 1..lastSeq
        <4>1. PICK p \in 1..N : shown[p] = <<convId, k>>  BY <1>8, <3>1
        <4>2. p \in 1..(N + 1) /\ shown'[p] = shown[p]  BY <1>3, <1>5
        <4> QED BY <2>1, <4>1, <4>2
      <3>2. CASE k = lastSeq + 1
        <4>1. N + 1 \in 1..(N + 1) /\ shown'[N + 1] = <<convId', k>>
          BY <1>3, <1>5, <2>1, <3>2 DEF new
        <4> QED BY <4>1
      <3> QED BY <1>1, <2>1, <3>1, <3>2
    <2>3. convId' # 0
      BY <1>6, <2>1, BoundsAssumption DEF Conversations
    <2>4. ShownHere'
      BY <1>3, <1>11, <2>1, <2>2, <2>3 DEF ShownHere
    <2> QED BY <1>10, <2>4
  <1> QED BY <1>12, <1>13

\* One more frame, whatever it is.
LEMMA ReachesNext ==
  ASSUME NEW T, NEW d \in Seq(T), NEW f, NEW p, NEW r, NEW q \in Spots,
         Reaches(d, p, r), Leads(r, f, q)
  PROVE  Reaches(Append(d, f), p, q)
  <1> DEFINE U == T \cup {f}
  <1>1. d \in Seq(U) /\ f \in U
    BY SeqWidens
  <1> HIDE DEF U, Spots
  <1> QED BY <1>1, ReachesAppend

\* The channel counts along when the log and its mailbox grow alike.
LEMMA MailCounts ==
  ASSUME Base, channel.live, NEW event \in Events,
         log'[current] = Append(log[current], event),
         channel.conv # current => log'[channel.conv] = log[channel.conv], Notified
  PROVE  Len(log'[channel.conv]) - Len(mailbox') = Len(log[channel.conv]) - Len(mailbox)
  <1>1. CASE channel.conv # current
    BY <1>1 DEF Notified
  <1>2. CASE channel.conv = current
    <2> DEFINE entry == <<current, Len(log[current]) + 1>>
    <2>1. log[current] \in Seq(Events) /\ mailbox \in Seq(Notices) /\ current \in Conversations
      BY DEF Base, Typed, TypeOK
    <2>2. entry \in Notices  BY <2>1 DEF Notices
    <2>3. mailbox' = Append(mailbox, entry)  BY <1>2 DEF Notified
    <2> HIDE DEF entry, Notices, Events
    <2>4. Len(mailbox') = Len(mailbox) + 1 /\ Len(mailbox) \in Nat
      BY <2>1, <2>2, <2>3, AppendFacts
    <2>5. Len(log'[current]) = Len(log[current]) + 1 /\ Len(log[current]) \in Nat
      BY <2>1, AppendFacts
    <2> DEFINE a == Len(log[current])
               b == Len(mailbox)
    <2>6. a \in Nat /\ b \in Nat /\ Len(log'[current]) = a + 1 /\ Len(mailbox') = b + 1
      BY <2>4, <2>5
    <2> HIDE DEF a, b
    <2>7. (a + 1) - (b + 1) = a - b
      BY ONLY <2>6
    <2>8. Len(log'[current]) - Len(mailbox') = a - b
      BY <2>6, <2>7
    <2> QED BY <1>2, <2>8 DEF a, b
  <1> QED BY <1>1, <1>2

\* A request that reaches the engine leaves the channel counting along.
LEMMA HandleCounts ==
  ASSUME Base, channel.live, NEW item \in Requests \cup Joins, NEW ok, Handle(item, ok)
  PROVE  Len(log'[channel.conv]) - Len(mailbox') = Len(log[channel.conv]) - Len(mailbox)
  <1>1. CASE UNCHANGED <<log, mailbox>>
    BY <1>1
  <1>2. CASE item.op = "say" /\ Commit(Event("human", item.id), mailbox)
    <2> DEFINE event == Event("human", item.id)
    <2>1. event \in Events
      <3>1. item.id \in Messages  BY <1>2 DEF Requests, Joins
      <3> QED BY <3>1 DEF Event, Events, EventTypes
    <2>2. log' = [log EXCEPT ![current] = Append(@, event)] /\ Notified
      BY <1>2 DEF Commit, Notified
    <2>3. log \in [Conversations -> Seq(Events)] /\ current \in Conversations
      BY DEF Base, Typed, TypeOK
    <2> HIDE DEF event
    <2>4. /\ log'[current] = Append(log[current], event)
          /\ channel.conv # current => log'[channel.conv] = log[channel.conv]
      <3>1. channel.conv \in Conversations  BY ChannelServes
      <3> QED BY <2>2, <2>3, <3>1
    <2> QED BY <2>1, <2>2, <2>4, MailCounts
  <1>3. \/ UNCHANGED <<log, mailbox>>
        \/ item.op = "say" /\ Commit(Event("human", item.id), mailbox)
    BY DEF Handle, Accepted
  <1> QED BY <1>1, <1>2, <1>3

\* A step after which the frames lead where they led, and the channel counts along.
LEMMA CountsAlong ==
  ASSUME Base, Counted, LogTyped', Grows, UNCHANGED <<convId, lastSeq>>,
         channel'.live = channel.live, channel'.conv = channel.conv,
         channel'.last = channel.last, channel'.ready = channel.ready,
         channel.live =>
           /\ Len(log'[channel.conv]) - Len(mailbox') = Len(log[channel.conv]) - Len(mailbox)
           /\ \A q \in Ahead : Reaches(down, Here, q) => Reaches(down', Here, q)
  PROVE  Counted'
  <1> SUFFICES ASSUME channel.live  PROVE Counted'
    BY DEF Counted
  <1>1. /\ channel.conv \in Conversations /\ channel.last \in Nat
        /\ Len(log[channel.conv]) \in Nat
    BY ChannelServes
  <1>2. /\ Len(log'[channel.conv]) \in Nat /\ Len(log[channel.conv]) <= Len(log'[channel.conv])
        /\ \A i \in 1..Len(log[channel.conv]) : log'[channel.conv][i] = log[channel.conv][i]
    BY <1>1 DEF LogTyped, Grows
  <1>3. PICK q \in Ahead : Reaches(down, Here, q)
    BY DEF Counted
  <1>4. Stuck => Stuck'
    <2> SUFFICES ASSUME Stuck  PROVE Stuck'
      OBVIOUS
    <2>1. channel.last \in 1..Len(log[channel.conv]) /\ channel.last \in 1..Len(log'[channel.conv])
      BY <1>1, <1>2 DEF Stuck
    <2>2. log'[channel.conv][channel.last] = log[channel.conv][channel.last]
      BY <1>2, <2>1
    <2> QED BY <2>1, <2>2 DEF Stuck
  <1>5. q \in Ahead'
    BY <1>3, <1>4 DEF Ahead
  <1>6. Reaches(down', Here', q)
    <2>1. Here' = Here  BY DEF Here
    <2> QED BY <1>3, <2>1
  <1>7. channel.last <= Len(log'[channel.conv])
    <2>1. channel.last <= Len(log[channel.conv])  BY DEF Counted
    <2> QED BY <1>1, <1>2, <2>1
  <1>8. channel.ready => Len(log'[channel.conv]) - Len(mailbox') <= channel.last
    BY DEF Counted
  <1> QED BY <1>5, <1>6, <1>7, <1>8 DEF Counted

\* The client takes the answer of its join, an event or a reply.
LEMMA OrderReceives ==
  ASSUME Base, OrderInv, JoinReply \/ ReceiveEvent \/ ReceiveReply
  PROVE  OrderInv'
  <1> USE DEF session, server
  <1>1. /\ conn \in {"joining", "live"} /\ down # <<>> /\ down' = Tail(down)
        /\ UNCHANGED <<channel, mailbox, log, current, prepared>>
    BY DEF JoinReply, ReceiveEvent, ReceiveReply, Receives
  <1>2. channel.live /\ Head(down) = down[1] /\ Head(down) \in TrueFrames
        /\ down \in Seq(TrueFrames)
    BY <1>1, HeadIsTrue DEF Base, Phases, Told
  <1>3. PICK q \in Ahead : Reaches(down, Here, q)
    BY <1>2 DEF OrderInv, Counted
  <1>4. PICK r \in Spots : Leads(Here, Head(down), r) /\ Reaches(Tail(down), r, q)
    <2> HIDE DEF TrueFrames, Spots
    <2> QED BY <1>1, <1>2, <1>3, ReachesTail
  <1>5. LogTyped' /\ Grows
    BY <1>1, LogStays DEF Base
  <1>6. Here[1] = convId /\ Here[2] = lastSeq /\ Here' = <<convId', lastSeq'>>
    BY DEF Here
  <1>7. ASSUME Here' = r  PROVE Counted'
    <2>1. Ahead' = Ahead
      BY <1>1 DEF Ahead, Stuck
    <2>2. Reaches(down', Here', q)
      BY <1>1, <1>4, <1>7
    <2> QED BY <1>1, <1>2, <1>3, <2>1, <2>2 DEF OrderInv, Counted
  <1>8. /\ convId \in Nat /\ lastSeq \in Nat /\ Len(shown) \in Nat
        /\ \A p \in 1..Len(shown) : shown[p] \in Conversations \X Nat
        /\ convId = 0 => lastSeq = 0
    BY ShownFacts DEF OrderInv
  <1>9. CASE JoinReply
    <2> DEFINE f == Head(down)
    <2>1. /\ conn = "joining" /\ f.op = "joined" /\ convId' = f.conv /\ UNCHANGED shown
          /\ lastSeq' = IF convId \notin {0, f.conv} THEN 0 ELSE lastSeq
      BY <1>9 DEF JoinReply, Joined
    <2>2. f.conv \in Conversations /\ convId <= f.conv
      BY <1>2, <2>1 DEF TrueFrames, Frames, JoinedFrames, EventFrames, ReplyFrames, Base, Phases
    <2>3. f.conv \in Nat /\ f.conv >= 1
      BY <2>2, BoundsAssumption DEF Conversations
    <2>4. Here' = r
      BY <1>4, <1>6, <2>1 DEF Leads
    <2> HIDE DEF f
    <2>5. ShownInOrder'
      BY <1>1, <2>1 DEF OrderInv, ShownInOrder
    <2>6. ShownHere'
      <3>1. /\ \A p \in 1..Len(shown) : shown[p][1] <= convId /\ shown[p][1] \in Nat
                                        /\ shown[p][1] >= 1
                                        /\ (shown[p][1] = convId => shown[p][2] <= lastSeq)
            /\ \A k \in 1..lastSeq : \E p \in 1..Len(shown) : shown[p] = <<convId, k>>
        <4>1. \A c \in Conversations : c \in Nat /\ c >= 1
          BY BoundsAssumption DEF Conversations
        <4>2. \A p \in 1..Len(shown) : shown[p][1] \in Nat /\ shown[p][1] >= 1
          <5> TAKE p \in 1..Len(shown)
          <5>1. shown[p][1] \in Conversations  BY <1>8
          <5> QED BY <4>1, <5>1
        <4> QED BY <4>2 DEF OrderInv, ShownHere
      <3>2. CASE convId = f.conv
        <4>1. convId' = convId /\ lastSeq' = lastSeq  BY <2>1, <3>2
        <4> QED BY <2>1, <4>1 DEF OrderInv, ShownHere
      <3>3. CASE convId # f.conv
        <4>1. lastSeq' = 0 /\ convId' = f.conv /\ f.conv # 0
          BY <1>8, <2>1, <2>3, <3>3
        <4>2. \A p \in 1..Len(shown) : shown[p][1] <= f.conv /\ shown[p][1] # f.conv
          BY <1>8, <2>2, <2>3, <3>1, <3>3
        <4>3. 1..lastSeq' = {}  BY <4>1
        <4> QED BY <2>1, <4>1, <4>2, <4>3 DEF ShownHere
      <3> QED BY <3>2, <3>3
    <2> QED BY <1>7, <2>4, <2>5, <2>6 DEF OrderInv
  <1>10. CASE ReceiveEvent
    <2> DEFINE f == Head(down)
    <2>1. /\ f.op = "event"
          /\ IF f.seq <= lastSeq THEN UNCHANGED <<lastSeq, convId, shown>>
             ELSE /\ shown' = Append(shown, <<f.conv, f.seq>>)
                  /\ lastSeq' = IF f.type = "handed_off" THEN 0 ELSE f.seq
                  /\ convId' = IF f.type = "handed_off" THEN f.conv + 1 ELSE convId
      BY <1>10 DEF ReceiveEvent, Receives
    <2>2. f.conv = convId /\ f.seq = lastSeq + 1 /\ r = After(f)
      BY <1>4, <1>6, <2>1 DEF Leads
    <2>3. ShowsNext(f)
      <3>1. ~(f.seq <= lastSeq)  BY <1>8, <2>2
      <3> QED BY <1>1, <2>1, <2>2, <3>1 DEF ShowsNext
    <2>4. Here' = r
      BY <1>6, <2>2, <2>3 DEF ShowsNext, After
    <2>5. f \in TrueFrames
      BY <1>2
    <2> HIDE DEF f, TrueFrames
    <2> QED BY <1>7, <2>3, <2>4, <2>5, ShownGrows DEF OrderInv
  <1>11. CASE ReceiveReply
    <2>1. Head(down).op = "reply" /\ UNCHANGED <<convId, lastSeq, shown>>
      BY <1>11 DEF ReceiveReply, Receives
    <2>2. r = Here /\ Here' = Here
      BY <1>4, <2>1 DEF Leads, Here
    <2> QED BY <1>5, <1>7, <2>1, <2>2, ShownStays DEF OrderInv
  <1> QED BY <1>9, <1>10, <1>11

\* A join is answered from where the client is.
LEMMA OrderServesJoin ==
  ASSUME Base, OrderInv, ServeJoin
  PROVE  OrderInv'
  <1> USE DEF client, session
  <1>1. /\ up # <<>> /\ Head(up).op = "join"
        /\ down' = Append(down, [op |-> "joined", conv |-> current])
        /\ UNCHANGED <<lastSeq, convId, shown, log, current, prepared>>
        /\ channel' = [live |-> TRUE, conv |-> current, ready |-> FALSE, watching |-> FALSE,
                       last |-> IF Head(up).conv \in {0, current} THEN Head(up).after ELSE 0]
    BY DEF ServeJoin
  <1>2. ~channel.live /\ down = <<>> /\ Head(up).conv = convId /\ Head(up).after = lastSeq
    BY <1>1, JoinIsFirst DEF Base, Phases
  <1>3. /\ channel'.conv = current /\ ~channel'.ready
        /\ channel'.last = IF convId \in {0, current} THEN lastSeq ELSE 0
    BY <1>1, <1>2
  <1>4. /\ convId \in Nat /\ lastSeq \in Nat
        /\ convId # 0 => convId \in Conversations /\ lastSeq <= Len(log[convId])
        /\ convId = 0 => lastSeq = 0
    BY ShownFacts DEF OrderInv
  <1>5. current \in Conversations /\ current \in Nat /\ current # 0 /\ Len(log[current]) \in Nat
    BY BoundsAssumption DEF Base, Typed, TypeOK, Conversations
  <1>6. channel'.last \in Nat /\ channel'.last <= Len(log[current])
    <2>1. CASE convId = current  BY <1>3, <1>4, <1>5, <2>1
    <2>2. CASE convId # current  BY <1>3, <1>4, <1>5, <2>2
    <2> QED BY <2>1, <2>2
  <1> DEFINE f == [op |-> "joined", conv |-> current]
             q == <<current, channel'.last>>
  <1>7. q \in Spots /\ Here \in Spots
    BY <1>4, <1>5, <1>6 DEF Spots, Here
  <1>8. Leads(Here, f, q)
    <2>1. Here[1] = convId /\ Here[2] = lastSeq  BY DEF Here
    <2>2. q = <<current, IF convId \notin {0, current} THEN 0 ELSE lastSeq>>  BY <1>3
    <2> QED BY <2>1, <2>2 DEF Leads
  <1>9. Reaches(Append(down, f), Here, q)
    <2>1. Reaches(down, Here, Here)  BY <1>2, <1>7, ReachesNone
    <2>2. down \in Seq({f})  BY <1>2
    <2> HIDE DEF f, q, Spots
    <2> QED BY <1>7, <1>8, <2>1, <2>2, ReachesNext
  <1>10. Counted'
    <2>1. Here' = Here  BY <1>1 DEF Here
    <2>2. q \in Ahead'  BY <1>3 DEF Ahead
    <2>3. Reaches(down', Here', q)  BY <1>1, <1>9, <2>1
    <2>4. Len(log'[channel'.conv]) = Len(log[current])  BY <1>1, <1>3
    <2> HIDE DEF q, f
    <2> QED BY <1>3, <1>6, <2>2, <2>3, <2>4 DEF Counted
  <1>11. LogTyped' /\ Grows
    BY <1>1, LogStays DEF Base
  <1> QED BY <1>1, <1>10, <1>11, ShownStays DEF OrderInv

\* The events of a backlog lead to the end of the conversation.
LEMMA BacklogLeads ==
  ASSUME Base, channel.live, channel.last <= Len(log[channel.conv])
  PROVE  LET c == channel.conv
             n == Len(log[c])
         IN  Reaches(BacklogFrames, <<c, channel.last>>,
                     IF channel.last < n THEN After(EventFrame(c, n)) ELSE <<c, channel.last>>)
  <1> DEFINE c == channel.conv
             n == Len(log[c])
             last == channel.last
             m == n - last
             pos == [i \in 1..(m + 1) |->
                      IF i = m + 1 /\ m > 0 THEN After(EventFrame(c, n)) ELSE <<c, last + (i - 1)>>]
  <1>1. /\ c \in Conversations /\ c \in Nat /\ c <= current /\ n \in Nat /\ last \in Nat /\ last <= n
    BY ChannelServes
  <1>2. /\ Len(BacklogFrames) = m
        /\ \A i \in 1..m : BacklogFrames[i] = EventFrame(c, last + i)
    BY BacklogIsTrue
  <1>3. \A i \in 1..n : /\ EventFrame(c, i).op = "event" /\ EventFrame(c, i).conv = c
                        /\ EventFrame(c, i).seq = i /\ EventFrame(c, i).type = log[c][i].type
    BY DEF EventFrame
  <1>4. \A i \in 1..n : log[c][i].type = "handed_off" => i = n
    BY <1>1 DEF Base, Logs
  <1>5. m \in Nat /\ last + m = n
    BY <1>1
  <1> HIDE DEF c, n, last
  <1> DEFINE end == After(EventFrame(c, n))
  <1>6. ASSUME m > 0  PROVE end \in Spots
    <2>1. n \in 1..n  BY <1>1, <1>5, <1>6
    <2> HIDE DEF m
    <2>2. EventFrame(c, n).conv = c /\ EventFrame(c, n).seq = n  BY <1>3, <2>1
    <2> QED BY <1>1, <2>2 DEF After, Spots
  <1> HIDE DEF end
  <1>7. /\ pos \in [1..(m + 1) -> Spots]
        /\ \A i \in 1..(m + 1) : pos[i] = IF i = m + 1 /\ m > 0 THEN end ELSE <<c, last + (i - 1)>>
    <2> HIDE DEF m
    <2> SUFFICES ASSUME NEW i \in 1..(m + 1)
                 PROVE  (IF i = m + 1 /\ m > 0 THEN end ELSE <<c, last + (i - 1)>>) \in Spots
      BY DEF end
    <2>1. last + (i - 1) \in Nat  BY <1>1, <1>5
    <2>2. <<c, last + (i - 1)>> \in Spots  BY <1>1, <2>1 DEF Spots
    <2> QED BY <1>6, <2>2
  <1> HIDE DEF pos, m
  <1>8. pos[1] = <<c, last>>
    <2>1. 1 \in 1..(m + 1) /\ ~(1 = m + 1 /\ m > 0) /\ last + (1 - 1) = last  BY <1>1, <1>5
    <2> QED BY <1>7, <2>1
  <1>9. pos[m + 1] = IF last < n THEN end ELSE <<c, last>>
    <2>1. CASE m > 0
      <3>1. last < n /\ m + 1 \in 1..(m + 1)  BY <1>1, <1>5, <2>1
      <3> QED BY <1>7, <2>1, <3>1
    <2>2. CASE ~(m > 0)
      <3>1. ~(last < n) /\ m + 1 = 1  BY <1>1, <1>5, <2>2
      <3> QED BY <1>8, <3>1
    <2> QED BY <2>1, <2>2
  <1>10. ASSUME NEW i \in 1..m  PROVE Leads(pos[i], BacklogFrames[i], pos[i + 1])
    <2> DEFINE f == EventFrame(c, last + i)
    <2>1. /\ i \in 1..(m + 1) /\ i + 1 \in 1..(m + 1) /\ last + i \in 1..n /\ ~(i = m + 1)
          /\ (i + 1) - 1 = i /\ (last + (i - 1)) + 1 = last + i /\ m > 0
          /\ (i + 1 = m + 1 <=> last + i = n)
      BY <1>1, <1>5
    <2>2. pos[i] = <<c, last + (i - 1)>>
      BY <1>7, <2>1
    <2>3. pos[i + 1] = IF i + 1 = m + 1 THEN end ELSE <<c, last + i>>
      BY <1>7, <2>1
    <2>4. f.op = "event" /\ f.conv = c /\ f.seq = last + i /\ f.type = log[c][last + i].type
      BY <1>3, <2>1
    <2>5. pos[i + 1] = After(f)
      <3>1. CASE last + i = n
        BY <2>1, <2>3, <3>1 DEF end
      <3>2. CASE last + i # n
        <4>1. f.type # "handed_off"  BY <1>4, <2>1, <2>4, <3>2
        <4>2. After(f) = <<c, last + i>>  BY <2>4, <4>1 DEF After
        <4> QED BY <2>1, <2>3, <3>2, <4>2
      <3> QED BY <3>1, <3>2
    <2>6. pos[i][1] = c /\ pos[i][2] + 1 = last + i
      BY <2>1, <2>2
    <2>7. BacklogFrames[i] = f
      BY <1>2
    <2> HIDE DEF f
    <2> QED BY <2>4, <2>5, <2>6, <2>7 DEF Leads
  <1>11. Reaches(BacklogFrames, <<c, last>>, IF last < n THEN end ELSE <<c, last>>)
    BY <1>2, <1>7, <1>8, <1>9, <1>10 DEF Reaches
  <1> QED BY <1>11 DEF c, n, last, end

\* The backlog is sent.
LEMMA OrderBacklog ==
  ASSUME Base, OrderInv, Backlog
  PROVE  OrderInv'
  <1> USE DEF client, session
  <1> DEFINE c == channel.conv
             n == Len(log[c])
             last == channel.last
  <1>1. /\ mailbox # <<>> /\ Head(mailbox) = ReadBacklog /\ mailbox' = Tail(mailbox)
        /\ down' = down \o BacklogFrames
        /\ channel' = [channel EXCEPT !.last = n, !.ready = TRUE]
        /\ UNCHANGED <<lastSeq, convId, shown, log, current, prepared>>
    BY DEF Backlog, BacklogFrames
  <1>2. channel.live /\ mailbox \in Seq(Notices)
    BY <1>1 DEF Base, Phases, Typed
  <1>3. c \in Conversations /\ c \in Nat /\ n \in Nat /\ last \in Nat /\ last <= n
    BY <1>2, ChannelServes DEF OrderInv, Counted
  <1>4. channel'.conv = c /\ channel'.last = n /\ channel'.ready
    <2>1. channel \in [live : BOOLEAN, conv : 0..(MaxHandoffs + 1), last : Nat, ready : BOOLEAN,
                       watching : BOOLEAN]
      BY DEF Base, Typed, TypeOK
    <2> HIDE DEF n
    <2> QED BY <1>1, <2>1
  <1>5. ~channel.ready
    <2> HIDE DEF Notices
    <2>1. Head(mailbox) = mailbox[1] /\ Len(mailbox) \in Nat /\ Len(mailbox) >= 1
      BY <1>1, <1>2, TailFacts
    <2>2. ASSUME channel.ready  PROVE FALSE
      <3>1. Waits = 0 /\ 1 \in (0 + 1)..Len(mailbox)  BY <2>1, <2>2 DEF Waits
      <3>2. mailbox[1] = <<c, n - (Len(mailbox) - 1)>>
        BY <1>2, <3>1 DEF Base, Mail
      <3>3. ReadBacklog[1] = 0 /\ c # 0
        BY <1>3, BoundsAssumption DEF ReadBacklog, Conversations
      <3> QED BY <1>1, <2>1, <3>2, <3>3
    <2> QED BY <2>2
  <1>6. Reaches(down, Here, <<c, last>>)
    BY <1>2, <1>5 DEF OrderInv, Counted, Ahead, Stuck
  <1> DEFINE q == IF last < n THEN After(EventFrame(c, n)) ELSE <<c, last>>
  <1>7. Reaches(BacklogFrames, <<c, last>>, q)
    BY <1>2, <1>3, BacklogLeads
  <1>8. Reaches(down', Here, q)
    <2>1. BacklogFrames \in Seq(TrueFrames) /\ down \in Seq(TrueFrames)
      BY <1>2, BacklogIsTrue DEF Base, Told
    <2> HIDE DEF TrueFrames, q, c, last
    <2> QED BY <1>1, <1>6, <1>7, <2>1, ReachesConcat
  <1>9. q \in Ahead'
    <2>1. CASE last < n
      <3>1. n \in 1..n  BY <1>3, <2>1
      <3>2. q = IF log[c][n].type = "handed_off" THEN <<c + 1, 0>> ELSE <<c, n>>
        BY <2>1 DEF After, EventFrame
      <3>3. log[c][n].type = "handed_off" => Stuck'
        BY <1>1, <1>4, <3>1 DEF Stuck
      <3> HIDE DEF q, c, n
      <3> QED BY <1>4, <3>2, <3>3 DEF Ahead
    <2>2. CASE ~(last < n)
      <3>1. last = n /\ q = <<c, last>>  BY <1>3, <2>2
      <3> HIDE DEF q, c, n, last
      <3> QED BY <1>4, <3>1 DEF Ahead
    <2> QED BY <2>1, <2>2
  <1>10. Counted'
    <2>1. Here' = Here  BY <1>1 DEF Here
    <2>2. Len(mailbox') \in Nat
      <3>1. Tail(mailbox) \in Seq(Notices)
        <4> HIDE DEF Notices
        <4> QED BY <1>1, <1>2, TailFacts
      <3> QED BY <1>1, <3>1
    <2>3. Len(log'[channel'.conv]) = n  BY <1>1, <1>4
    <2>4. n <= n /\ n - Len(mailbox') <= n
      <3> HIDE DEF n
      <3> QED BY <1>3, <2>2
    <2> HIDE DEF q, n, c
    <2> QED BY <1>4, <1>8, <1>9, <2>1, <2>3, <2>4 DEF Counted
  <1>11. LogTyped' /\ Grows
    BY <1>1, LogStays DEF Base
  <1> QED BY <1>1, <1>10, <1>11, ShownStays DEF OrderInv

\* A committed event is passed on when it is the next, and a conversation is left for the one that
\* follows it.
LEMMA OrderCommitted ==
  ASSUME Base, OrderInv, Committed, FollowsSuccessor
  PROVE  OrderInv'
  <1> USE DEF client, session
  <1> DEFINE c == Head(mailbox)[1]
             i == Head(mailbox)[2]
             n == Len(log[c])
             last == channel.last
             k == Len(mailbox)
             f == EventFrame(c, i)
  <1>1. /\ mailbox # <<>> /\ Head(mailbox) # ReadBacklog
        /\ UNCHANGED <<lastSeq, convId, shown, log, current, prepared>>
    BY DEF Committed
  <1>2. /\ channel.live /\ channel.ready /\ c = channel.conv
        /\ i = n - (k - 1) /\ i \in 1..n /\ k \in Nat /\ k >= 1
    BY <1>1, CommittedHead
  <1>3. /\ c \in Conversations /\ c \in Nat /\ n \in Nat /\ last \in Nat /\ last <= n
        /\ n - k <= last
    BY <1>2, ChannelServes DEF OrderInv, Counted
  <1>4. PICK q \in Ahead : Reaches(down, Here, q)
    BY <1>2 DEF OrderInv, Counted
  <1>5. Here' = Here /\ Len(log'[c]) = n
    BY <1>1 DEF Here
  <1>6. LogTyped' /\ Grows
    BY <1>1, LogStays DEF Base
  <1>7. Len(Tail(mailbox)) = k - 1
    <2>1. mailbox \in Seq(Notices)  BY DEF Base, Typed
    <2> HIDE DEF Notices
    <2> QED BY <1>1, <2>1, TailFacts
  <1>8. channel \in [live : BOOLEAN, conv : 0..(MaxHandoffs + 1), last : Nat, ready : BOOLEAN,
                     watching : BOOLEAN]
    BY DEF Base, Typed, TypeOK
  <1>9. CASE i <= last /\ mailbox' = Tail(mailbox) /\ UNCHANGED <<down, channel>>
    <2>1. n - (k - 1) <= last
      BY <1>2, <1>9
    <2>2. Ahead' = Ahead
      BY <1>1, <1>9 DEF Ahead, Stuck
    <2>3. Counted'
      <3> HIDE DEF c, i, n, last, k
      <3>1. Len(log'[channel'.conv]) - Len(mailbox') <= channel'.last
        BY <1>2, <1>5, <1>7, <1>9, <2>1 DEF last
      <3>2. channel'.last <= Len(log'[channel'.conv])
        BY <1>2, <1>3, <1>5, <1>9 DEF last
      <3> QED BY <1>4, <1>5, <1>9, <2>2, <3>1, <3>2 DEF Counted
    <2> QED BY <1>1, <1>6, <2>3, ShownStays DEF OrderInv
  <1>10. CASE /\ ~(i <= last)
              /\ down' = Append(down, f)
              /\ IF log[c][i].type = "handed_off"
                 THEN channel' = [channel EXCEPT !.conv = current, !.last = 0, !.ready = FALSE]
                 ELSE channel' = [channel EXCEPT !.last = i] /\ mailbox' = Tail(mailbox)
    <2>1. i = last + 1 /\ i \in Nat
      <3> HIDE DEF c, i, n, last, k
      <3> QED BY <1>2, <1>3, <1>10
    <2>2. q = <<c, last>>
      <3>1. ~Stuck
        <4> SUFFICES ASSUME Stuck  PROVE FALSE
          OBVIOUS
        <4>1. last \in 1..n /\ log[c][last].type = "handed_off"
          BY <1>2 DEF Stuck
        <4>2. last = n
          BY <1>3, <4>1 DEF Base, Logs
        <4> HIDE DEF c, i, n, last, k
        <4> QED BY <1>2, <1>3, <1>10, <4>2
      <3> HIDE DEF c, last
      <3> QED BY <1>2, <1>4, <3>1 DEF Ahead, last
    <2>3. f.op = "event" /\ f.conv = c /\ f.seq = i /\ f.type = log[c][i].type
      BY DEF EventFrame
    <2> DEFINE r == After(f)
    <2>4. r = IF log[c][i].type = "handed_off" THEN <<c + 1, 0>> ELSE <<c, i>>
      BY <2>3 DEF After
    <2>5. r \in Spots
      <3> HIDE DEF c, i, r
      <3> QED BY <1>3, <2>1, <2>4 DEF Spots
    <2>6. Leads(q, f, r)
      <3>1. q[1] = c /\ q[2] = last  BY <2>2
      <3> HIDE DEF c, i, last, f
      <3> QED BY <2>1, <2>3, <3>1 DEF Leads, r
    <2>7. Reaches(down', Here', r)
      <3>1. down \in Seq(TrueFrames)  BY DEF Base, Told
      <3> HIDE DEF TrueFrames, r, f, c, i, last, Spots
      <3> QED BY <1>4, <1>5, <1>10, <2>5, <2>6, <3>1, ReachesNext
    <2>8. CASE log[c][i].type = "handed_off"
      <3>1. channel'.live /\ channel'.conv = current /\ channel'.last = 0 /\ ~channel'.ready
        BY <1>2, <1>8, <1>10, <2>8
      <3>2. c < current
        BY <1>2, <1>3, <2>8 DEF Base, Logs
      <3>3. current = c + 1
        <4>1. current \in {c, c + 1}  BY <1>2, <3>1 DEF FollowsSuccessor
        <4>2. current \in Nat  BY BoundsAssumption DEF Base, Typed, TypeOK, Conversations
        <4> HIDE DEF c
        <4> QED BY <1>3, <3>2, <4>1, <4>2
      <3>4. r \in Ahead'
        <4> HIDE DEF c, i, r
        <4> QED BY <2>4, <2>8, <3>1, <3>3 DEF Ahead
      <3>5. channel'.last <= Len(log'[channel'.conv])
        <4>1. Len(log'[current]) \in Nat
          BY <1>1 DEF Base, Typed, TypeOK
        <4> QED BY <3>1, <4>1
      <3>6. Counted'
        <4> HIDE DEF r
        <4> QED BY <2>7, <3>1, <3>4, <3>5 DEF Counted
      <3> QED BY <1>1, <1>6, <3>6, ShownStays DEF OrderInv
    <2>9. CASE log[c][i].type # "handed_off"
      <3>1. channel'.live /\ channel'.conv = c /\ channel'.last = i /\ mailbox' = Tail(mailbox)
        <4>1. channel' = [channel EXCEPT !.last = i] /\ mailbox' = Tail(mailbox)  BY <1>10, <2>9
        <4> HIDE DEF i, c
        <4> QED BY <1>2, <1>8, <4>1
      <3>2. r \in Ahead'
        <4> HIDE DEF c, i, r
        <4> QED BY <2>4, <2>9, <3>1 DEF Ahead
      <3>3. i <= n /\ n - (k - 1) <= i
        <4> HIDE DEF c, i, n, k
        <4> QED BY <1>2, <1>3
      <3>4. Counted'
        <4> HIDE DEF c, i, n, k, r
        <4> QED BY <1>5, <1>7, <2>7, <3>1, <3>2, <3>3 DEF Counted
      <3> QED BY <1>1, <1>6, <3>4, ShownStays DEF OrderInv
    <2> QED BY <2>8, <2>9
  <1>11. <1>9!1 \/ <1>10!1
    BY <1>2 DEF Committed
  <1> QED BY <1>9, <1>10, <1>11

\* A request is served, or the engine records something: the channel counts along.
LEMMA OrderServes ==
  ASSUME Base, OrderInv, LogTyped', Grows,
         Serve \/ ServeLate \/ OtherEvent \/ PrepareHandoff \/ HandOff
  PROVE  OrderInv'
  <1> USE DEF client, wire, server
  <1>1. UNCHANGED <<shown, convId, lastSeq>>
    BY DEF Serve, ServeLate, OtherEvent, PrepareHandoff, HandOff
  <1>2. /\ channel'.live = channel.live /\ channel'.conv = channel.conv
        /\ channel'.last = channel.last /\ channel'.ready = channel.ready
    <2>1. channel \in [live : BOOLEAN, conv : 0..(MaxHandoffs + 1), last : Nat, ready : BOOLEAN,
                       watching : BOOLEAN]
      BY DEF Base, Typed, TypeOK
    <2>2. CASE Serve
      <3>1. channel' = channel \/ channel' = [channel EXCEPT !.watching = Head(up).op = "watch"]
        BY <2>2 DEF Serve, Handle
      <3> QED BY <2>1, <3>1
    <2>3. CASE ServeLate \/ OtherEvent \/ PrepareHandoff \/ HandOff
      BY <2>3 DEF ServeLate, Handle, OtherEvent, PrepareHandoff, HandOff
    <2> QED BY <2>2, <2>3
  <1>3. ASSUME channel.live
        PROVE  Len(log'[channel.conv]) - Len(mailbox') = Len(log[channel.conv]) - Len(mailbox)
    <2>1. CASE UNCHANGED <<log, mailbox>>
      BY <2>1
    <2>2. CASE Serve
      <3>1. up # <<>> /\ (UNCHANGED <<log, mailbox>> \/ \E ok \in BOOLEAN : Handle(Head(up), ok))
        BY <2>2 DEF Serve
      <3>2. Head(up) \in Requests \cup Joins  BY <3>1, JoinIsFirst
      <3> QED BY <1>3, <2>1, <3>1, <3>2, HandleCounts
    <2>3. CASE ServeLate
      <3>1. late # <<>> /\ (UNCHANGED <<log, mailbox>> \/ \E ok \in BOOLEAN : Handle(Head(late), ok))
        BY <2>3 DEF ServeLate
      <3>2. Head(late) \in Requests \cup Joins
        <4>1. late \in Seq(Requests \cup Joins)  BY DEF Base, Typed
        <4> HIDE DEF Requests, Joins
        <4> QED BY <3>1, <4>1, TailFacts
      <3> QED BY <1>3, <2>1, <3>1, <3>2, HandleCounts
    <2>4. log \in [Conversations -> Seq(Events)] /\ current \in Conversations
      BY DEF Base, Typed, TypeOK
    <2>5. CASE OtherEvent
      <3> DEFINE event == Event("other", 0)
      <3>1. event \in Events  BY DEF Event, Events, EventTypes
      <3>2. log' = [log EXCEPT ![current] = Append(@, event)] /\ Notified
        BY <2>5 DEF OtherEvent, Commit, Notified
      <3> HIDE DEF event, Events
      <3>3. /\ log'[current] = Append(log[current], event)
            /\ channel.conv # current => log'[channel.conv] = log[channel.conv]
        <4>1. channel.conv \in Conversations  BY <1>3, ChannelServes
        <4> QED BY <2>4, <3>2, <4>1
      <3> QED BY <1>3, <3>1, <3>2, <3>3, MailCounts
    <2>6. CASE HandOff
      <3> DEFINE event == Event("handed_off", 0)
      <3>1. event \in Events  BY DEF Event, Events, EventTypes
      <3>2. Notified  BY <2>6 DEF HandOff, Notified
      <3>3. /\ log'[current] = Append(log[current], event) /\ current' = current + 1
            /\ \A c \in Conversations : c <= current' /\ c # current /\ c # current' => log'[c] = log[c]
        BY <2>6, LogHandsOff DEF Base
      <3> HIDE DEF event, Events
      <3>4. channel.conv # current => log'[channel.conv] = log[channel.conv]
        <4>1. channel.conv \in Conversations /\ channel.conv <= current /\ channel.conv \in Nat
              /\ current \in Nat
          BY <1>3, ChannelServes
        <4> QED BY <3>3, <4>1
      <3> QED BY <1>3, <3>1, <3>2, <3>3, <3>4, MailCounts
    <2>7. PrepareHandoff => UNCHANGED <<log, mailbox>>
      BY DEF PrepareHandoff
    <2> QED BY <2>1, <2>2, <2>3, <2>5, <2>6, <2>7
  <1>4. ASSUME channel.live, NEW q \in Ahead, Reaches(down, Here, q)
        PROVE  Reaches(down', Here, q)
    <2>1. CASE down' = down
      BY <1>4, <2>1
    <2>2. CASE Serve
      <3>1. PICK g : down' = Append(down, g) /\ g.op = "reply"
        BY <2>2 DEF Serve
      <3>2. down \in Seq(TrueFrames)  BY DEF Base, Told
      <3> HIDE DEF TrueFrames
      <3>3. q \in Spots  BY <1>4, <3>2, ReachesSpots
      <3>4. Leads(q, g, q)  BY <3>1 DEF Leads
      <3> HIDE DEF Spots
      <3> QED BY <1>4, <3>1, <3>2, <3>3, <3>4, ReachesNext
    <2>3. ServeLate \/ OtherEvent \/ PrepareHandoff \/ HandOff => down' = down
      BY DEF ServeLate, OtherEvent, PrepareHandoff, HandOff
    <2> QED BY <2>1, <2>2, <2>3
  <1>5. Counted'
    BY <1>1, <1>2, <1>3, <1>4, CountsAlong DEF OrderInv
  <1> QED BY <1>1, <1>5, ShownStays DEF OrderInv

\* Other steps leave what is shown, what is on its way and the channel alone, or end the connection.
LEMMA OrderStays ==
  ASSUME Base, OrderInv, UNCHANGED <<shown, convId, lastSeq, log, current, prepared>>,
         ~channel'.live \/ UNCHANGED <<down, channel, mailbox>>
  PROVE  OrderInv'
  <1>1. LogTyped' /\ Grows
    BY LogStays DEF Base
  <1>2. Counted'
    <2>1. CASE ~channel'.live
      BY <2>1 DEF Counted
    <2>2. CASE UNCHANGED <<down, channel, mailbox>>
      <3>1. Ahead' = Ahead /\ Here' = Here
        BY <2>2 DEF Ahead, Stuck, Here
      <3> QED BY <2>2, <3>1 DEF OrderInv, Counted
    <2> QED BY <2>1, <2>2
  <1> QED BY <1>1, <1>2, ShownStays DEF OrderInv

\* A step of a channel that follows handoffs one at a time keeps what is shown in order.
LEMMA OrderStep ==
  ASSUME Base, OrderInv, [Next]_vars, [FollowsSuccessor]_vars
  PROVE  OrderInv'
  <1> USE DEF client, wire, server, session
  <1>1. LogTyped' /\ Grows
    BY BaseStep, StepGrows DEF Base, Typed, LogTyped
  <1>2. CASE \/ Connect \/ Retry \/ TakeOutbox \/ OpenDetail \/ CloseDetail
             \/ (\E m \in Messages : Say(m)) \/ (\E c \in Cancels : CancelTurn(c))
             \/ Leave \/ Lost \/ Refuse \/ UNCHANGED vars
    <2>1. /\ UNCHANGED <<shown, convId, lastSeq, log, current, prepared>>
          /\ ~channel'.live \/ UNCHANGED <<down, channel, mailbox>>
      <3>1. CASE Connect \/ Retry \/ TakeOutbox
        BY <3>1 DEF Connect, Retry, TakeOutbox
      <3>2. CASE \/ OpenDetail \/ CloseDetail
                 \/ (\E m \in Messages : Say(m)) \/ (\E c \in Cancels : CancelTurn(c))
        BY <3>2 DEF OpenDetail, CloseDetail, Say, CancelTurn
      <3>3. CASE Leave \/ Lost \/ Refuse
        BY <3>3 DEF Leave, Lost, Refuse, None
      <3>4. CASE UNCHANGED vars
        BY <3>4 DEF vars
      <3> QED BY <1>2, <3>1, <3>2, <3>3, <3>4
    <2> QED BY <2>1, OrderStays
  <1>3. CASE Committed /\ ~UNCHANGED vars
    <2>1. FollowsSuccessor
      BY <1>3
    <2> QED BY <1>3, <2>1, OrderCommitted
  <1> QED BY <1>1, <1>2, <1>3, OrderReceives, OrderServesJoin, OrderBacklog, OrderServes
          DEF Next, ClientStep, ServiceStep

\* At first nothing is shown.
LEMMA OrderInit == Init => OrderInv
  BY DEF Init, None, OrderInv, ShownInOrder, ShownHere, Counted

\* What the screen shows of each conversation is a prefix of its log, over lost connections and
\* repeated backlogs, as long as a channel that leaves a conversation goes on to its successor
\* (ShownInOrder; model.rs, joined and apply_events; chat_channel.ex, handle_info and follow).
\* The hypothesis is needed: follow goes on to the session's current conversation, two further on
\* when a second handoff came first, while the client counts on in the successor.
THEOREM EventsShownInOrder == Spec /\ [][FollowsSuccessor]_vars => []ShownInOrder
  <1>1. OrderInv => ShownInOrder
    BY DEF OrderInv
  <1> QED BY <1>1, OrderInit, OrderStep, BaseInvariance, PTL DEF Spec

\* A channel leaves a conversation for the current one only, the second when there are two.
LEMMA OneHandoffFollows ==
  ASSUME Base, [Next]_vars, MaxHandoffs <= 1
  PROVE  [FollowsSuccessor]_vars
  <1> SUFFICES ASSUME channel.live, channel'.live, Next
               PROVE  channel'.conv \in {channel.conv, channel.conv + 1}
    BY DEF FollowsSuccessor
  <1>1. channel \in [live : BOOLEAN, conv : 0..(MaxHandoffs + 1), last : Nat, ready : BOOLEAN,
                     watching : BOOLEAN]
    BY DEF Base, Typed, TypeOK
  <1>2. channel.conv \in Nat /\ current \in Nat /\ 1 <= channel.conv /\ channel.conv <= current
        /\ current <= 2
    <2>1. channel.conv \in Conversations /\ current \in Conversations /\ channel.conv <= current
      BY ChannelServes DEF Base, Typed, TypeOK
    <2> QED BY <2>1, BoundsAssumption DEF Conversations
  <1>3. channel'.conv = channel.conv \/ channel'.conv = current
    <2>1. CASE ServeJoin \/ Leave \/ Lost \/ Refuse
      BY <2>1, JoinIsFirst DEF ServeJoin, Leave, Lost, Refuse, None
    <2>2. CASE Backlog \/ Committed \/ Serve \/ ServeLate
      BY <1>1, <2>2 DEF Backlog, Committed, Serve, ServeLate, Handle
    <2>3. CASE \/ Connect \/ Retry \/ JoinReply \/ TakeOutbox \/ ReceiveEvent \/ ReceiveReply
               \/ (\E m \in Messages : Say(m)) \/ (\E c \in Cancels : CancelTurn(c))
               \/ OpenDetail \/ CloseDetail \/ OtherEvent \/ PrepareHandoff \/ HandOff
      BY <2>3 DEF Connect, Retry, JoinReply, TakeOutbox, ReceiveEvent, ReceiveReply, Say, CancelTurn,
                  OpenDetail, CloseDetail, OtherEvent, PrepareHandoff, HandOff, server
    <2> QED BY <2>1, <2>2, <2>3 DEF Next, ClientStep, ServiceStep
  <1> QED BY <1>2, <1>3

\* With at most one handoff nothing more is needed: events are shown in order.
THEOREM OneHandoffShownInOrder ==
  ASSUME MaxHandoffs <= 1
  PROVE  Spec => []ShownInOrder
  <1>1. Base /\ [Next]_vars => [FollowsSuccessor]_vars
    BY OneHandoffFollows
  <1> QED BY <1>1, EventsShownInOrder, BaseInvariance, PTL DEF Spec
=============================================================================
