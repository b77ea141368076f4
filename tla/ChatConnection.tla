--------------------------- MODULE ChatConnection ---------------------------
(***************************************************************************)
(* The chat screen's connection (native/chat_client/src/connection.rs) and *)
(* the parts of its model it feeds, joined to the service's channel for    *)
(* the session (lib/shoestring_web/channels/chat_channel.ex).  Connections *)
(* are lost at any point; frames the client wrote before a loss may still  *)
(* reach the service, also after the client has reconnected.               *)
(*                                                                         *)
(* A conversation is a log of events numbered from 1; a handoff ends the   *)
(* current one and starts its successor.  An event batch is one event.     *)
(* Every frame of a connection carries the request it belongs to, so the   *)
(* refs and the table of pending requests are the frames themselves.       *)
(***************************************************************************)
EXTENDS Naturals, FiniteSets, SequencesExt

CONSTANTS
  Messages,     \* what the person says; a message is its message_id
  Cancels,      \* the times the person types /cancel
  MaxOther,     \* bound: cancels, details opened and events of turns, together
  MaxHandoffs,  \* bound: handoffs of the session
  MaxLosses     \* bound: connections lost

ASSUME BoundsAssumption ==
  MaxOther \in Nat /\ MaxHandoffs \in Nat /\ MaxLosses \in Nat
\* A message_id is drawn for one message and names nothing else.
ASSUME NamesAssumption == Messages \cap Cancels = {}

VARIABLES
  conn,       \* model.connection, "joining" and "waiting" told apart
  lastSeq,    \* model.last_sequence
  convId,     \* model.conversation_id, 0 for none
  shown,      \* what the screen shows: <<conversation, sequence>> of each event
  detail,     \* an open dispatch detail
  outbox,     \* the unbounded queue from the keys to the connection
  unsent,     \* messages not answered yet
  noted,      \* messages the person was told are not sent
  up, down,   \* frames of this connection, to and from the service
  late,       \* frames of earlier connections the service has yet to see
  channel,    \* the channel process of this connection
  mailbox,    \* its messages: ReadBacklog or a committed <<conversation, sequence>>
  log,        \* log[c]: the events of conversation c
  current,    \* the session's current conversation
  prepared,   \* its handoff is prepared and about to happen
  interrupts, \* interrupts[c]: how often /cancel number c reached the engine
  typed,      \* messages and cancels the person has submitted
  opens, others, losses   \* bounds only

client  == <<conn, lastSeq, convId, shown, detail, outbox, unsent, noted, typed>>
wire    == <<up, down, late>>
server  == <<channel, mailbox>>
session == <<log, current, prepared, interrupts>>
bounds  == <<opens, others, losses>>
vars == <<client, wire, server, session, bounds>>

None == [live |-> FALSE, conv |-> 0, last |-> 0, ready |-> FALSE, watching |-> FALSE]
Conversations == 1..(MaxHandoffs + 1)
\* The message the channel sends itself; no conversation is 0.
ReadBacklog == <<0, 0>>
Event(type, id) == [type |-> type, id |-> id]
Said(c) == {log[c][i].id : i \in {j \in 1..Len(log[c]) : log[c][j].type = "human"}}

Init ==
  /\ conn = "connecting" /\ lastSeq = 0 /\ convId = 0 /\ shown = <<>> /\ detail = FALSE
  /\ outbox = <<>> /\ unsent = <<>> /\ noted = {} /\ typed = {}
  /\ up = <<>> /\ down = <<>> /\ late = <<>>
  /\ channel = None /\ mailbox = <<>>
  /\ log = [c \in Conversations |-> IF c = 1 THEN <<Event("opened", 0)>> ELSE <<>>]
  /\ current = 1 /\ prepared = FALSE
  /\ interrupts = [c \in Cancels |-> 0]
  /\ opens = 0 /\ others = 0 /\ losses = 0
-----------------------------------------------------------------------------
(* The person *)

Queue(item) == outbox' = Append(outbox, item)
Present == conn \notin {"closed", "refused"}

Say(m) ==
  /\ Present /\ m \notin typed /\ typed' = typed \cup {m}
  /\ Queue([op |-> "say", id |-> m])
  /\ UNCHANGED <<conn, lastSeq, convId, shown, detail, unsent, noted, wire, server, session, bounds>>

HasOther == opens + others + Cardinality(typed \cap Cancels) < MaxOther

CancelTurn(c) ==
  /\ Present /\ c \notin typed /\ HasOther /\ typed' = typed \cup {c}
  /\ Queue([op |-> "cancel", id |-> c])
  /\ UNCHANGED <<conn, lastSeq, convId, shown, detail, unsent, noted, wire, server, session, bounds>>

\* Enter on a dispatch opens its detail and watches it; Escape closes it.
OpenDetail ==
  /\ Present /\ ~detail /\ HasOther /\ opens' = opens + 1
  /\ detail' = TRUE /\ Queue([op |-> "watch", id |-> 0])
  /\ UNCHANGED <<conn, lastSeq, convId, shown, unsent, noted, typed, wire, server, session,
                 others, losses>>

CloseDetail ==
  /\ Present /\ detail
  /\ detail' = FALSE /\ Queue([op |-> "unwatch", id |-> 0])
  /\ UNCHANGED <<conn, lastSeq, convId, shown, unsent, noted, typed, wire, server, session, bounds>>

\* The screen is left: the connection task ends and what it holds is dropped.
\* What the service still gets of it is of no concern here.
Leave ==
  /\ Present /\ conn' = "closed"
  /\ outbox' = <<>> /\ down' = <<>> /\ up' = <<>> /\ late' = <<>>
  /\ channel' = None /\ mailbox' = <<>>
  /\ UNCHANGED <<lastSeq, convId, shown, detail, unsent, noted, typed, session, bounds>>
-----------------------------------------------------------------------------
(* The connection task: run() and session() *)

\* The socket opens and the join names the last sequence and its conversation.
Connect ==
  /\ conn = "connecting" /\ conn' = "joining"
  /\ up' = <<[op |-> "join", id |-> 0, after |-> lastSeq, conv |-> convId]>>
  /\ UNCHANGED <<lastSeq, convId, shown, detail, outbox, unsent, noted, typed, down, late,
                 server, session, bounds>>

\* The connection cannot be opened or is lost; the service may still get any
\* part of what was written.
Lost ==
  /\ conn \in {"connecting", "joining", "live"} /\ losses < MaxLosses
  /\ losses' = losses + 1
  /\ conn' = "waiting"
  /\ \E n \in 0..Len(up) : late' = late \o SubSeq(up, 1, n)
  /\ up' = <<>> /\ down' = <<>> /\ channel' = None /\ mailbox' = <<>>
  /\ UNCHANGED <<lastSeq, convId, shown, detail, outbox, unsent, noted, typed, session,
                 opens, others>>

\* The service refuses the token or the session: retrying cannot help.
Refuse ==
  /\ conn \in {"connecting", "joining"} /\ conn' = "refused"
  /\ outbox' = <<>> /\ up' = <<>> /\ down' = <<>> /\ late' = <<>>
  /\ channel' = None /\ mailbox' = <<>>
  /\ UNCHANGED <<lastSeq, convId, shown, detail, unsent, noted, typed, session, bounds>>

\* The pause between two attempts.
Retry ==
  /\ conn = "waiting" /\ conn' = "connecting"
  /\ UNCHANGED <<lastSeq, convId, shown, detail, outbox, unsent, noted, typed, wire, server,
                 session, bounds>>

\* Mutant: the sequence of another conversation is kept.
MutJoinedKeeps(c) == lastSeq' = lastSeq /\ convId' = c

\* Model::joined: sequences count in the conversation they were seen in.
Joined(c) ==
  /\ lastSeq' = IF convId \notin {0, c} THEN 0 ELSE lastSeq
  /\ convId' = c

\* Mutant: what was not answered before the connection was lost is forgotten.
MutResendNothing == <<>>

\* What is sent again after a join: every unanswered message, never a cancel.
Resend == unsent

\* Mutant: a new channel is not told what was watched.
MutRewatchForgets == <<>>

\* The dispatch whose detail is open is watched again.
Rewatch == IF detail THEN <<[op |-> "watch", id |-> 0]>> ELSE <<>>

JoinReply ==
  /\ conn = "joining" /\ down # <<>> /\ Head(down).op = "joined"
  /\ Joined(Head(down).conv)
  /\ conn' = "live" /\ down' = Tail(down)
  /\ up' = up \o Resend \o Rewatch
  /\ UNCHANGED <<shown, detail, outbox, unsent, noted, typed, late, server, session, bounds>>

\* Mutant: a request is done with once it is written to the socket.
MutKeepsNothing(item) == FALSE

\* A request is taken from the queue; only a message is kept for a resend.
KeptForResend(item) == item.op = "say"

\* Mutant: a request is peeked at and removed later.
MutLeavesQueued == IF Len(up) < 2 THEN outbox ELSE Tail(outbox)

LeftInOutbox == Tail(outbox)

TakeOutbox ==
  /\ conn = "live" /\ outbox # <<>>
  /\ outbox' = LeftInOutbox
  /\ unsent' = IF KeptForResend(Head(outbox)) THEN Append(unsent, Head(outbox)) ELSE unsent
  /\ up' = Append(up, Head(outbox))
  /\ UNCHANGED <<conn, lastSeq, convId, shown, detail, noted, typed, down, late, server,
                 session, bounds>>

Receives(op) == conn = "live" /\ down # <<>> /\ Head(down).op = op /\ down' = Tail(down)

\* apply_events: a sequence already seen is dropped; handed_off starts the
\* count again in the successor.
ReceiveEvent ==
  /\ Receives("event")
  /\ LET frame == Head(down)
     IN IF frame.seq <= lastSeq THEN UNCHANGED <<lastSeq, convId, shown>>
        ELSE /\ shown' = Append(shown, <<frame.conv, frame.seq>>)
             /\ lastSeq' = IF frame.type = "handed_off" THEN 0 ELSE frame.seq
             /\ convId' = IF frame.type = "handed_off" THEN frame.conv + 1 ELSE convId
  /\ UNCHANGED <<conn, detail, outbox, unsent, noted, typed, up, late, server, session, bounds>>

\* reply: answered either way, the message is not sent again.  A message is
\* typed once, so it is kept at most once.
ReceiveReply ==
  /\ Receives("reply")
  /\ LET request == Head(down).of
     IN /\ unsent' = RemoveFirst(unsent, request)
        /\ noted' = IF Head(down).ok \/ request.op # "say" THEN noted ELSE noted \cup {request.id}
  /\ UNCHANGED <<conn, lastSeq, convId, shown, detail, outbox, typed, up, late, server, session,
                 bounds>>
-----------------------------------------------------------------------------
(* The channel of a connection *)

\* join: the current conversation, its events after the client's last one, or
\* all of them when the client names another conversation.
ServeJoin ==
  /\ up # <<>> /\ Head(up).op = "join" /\ up' = Tail(up)
  /\ channel' = [live |-> TRUE, conv |-> current, ready |-> FALSE, watching |-> FALSE,
                 last |-> IF Head(up).conv \in {0, current} THEN Head(up).after ELSE 0]
  /\ mailbox' = <<ReadBacklog>>
  /\ down' = Append(down, [op |-> "joined", conv |-> current])
  /\ UNCHANGED <<client, late, session, bounds>>

EventFrame(c, i) == [op |-> "event", conv |-> c, seq |-> i, type |-> log[c][i].type]

\* handle_info(:backlog): everything stored after the last event delivered.
Backlog ==
  /\ mailbox # <<>> /\ Head(mailbox) = ReadBacklog /\ mailbox' = Tail(mailbox)
  /\ LET c == channel.conv
         missing == Len(log[c]) - channel.last
     IN /\ down' = down \o [i \in 1..missing |-> EventFrame(c, channel.last + i)]
        /\ channel' = [channel EXCEPT !.last = Len(log[c]), !.ready = TRUE]
  /\ UNCHANGED <<client, up, late, session, bounds>>

\* A committed event: left to the backlog before it is out, skipped when
\* delivered, else pushed; handed_off moves on to the current conversation.
Committed ==
  /\ mailbox # <<>> /\ Head(mailbox) # ReadBacklog
  /\ LET c == Head(mailbox)[1]
         i == Head(mailbox)[2]
     IN IF ~channel.ready \/ c # channel.conv \/ i <= channel.last
        THEN mailbox' = Tail(mailbox) /\ UNCHANGED <<down, channel>>
        ELSE /\ down' = Append(down, EventFrame(c, i))
             /\ IF log[c][i].type = "handed_off"
                THEN /\ channel' = [channel EXCEPT !.conv = current, !.last = 0, !.ready = FALSE]
                     /\ mailbox' = Append(Tail(mailbox), ReadBacklog)
                ELSE /\ channel' = [channel EXCEPT !.last = i]
                     /\ mailbox' = Tail(mailbox)
  /\ UNCHANGED <<client, up, late, session, bounds>>

\* An event is appended to the current conversation and, once committed, sent
\* to the channel that follows it.
Commit(event, box) ==
  /\ log' = [log EXCEPT ![current] = Append(@, event)]
  /\ mailbox' = IF channel.live /\ channel.conv = current
                THEN Append(box, <<current, Len(log[current]) + 1>>) ELSE box

\* Engine.say: refused once the handoff is prepared, or at one of its limits
\* when the message is new; recorded once in a conversation.
Accepted(m, ok, box) ==
  IF prepared THEN ~ok /\ UNCHANGED log /\ mailbox' = box
  ELSE IF m \in Said(current) THEN ok /\ UNCHANGED log /\ mailbox' = box
  ELSE \/ ok /\ Commit(Event("human", m), box)
       \/ ~ok /\ UNCHANGED log /\ mailbox' = box

Handle(item, ok) ==
  \/ /\ item.op = "say" /\ Accepted(item.id, ok, mailbox)
     /\ UNCHANGED <<channel, interrupts>>
  \/ /\ item.op = "cancel" /\ ok
     /\ interrupts' = [interrupts EXCEPT ![item.id] = @ + 1]
     /\ UNCHANGED <<channel, log, mailbox>>

\* A request of this connection, and its reply.
Serve ==
  /\ channel.live /\ up # <<>> /\ Head(up).op # "join" /\ up' = Tail(up)
  /\ \E ok \in BOOLEAN :
       /\ \/ Handle(Head(up), ok)
          \/ /\ Head(up).op \in {"watch", "unwatch"} /\ ok
             /\ channel' = [channel EXCEPT !.watching = Head(up).op = "watch"]
             /\ UNCHANGED <<log, mailbox, interrupts>>
       /\ down' = Append(down, [op |-> "reply", of |-> Head(up), ok |-> ok])
  /\ UNCHANGED <<client, late, current, prepared, bounds>>

\* A request of an earlier connection: nobody reads its reply.
ServeLate ==
  /\ late # <<>> /\ late' = Tail(late)
  /\ \/ \E ok \in BOOLEAN : Handle(Head(late), ok)
     \/ Head(late).op \in {"join", "watch", "unwatch"}
        /\ UNCHANGED <<channel, log, mailbox, interrupts>>
  /\ UNCHANGED <<client, up, down, current, prepared, bounds>>

\* The engine: a turn's events, and a handoff in its two recorded steps.
OtherEvent ==
  /\ HasOther /\ others' = others + 1
  /\ Commit(Event("other", 0), mailbox)
  /\ UNCHANGED <<client, wire, channel, current, prepared, interrupts, opens, losses>>

PrepareHandoff ==
  /\ ~prepared /\ current <= MaxHandoffs /\ prepared' = TRUE
  /\ UNCHANGED <<client, wire, server, log, current, interrupts, bounds>>

HandOff ==
  /\ prepared /\ prepared' = FALSE /\ current' = current + 1
  /\ log' = [log EXCEPT ![current] = Append(@, Event("handed_off", 0)),
                        ![current + 1] = <<Event("opened", 0), Event("received", 0)>>]
  /\ mailbox' = IF channel.live /\ channel.conv = current
                THEN Append(mailbox, <<current, Len(log[current]) + 1>>) ELSE mailbox
  /\ UNCHANGED <<client, wire, channel, interrupts, bounds>>
-----------------------------------------------------------------------------
ClientStep == Connect \/ Retry \/ JoinReply \/ TakeOutbox \/ ReceiveEvent \/ ReceiveReply
ServiceStep == ServeJoin \/ Backlog \/ Committed \/ Serve \/ ServeLate \/ HandOff

Next ==
  \/ ClientStep \/ ServiceStep
  \/ (\E m \in Messages : Say(m)) \/ (\E c \in Cancels : CancelTurn(c))
  \/ OpenDetail \/ CloseDetail \/ Leave \/ Lost \/ Refuse
  \/ OtherEvent \/ PrepareHandoff

Spec == Init /\ [][Next]_vars

\* The client's task and the service keep running; the select loop and the
\* channel's mailbox starve none of their sources.  Losses are finite here,
\* and owe nothing; neither do the person and the engine's own events.
Fairness ==
  /\ WF_vars(Connect \/ Retry \/ JoinReply) /\ WF_vars(ReceiveEvent \/ ReceiveReply)
  /\ WF_vars(TakeOutbox)
  /\ WF_vars(ServeJoin \/ Serve) /\ WF_vars(Backlog \/ Committed)
  /\ WF_vars(ServeLate) /\ WF_vars(HandOff)
FairSpec == Spec /\ Fairness
-----------------------------------------------------------------------------
Requests == [op : {"say"}, id : Messages] \cup [op : {"cancel"}, id : Cancels]
            \cup [op : {"watch", "unwatch"}, id : {0}]

TypeOK ==
  /\ conn \in {"connecting", "joining", "live", "waiting", "refused",
              "closed"}
  /\ lastSeq \in Nat /\ convId \in 0..(MaxHandoffs + 1) /\ detail \in BOOLEAN
  /\ outbox \in Seq(Requests) /\ unsent \in Seq(Requests)
  /\ noted \subseteq Messages /\ typed \subseteq Messages \cup Cancels
  /\ channel \in [live : BOOLEAN, conv : 0..(MaxHandoffs + 1), last : Nat, ready : BOOLEAN,
                  watching : BOOLEAN]
  /\ current \in Conversations /\ prepared \in BOOLEAN
  /\ \A i \in 1..Len(unsent) : unsent[i].op = "say"

\* No message disappears: until the screen is left, each one submitted waits
\* in the queue, is kept for a resend, is recorded by the service or was
\* reported as not sent, whatever connections were lost in between.
NoSilentLoss ==
  Present => \A m \in typed \cap Messages :
    \/ [op |-> "say", id |-> m] \in ToSet(outbox) \cup ToSet(unsent)
    \/ m \in noted
    \/ \E c \in Conversations : m \in Said(c)

\* What the screen shows of each conversation is a prefix of its log: only what
\* was recorded, nothing missing before it, nothing twice, in order, over
\* reconnects, repeated backlogs and handoffs that happened while the client
\* was connected or away.
ShownInOrder ==
  \A p \in 1..Len(shown) :
    LET c == shown[p][1]
        n == shown[p][2]
    IN /\ c \in Conversations /\ n \in 1..Len(log[c])
       /\ \A q \in 1..(p - 1) : shown[q][1] = c => shown[q][2] < n
       /\ \A k \in 1..(n - 1) : \E q \in 1..(p - 1) : shown[q] = <<c, k>>

\* A cancel reaches the engine at most once: a second time it would interrupt
\* a turn the person did not mean.
CancelledOnce == \A c \in Cancels : interrupts[c] <= 1

\* When everything asked for has arrived, the service watches exactly the
\* dispatch whose detail is open.
WatchAgrees ==
  conn = "live" /\ outbox = <<>> /\ up = <<>> /\ channel.live => channel.watching = detail

\* Every part of the connection is of its type, cancels are never kept for a
\* resend, and the service watches what the screen shows.
ConnectionIsSound == TypeOK /\ WatchAgrees

\* Every message is answered: recorded or reported, and no longer resent.
SayIsAnswered ==
  \A m \in Messages :
    m \in typed ~> \/ ~Present
                   \/ /\ [op |-> "say", id |-> m] \notin ToSet(outbox) \cup ToSet(unsent)
                      /\ (m \in noted \/ \E c \in Conversations : m \in Said(c))

\* docs/chat-channel.md: a joined client gets the handed_off of the old
\* conversation, then its successor's events from the first, so the screen of
\* a client that stays comes to show what a handoff started.
FollowsHandoff ==
  \A c \in Conversations \ {1} :
    current = c ~> ~Present \/ <<c, 1>> \in ToSet(shown)

=============================================================================
