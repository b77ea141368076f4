----------------------- MODULE TrajectoryWriterProofs -----------------------
(***************************************************************************)
(* Machine-checked proofs about the append path, for every set of calls,   *)
(* keys and transactions, every retry bound and every number of writers.   *)
(* The argument: WriterInv is inductive (one step per action), it implies  *)
(* the safety invariants, and under it every step of the append path is an *)
(* EventLog step or leaves the rows alone.  Its second part is about what  *)
(* reads the log: the projection of it (HarnessProjector).                 *)
(***************************************************************************)
EXTENDS TrajectoryWriter, HarnessProjector, WellFoundedInduction, TLAPS

-----------------------------------------------------------------------------
(* The writer's queue                                                      *)

\* Appending a message adds exactly that call to the queue and keeps the
\* appends in it distinct if the call was not queued before.
LEMMA QueueAppend ==
  ASSUME NEW q \in Seq(Message), NEW m \in Message
  PROVE  /\ Append(q, m) \in Seq(Message)
         /\ Len(Append(q, m)) = Len(q) + 1
         /\ \A i \in 1..Len(q) : Append(q, m)[i] = q[i]
         /\ Append(q, m)[Len(q) + 1] = m
  OBVIOUS

\* Taking the head off shifts the rest by one.
LEMMA QueueTail ==
  ASSUME NEW q \in Seq(Message), q # <<>>
  PROVE  /\ Head(q) = q[1] /\ Head(q) \in Message
         /\ Tail(q) \in Seq(Message)
         /\ Len(Tail(q)) = Len(q) - 1 /\ Len(q) \in Nat /\ Len(q) >= 1
         /\ \A i \in 1..Len(Tail(q)) : Tail(q)[i] = q[i + 1]
  OBVIOUS

\* The empty queue is a queue.
LEMMA EmptyQueue == <<>> \in Seq(Message)
  OBVIOUS

\* A step that leaves the queue alone leaves the queued calls alone.
LEMMA MailSame ==
  ASSUME mailbox' = mailbox
  PROVE  /\ MailCalls' = MailCalls
         /\ QueueDistinct' <=> QueueDistinct
  BY DEF MailCalls, QueueDistinct

\* An emptied queue holds no call.
LEMMA MailEmpty ==
  ASSUME mailbox' = <<>>
  PROVE  /\ MailCalls' = {}
         /\ QueueDistinct'
  BY DEF MailCalls, QueueDistinct

\* The timer's message is not a call.
LEMMA MailIdle ==
  ASSUME mailbox \in Seq(Message), NEW t \in Nat, mailbox' = Append(mailbox, IdleMsg(t)),
         QueueDistinct
  PROVE  /\ MailCalls' = MailCalls
         /\ QueueDistinct'
  <1>1. IdleMsg(t) \in Message
    BY DEF IdleMsg, Message
  <1>2. /\ Len(mailbox') = Len(mailbox) + 1 /\ Len(mailbox) \in Nat
        /\ \A i \in 1..Len(mailbox) : mailbox'[i] = mailbox[i]
        /\ mailbox'[Len(mailbox) + 1] = IdleMsg(t)
    BY <1>1, QueueAppend
  <1>3. IdleMsg(t).type # "append"
    BY DEF IdleMsg
  <1>4. MailCalls' = MailCalls
    BY <1>2, <1>3 DEF MailCalls
  <1>5. QueueDistinct'
    BY <1>2, <1>3 DEF QueueDistinct
  <1> QED BY <1>4, <1>5

\* Queueing a call that is not queued.
LEMMA MailAppend ==
  ASSUME mailbox \in Seq(Message), NEW d \in Calls, mailbox' = Append(mailbox, Append1(d)),
         QueueDistinct, d \notin MailCalls
  PROVE  /\ MailCalls' = MailCalls \cup {d}
         /\ QueueDistinct'
  <1>1. Append1(d) \in Message
    BY DEF Append1, Message
  <1>2. /\ Len(mailbox') = Len(mailbox) + 1 /\ Len(mailbox) \in Nat
        /\ \A i \in 1..Len(mailbox) : mailbox'[i] = mailbox[i]
        /\ mailbox'[Len(mailbox) + 1] = Append1(d)
    BY <1>1, QueueAppend
  <1>3. Append1(d).type = "append" /\ Append1(d).call = d
    BY DEF Append1
  <1>4. MailCalls' = MailCalls \cup {d}
    BY <1>2, <1>3 DEF MailCalls
  <1>5. QueueDistinct'
    BY <1>2, <1>3 DEF QueueDistinct, MailCalls
  <1> QED BY <1>4, <1>5

\* Taking the head of the queue: its call, if it is one, is queued no longer.
LEMMA MailTail ==
  ASSUME mailbox \in Seq(Message), mailbox # <<>>, mailbox' = Tail(mailbox), QueueDistinct
  PROVE  /\ Head(mailbox) \in Message
         /\ Head(mailbox).type = "append" =>
              /\ Head(mailbox).call \in MailCalls
              /\ MailCalls' = MailCalls \ {Head(mailbox).call}
         /\ Head(mailbox).type # "append" => MailCalls' = MailCalls
         /\ QueueDistinct'
  <1>1. /\ Head(mailbox) = mailbox[1] /\ Head(mailbox) \in Message
        /\ Len(mailbox') = Len(mailbox) - 1 /\ Len(mailbox) \in Nat /\ Len(mailbox) >= 1
        /\ \A i \in 1..Len(mailbox') : mailbox'[i] = mailbox[i + 1]
    BY QueueTail
  <1>2. \A i \in 1..Len(mailbox) : mailbox[i] \in Message
    OBVIOUS
  <1>3. \A i, j \in 1..Len(mailbox) :
           mailbox[i].type = "append" /\ mailbox[j].type = "append"
             /\ mailbox[i].call = mailbox[j].call => mailbox[i] = mailbox[j]
    BY <1>2 DEF Message
  <1>4. Head(mailbox).type = "append" => Head(mailbox).call \in MailCalls
    BY <1>1 DEF MailCalls, Message
  <1>5. ASSUME NEW c \in MailCalls'
        PROVE  c \in MailCalls /\ ~(Head(mailbox).type = "append" /\ Head(mailbox).call = c)
    <2>1. PICK i \in 1..Len(mailbox') : mailbox'[i].type = "append" /\ mailbox'[i].call = c
      BY <1>5 DEF MailCalls
    <2>2. i + 1 \in 1..Len(mailbox) /\ mailbox'[i] = mailbox[i + 1] /\ i + 1 # 1
      BY <1>1, <2>1
    <2>3. c \in MailCalls
      BY <2>1, <2>2, <1>5 DEF MailCalls
    <2>4. ~(Head(mailbox).type = "append" /\ Head(mailbox).call = c)
      BY <1>1, <1>3, <2>1, <2>2 DEF QueueDistinct
    <2> QED BY <2>3, <2>4
  <1>6. ASSUME NEW c \in MailCalls, ~(Head(mailbox).type = "append" /\ Head(mailbox).call = c)
        PROVE  c \in MailCalls'
    <2>1. PICK i \in 1..Len(mailbox) : mailbox[i].type = "append" /\ mailbox[i].call = c
      BY <1>6 DEF MailCalls
    <2>2. i # 1
      BY <1>1, <1>6, <2>1
    <2>3. i - 1 \in 1..Len(mailbox') /\ mailbox'[i - 1] = mailbox[i]
      BY <1>1, <2>1, <2>2
    <2> QED BY <2>1, <2>3, <1>6 DEF MailCalls
  <1>7. QueueDistinct'
    BY <1>1 DEF QueueDistinct
  <1> QED BY <1>1, <1>4, <1>5, <1>6, <1>7

\* Only calls are queued.
LEMMA NoCallQueued == MailCalls \subseteq Calls /\ NoCall \notin MailCalls
  BY WriterAssumption DEF MailCalls

\* A reply keeps the types of what it writes.
LEMMA ReplyTypes ==
  ASSUME TypeOK, NEW r \in Results, Reply(r)
  PROVE  /\ st' \in [Calls -> CallStates] /\ result' \in [Calls -> Results]
         /\ current' \in Calls \cup {NoCall} /\ phase' \in Phases /\ retries' \in 0..MaxRetries
         /\ token' \in Nat /\ armed' \in BOOLEAN
         /\ UNCHANGED <<pid, attempt, reason>>
  <1>1. st' \in [Calls -> CallStates]
    BY DEF Reply, Finish, TypeOK, CallStates
  <1>2. result' \in [Calls -> Results]
    BY DEF Reply, Finish, TypeOK
  <1>3. current' \in Calls \cup {NoCall} /\ phase' \in Phases /\ retries' \in 0..MaxRetries
    BY WriterAssumption DEF Reply, NoAppend, Phases
  <1>4. token' \in Nat /\ armed' \in BOOLEAN
    BY DEF Reply, TypeOK
  <1> QED BY <1>1, <1>2, <1>3, <1>4 DEF Reply

-----------------------------------------------------------------------------
(* The transaction                                                         *)

\* A step that touches none of the database variables.
LEMMA DbSame ==
  ASSUME UNCHANGED dbVars
  PROVE  /\ Appended' = Appended
         /\ HeldKeys' = HeldKeys
         /\ StagedIsNext' <=> StagedIsNext
         /\ Dense' <=> Dense
         /\ KeysOfRows' <=> KeysOfRows
  BY DEF dbVars, Appended, HeldKeys, StagedIsNext, NextSequence, Dense, KeysOfRows

\* Taking the lock or giving it back with nothing staged.
LEMMA LockOnly ==
  ASSUME UNCHANGED rows, staged' = {}
  PROVE  /\ Appended' = Appended
         /\ HeldKeys' = HeldKeys
         /\ StagedIsNext'
         /\ Dense' <=> Dense
         /\ KeysOfRows' <=> KeysOfRows
  BY DEF Appended, HeldKeys, StagedIsNext, Dense, KeysOfRows

\* What a transaction stages is the next event of its call, or nothing because
\* the key has its event.
LEMMA AttemptStages ==
  ASSUME TypeOK, NEW c \in Calls, lock = c, TransactionAttempt(c), UNCHANGED <<rows, lock>>
  PROVE  /\ staged' \in SUBSET Row
         /\ StagedIsNext'
         /\ staged' = {} => KeyOf[c] \in HeldKeys'
         /\ Appended' = Appended
         /\ HeldKeys' = HeldKeys
         /\ Dense' <=> Dense
         /\ KeysOfRows' <=> KeysOfRows
  <1>1. /\ Appended' = Appended
        /\ HeldKeys' = HeldKeys
        /\ \A n : NextSequence(n)' <=> NextSequence(n)
        /\ Dense' <=> Dense
        /\ KeysOfRows' <=> KeysOfRows
    BY DEF Appended, HeldKeys, NextSequence, Dense, KeysOfRows
  <1>e. ExistingEvent(c) = {} <=> KeyOf[c] \notin HeldKeys
    BY DEF ExistingEvent, HeldKeys
  <1>2. CASE ExistingEvent(c) # {}
    <2>1. staged' = {}
      BY <1>2 DEF TransactionAttempt
    <2> QED BY <1>1, <1>2, <1>e, <2>1 DEF StagedIsNext
  <1>3. CASE ExistingEvent(c) = {}
    <2>1. PICK n \in {1} \cup {r.seq + 1 : r \in rows} :
             /\ NextSequence(n)
             /\ staged' = {[seq |-> n, key |-> KeyOf[c], call |-> c]}
      BY <1>3 DEF TransactionAttempt
    <2>2. n \in Nat \ {0}
      BY <2>1 DEF TypeOK, Row
    <2>3. [seq |-> n, key |-> KeyOf[c], call |-> c] \in Row
      BY <2>2, WriterAssumption DEF Row
    <2>4. StagedIsNext'
      BY <1>1, <1>3, <1>e, <2>1 DEF StagedIsNext
    <2> QED BY <1>1, <2>1, <2>3, <2>4
  <1> QED BY <1>2, <1>3

\* The commit of a call: the log stays dense, only that call gains an event,
\* and the step is an append of the abstract log or leaves it alone.
LEMMA CommitAppends ==
  ASSUME TypeOK, StagedIsNext, Dense, KeysOfRows, NEW c \in Calls, lock = c,
         c \notin Appended, Commit
  PROVE  /\ rows' \in SUBSET Row /\ inbox' \in SUBSET Nat /\ staged' = {}
         /\ Dense' /\ KeysOfRows' /\ StagedIsNext'
         /\ Appended' = IF staged = {} THEN Appended ELSE Appended \cup {c}
         /\ HeldKeys \subseteq HeldKeys'
         /\ Log!LogAppend(lock) \/ UNCHANGED rows
  <1>1. rows' \in SUBSET Row /\ inbox' \in SUBSET Nat /\ staged' = {}
        /\ HeldKeys \subseteq HeldKeys'
    BY DEF TypeOK, Commit, Row, ExistingEvent, HeldKeys
  <1>2. StagedIsNext'
    BY <1>1 DEF StagedIsNext
  <1>3. CASE staged = {}
    <2>1. rows' = rows
      BY <1>3 DEF Commit
    <2>2. Dense' /\ KeysOfRows'
      BY <2>1 DEF Dense, KeysOfRows
    <2>3. Appended' = Appended
      BY <2>1 DEF Appended
    <2> QED BY <1>1, <1>2, <1>3, <2>1, <2>2, <2>3
  <1>4. CASE staged # {}
    <2>1. PICK r \in staged : TRUE
      BY <1>4
    <2>2. /\ staged = {r} /\ r \in Row
          /\ r.call = lock /\ r.key = KeyOf[lock]
          /\ KeyOf[lock] \notin HeldKeys /\ NextSequence(r.seq)
      BY <2>1 DEF StagedIsNext, TypeOK
    <2>3. rows' = rows \cup {r}
      BY <2>2 DEF Commit
    <2>4. PICK m \in {0} \cup {q.seq : q \in rows} :
             r.seq = m + 1 /\ \A q \in rows : q.seq <= m
      BY <2>2 DEF NextSequence
    <2>5. PICK n \in {0} \cup {q.seq : q \in rows} : {q.seq : q \in rows} = 1..n
      BY DEF Dense
    <2>6. m \in Nat /\ n \in Nat
      BY <2>4, <2>5 DEF TypeOK, Row
    <2>7. m = n
      <3>1. \A k \in 1..n : k <= m
        BY <2>4, <2>5
      <3>2. m = 0 \/ m \in 1..n
        BY <2>4, <2>5
      <3> QED BY <2>6, <3>1, <3>2
    <2>8. {q.seq : q \in rows'} = 1..(n + 1)
      <3>1. {q.seq : q \in rows'} = {q.seq : q \in rows} \cup {r.seq}
        BY <2>3
      <3>2. 1..(n + 1) = (1..n) \cup {n + 1}
        BY <2>6
      <3> QED BY <2>4, <2>5, <2>7, <3>1, <3>2
    <2>9. n + 1 \in {q.seq : q \in rows'}
      BY <2>3, <2>4, <2>7
    <2>10. Dense'
      BY <2>8, <2>9 DEF Dense
    <2>11. KeysOfRows'
      BY <2>2, <2>3 DEF KeysOfRows
    <2>12. Appended' = Appended \cup {c}
      BY <2>2, <2>3 DEF Appended
    <2>13. r = [seq |-> n + 1, key |-> KeyOf[lock], call |-> lock]
      BY <2>2, <2>4, <2>7 DEF Row
    <2>14. KeyOf[lock] # NoKey => \A q \in rows : q.key # KeyOf[lock]
      BY <2>2 DEF HeldKeys
    <2>15. Log!LogAppend(lock)
      BY <2>3, <2>5, <2>13, <2>14 DEF Log!LogAppend, Appended
    <2> QED BY <1>1, <1>2, <1>4, <2>10, <2>11, <2>12, <2>15
  <1> QED BY <1>3, <1>4

-----------------------------------------------------------------------------
(* One step per action, and under it one per part of the invariant         *)

\* RejectInput preserves the inductive invariant.
LEMMA RejectInputKeeps ==
  ASSUME WriterInv, NEW c \in Calls, RejectInput(c)
  PROVE  WriterInv'
  <1> USE WriterAssumption DEF WriterInv
  <1>m. MailCalls' = MailCalls /\ QueueDistinct'
    BY MailSame DEF RejectInput, writerVars, work
  <1>d. /\ Appended' = Appended /\ HeldKeys' = HeldKeys
        /\ StagedIsNext' /\ Dense' /\ KeysOfRows'
    BY DbSame DEF RejectInput, dbVars
  <1>1. TypeOK'
    BY <1>m, <1>d DEF RejectInput, Finish, TypeOK, Phases, CallStates, ExitReasons, Results,
           Message, dbVars, work, writerVars, callVars
  <1>2. Locking' /\ NothingStaged' /\ Paths'
    BY <1>m, <1>d DEF RejectInput, Finish, dbVars, work, writerVars, callVars, TypeOK, Locking,
           Untried, InHand, Untouched, NothingStaged, Paths
  <1>3. Untried' /\ Vanished' /\ Queued'
    BY <1>m, <1>d DEF RejectInput, Finish, dbVars, work, writerVars, callVars, TypeOK, Untried,
           Vanished, Queued, InHand, Locking, Untouched, Waiting, WriterDisappeared, Message
  <1>4. Waiting' /\ InHand'
    BY <1>m, <1>d DEF RejectInput, Finish, dbVars, work, writerVars, callVars, TypeOK, Waiting,
           Queued, InHand, Message, Untouched, Untried, Locking
  <1>5. Answered'
    BY <1>m, <1>d DEF RejectInput, Finish, dbVars, work, writerVars, callVars, TypeOK, Answered,
           DefiniteFailures, Vanished, Queued, Untried, InHand, Locking, WriterDisappeared,
           Message, Untouched
  <1> QED BY <1>m, <1>d, <1>1, <1>2, <1>3, <1>4, <1>5

\* EnsureStarted preserves the inductive invariant.
LEMMA EnsureStartedKeeps ==
  ASSUME WriterInv, NEW c \in Calls, EnsureStarted(c)
  PROVE  WriterInv'
  <1> USE WriterAssumption DEF WriterInv
  <1>m. MailCalls' = MailCalls /\ QueueDistinct'
    <2>1. CASE mailbox' = mailbox
      BY <2>1, MailSame
    <2>2. CASE ~alive /\ mailbox' = <<>>
      BY <2>2, MailEmpty DEF Queued
    <2> QED BY <2>1, <2>2 DEF EnsureStarted, writerVars
  <1>d. /\ Appended' = Appended /\ HeldKeys' = HeldKeys
        /\ StagedIsNext' /\ Dense' /\ KeysOfRows'
    BY DbSame DEF EnsureStarted, dbVars
  <1>1. TypeOK'
    <2>1. mailbox' \in Seq(Message)
      BY EmptyQueue DEF EnsureStarted, writerVars, TypeOK
    <2>2. current' \in Calls \cup {NoCall} /\ phase' \in Phases /\ retries' \in 0..MaxRetries
      BY DEF EnsureStarted, NoAppend, TypeOK, Phases, writerVars, work
    <2>3. /\ spawned' \in Nat /\ token' \in Nat /\ alive' \in BOOLEAN /\ armed' \in BOOLEAN
      <3>1. CASE UNCHANGED writerVars
        BY <3>1 DEF TypeOK, writerVars
      <3>2. CASE spawned' = spawned + 1 /\ alive' = TRUE /\ token' = 0 /\ armed' = TRUE
        BY <3>2 DEF TypeOK
      <3> QED BY <3>1, <3>2 DEF EnsureStarted
    <2>4. pid' \in [Calls -> Nat]
      <3>1. spawned \in Nat /\ spawned + 1 \in Nat /\ pid \in [Calls -> Nat]
        BY DEF TypeOK
      <3> QED BY <3>1 DEF EnsureStarted
    <2>5. st' \in [Calls -> CallStates]
      BY DEF EnsureStarted, TypeOK, CallStates
    <2> QED BY <2>1, <2>2, <2>3, <2>4, <2>5 DEF EnsureStarted, TypeOK, dbVars
  <1>2. Locking' /\ NothingStaged' /\ Paths'
    BY <1>m, <1>d DEF EnsureStarted, NoAppend, dbVars, work, writerVars, callVars, TypeOK, Locking,
           Untried, InHand, Untouched, NothingStaged, Paths
  <1>3. Untried' /\ Vanished' /\ Queued'
    BY <1>m, <1>d DEF EnsureStarted, NoAppend, dbVars, work, writerVars, callVars, TypeOK, Untried,
           Vanished, Queued, InHand, Locking, Untouched, Waiting, WriterDisappeared, Message
  <1>4. Waiting' /\ InHand'
    BY <1>m, <1>d DEF EnsureStarted, NoAppend, dbVars, work, writerVars, callVars, TypeOK, Waiting,
           Queued, InHand, Message, Untouched, Untried, Locking
  <1>5. Answered'
    BY <1>m, <1>d DEF EnsureStarted, NoAppend, dbVars, work, writerVars, callVars, TypeOK,
           Answered, DefiniteFailures, Vanished, Queued, Untried, InHand, Locking,
           WriterDisappeared, Message, Untouched
  <1> QED BY <1>m, <1>d, <1>1, <1>2, <1>3, <1>4, <1>5

\* StartFails preserves the inductive invariant.
LEMMA StartFailsKeeps ==
  ASSUME WriterInv, NEW c \in Calls, StartFails(c)
  PROVE  WriterInv'
  <1> USE WriterAssumption DEF WriterInv
  <1>m. MailCalls' = MailCalls /\ QueueDistinct'
    BY MailSame DEF StartFails, writerVars, work
  <1>d. /\ Appended' = Appended /\ HeldKeys' = HeldKeys
        /\ StagedIsNext' /\ Dense' /\ KeysOfRows'
    BY DbSame DEF StartFails, dbVars
  <1>1. TypeOK'
    BY <1>m, <1>d DEF StartFails, Finish, TypeOK, Phases, CallStates, ExitReasons, Results,
           Message, dbVars, work, writerVars, callVars
  <1>2. Locking' /\ NothingStaged' /\ Paths'
    BY <1>m, <1>d DEF StartFails, Finish, dbVars, work, writerVars, callVars, TypeOK, Locking,
           Untried, InHand, Untouched, NothingStaged, Paths
  <1>3. Untried' /\ Vanished' /\ Queued'
    BY <1>m, <1>d DEF StartFails, Finish, dbVars, work, writerVars, callVars, TypeOK, Untried,
           Vanished, Queued, InHand, Locking, Untouched, Waiting, WriterDisappeared, Message
  <1>4. Waiting' /\ InHand'
    BY <1>m, <1>d DEF StartFails, Finish, dbVars, work, writerVars, callVars, TypeOK, Waiting,
           Queued, InHand, Message, Untouched, Untried, Locking
  <1>5. Answered'
    BY <1>m, <1>d DEF StartFails, Finish, dbVars, work, writerVars, callVars, TypeOK, Answered,
           DefiniteFailures, Vanished, Queued, Untried, InHand, Locking, WriterDisappeared,
           Message, Untouched
  <1> QED BY <1>m, <1>d, <1>1, <1>2, <1>3, <1>4, <1>5

\* DispatchAppend preserves the inductive invariant.
LEMMA DispatchAppendKeeps ==
  ASSUME WriterInv, NEW c \in Calls, DispatchAppend(c)
  PROVE  WriterInv'
  <1> USE WriterAssumption DEF WriterInv
  <1>m. /\ MailCalls' = IF alive /\ pid[c] = spawned THEN MailCalls \cup {c} ELSE MailCalls
        /\ QueueDistinct' /\ mailbox' \in Seq(Message)
    <2>1. CASE alive /\ pid[c] = spawned
      <3>1. mailbox' = Append(mailbox, Append1(c)) /\ Append1(c) \in Message /\ c \notin MailCalls
        BY <2>1 DEF DispatchAppend, Append1, Message, Untried, Untouched
      <3>2. mailbox' \in Seq(Message)
        BY <3>1, QueueAppend DEF TypeOK
      <3> QED BY <2>1, <3>1, <3>2, MailAppend DEF TypeOK
    <2>2. CASE ~(alive /\ pid[c] = spawned)
      BY <2>2, MailSame DEF DispatchAppend, TypeOK
    <2> QED BY <2>1, <2>2
  <1>d. /\ Appended' = Appended /\ HeldKeys' = HeldKeys
        /\ StagedIsNext' /\ Dense' /\ KeysOfRows'
    BY DbSame DEF DispatchAppend, dbVars
  <1>1. TypeOK'
    BY <1>m, <1>d DEF DispatchAppend, TypeOK, Phases, CallStates, ExitReasons, Results, Message,
           dbVars, work, writerVars, callVars
  <1>2. Locking' /\ NothingStaged' /\ Paths'
    BY <1>m, <1>d DEF DispatchAppend, dbVars, work, writerVars, callVars, TypeOK, Locking, Untried,
           InHand, Untouched, NothingStaged, Paths
  <1>3. Untried' /\ Vanished' /\ Queued'
    BY <1>m, <1>d DEF DispatchAppend, dbVars, work, writerVars, callVars, TypeOK, Untried,
           Vanished, Queued, InHand, Locking, Untouched, Waiting, WriterDisappeared, Message
  <1>4. Waiting' /\ InHand'
    BY <1>m, <1>d DEF DispatchAppend, dbVars, work, writerVars, callVars, TypeOK, Waiting, Queued,
           InHand, Message, Untouched, Untried, Locking
  <1>5. Answered'
    BY <1>m, <1>d DEF DispatchAppend, dbVars, work, writerVars, callVars, TypeOK, Answered,
           DefiniteFailures, Vanished, Queued, Untried, InHand, Locking, WriterDisappeared,
           Message, Untouched
  <1> QED BY <1>m, <1>d, <1>1, <1>2, <1>3, <1>4, <1>5

\* CallTimeout preserves the inductive invariant.
LEMMA CallTimeoutKeeps ==
  ASSUME WriterInv, NEW c \in Calls, CallTimeout(c)
  PROVE  WriterInv'
  <1> USE WriterAssumption DEF WriterInv
  <1>m. MailCalls' = MailCalls /\ QueueDistinct'
    BY MailSame DEF CallTimeout, writerVars, work
  <1>d. /\ Appended' = Appended /\ HeldKeys' = HeldKeys
        /\ StagedIsNext' /\ Dense' /\ KeysOfRows'
    BY DbSame DEF CallTimeout, dbVars
  <1>1. TypeOK'
    BY <1>m, <1>d DEF CallTimeout, TypeOK, Phases, CallStates, ExitReasons, Results, Message,
           dbVars, work, writerVars, callVars
  <1>2. Locking' /\ NothingStaged' /\ Paths'
    BY <1>m, <1>d DEF CallTimeout, dbVars, work, writerVars, callVars, TypeOK, Locking, Untried,
           InHand, Untouched, NothingStaged, Paths
  <1>3. Untried' /\ Vanished' /\ Queued'
    BY <1>m, <1>d DEF CallTimeout, dbVars, work, writerVars, callVars, TypeOK, Untried, Vanished,
           Queued, InHand, Locking, Untouched, Waiting, WriterDisappeared, Message
  <1>4. Waiting' /\ InHand'
    BY <1>m, <1>d DEF CallTimeout, dbVars, work, writerVars, callVars, TypeOK, Waiting, Queued,
           InHand, Message, Untouched, Untried, Locking
  <1>5. Answered'
    BY <1>m, <1>d DEF CallTimeout, dbVars, work, writerVars, callVars, TypeOK, Answered,
           DefiniteFailures, Vanished, Queued, Untried, InHand, Locking, WriterDisappeared,
           Message, Untouched
  <1> QED BY <1>m, <1>d, <1>1, <1>2, <1>3, <1>4, <1>5

\* RecoverWriterExit preserves the inductive invariant.
LEMMA RecoverWriterExitKeeps ==
  ASSUME WriterInv, NEW c \in Calls, RecoverWriterExit(c)
  PROVE  WriterInv'
  <1> USE WriterAssumption DEF WriterInv
  <1>m. MailCalls' = MailCalls /\ QueueDistinct'
    BY MailSame DEF RecoverWriterExit, writerVars, work
  <1>d. /\ Appended' = Appended /\ HeldKeys' = HeldKeys
        /\ StagedIsNext' /\ Dense' /\ KeysOfRows'
    BY DbSame DEF RecoverWriterExit, dbVars
  <1>1. TypeOK'
    BY <1>m, <1>d DEF RecoverWriterExit, Finish, AmbiguousWriterExit, WriterDisappeared, TypeOK,
           Phases, CallStates, ExitReasons, Results, Message, dbVars, work, writerVars, callVars
  <1>2. Locking' /\ NothingStaged' /\ Paths'
    BY <1>m, <1>d DEF RecoverWriterExit, Finish, AmbiguousWriterExit, WriterDisappeared, dbVars,
           work, writerVars, callVars, TypeOK, Locking, Untried, InHand, Untouched, NothingStaged,
           Paths
  <1>3. Untried' /\ Vanished' /\ Queued'
    BY <1>m, <1>d DEF RecoverWriterExit, Finish, AmbiguousWriterExit, WriterDisappeared, dbVars,
           work, writerVars, callVars, TypeOK, Untried, Vanished, Queued, InHand, Locking,
           Untouched, Waiting, Message
  <1>4. Waiting' /\ InHand'
    BY <1>m, <1>d DEF RecoverWriterExit, Finish, AmbiguousWriterExit, WriterDisappeared, dbVars,
           work, writerVars, callVars, TypeOK, Waiting, Queued, InHand, Message, Untouched,
           Untried, Locking
  <1>5. Answered'
    BY <1>m, <1>d DEF RecoverWriterExit, Finish, AmbiguousWriterExit, WriterDisappeared, dbVars,
           work, writerVars, callVars, TypeOK, Answered, DefiniteFailures, Vanished, Queued,
           Untried, InHand, Locking, Message, Untouched
  <1> QED BY <1>m, <1>d, <1>1, <1>2, <1>3, <1>4, <1>5

\* TransactionRequired preserves the inductive invariant.
LEMMA TransactionRequiredKeeps ==
  ASSUME WriterInv, NEW c \in Calls, TransactionRequired(c)
  PROVE  WriterInv'
  <1> USE WriterAssumption DEF WriterInv
  <1>m. MailCalls' = MailCalls /\ QueueDistinct'
    BY MailSame DEF TransactionRequired, writerVars, work
  <1>d. /\ Appended' = Appended /\ HeldKeys' = HeldKeys
        /\ StagedIsNext' /\ Dense' /\ KeysOfRows'
    BY DbSame DEF TransactionRequired, dbVars
  <1>1. TypeOK'
    BY <1>m, <1>d DEF TransactionRequired, Finish, TypeOK, Phases, CallStates, ExitReasons,
           Results, Message, dbVars, work, writerVars, callVars
  <1>2. Locking' /\ NothingStaged' /\ Paths'
    BY <1>m, <1>d DEF TransactionRequired, Finish, dbVars, work, writerVars, callVars, TypeOK,
           Locking, Untried, InHand, Untouched, NothingStaged, Paths
  <1>3. Untried' /\ Vanished' /\ Queued'
    BY <1>m, <1>d DEF TransactionRequired, Finish, dbVars, work, writerVars, callVars, TypeOK,
           Untried, Vanished, Queued, InHand, Locking, Untouched, Waiting, WriterDisappeared,
           Message
  <1>4. Waiting' /\ InHand'
    BY <1>m, <1>d DEF TransactionRequired, Finish, dbVars, work, writerVars, callVars, TypeOK,
           Waiting, Queued, InHand, Message, Untouched, Untried, Locking
  <1>5. Answered'
    BY <1>m, <1>d DEF TransactionRequired, Finish, dbVars, work, writerVars, callVars, TypeOK,
           Answered, DefiniteFailures, Vanished, Queued, Untried, InHand, Locking,
           WriterDisappeared, Message, Untouched
  <1> QED BY <1>m, <1>d, <1>1, <1>2, <1>3, <1>4, <1>5

\* TxnBegin preserves the inductive invariant.
LEMMA TxnBeginKeeps ==
  ASSUME WriterInv, NEW c \in Calls, TxnBegin(c)
  PROVE  WriterInv'
  <1> USE WriterAssumption DEF WriterInv
  <1>m. MailCalls' = MailCalls /\ QueueDistinct'
    BY MailSame DEF TxnBegin, writerVars, work
  <1>d. /\ Appended' = Appended /\ HeldKeys' = HeldKeys
        /\ StagedIsNext' /\ Dense' /\ KeysOfRows'
    BY LockOnly DEF TxnBegin, Locking
  <1>1. TypeOK'
    BY <1>m, <1>d DEF TxnBegin, TypeOK, Phases, CallStates, ExitReasons, Results, Message, dbVars,
           work, writerVars, callVars
  <1>2. Locking' /\ NothingStaged' /\ Paths'
    BY <1>m, <1>d DEF TxnBegin, dbVars, work, writerVars, callVars, TypeOK, Locking, Untried,
           InHand, Untouched, NothingStaged, Paths
  <1>3. Untried' /\ Vanished' /\ Queued'
    BY <1>m, <1>d DEF TxnBegin, dbVars, work, writerVars, callVars, TypeOK, Untried, Vanished,
           Queued, InHand, Locking, Untouched, Waiting, WriterDisappeared, Message
  <1>4. Waiting' /\ InHand'
    BY <1>m, <1>d DEF TxnBegin, dbVars, work, writerVars, callVars, TypeOK, Waiting, Queued,
           InHand, Message, Untouched, Untried, Locking
  <1>5. Answered'
    BY <1>m, <1>d DEF TxnBegin, dbVars, work, writerVars, callVars, TypeOK, Answered,
           DefiniteFailures, Vanished, Queued, Untried, InHand, Locking, WriterDisappeared,
           Message, Untouched
  <1> QED BY <1>m, <1>d, <1>1, <1>2, <1>3, <1>4, <1>5

\* TxnAppend preserves the inductive invariant.
LEMMA TxnAppendKeeps ==
  ASSUME WriterInv, NEW c \in Calls, TxnAppend(c)
  PROVE  WriterInv'
  <1> USE WriterAssumption DEF WriterInv
  <1>m. MailCalls' = MailCalls /\ QueueDistinct'
    BY MailSame DEF TxnAppend, writerVars, work
  <1>d. /\ staged' \in SUBSET Row
        /\ staged' = {} => KeyOf[c] \in HeldKeys'
        /\ Appended' = Appended /\ HeldKeys' = HeldKeys
        /\ StagedIsNext' /\ Dense' /\ KeysOfRows'
    BY AttemptStages DEF TxnAppend, Locking, TypeOK, InHand
  <1>1. TypeOK'
    BY <1>m, <1>d DEF TxnAppend, TypeOK, Phases, CallStates, ExitReasons, Results, Message, dbVars,
           work, writerVars, callVars
  <1>2. Locking' /\ NothingStaged' /\ Paths'
    BY <1>m, <1>d DEF TxnAppend, dbVars, work, writerVars, callVars, TypeOK, Locking, Untried,
           InHand, Untouched, NothingStaged, Paths
  <1>3. Untried' /\ Vanished' /\ Queued'
    BY <1>m, <1>d DEF TxnAppend, dbVars, work, writerVars, callVars, TypeOK, Untried, Vanished,
           Queued, InHand, Locking, Untouched, Waiting, WriterDisappeared, Message
  <1>4. Waiting' /\ InHand'
    BY <1>m, <1>d DEF TxnAppend, dbVars, work, writerVars, callVars, TypeOK, Waiting, Queued,
           InHand, Message, Untouched, Untried, Locking
  <1>5. Answered'
    BY <1>m, <1>d DEF TxnAppend, dbVars, work, writerVars, callVars, TypeOK, Answered,
           DefiniteFailures, Vanished, Queued, Untried, InHand, Locking, WriterDisappeared,
           Message, Untouched
  <1> QED BY <1>m, <1>d, <1>1, <1>2, <1>3, <1>4, <1>5

\* TxnCommit preserves the inductive invariant.
LEMMA TxnCommitKeeps ==
  ASSUME WriterInv, NEW c \in Calls, TxnCommit(c)
  PROVE  WriterInv'
  <1> USE WriterAssumption DEF WriterInv
  <1>m. MailCalls' = MailCalls /\ QueueDistinct'
    BY MailSame DEF TxnCommit, writerVars, work
  <1>d. /\ rows' \in SUBSET Row /\ inbox' \in SUBSET Nat /\ staged' = {}
        /\ StagedIsNext' /\ Dense' /\ KeysOfRows'
        /\ Appended' = IF staged = {} THEN Appended ELSE Appended \cup {c}
        /\ HeldKeys \subseteq HeldKeys'
    <2>1. lock = c /\ c \notin Appended /\ Commit
      BY DEF TxnCommit, Locking, TypeOK, InHand, Untried, Untouched, Phases
    <2> QED BY <2>1, CommitAppends
  <1>1. TypeOK'
    BY <1>m, <1>d DEF TxnCommit, Finish, Commit, TypeOK, Phases, CallStates, ExitReasons, Results,
           Message, dbVars, work, writerVars, callVars
  <1>2. Locking' /\ NothingStaged' /\ Paths'
    BY <1>m, <1>d DEF TxnCommit, Finish, Commit, dbVars, work, writerVars, callVars, TypeOK,
           Locking, Untried, InHand, Untouched, NothingStaged, Paths
  <1>3. Untried' /\ Vanished' /\ Queued'
    BY <1>m, <1>d DEF TxnCommit, Finish, Commit, dbVars, work, writerVars, callVars, TypeOK,
           Untried, Vanished, Queued, InHand, Locking, Untouched, Waiting, WriterDisappeared,
           Message
  <1>4. Waiting' /\ InHand'
    BY <1>m, <1>d DEF TxnCommit, Finish, Commit, dbVars, work, writerVars, callVars, TypeOK,
           Waiting, Queued, InHand, Message, Untouched, Untried, Locking
  <1>5. Answered'
    <2>1. staged = {} => KeyOf[c] \in HeldKeys' /\ c \notin Appended'
      BY <1>d DEF NothingStaged, TxnCommit, Untried, Untouched
    <2>2. \A x \in Calls \ {c} : result'[x] = result[x] /\ st'[x] = st[x]
                                 /\ (x \in Appended' <=> x \in Appended)
      BY <1>d DEF TxnCommit, Finish, TypeOK
    <2>3. /\ result'[c] = (IF staged = {} THEN "duplicate" ELSE "ok") /\ st'[c] = "done"
          /\ current' = current
      BY DEF TxnCommit, Finish, TypeOK, writerVars, work
    <2>4. c \notin MailCalls /\ current # c
      BY DEF TxnCommit, Untried, Untouched
    <2>5. \A x \in Calls \ {c} : Untouched(x) => Untouched(x)'
      BY <1>m, <2>2, <2>3 DEF Untouched
    <2>6. staged = {} => Untouched(c)'
      BY <1>m, <2>1, <2>3, <2>4 DEF Untouched
    <2> QED BY <1>d, <2>1, <2>2, <2>3, <2>5, <2>6 DEF Answered, DefiniteFailures
  <1> QED BY <1>m, <1>d, <1>1, <1>2, <1>3, <1>4, <1>5

\* TxnRollback preserves the inductive invariant.
LEMMA TxnRollbackKeeps ==
  ASSUME WriterInv, NEW c \in Calls, TxnRollback(c)
  PROVE  WriterInv'
  <1> USE WriterAssumption DEF WriterInv
  <1>m. MailCalls' = MailCalls /\ QueueDistinct'
    BY MailSame DEF TxnRollback, writerVars, work
  <1>d. /\ Appended' = Appended /\ HeldKeys' = HeldKeys
        /\ StagedIsNext' /\ Dense' /\ KeysOfRows'
    BY LockOnly DEF TxnRollback, Locking, Rollback
  <1>1. TypeOK'
    BY <1>m, <1>d DEF TxnRollback, Finish, Rollback, TypeOK, Phases, CallStates, ExitReasons,
           Results, Message, dbVars, work, writerVars, callVars
  <1>2. Locking' /\ NothingStaged' /\ Paths'
    BY <1>m, <1>d DEF TxnRollback, Finish, Rollback, dbVars, work, writerVars, callVars, TypeOK,
           Locking, Untried, InHand, Untouched, NothingStaged, Paths
  <1>3. Untried' /\ Vanished' /\ Queued'
    BY <1>m, <1>d DEF TxnRollback, Finish, Rollback, dbVars, work, writerVars, callVars, TypeOK,
           Untried, Vanished, Queued, InHand, Locking, Untouched, Waiting, WriterDisappeared,
           Message
  <1>4. Waiting' /\ InHand'
    BY <1>m, <1>d DEF TxnRollback, Finish, Rollback, dbVars, work, writerVars, callVars, TypeOK,
           Waiting, Queued, InHand, Message, Untouched, Untried, Locking
  <1>5. Answered'
    BY <1>m, <1>d DEF TxnRollback, Finish, Rollback, dbVars, work, writerVars, callVars, TypeOK,
           Answered, DefiniteFailures, Vanished, Queued, Untried, InHand, Locking,
           WriterDisappeared, Message, Untouched
  <1> QED BY <1>m, <1>d, <1>1, <1>2, <1>3, <1>4, <1>5

\* TakeAppend preserves the inductive invariant.
LEMMA TakeAppendKeeps ==
  ASSUME WriterInv, TakeAppend
  PROVE  WriterInv'
  <1> USE WriterAssumption DEF WriterInv
  <1>m. /\ Head(mailbox) \in Message
        /\ Head(mailbox).type = "append" =>
             /\ Head(mailbox).call \in MailCalls
             /\ MailCalls' = MailCalls \ {Head(mailbox).call}
        /\ Head(mailbox).type # "append" => MailCalls' = MailCalls
        /\ QueueDistinct' /\ mailbox' \in Seq(Message)
    BY MailTail, QueueTail DEF TakeAppend, TypeOK
  <1>d. /\ Appended' = Appended /\ HeldKeys' = HeldKeys
        /\ StagedIsNext' /\ Dense' /\ KeysOfRows'
    BY DbSame DEF TakeAppend, dbVars
  <1>1. TypeOK'
    BY <1>m, <1>d DEF TakeAppend, TypeOK, Phases, CallStates, ExitReasons, Results, Message,
           dbVars, work, writerVars, callVars
  <1>2. Locking' /\ NothingStaged' /\ Paths'
    BY <1>m, <1>d DEF TakeAppend, dbVars, work, writerVars, callVars, TypeOK, Locking, Untried,
           InHand, Untouched, NothingStaged, Paths
  <1>3. Untried' /\ Vanished' /\ Queued'
    BY <1>m, <1>d DEF TakeAppend, dbVars, work, writerVars, callVars, TypeOK, Untried, Vanished,
           Queued, InHand, Locking, Untouched, Waiting, WriterDisappeared, Message
  <1>4. Waiting' /\ InHand'
    BY <1>m, <1>d DEF TakeAppend, dbVars, work, writerVars, callVars, TypeOK, Waiting, Queued,
           InHand, Message, Untouched, Untried, Locking
  <1>5. Answered'
    BY <1>m, <1>d DEF TakeAppend, dbVars, work, writerVars, callVars, TypeOK, Answered,
           DefiniteFailures, Vanished, Queued, Untried, InHand, Locking, WriterDisappeared,
           Message, Untouched
  <1> QED BY <1>m, <1>d, <1>1, <1>2, <1>3, <1>4, <1>5

\* BeginImmediate preserves the inductive invariant.
LEMMA BeginImmediateKeeps ==
  ASSUME WriterInv, BeginImmediate
  PROVE  WriterInv'
  <1> USE WriterAssumption DEF WriterInv
  <1>m. MailCalls' = MailCalls /\ QueueDistinct'
    BY MailSame DEF BeginImmediate, writerVars, work
  <1>d. /\ Appended' = Appended /\ HeldKeys' = HeldKeys
        /\ StagedIsNext' /\ Dense' /\ KeysOfRows'
    BY LockOnly DEF BeginImmediate, Locking
  <1>1. TypeOK'
    BY <1>m, <1>d DEF BeginImmediate, TypeOK, Phases, CallStates, ExitReasons, Results, Message,
           dbVars, work, writerVars, callVars
  <1>2. Locking' /\ NothingStaged' /\ Paths'
    BY <1>m, <1>d DEF BeginImmediate, dbVars, work, writerVars, callVars, TypeOK, Locking, Untried,
           InHand, Untouched, NothingStaged, Paths
  <1>3. Untried' /\ Vanished' /\ Queued'
    BY <1>m, <1>d DEF BeginImmediate, dbVars, work, writerVars, callVars, TypeOK, Untried,
           Vanished, Queued, InHand, Locking, Untouched, Waiting, WriterDisappeared, Message
  <1>4. Waiting' /\ InHand'
    BY <1>m, <1>d DEF BeginImmediate, dbVars, work, writerVars, callVars, TypeOK, Waiting, Queued,
           InHand, Message, Untouched, Untried, Locking
  <1>5. Answered'
    BY <1>m, <1>d DEF BeginImmediate, dbVars, work, writerVars, callVars, TypeOK, Answered,
           DefiniteFailures, Vanished, Queued, Untried, InHand, Locking, WriterDisappeared,
           Message, Untouched
  <1> QED BY <1>m, <1>d, <1>1, <1>2, <1>3, <1>4, <1>5

\* RetryBusy preserves the inductive invariant.
LEMMA RetryBusyKeeps ==
  ASSUME WriterInv, RetryBusy
  PROVE  WriterInv'
  <1> USE WriterAssumption DEF WriterInv
  <1>m. MailCalls' = MailCalls /\ QueueDistinct'
    BY MailSame DEF RetryBusy, writerVars, work
  <1>d. /\ Appended' = Appended /\ HeldKeys' = HeldKeys
        /\ StagedIsNext' /\ Dense' /\ KeysOfRows'
    BY DbSame DEF RetryBusy, dbVars
  <1>1. TypeOK'
    BY <1>m, <1>d DEF RetryBusy, TypeOK, Phases, CallStates, ExitReasons, Results, Message, dbVars,
           work, writerVars, callVars
  <1>2. Locking' /\ NothingStaged' /\ Paths'
    BY <1>m, <1>d DEF RetryBusy, dbVars, work, writerVars, callVars, TypeOK, Locking, Untried,
           InHand, Untouched, NothingStaged, Paths
  <1>3. Untried' /\ Vanished' /\ Queued'
    BY <1>m, <1>d DEF RetryBusy, dbVars, work, writerVars, callVars, TypeOK, Untried, Vanished,
           Queued, InHand, Locking, Untouched, Waiting, WriterDisappeared, Message
  <1>4. Waiting' /\ InHand'
    BY <1>m, <1>d DEF RetryBusy, dbVars, work, writerVars, callVars, TypeOK, Waiting, Queued,
           InHand, Message, Untouched, Untried, Locking
  <1>5. Answered'
    BY <1>m, <1>d DEF RetryBusy, dbVars, work, writerVars, callVars, TypeOK, Answered,
           DefiniteFailures, Vanished, Queued, Untried, InHand, Locking, WriterDisappeared,
           Message, Untouched
  <1> QED BY <1>m, <1>d, <1>1, <1>2, <1>3, <1>4, <1>5

\* RetryExhausted preserves the inductive invariant.
LEMMA RetryExhaustedKeeps ==
  ASSUME WriterInv, RetryExhausted
  PROVE  WriterInv'
  <1> USE WriterAssumption DEF WriterInv
  <1>m. MailCalls' = MailCalls /\ QueueDistinct'
    BY MailSame DEF RetryExhausted, writerVars, work
  <1>d. /\ Appended' = Appended /\ HeldKeys' = HeldKeys
        /\ StagedIsNext' /\ Dense' /\ KeysOfRows'
    BY DbSame DEF RetryExhausted, dbVars
  <1>1. TypeOK'
    <2>1. /\ st' \in [Calls -> CallStates] /\ result' \in [Calls -> Results]
          /\ current' \in Calls \cup {NoCall} /\ phase' \in Phases /\ retries' \in 0..MaxRetries
          /\ token' \in Nat /\ armed' \in BOOLEAN
          /\ UNCHANGED <<pid, attempt, reason>>
      BY ReplyTypes DEF RetryExhausted, Results, TypeOK, Phases, callVars
    <2>2. /\ rows' \in SUBSET Row /\ inbox' \in SUBSET Nat
          /\ lock' \in Calls \cup {NoCall} /\ staged' \in SUBSET Row /\ feed' \in Seq(Nat)
      BY DEF RetryExhausted, TypeOK, dbVars
    <2> QED BY <2>1, <2>2 DEF RetryExhausted, TypeOK
  <1>2. Locking' /\ NothingStaged' /\ Paths'
    BY <1>m, <1>d DEF RetryExhausted, Reply, Finish, NoAppend, dbVars, work, writerVars, callVars,
           TypeOK, Locking, Untried, InHand, Untouched, NothingStaged, Paths
  <1>3. Queued'
    BY <1>m, <1>d, NoCallQueued DEF RetryExhausted, Reply, NoAppend, Queued, InHand, TypeOK
  <1>4. Untried' /\ Vanished'
    BY <1>m, <1>d DEF RetryExhausted, Reply, Finish, NoAppend, dbVars, work, writerVars, callVars,
           TypeOK, Untried, Vanished, Queued, InHand, Locking, Untouched, Waiting, WriterDisappeared
  <1>5. Waiting' /\ InHand'
    BY <1>m, <1>d DEF RetryExhausted, Reply, Finish, NoAppend, dbVars, work, writerVars, callVars,
           TypeOK, Waiting, Queued, InHand, Message, Untouched, Untried, Locking
  <1>6. Answered'
    BY <1>m, <1>d DEF RetryExhausted, Reply, Finish, NoAppend, dbVars, work, writerVars, callVars,
           TypeOK, Answered, DefiniteFailures, Vanished, Queued, Untried, InHand, Locking,
           WriterDisappeared, Message, Untouched
  <1> QED BY <1>m, <1>d, <1>1, <1>2, <1>3, <1>4, <1>5, <1>6

\* WriterAttempt preserves the inductive invariant.
LEMMA WriterAttemptKeeps ==
  ASSUME WriterInv, WriterAttempt
  PROVE  WriterInv'
  <1> USE WriterAssumption DEF WriterInv
  <1>m. MailCalls' = MailCalls /\ QueueDistinct'
    BY MailSame DEF WriterAttempt, writerVars, work
  <1>d. /\ staged' \in SUBSET Row
        /\ staged' = {} => KeyOf[current] \in HeldKeys'
        /\ Appended' = Appended /\ HeldKeys' = HeldKeys
        /\ StagedIsNext' /\ Dense' /\ KeysOfRows'
    BY AttemptStages DEF WriterAttempt, Locking, TypeOK, InHand
  <1>1. TypeOK'
    BY <1>m, <1>d DEF WriterAttempt, TypeOK, Phases, CallStates, ExitReasons, Results, Message,
           dbVars, work, writerVars, callVars
  <1>2. Locking' /\ NothingStaged' /\ Paths'
    BY <1>m, <1>d DEF WriterAttempt, dbVars, work, writerVars, callVars, TypeOK, Locking, Untried,
           InHand, Untouched, NothingStaged, Paths
  <1>3. Untried' /\ Vanished' /\ Queued'
    BY <1>m, <1>d DEF WriterAttempt, dbVars, work, writerVars, callVars, TypeOK, Untried, Vanished,
           Queued, InHand, Locking, Untouched, Waiting, WriterDisappeared, Message
  <1>4. Waiting' /\ InHand'
    BY <1>m, <1>d DEF WriterAttempt, dbVars, work, writerVars, callVars, TypeOK, Waiting, Queued,
           InHand, Message, Untouched, Untried, Locking
  <1>5. Answered'
    BY <1>m, <1>d DEF WriterAttempt, dbVars, work, writerVars, callVars, TypeOK, Answered,
           DefiniteFailures, Vanished, Queued, Untried, InHand, Locking, WriterDisappeared,
           Message, Untouched
  <1> QED BY <1>m, <1>d, <1>1, <1>2, <1>3, <1>4, <1>5

\* WriterRollback preserves the inductive invariant.
LEMMA WriterRollbackKeeps ==
  ASSUME WriterInv, WriterRollback
  PROVE  WriterInv'
  <1> USE WriterAssumption DEF WriterInv
  <1>m. MailCalls' = MailCalls /\ QueueDistinct'
    BY MailSame DEF WriterRollback, writerVars, work
  <1>d. /\ Appended' = Appended /\ HeldKeys' = HeldKeys
        /\ StagedIsNext' /\ Dense' /\ KeysOfRows'
    BY LockOnly DEF WriterRollback, Locking, Rollback
  <1>1. TypeOK'
    <2>1. /\ st' \in [Calls -> CallStates] /\ result' \in [Calls -> Results]
          /\ current' \in Calls \cup {NoCall} /\ phase' \in Phases /\ retries' \in 0..MaxRetries
          /\ token' \in Nat /\ armed' \in BOOLEAN
          /\ UNCHANGED <<pid, attempt, reason>>
      BY ReplyTypes DEF WriterRollback, Results, TypeOK, Phases, callVars
    <2>2. /\ rows' \in SUBSET Row /\ inbox' \in SUBSET Nat
          /\ lock' \in Calls \cup {NoCall} /\ staged' \in SUBSET Row /\ feed' \in Seq(Nat)
      BY DEF WriterRollback, TypeOK, dbVars, Rollback
    <2> QED BY <2>1, <2>2 DEF WriterRollback, TypeOK
  <1>2. Locking' /\ NothingStaged' /\ Paths'
    BY <1>m, <1>d DEF WriterRollback, Rollback, Reply, Finish, NoAppend, dbVars, work, writerVars,
           callVars, TypeOK, Locking, Untried, InHand, Untouched, NothingStaged, Paths
  <1>3. Queued'
    BY <1>m, <1>d, NoCallQueued DEF WriterRollback, Reply, NoAppend, Queued, InHand, TypeOK
  <1>4. Untried' /\ Vanished'
    BY <1>m, <1>d DEF WriterRollback, Rollback, Reply, Finish, NoAppend, dbVars, work, writerVars,
           callVars, TypeOK, Untried, Vanished, Queued, InHand, Locking, Untouched, Waiting,
           WriterDisappeared
  <1>5. Waiting' /\ InHand'
    BY <1>m, <1>d DEF WriterRollback, Rollback, Reply, Finish, NoAppend, dbVars, work, writerVars,
           callVars, TypeOK, Waiting, Queued, InHand, Message, Untouched, Untried, Locking
  <1>6. Answered'
    BY <1>m, <1>d DEF WriterRollback, Rollback, Reply, Finish, NoAppend, dbVars, work, writerVars,
           callVars, TypeOK, Answered, DefiniteFailures, Vanished, Queued, Untried, InHand,
           Locking, WriterDisappeared, Message, Untouched
  <1> QED BY <1>m, <1>d, <1>1, <1>2, <1>3, <1>4, <1>5, <1>6

\* WriterCommit preserves the inductive invariant.
LEMMA WriterCommitKeeps ==
  ASSUME WriterInv, WriterCommit
  PROVE  WriterInv'
  <1> USE WriterAssumption DEF WriterInv
  <1>m. MailCalls' = MailCalls /\ QueueDistinct'
    BY MailSame DEF WriterCommit, writerVars, work
  <1>d. /\ rows' \in SUBSET Row /\ inbox' \in SUBSET Nat /\ staged' = {}
        /\ StagedIsNext' /\ Dense' /\ KeysOfRows'
        /\ Appended' = IF staged = {} THEN Appended ELSE Appended \cup {current}
        /\ HeldKeys \subseteq HeldKeys'
    <2>1. current \in Calls /\ lock = current /\ current \notin Appended /\ Commit
      BY DEF WriterCommit, Locking, TypeOK, InHand, Untried, Untouched, Phases
    <2> QED BY <2>1, CommitAppends
  <1>1. TypeOK'
    <2>1. /\ st' \in [Calls -> CallStates] /\ result' \in [Calls -> Results]
          /\ current' \in Calls \cup {NoCall} /\ phase' \in Phases /\ retries' \in 0..MaxRetries
          /\ token' \in Nat /\ armed' \in BOOLEAN
          /\ UNCHANGED <<pid, attempt, reason>>
      BY ReplyTypes DEF WriterCommit, Results, TypeOK, Phases, callVars
    <2>2. /\ rows' \in SUBSET Row /\ inbox' \in SUBSET Nat
          /\ lock' \in Calls \cup {NoCall} /\ staged' \in SUBSET Row /\ feed' \in Seq(Nat)
      BY <1>d DEF WriterCommit, TypeOK, dbVars, Commit
    <2> QED BY <2>1, <2>2 DEF WriterCommit, TypeOK
  <1>2. Locking' /\ NothingStaged' /\ Paths'
    BY <1>m, <1>d DEF WriterCommit, Commit, Reply, Finish, NoAppend, dbVars, work, writerVars,
           callVars, TypeOK, Locking, Untried, InHand, Untouched, NothingStaged, Paths
  <1>3. Queued'
    BY <1>m, <1>d, NoCallQueued DEF WriterCommit, Reply, NoAppend, Queued, InHand, TypeOK
  <1>4. Untried' /\ Vanished'
    BY <1>m, <1>d DEF WriterCommit, Commit, Reply, Finish, NoAppend, dbVars, work, writerVars,
           callVars, TypeOK, Untried, Vanished, Queued, InHand, Locking, Untouched, Waiting,
           WriterDisappeared
  <1>5. Waiting' /\ InHand'
    BY <1>m, <1>d DEF WriterCommit, Commit, Reply, Finish, NoAppend, dbVars, work, writerVars,
           callVars, TypeOK, Waiting, Queued, InHand, Message, Untouched, Untried, Locking
  <1>6. Answered'
    <2>1. staged = {} => KeyOf[current] \in HeldKeys' /\ current \notin Appended'
                         /\ current \notin MailCalls' /\ current' = NoCall
      BY <1>m, <1>d DEF NothingStaged, WriterCommit, InHand, Queued, Reply, NoAppend
    <2>2. \A x \in Calls \ {current} : result'[x] = result[x] /\ st'[x] = st[x]
                                       /\ (x \in Appended' <=> x \in Appended)
      BY <1>d DEF WriterCommit, Reply, Finish, TypeOK, callVars
    <2>3. current \in Calls
      BY DEF WriterCommit, InHand, TypeOK
    <2>4. \/ result'[current] = result[current] /\ st'[current] = st[current]
          \/ staged = {} /\ result'[current] = "duplicate" /\ st'[current] = "done"
      BY <2>3 DEF WriterCommit, Reply, Finish, TypeOK, callVars
    <2>5. \A x \in Calls \ {current} : current' # x
      BY <2>3, WriterAssumption DEF WriterCommit, Reply, NoAppend
    <2>6. \A x \in Calls \ {current} : Untouched(x) => Untouched(x)'
      BY <1>m, <2>2, <2>5 DEF Untouched
    <2>7. result[current] \notin DefiniteFailures \cup {"duplicate"}
      BY <2>3 DEF Answered, Untouched
    <2>8. NoCall # current
      BY <2>3, WriterAssumption
    <2>9. \A x \in Calls \ {current} :
             /\ result'[x] # "none" => st'[x] = "done"
             /\ result'[x] \in {"ok", "publish_failed"} => x \in Appended'
             /\ result'[x] = "duplicate" => KeyOf[x] \in HeldKeys'
             /\ result'[x] \in DefiniteFailures \cup {"duplicate"} => Untouched(x)'
      BY <1>d, <2>2, <2>6 DEF Answered
    <2>10. /\ result'[current] # "none" => st'[current] = "done"
           /\ result'[current] \in {"ok", "publish_failed"} => current \in Appended'
           /\ result'[current] = "duplicate" => KeyOf[current] \in HeldKeys'
      BY <1>d, <2>1, <2>3, <2>4, <2>7 DEF Answered
    <2>11. ASSUME NEW x \in {current}, result'[x] \in DefiniteFailures \cup {"duplicate"}
           PROVE  Untouched(x)'
      BY <2>1, <2>4, <2>7, <2>8, <2>11 DEF Untouched
    <2> QED BY <2>9, <2>10, <2>11 DEF Answered
  <1> QED BY <1>m, <1>d, <1>1, <1>2, <1>3, <1>4, <1>5, <1>6

\* Publish preserves the inductive invariant.
LEMMA PublishKeeps ==
  ASSUME WriterInv, Publish
  PROVE  WriterInv'
  <1> USE WriterAssumption DEF WriterInv
  <1>m. MailCalls' = MailCalls /\ QueueDistinct'
    BY MailSame DEF Publish, writerVars, work
  <1>d. /\ Appended' = Appended /\ HeldKeys' = HeldKeys
        /\ StagedIsNext' /\ Dense' /\ KeysOfRows'
    BY DbSame DEF Publish, dbVars
  <1>1. TypeOK'
    <2>1. /\ st' \in [Calls -> CallStates] /\ result' \in [Calls -> Results]
          /\ current' \in Calls \cup {NoCall} /\ phase' \in Phases /\ retries' \in 0..MaxRetries
          /\ token' \in Nat /\ armed' \in BOOLEAN
          /\ UNCHANGED <<pid, attempt, reason>>
      BY ReplyTypes DEF Publish, Results, TypeOK, Phases, callVars
    <2>2. /\ rows' \in SUBSET Row /\ inbox' \in SUBSET Nat
          /\ lock' \in Calls \cup {NoCall} /\ staged' \in SUBSET Row /\ feed' \in Seq(Nat)
      BY DEF Publish, TypeOK, dbVars, Row
    <2> QED BY <2>1, <2>2 DEF Publish, TypeOK
  <1>2. Locking' /\ NothingStaged' /\ Paths'
    BY <1>m, <1>d DEF Publish, Reply, Finish, NoAppend, dbVars, work, writerVars, callVars, TypeOK,
           Locking, Untried, InHand, Untouched, NothingStaged, Paths
  <1>3. Queued'
    BY <1>m, <1>d, NoCallQueued DEF Publish, Reply, NoAppend, Queued, InHand, TypeOK
  <1>4. Untried' /\ Vanished'
    BY <1>m, <1>d DEF Publish, Reply, Finish, NoAppend, dbVars, work, writerVars, callVars, TypeOK,
           Untried, Vanished, Queued, InHand, Locking, Untouched, Waiting, WriterDisappeared
  <1>5. Waiting' /\ InHand'
    BY <1>m, <1>d DEF Publish, Reply, Finish, NoAppend, dbVars, work, writerVars, callVars, TypeOK,
           Waiting, Queued, InHand, Message, Untouched, Untried, Locking
  <1>6. Answered'
    BY <1>m, <1>d DEF Publish, Reply, Finish, NoAppend, dbVars, work, writerVars, callVars, TypeOK,
           Answered, DefiniteFailures, Vanished, Queued, Untried, InHand, Locking,
           WriterDisappeared, Message, Untouched
  <1> QED BY <1>m, <1>d, <1>1, <1>2, <1>3, <1>4, <1>5, <1>6

\* PublishFails preserves the inductive invariant.
LEMMA PublishFailsKeeps ==
  ASSUME WriterInv, PublishFails
  PROVE  WriterInv'
  <1> USE WriterAssumption DEF WriterInv
  <1>m. MailCalls' = MailCalls /\ QueueDistinct'
    BY MailSame DEF PublishFails, writerVars, work
  <1>d. /\ Appended' = Appended /\ HeldKeys' = HeldKeys
        /\ StagedIsNext' /\ Dense' /\ KeysOfRows'
    BY DbSame DEF PublishFails, dbVars
  <1>1. TypeOK'
    <2>1. /\ st' \in [Calls -> CallStates] /\ result' \in [Calls -> Results]
          /\ current' \in Calls \cup {NoCall} /\ phase' \in Phases /\ retries' \in 0..MaxRetries
          /\ token' \in Nat /\ armed' \in BOOLEAN
          /\ UNCHANGED <<pid, attempt, reason>>
      BY ReplyTypes DEF PublishFails, Results, TypeOK, Phases, callVars
    <2>2. /\ rows' \in SUBSET Row /\ inbox' \in SUBSET Nat
          /\ lock' \in Calls \cup {NoCall} /\ staged' \in SUBSET Row /\ feed' \in Seq(Nat)
      BY DEF PublishFails, TypeOK, dbVars
    <2> QED BY <2>1, <2>2 DEF PublishFails, TypeOK
  <1>2. Locking' /\ NothingStaged' /\ Paths'
    BY <1>m, <1>d DEF PublishFails, Reply, Finish, NoAppend, dbVars, work, writerVars, callVars,
           TypeOK, Locking, Untried, InHand, Untouched, NothingStaged, Paths
  <1>3. Queued'
    BY <1>m, <1>d, NoCallQueued DEF PublishFails, Reply, NoAppend, Queued, InHand, TypeOK
  <1>4. Untried' /\ Vanished'
    BY <1>m, <1>d DEF PublishFails, Reply, Finish, NoAppend, dbVars, work, writerVars, callVars,
           TypeOK, Untried, Vanished, Queued, InHand, Locking, Untouched, Waiting, WriterDisappeared
  <1>5. Waiting' /\ InHand'
    BY <1>m, <1>d DEF PublishFails, Reply, Finish, NoAppend, dbVars, work, writerVars, callVars,
           TypeOK, Waiting, Queued, InHand, Message, Untouched, Untried, Locking
  <1>6. Answered'
    BY <1>m, <1>d DEF PublishFails, Reply, Finish, NoAppend, dbVars, work, writerVars, callVars,
           TypeOK, Answered, DefiniteFailures, Vanished, Queued, Untried, InHand, Locking,
           WriterDisappeared, Message, Untouched
  <1> QED BY <1>m, <1>d, <1>1, <1>2, <1>3, <1>4, <1>5, <1>6

\* IdleTimerFires preserves the inductive invariant.
LEMMA IdleTimerFiresKeeps ==
  ASSUME WriterInv, IdleTimerFires
  PROVE  WriterInv'
  <1> USE WriterAssumption DEF WriterInv
  <1>m. MailCalls' = MailCalls /\ QueueDistinct'
    BY MailIdle DEF IdleTimerFires, TypeOK
  <1>d. /\ Appended' = Appended /\ HeldKeys' = HeldKeys
        /\ StagedIsNext' /\ Dense' /\ KeysOfRows'
    BY DbSame DEF IdleTimerFires, dbVars
  <1>1. TypeOK'
    <2>1. IdleMsg(token) \in Message
      BY DEF IdleMsg, Message, TypeOK
    <2>2. mailbox' \in Seq(Message)
      BY <2>1, QueueAppend DEF IdleTimerFires, TypeOK
    <2> QED BY <2>2 DEF IdleTimerFires, TypeOK, dbVars, work, callVars
  <1>2. Locking' /\ NothingStaged' /\ Paths'
    BY <1>m, <1>d DEF IdleTimerFires, IdleMsg, dbVars, work, writerVars, callVars, TypeOK, Locking,
           Untried, InHand, Untouched, NothingStaged, Paths
  <1>3. Untried' /\ Vanished' /\ Queued'
    BY <1>m, <1>d DEF IdleTimerFires, IdleMsg, dbVars, work, writerVars, callVars, TypeOK, Untried,
           Vanished, Queued, InHand, Locking, Untouched, Waiting, WriterDisappeared, Message
  <1>4. Waiting' /\ InHand'
    BY <1>m, <1>d DEF IdleTimerFires, IdleMsg, dbVars, work, writerVars, callVars, TypeOK, Waiting,
           Queued, InHand, Message, Untouched, Untried, Locking
  <1>5. Answered'
    BY <1>m, <1>d DEF IdleTimerFires, IdleMsg, dbVars, work, writerVars, callVars, TypeOK,
           Answered, DefiniteFailures, Vanished, Queued, Untried, InHand, Locking,
           WriterDisappeared, Message, Untouched
  <1> QED BY <1>m, <1>d, <1>1, <1>2, <1>3, <1>4, <1>5

\* IdleStop preserves the inductive invariant.
LEMMA IdleStopKeeps ==
  ASSUME WriterInv, IdleStop
  PROVE  WriterInv'
  <1> USE WriterAssumption DEF WriterInv
  <1>m. MailCalls' = {} /\ QueueDistinct'
    BY MailEmpty DEF IdleStop, WriterExits
  <1>d. /\ Appended' = Appended /\ HeldKeys' = HeldKeys
        /\ StagedIsNext' /\ Dense' /\ KeysOfRows'
    BY DbSame, LockOnly DEF IdleStop, WriterExits, Rollback
  <1>1. TypeOK'
    <2>1. /\ st' \in [Calls -> CallStates] /\ reason' \in [Calls -> ExitReasons]
      BY DEF IdleStop, WriterExits, TypeOK, CallStates, ExitReasons
    <2>2. /\ rows' \in SUBSET Row /\ inbox' \in SUBSET Nat
          /\ lock' \in Calls \cup {NoCall} /\ staged' \in SUBSET Row
      BY DEF IdleStop, WriterExits, Rollback, TypeOK, dbVars
    <2>3. mailbox' \in Seq(Message) /\ alive' \in BOOLEAN /\ armed' \in BOOLEAN
      BY EmptyQueue DEF IdleStop, WriterExits
    <2> QED BY <2>1, <2>2, <2>3 DEF IdleStop, WriterExits, NoAppend, Phases, TypeOK
  <1>2. Locking' /\ NothingStaged' /\ Paths'
    BY <1>m, <1>d DEF IdleStop, WriterExits, Rollback, NoAppend, dbVars, work, writerVars,
           callVars, TypeOK, Locking, Untried, InHand, Untouched, NothingStaged, Paths
  <1>3. Untried' /\ Vanished' /\ Queued'
    BY <1>m, <1>d DEF IdleStop, WriterExits, Rollback, NoAppend, dbVars, work, writerVars,
           callVars, TypeOK, Untried, Vanished, Queued, InHand, Locking, Untouched, Waiting,
           WriterDisappeared, Message
  <1>4. Waiting' /\ InHand'
    BY <1>m, <1>d DEF IdleStop, WriterExits, Rollback, NoAppend, dbVars, work, writerVars,
           callVars, TypeOK, Waiting, Queued, InHand, Message, Untouched, Untried, Locking
  <1>5. Answered'
    BY <1>m, <1>d DEF IdleStop, WriterExits, Rollback, NoAppend, dbVars, work, writerVars,
           callVars, TypeOK, Answered, DefiniteFailures, Vanished, Queued, Untried, InHand,
           Locking, WriterDisappeared, Message, Untouched
  <1> QED BY <1>m, <1>d, <1>1, <1>2, <1>3, <1>4, <1>5

\* StaleIdleTimeout preserves the inductive invariant.
LEMMA StaleIdleTimeoutKeeps ==
  ASSUME WriterInv, StaleIdleTimeout
  PROVE  WriterInv'
  <1> USE WriterAssumption DEF WriterInv
  <1>m. /\ Head(mailbox) \in Message
        /\ Head(mailbox).type = "append" =>
             /\ Head(mailbox).call \in MailCalls
             /\ MailCalls' = MailCalls \ {Head(mailbox).call}
        /\ Head(mailbox).type # "append" => MailCalls' = MailCalls
        /\ QueueDistinct' /\ mailbox' \in Seq(Message)
    BY MailTail, QueueTail DEF StaleIdleTimeout, TypeOK
  <1>d. /\ Appended' = Appended /\ HeldKeys' = HeldKeys
        /\ StagedIsNext' /\ Dense' /\ KeysOfRows'
    BY DbSame DEF StaleIdleTimeout, dbVars
  <1>1. TypeOK'
    BY <1>m, <1>d DEF StaleIdleTimeout, TypeOK, Phases, CallStates, ExitReasons, Results, Message,
           dbVars, work, writerVars, callVars
  <1>2. Locking' /\ NothingStaged' /\ Paths'
    BY <1>m, <1>d DEF StaleIdleTimeout, dbVars, work, writerVars, callVars, TypeOK, Locking,
           Untried, InHand, Untouched, NothingStaged, Paths
  <1>3. Untried' /\ Vanished' /\ Queued'
    BY <1>m, <1>d DEF StaleIdleTimeout, dbVars, work, writerVars, callVars, TypeOK, Untried,
           Vanished, Queued, InHand, Locking, Untouched, Waiting, WriterDisappeared, Message
  <1>4. Waiting' /\ InHand'
    BY <1>m, <1>d DEF StaleIdleTimeout, dbVars, work, writerVars, callVars, TypeOK, Waiting,
           Queued, InHand, Message, Untouched, Untried, Locking
  <1>5. Answered'
    BY <1>m, <1>d DEF StaleIdleTimeout, dbVars, work, writerVars, callVars, TypeOK, Answered,
           DefiniteFailures, Vanished, Queued, Untried, InHand, Locking, WriterDisappeared,
           Message, Untouched
  <1> QED BY <1>m, <1>d, <1>1, <1>2, <1>3, <1>4, <1>5

\* WriterKilled preserves the inductive invariant.
LEMMA WriterKilledKeeps ==
  ASSUME WriterInv, WriterKilled
  PROVE  WriterInv'
  <1> USE WriterAssumption DEF WriterInv
  <1>m. MailCalls' = {} /\ QueueDistinct'
    BY MailEmpty DEF WriterKilled, WriterExits
  <1>d. /\ Appended' = Appended /\ HeldKeys' = HeldKeys
        /\ StagedIsNext' /\ Dense' /\ KeysOfRows'
    BY DbSame, LockOnly DEF WriterKilled, WriterExits, Rollback
  <1>1. TypeOK'
    <2>1. /\ st' \in [Calls -> CallStates] /\ reason' \in [Calls -> ExitReasons]
      BY DEF WriterKilled, WriterExits, TypeOK, CallStates, ExitReasons
    <2>2. /\ rows' \in SUBSET Row /\ inbox' \in SUBSET Nat
          /\ lock' \in Calls \cup {NoCall} /\ staged' \in SUBSET Row
      BY DEF WriterKilled, WriterExits, Rollback, TypeOK, dbVars
    <2>3. mailbox' \in Seq(Message) /\ alive' \in BOOLEAN /\ armed' \in BOOLEAN
      BY EmptyQueue DEF WriterKilled, WriterExits
    <2> QED BY <2>1, <2>2, <2>3 DEF WriterKilled, WriterExits, NoAppend, Phases, TypeOK
  <1>2. Locking' /\ NothingStaged' /\ Paths'
    BY <1>m, <1>d DEF WriterKilled, WriterExits, Rollback, NoAppend, dbVars, work, writerVars,
           callVars, TypeOK, Locking, Untried, InHand, Untouched, NothingStaged, Paths
  <1>3. Untried' /\ Vanished' /\ Queued'
    BY <1>m, <1>d DEF WriterKilled, WriterExits, Rollback, NoAppend, dbVars, work, writerVars,
           callVars, TypeOK, Untried, Vanished, Queued, InHand, Locking, Untouched, Waiting,
           WriterDisappeared, Message
  <1>4. Waiting' /\ InHand'
    BY <1>m, <1>d DEF WriterKilled, WriterExits, Rollback, NoAppend, dbVars, work, writerVars,
           callVars, TypeOK, Waiting, Queued, InHand, Message, Untouched, Untried, Locking
  <1>5. Answered'
    BY <1>m, <1>d DEF WriterKilled, WriterExits, Rollback, NoAppend, dbVars, work, writerVars,
           callVars, TypeOK, Answered, DefiniteFailures, Vanished, Queued, Untried, InHand,
           Locking, WriterDisappeared, Message, Untouched
  <1> QED BY <1>m, <1>d, <1>1, <1>2, <1>3, <1>4, <1>5

-----------------------------------------------------------------------------
(* The theorems                                                            *)

\* The first state satisfies the inductive invariant.
LEMMA InitWriterInv == Init => WriterInv
  <1> SUFFICES ASSUME Init PROVE WriterInv
    OBVIOUS
  <1> USE WriterAssumption DEF Init
  <1>1. MailCalls = {} /\ Appended = {} /\ HeldKeys = {}
    BY DEF MailCalls, Appended, HeldKeys
  <1>2. TypeOK
    <2>1. mailbox \in Seq(Message) /\ feed \in Seq(Nat)
      BY EmptyQueue
    <2>2. /\ st \in [Calls -> CallStates] /\ pid \in [Calls -> Nat]
          /\ attempt \in [Calls -> {0, 1}] /\ reason \in [Calls -> ExitReasons]
          /\ result \in [Calls -> Results]
      BY DEF CallStates, ExitReasons, Results
    <2>3. alive \in BOOLEAN /\ armed \in BOOLEAN
      OBVIOUS
    <2>4. /\ current \in Calls \cup {NoCall} /\ phase \in Phases /\ retries \in 0..MaxRetries
          /\ rows \in SUBSET Row /\ inbox \in SUBSET Nat /\ staged \in SUBSET Row
          /\ lock \in Calls \cup {NoCall} /\ spawned \in Nat /\ token \in Nat
      BY DEF Phases
    <2> QED BY <2>1, <2>2, <2>3, <2>4 DEF TypeOK
  <1>3. Locking /\ StagedIsNext /\ NothingStaged
    BY <1>1 DEF Locking, StagedIsNext, NothingStaged
  <1>4. Dense /\ KeysOfRows /\ QueueDistinct
    <2>1. {r.seq : r \in rows} = 1..0
      OBVIOUS
    <2> QED BY <2>1 DEF Dense, KeysOfRows, QueueDistinct
  <1>5. Untried /\ Vanished /\ Queued /\ Waiting /\ InHand /\ Paths /\ Answered
    BY <1>1 DEF Untried, Vanished, Queued, Waiting, InHand, Paths, Answered,
                Untouched, DefiniteFailures
  <1> QED BY <1>2, <1>3, <1>4, <1>5 DEF WriterInv

\* A stuttering step preserves it.
LEMMA StutterKeeps ==
  ASSUME WriterInv, UNCHANGED vars
  PROVE  WriterInv'
  <1> USE DEF WriterInv
  <1>m. MailCalls' = MailCalls /\ QueueDistinct'
    BY MailSame DEF vars, writerVars
  <1>d. /\ Appended' = Appended /\ HeldKeys' = HeldKeys
        /\ StagedIsNext' /\ Dense' /\ KeysOfRows'
    BY DbSame DEF vars
  <1>1. TypeOK' /\ Locking' /\ Paths'
    BY DEF vars, dbVars, work, writerVars, callVars, TypeOK, Locking, Paths
  <1>2. NothingStaged' /\ Untried' /\ Vanished' /\ Answered'
    BY <1>m, <1>d DEF vars, dbVars, work, writerVars, callVars, NothingStaged, Untried,
                      Vanished, Answered, Untouched
  <1>3. Queued' /\ Waiting' /\ InHand'
    BY <1>m, <1>d DEF vars, work, writerVars, callVars, Queued, Waiting, InHand
  <1> QED BY <1>m, <1>d, <1>1, <1>2, <1>3

\* Every step preserves it.
LEMMA NextWriterInv == WriterInv /\ [Next]_vars => WriterInv'
  <1> SUFFICES ASSUME WriterInv, [Next]_vars PROVE WriterInv'
    OBVIOUS
  <1>1. ASSUME NEW c \in Calls, Caller(c)
        PROVE  WriterInv'
    BY <1>1, RejectInputKeeps, EnsureStartedKeeps, StartFailsKeeps, DispatchAppendKeeps,
       CallTimeoutKeeps, RecoverWriterExitKeeps DEF Caller
  <1>2. ASSUME NEW c \in Calls, Coordinator(c)
        PROVE  WriterInv'
    BY <1>2, TransactionRequiredKeeps, TxnBeginKeeps, TxnAppendKeeps, TxnCommitKeeps,
       TxnRollbackKeeps DEF Coordinator
  <1>3. CASE Writer
    BY <1>3, TakeAppendKeeps, BeginImmediateKeeps, RetryBusyKeeps, RetryExhaustedKeeps,
       WriterAttemptKeeps, WriterRollbackKeeps, WriterCommitKeeps, PublishKeeps,
       PublishFailsKeeps, IdleStopKeeps, StaleIdleTimeoutKeeps DEF Writer
  <1>4. CASE IdleTimerFires \/ WriterKilled
    BY <1>4, IdleTimerFiresKeeps, WriterKilledKeeps
  <1>5. CASE UNCHANGED vars
    BY <1>5, StutterKeeps
  <1> QED BY <1>1, <1>2, <1>3, <1>4, <1>5 DEF Next

\* The inductive invariant holds in every reachable state.
THEOREM WriterInvariance == Spec => []WriterInv
  BY InitWriterInv, NextWriterInv, PTL DEF Spec

\* Every variable of the append path (trajectory.ex, writer.ex) keeps its type.
THEOREM WriterTyping == Spec => []TypeOK
  <1>1. WriterInv => TypeOK
    BY DEF WriterInv
  <1> QED BY <1>1, WriterInvariance, PTL

\* The answer of Trajectory.append is what happened: an answer with an event
\* means it is committed, a definite failure means this call appended nothing.
THEOREM WriterAnswers == Spec => []AnswersAreTrue
  <1>1. WriterInv => AnswersAreTrue
    <2> SUFFICES ASSUME WriterInv, NEW c \in Calls
                 PROVE  /\ result[c] \in {"ok", "publish_failed"} => \E r \in rows : r.call = c
                        /\ result[c] = "duplicate" => \E r \in rows : r.key = KeyOf[c] /\ r.call # c
                        /\ result[c] \in DefiniteFailures => \A r \in rows : r.call # c
      BY DEF AnswersAreTrue, DefiniteFailures
    <2>1. /\ result[c] \in {"ok", "publish_failed"} => c \in Appended
          /\ result[c] = "duplicate" => KeyOf[c] \in HeldKeys /\ c \notin Appended
          /\ result[c] \in DefiniteFailures => c \notin Appended
      BY DEF WriterInv, Answered, Untouched
    <2> QED BY <2>1 DEF Appended, HeldKeys
  <1> QED BY <1>1, WriterInvariance, PTL

\* A step of the append path is a step of the event log, or leaves it alone.
LEMMA StepRefines == WriterInv /\ [Next]_vars => [Log!LogNext]_rows
  <1> SUFFICES ASSUME WriterInv, [Next]_vars PROVE Log!LogNext \/ UNCHANGED rows
    OBVIOUS
  <1>1. ASSUME NEW c \in Calls, TxnCommit(c)
        PROVE  Log!LogNext \/ UNCHANGED rows
    <2>1. lock = c /\ c \notin Appended /\ Commit
      BY <1>1 DEF TxnCommit, WriterInv, Locking, Untried, Untouched
    <2> QED BY <2>1, CommitAppends DEF WriterInv, Log!LogNext
  <1>2. CASE WriterCommit
    <2>1. current \in Calls /\ lock = current /\ current \notin Appended /\ Commit
      BY <1>2 DEF WriterCommit, WriterInv, Locking, InHand, TypeOK
    <2> QED BY <2>1, CommitAppends DEF WriterInv, Log!LogNext
  <1>3. ASSUME NEW c \in Calls, Caller(c)
        PROVE  UNCHANGED rows
    BY <1>3 DEF Caller, RejectInput, EnsureStarted, StartFails, DispatchAppend, CallTimeout,
                RecoverWriterExit, dbVars
  <1>4. ASSUME NEW c \in Calls, Coordinator(c), ~TxnCommit(c)
        PROVE  UNCHANGED rows
    BY <1>4 DEF Coordinator, TransactionRequired, TxnBegin, TxnAppend, TxnRollback,
                Rollback, dbVars
  <1>5. CASE Writer /\ ~WriterCommit
    BY <1>5 DEF Writer, TakeAppend, BeginImmediate, RetryBusy, RetryExhausted, WriterAttempt,
                WriterRollback, Publish, PublishFails, IdleStop, StaleIdleTimeout,
                WriterExits, Rollback, dbVars
  <1>6. CASE IdleTimerFires \/ WriterKilled \/ UNCHANGED vars
    BY <1>6 DEF IdleTimerFires, WriterKilled, WriterExits, Rollback, dbVars, vars
  <1> QED BY <1>1, <1>2, <1>3, <1>4, <1>5, <1>6 DEF Next

\* The append path implements the abstract event log: append-only, numbered
\* without a gap, one event per key and per call.
THEOREM WriterImplementsLog == Spec => ImplementsEventLog
  <1>1. Init => Log!LogInit
    BY DEF Init, Log!LogInit
  <1> QED BY <1>1, StepRefines, WriterInvariance, PTL DEF Spec, ImplementsEventLog, Log!LogSpec

-----------------------------------------------------------------------------
(* What is told of the log                                                 *)

\* A number joins the feed at its end.
LEMMA FeedAppend ==
  ASSUME NEW s \in Seq(Nat), NEW n \in Nat
  PROVE  /\ Len(Append(s, n)) = Len(s) + 1 /\ Len(s) \in Nat
         /\ \A i \in 1..Len(s) : Append(s, n)[i] = s[i] /\ s[i] \in Nat
         /\ Append(s, n)[Len(s) + 1] = n
  OBVIOUS

\* A commit keeps the subscribers' order and tells the planner; what it adds
\* is later than everything told so far.
LEMMA CommitTells ==
  ASSUME TypeOK, StagedIsNext, ToldInv, Commit, UNCHANGED feed
  PROVE  /\ FeedInOrder' /\ InboxComplete' /\ rows \subseteq rows'
         /\ \A r \in rows' : r \in rows \/ \A i \in 1..Len(feed) : feed[i] < r.seq
         /\ \A r \in rows' : r \in rows \/ r.call = lock
  <1> USE DEF ToldInv
  <1>1. rows' = rows \cup staged /\ inbox' = inbox \cup {r.seq : r \in staged \cup ExistingEvent(lock)}
    BY DEF Commit
  <1>2. FeedInOrder'
    BY <1>1 DEF FeedInOrder
  <1>3. InboxComplete'
    BY <1>1 DEF InboxComplete, ExistingEvent
  <1>4. ASSUME NEW r \in staged, NEW i \in 1..Len(feed)
        PROVE  feed[i] < r.seq
    <2>1. PICK m \in {0} \cup {q.seq : q \in rows} : r.seq = m + 1 /\ \A q \in rows : q.seq <= m
      BY DEF StagedIsNext, NextSequence
    <2>2. PICK q \in rows : q.seq = feed[i]
      BY DEF FeedInOrder
    <2>3. q.seq \in Nat /\ m \in Nat /\ q.seq <= m
      BY <2>1, <2>2 DEF TypeOK, Row
    <2> QED BY <2>1, <2>2, <2>3
  <1>5. \A r \in staged : r.call = lock
    BY DEF StagedIsNext
  <1> QED BY <1>1, <1>2, <1>3, <1>4, <1>5

\* Every step tells what it commits: a coordinator's commit is no broadcast of
\* the writer, the writer's commit is followed by its own, and everything else
\* leaves log and feed alone.
LEMMA NextToldInv == WriterInv /\ ToldInv /\ [Next]_vars => ToldInv'
  <1> SUFFICES ASSUME WriterInv, ToldInv, [Next]_vars PROVE ToldInv'
    OBVIOUS
  <1> USE DEF WriterInv, ToldInv
  <1>s. ASSUME UNCHANGED <<rows, inbox, feed>>, phase' = "publish" => phase = "publish" /\ current' = current
        PROVE  ToldInv'
    BY <1>s DEF FeedInOrder, InboxComplete, Unpublished
  <1>1. ASSUME NEW c \in Calls, TxnCommit(c)
        PROVE  ToldInv'
    <2>1. lock = c /\ c \notin Appended /\ Commit /\ UNCHANGED <<feed, phase, current>>
      BY <1>1 DEF TxnCommit, Locking, Untried, Untouched, writerVars, work
    <2>2. \A r \in rows' : r \in rows \/ \A i \in 1..Len(feed) : feed[i] < r.seq
      BY <2>1, CommitTells
    <2>3. Unpublished'
      BY <2>1, <2>2 DEF Unpublished
    <2> QED BY <2>1, <2>3, CommitTells
  <1>2. CASE WriterCommit
    <2>1. /\ current \in Calls /\ lock = current /\ current \notin Appended /\ Commit
          /\ UNCHANGED feed /\ (phase' = "publish" => current' = current)
      BY <1>2 DEF WriterCommit, Locking, InHand, TypeOK, Reply, NoAppend
    <2>2. \A r \in rows' : r \in rows \/ \A i \in 1..Len(feed) : feed[i] < r.seq
      BY <2>1, CommitTells
    <2>3. \A r \in rows : r.call # current
      BY <2>1 DEF Appended
    <2>4. Unpublished'
      BY <2>1, <2>2, <2>3 DEF Unpublished
    <2> QED BY <2>1, <2>4, CommitTells
  <1>3. CASE Publish
    <2>1. PICK r \in rows : r.call = current /\ feed' = Append(feed, r.seq)
      BY <1>3 DEF Publish
    <2>2. /\ phase = "publish" /\ phase' = "idle" /\ UNCHANGED <<rows, inbox>>
      BY <1>3 DEF Publish, Reply, NoAppend, dbVars
    <2>3. /\ feed \in Seq(Nat) /\ r.seq \in Nat
          /\ \A i \in 1..Len(feed) : feed[i] < r.seq
      BY <2>1, <2>2 DEF TypeOK, Row, Unpublished
    <2>4. /\ Len(feed') = Len(feed) + 1 /\ Len(feed) \in Nat /\ feed'[Len(feed) + 1] = r.seq
          /\ \A i \in 1..Len(feed) : feed'[i] = feed[i] /\ feed[i] \in Nat
      BY <2>1, <2>3, FeedAppend
    <2>5. \A i \in 1..Len(feed') : i \in 1..Len(feed) \/ i = Len(feed) + 1
      BY <2>4
    <2>6. \A i \in 1..Len(feed') : \E q \in rows : q.seq = feed'[i]
      BY <2>1, <2>4, <2>5 DEF FeedInOrder
    <2>7. ASSUME NEW i \in 1..Len(feed'), NEW j \in 1..Len(feed'), i < j
          PROVE  feed'[i] < feed'[j]
      <3>1. i \in 1..Len(feed)
        BY <2>4, <2>7
      <3>2. CASE j \in 1..Len(feed)
        BY <2>4, <2>7, <3>1, <3>2 DEF FeedInOrder
      <3>3. CASE j = Len(feed) + 1
        BY <2>3, <2>4, <3>1, <3>3
      <3> QED BY <2>5, <3>2, <3>3
    <2>8. FeedInOrder'
      BY <2>2, <2>6, <2>7 DEF FeedInOrder
    <2> QED BY <2>2, <2>8 DEF InboxComplete, Unpublished
  <1>4. ASSUME NEW c \in Calls, Caller(c)
        PROVE  ToldInv'
    BY <1>4, <1>s DEF Caller, RejectInput, EnsureStarted, NoAppend, StartFails, DispatchAppend,
                CallTimeout, RecoverWriterExit, dbVars, writerVars, work
  <1>5. ASSUME NEW c \in Calls, Coordinator(c), ~TxnCommit(c)
        PROVE  ToldInv'
    BY <1>5, <1>s DEF Coordinator, TransactionRequired, TxnBegin, TxnAppend, TxnRollback,
                Rollback, dbVars, writerVars, work
  <1>6. CASE Writer /\ ~WriterCommit /\ ~Publish
    BY <1>6, <1>s DEF Writer, TakeAppend, BeginImmediate, RetryBusy, RetryExhausted, WriterAttempt,
                WriterRollback, PublishFails, IdleStop, StaleIdleTimeout, Reply, NoAppend,
                WriterExits, Rollback, dbVars, work
  <1>7. CASE IdleTimerFires \/ WriterKilled \/ UNCHANGED vars
    BY <1>7, <1>s DEF IdleTimerFires, WriterKilled, WriterExits, NoAppend, Rollback, dbVars, vars,
                writerVars, work
  <1> QED BY <1>1, <1>2, <1>3, <1>4, <1>5, <1>6, <1>7 DEF Next

\* What append_in_transaction and the writer commit is told: the subscribers
\* see committed events once and in order (publish/2), the planner every one.
THEOREM WriterTells == Spec => []CommittedIsTold
  <1>1. Init => ToldInv
    BY DEF Init, ToldInv, FeedInOrder, InboxComplete, Unpublished
  <1>2. ToldInv => CommittedIsTold
    BY DEF ToldInv, CommittedIsTold
  <1> QED BY <1>1, <1>2, NextToldInv, WriterInvariance, PTL DEF Spec

-----------------------------------------------------------------------------
(* The projection of the log (HarnessProjector): the tables                *)
(* against the replay of every event, rebuilds and lost steps included.    *)

\* A set of numbers that is not empty has a least element.
LEMMA LeastElement ==
  ASSUME NEW T, T \subseteq Nat, T # {}
  PROVE  \E n \in T : \A m \in T : n <= m
<1> DEFINE R == {ss \in Nat \X Nat : ss[1] < ss[2]}
<1>1. OpToRel(<, Nat) = R
  BY Zenon DEF OpToRel
<1>2. IsWellFoundedOn(R, Nat)
  <2> HIDE DEF R
  <2> QED BY <1>1, NatLessThanWellFounded, Zenon
<1>3. PICK n \in T : \A m \in T : ~ (<<m, n>> \in R)
  <2> HIDE DEF R
  <2> QED BY <1>2, WFMin
<1>4. \A m \in T : m \in Nat /\ n \in Nat /\ ~(m < n)
  BY <1>3
<1> QED BY <1>4

\* Induction: a set with 0 and with the successor of each of its numbers has
\* them all.
LEMMA Induction ==
  ASSUME NEW S, 0 \in S, \A n \in Nat : n \in S => n + 1 \in S
  PROVE  Nat \subseteq S
<1> SUFFICES ASSUME ~(Nat \subseteq S) PROVE FALSE
  OBVIOUS
<1> DEFINE T == {n \in Nat : n \notin S}
<1>1. PICK n \in T : \A m \in T : n <= m
  BY LeastElement
<1>2. n # 0 /\ n - 1 \in Nat /\ n - 1 \notin T
  BY <1>1
<1> QED BY <1>1, <1>2

-----------------------------------------------------------------------------
(* The projection of the goal's log                                        *)

\* The defining equation of the replay.
LEMMA ReplayUnfolds ==
  \A n \in Nat : Replay[n] =
    IF n = 0 THEN PureInit ELSE PureApply(Replay[n - 1], log[n])
<1> DEFINE Rest(g, k) == IF k = 0 THEN PureInit ELSE PureApply(g[k - 1], log[k])
           Good(g, n) == \A k \in 0..n : g[k] = Rest(g, k)
           Approx(n) == CHOOSE g : Good(g, n)
           f == [n \in Nat |-> Approx(n)[n]]
<1>1. \A n \in Nat : \E g : Good(g, n)
  <2> DEFINE S == {n \in Nat : \E g : Good(g, n)}
  <2>1. 0 \in S
    <3>1. Good([k \in Nat |-> PureInit], 0)
      OBVIOUS
    <3> QED BY <3>1
  <2>2. ASSUME NEW n \in Nat, n \in S PROVE n + 1 \in S
    <3>1. PICK g : Good(g, n)
      BY <2>2
    <3> DEFINE h == [k \in Nat |-> IF k = n + 1 THEN PureApply(g[n], log[n + 1]) ELSE g[k]]
    <3>2. Good(h, n + 1)
      BY <3>1
    <3> HIDE DEF Good
    <3> QED BY <3>2
  <2> HIDE DEF S
  <2>3. Nat \subseteq S
    BY <2>1, <2>2, Induction
  <2> QED BY <2>3 DEF S
<1>2. \A n \in Nat : Good(Approx(n), n)
  BY <1>1
<1>3. ASSUME NEW n \in Nat, NEW g, NEW h, Good(g, n), Good(h, n)
      PROVE  \A k \in 0..n : g[k] = h[k]
  <2> DEFINE S == {k \in Nat : k <= n => g[k] = h[k]}
  <2>1. 0 \in S
    BY <1>3
  <2>2. ASSUME NEW k \in Nat, k \in S PROVE k + 1 \in S
    BY <1>3, <2>2
  <2> HIDE DEF S
  <2>3. Nat \subseteq S
    BY <2>1, <2>2, Induction
  <2> QED BY <2>3 DEF S
<1>4. ASSUME NEW n \in Nat PROVE f[n] = Rest(f, n)
  <2>1. Good(Approx(n), n)
    BY <1>2
  <2>2. CASE n = 0
    BY <2>1, <2>2
  <2>3. CASE n # 0
    <3>1. n - 1 \in Nat
      BY <2>3
    <3>2. Good(Approx(n - 1), n - 1)
      BY <1>2, <3>1
    <3>3. Good(Approx(n), n - 1)
      BY <2>1
    <3> HIDE DEF Approx
    <3>4. Approx(n)[n - 1] = Approx(n - 1)[n - 1]
      <4> HIDE DEF Good
      <4>1. \A k \in 0..n - 1 : Approx(n)[k] = Approx(n - 1)[k]
        BY <1>3, <3>1, <3>2, <3>3
      <4> QED BY <4>1, <3>1
    <3>5. Approx(n)[n] = PureApply(Approx(n)[n - 1], log[n])
      BY <2>1, <2>3
    <3> QED BY <3>1, <3>4, <3>5, <2>3
  <2> QED BY <2>2, <2>3
<1>5. f = [n \in Nat |-> Rest(f, n)]
  <2> DEFINE r == [n \in Nat |-> Rest(f, n)]
  <2> HIDE DEF f
  <2>1. \A n \in Nat : f[n] = r[n]
    BY <1>4
  <2>2. f = [n \in Nat |-> f[n]]
    BY DEF f
  <2> QED BY <2>1, <2>2
<1>6. Replay = [n \in Nat |-> Rest(Replay, n)]
  <2> HIDE DEF f
  <2> QED BY <1>5 DEF Replay
<1> HIDE DEF f, Approx, Good
<1> QED BY <1>6

\* What is replayed of a prefix depends on nothing behind it.
LEMMA ReplayIsStable ==
  ASSUME NEW k \in Nat, \A i \in 1..k : log'[i] = log[i]
  PROVE  \A n \in 0..k : Replay'[n] = Replay[n]
<1>1. (\A n \in Nat : Replay[n] =
         IF n = 0 THEN PureInit ELSE PureApply(Replay[n - 1], log[n]))'
  BY ReplayUnfolds, PTL
<1> DEFINE S == {n \in Nat : n <= k => Replay'[n] = Replay[n]}
<1>2. 0 \in S
  BY <1>1, ReplayUnfolds DEF PureInit
<1>3. ASSUME NEW n \in Nat, n \in S PROVE n + 1 \in S
  <2> SUFFICES ASSUME n + 1 <= k PROVE Replay'[n + 1] = Replay[n + 1]
    OBVIOUS
  <2>1. Replay'[n] = Replay[n] /\ log'[n + 1] = log[n + 1]
    BY <1>3
  <2>2. n + 1 \in Nat /\ n + 1 # 0 /\ (n + 1) - 1 = n
    OBVIOUS
  <2>3. Replay'[n + 1] = PureApply(Replay'[n], log'[n + 1])
    BY <2>2, <1>1
  <2>4. Replay[n + 1] = PureApply(Replay[n], log[n + 1])
    BY <2>2, ReplayUnfolds
  <2> QED BY <2>1, <2>3, <2>4
<1> HIDE DEF S
<1>4. Nat \subseteq S
  BY <1>2, <1>3, Induction
<1> QED BY <1>4 DEF S

\* What events there are: of which run, of which lease or checkpoint or snapshot.
EventKinds == [act : AllActs \cup {"request"}, run : Runs \cup {None},
               id : Grants \cup Checkpoints \cup Snapshots \cup {None},
               dep : Snapshots \cup {None}]
OfRun == RunActs \cup {"request", "propose", "checkpoint", "handoff"}
WellFormed(e) ==
  /\ e \in EventKinds
  /\ e.act \in OfRun => e.run \in Runs
  /\ e.act \in LeaseActs \cup {"propose"} => e.id \in Grants
  /\ e.act \in {"checkpoint", "handoff"} => e.id \in Checkpoints
  /\ e.act = "snapshot" => e.id \in Snapshots
  /\ e.act = "propose" => e.dep \in Snapshots
LogTyped == log \in Seq(EventKinds) /\ \A i \in 1..Len(log) : WellFormed(log[i])

Positions == position \in [last : 0..MaxEvents, status : {"ok", "failed"}]
             /\ position.last <= Len(log) /\ Len(log) <= MaxEvents
RowsTyped ==
  /\ runs \in [Runs -> [status : RunStatuses, seq : 0..MaxEvents] \cup {None}]
  /\ leases \in [Grants -> [status : LeaseStatuses, run : Runs, snapshot : Snapshots]
                           \cup {None}]
  /\ checkpoints \in [Checkpoints -> [run : Runs, seq : 1..MaxEvents] \cup {None}]
  /\ snapshots \subseteq Snapshots
CountersTyped == pending \in [Runs -> 0..2] /\ resets \in 0..MaxResets

\* Whatever concerns a run comes behind its request.
RequestFirst ==
  \A i \in 1..Len(log) : log[i].act \in OfRun =>
    \E j \in 1..i : log[j].act = "request" /\ log[j].run = log[i].run
\* A lease is proposed once, a checkpoint recorded once.
KeyedOnce ==
  \A i, j \in 1..Len(log) :
    log[i].act \in {"propose", "checkpoint"} /\ log[j].act = log[i].act /\ log[j].id = log[i].id
      => i = j
\* The intent precedes the request and is never taken back.
IntentsStay ==
  /\ \A r \in Runs : pending[r] > 0 => runs[r] # None
  /\ \A i \in 1..Len(log) : log[i].act = "request" => runs[log[i].run] # None

\* The replay of what is projected, of the right type.
Replayed == Replay[position.last]
ReplayStates ==
  [runs : [Runs -> RunStatuses \cup {None}],
   leases : [Grants -> [status : LeaseStatuses, run : Runs] \cup {None}],
   checkpoints : SUBSET (Checkpoints \X Runs), snapshots : SUBSET Snapshots, ok : BOOLEAN]
ReplayTyped == Replayed \in ReplayStates

\* A run, a lease, a checkpoint are known behind their first event, and only there.
Applied(act) == {i \in 1..position.last : log[i].act = act}
KnownByEvents ==
  /\ \A r \in Runs : Replayed.runs[r] # None <=> \E i \in Applied("request") : log[i].run = r
  /\ \A g \in Grants : leases[g] # None => \E i \in Applied("propose") : log[i].id = g
  /\ \A c \in Checkpoints :
       checkpoints[c] # None => \E i \in Applied("checkpoint") : log[i].id = c

\* The agreement of the two, in parts.
RunsAgree(s) ==
  \A r \in Runs : IF s.runs[r] = None THEN runs[r] \in {None, Fresh}
                  ELSE runs[r] # None /\ runs[r].status = s.runs[r]
LeasesAgree(s) ==
  \A g \in Grants : IF s.leases[g] = None THEN leases[g] = None
                    ELSE /\ leases[g] # None
                         /\ leases[g].status = s.leases[g].status
                         /\ leases[g].run = s.leases[g].run
CheckpointsAgree(s) ==
  {<<c, checkpoints[c].run>> : c \in {d \in Checkpoints : checkpoints[d] # None}} = s.checkpoints

\* The tables are those of the replay of the events projected so far.
Agrees ==
  /\ Replayed.ok /\ RunsAgree(Replayed) /\ LeasesAgree(Replayed)
  /\ CheckpointsAgree(Replayed) /\ snapshots = Replayed.snapshots

\* What holds throughout: of the log, of the tables, and between them.
ProjInv ==
  /\ LogTyped /\ Positions /\ RowsTyped /\ CountersTyped
  /\ RequestFirst /\ KeyedOnce /\ IntentsStay /\ RequestedOnce
  /\ ReplayTyped /\ KnownByEvents /\ Agrees

\* The agreement that is kept is the one the run checks.
LEMMA AgreementIs == Agrees => ReplayAgrees
  BY DEF Agrees, ReplayAgrees, Replayed, RunsAgree, LeasesAgree, CheckpointsAgree, Fresh

\* The agreement is about the tables and the replay of what is projected only.
LEMMA AgreementStays ==
  ASSUME Agrees, Replayed' = Replayed, UNCHANGED tables
  PROVE  Agrees'
  BY DEF Agrees, RunsAgree, LeasesAgree, CheckpointsAgree, Fresh, tables

-----------------------------------------------------------------------------
(* Steps that leave the projected prefix alone                             *)

\* Which events are on record, spelled out: of a run's request, and by key.
LEMMA RequestedIs ==
  ASSUME NEW r
  PROVE  Requested(r) <=> \E i \in 1..Len(log) : log[i].act = "request" /\ log[i].run = r
  BY DEF Requested, InLog

\* A key is new when no event of the log has it.
LEMMA NewIs ==
  ASSUME NEW act, NEW id
  PROVE  New(act, id) <=> ~ \E i \in 1..Len(log) : log[i].act = act /\ log[i].id = id
  BY DEF New, InLog

\* What has been projected stays the prefix it was, whatever is appended.
LEMMA PrefixStays ==
  ASSUME Positions, UNCHANGED position, \A i \in 1..position.last : log'[i] = log[i]
  PROVE  Replayed' = Replayed /\ \A act : Applied(act)' = Applied(act)
<1>1. position.last \in Nat
  BY DEF Positions
<1>2. Replay'[position.last] = Replay[position.last]
  BY <1>1, ReplayIsStable
<1> QED BY <1>2 DEF Replayed, Applied

\* A step of the tables that does not touch the log or the position.
LEMMA LogStays ==
  ASSUME ProjInv, UNCHANGED <<log, position>>
  PROVE  /\ LogTyped' /\ Positions' /\ RequestFirst' /\ KeyedOnce' /\ RequestedOnce'
         /\ ReplayTyped' /\ Replayed' = Replayed /\ \A act : Applied(act)' = Applied(act)
<1>1. Replayed' = Replayed /\ \A act : Applied(act)' = Applied(act)
  BY PrefixStays DEF ProjInv
<1> QED BY <1>1 DEF ProjInv, LogTyped, Positions, RequestFirst, KeyedOnce, RequestedOnce,
           ReplayTyped, WellFormed

\* An intent is inserted: a row in the state of a run no event tells of.
LEMMA InsertIntentKeeps ==
  ASSUME ProjInv, NEW r \in Runs, InsertIntent(r)
  PROVE  ProjInv'
<1> USE DEF InsertIntent
<1>1. Fresh \in [status : RunStatuses, seq : 0..MaxEvents] /\ Fresh # None
  BY ProjectorAssumption DEF Fresh, RunStatuses
<1>2. runs' = [runs EXCEPT ![r] = Fresh] /\ runs[r] = None /\ runs'[r] # None
      /\ \A q \in Runs : q # r => runs'[q] = runs[q]
  BY <1>1 DEF ProjInv, RowsTyped
<1>3. LogTyped' /\ Positions' /\ RequestFirst' /\ KeyedOnce' /\ RequestedOnce' /\ ReplayTyped'
      /\ Replayed' = Replayed /\ \A act : Applied(act)' = Applied(act)
  BY LogStays
<1>4. RowsTyped' /\ CountersTyped'
  BY <1>1, <1>2 DEF ProjInv, RowsTyped, CountersTyped
<1>5. IntentsStay'
  BY <1>2 DEF ProjInv, IntentsStay, CountersTyped, LogTyped, WellFormed, OfRun
<1>6. KnownByEvents'
  BY <1>3 DEF ProjInv, KnownByEvents
<1>7. Replayed.runs[r] = None
  BY <1>2 DEF ProjInv, Agrees, RunsAgree
<1>8. Agrees'
  <2>1. \A q \in Runs : IF Replayed.runs[q] = None THEN runs'[q] \in {None, Fresh}
                        ELSE runs'[q] # None /\ runs'[q].status = Replayed.runs[q]
    BY <1>2, <1>7, <1>1 DEF ProjInv, Agrees, RunsAgree, RowsTyped
  <2> QED BY <2>1, <1>3 DEF ProjInv, Agrees, RunsAgree, LeasesAgree, CheckpointsAgree, Fresh
<1> QED BY <1>3, <1>4, <1>5, <1>6, <1>8 DEF ProjInv

\* Who was about to append run.requested dies.
LEMMA RequesterDiesKeeps ==
  ASSUME ProjInv, NEW r \in Runs, RequesterDies(r)
  PROVE  ProjInv'
<1> USE DEF RequesterDies, tables
<1>1. LogTyped' /\ Positions' /\ RequestFirst' /\ KeyedOnce' /\ RequestedOnce' /\ ReplayTyped'
      /\ Replayed' = Replayed /\ \A act : Applied(act)' = Applied(act)
  BY LogStays
<1>2. CountersTyped' /\ RowsTyped' /\ IntentsStay'
  BY DEF ProjInv, RowsTyped, CountersTyped, IntentsStay
<1>3. KnownByEvents' /\ Agrees'
  BY <1>1, AgreementStays DEF ProjInv, KnownByEvents
<1> QED BY <1>1, <1>2, <1>3 DEF ProjInv

\* A reconciler finds the event missing and is about to append it.
LEMMA ReconcileKeeps ==
  ASSUME ProjInv, NEW r \in Runs, Reconcile(r)
  PROVE  ProjInv'
<1> USE DEF Reconcile, tables
<1>1. LogTyped' /\ Positions' /\ RequestFirst' /\ KeyedOnce' /\ RequestedOnce' /\ ReplayTyped'
      /\ Replayed' = Replayed /\ \A act : Applied(act)' = Applied(act)
  BY LogStays
<1>2. runs[r] # None
  BY ProjectorAssumption DEF Fresh, RunStatuses
<1>3. CountersTyped' /\ RowsTyped' /\ IntentsStay'
  BY <1>2 DEF ProjInv, RowsTyped, CountersTyped, IntentsStay
<1>4. KnownByEvents' /\ Agrees'
  BY <1>1, AgreementStays DEF ProjInv, KnownByEvents
<1> QED BY <1>1, <1>3, <1>4 DEF ProjInv

\* A snapshot chained onto a lease row changes no status (chain_snapshot).
LEMMA ChainSnapshotKeeps ==
  ASSUME ProjInv, NEW g \in Grants, NEW s \in Snapshots,
         ChainSnapshot(g, s)
  PROVE  ProjInv'
<1> USE DEF ChainSnapshot
<1>1. LogTyped' /\ Positions' /\ RequestFirst' /\ KeyedOnce' /\ RequestedOnce' /\ ReplayTyped'
      /\ Replayed' = Replayed /\ \A act : Applied(act)' = Applied(act)
  BY LogStays
<1>2. leases[g] \in [status : LeaseStatuses, run : Runs, snapshot : Snapshots]
  BY DEF ProjInv, RowsTyped
<1>3. leases'[g] \in [status : LeaseStatuses, run : Runs, snapshot : Snapshots]
      /\ leases'[g].status = leases[g].status /\ leases'[g].run = leases[g].run
      /\ leases'[g] # None
  <2>1. leases'[g] = [leases[g] EXCEPT !.snapshot = s]
    BY DEF ProjInv, RowsTyped
  <2> QED BY ProjectorAssumption, <2>1, <1>2
<1>4. leases' \in [Grants -> [status : LeaseStatuses, run : Runs, snapshot : Snapshots]
                             \cup {None}]
      /\ \A h \in Grants : h # g => leases'[h] = leases[h]
  BY <1>3 DEF ProjInv, RowsTyped
<1>5. CountersTyped' /\ RowsTyped' /\ IntentsStay'
  BY <1>4 DEF ProjInv, RowsTyped, CountersTyped, IntentsStay
<1>6. KnownByEvents'
  BY <1>1, <1>4 DEF ProjInv, KnownByEvents
<1>7. Agrees'
  <2>1. \A h \in Grants : IF Replayed.leases[h] = None THEN leases'[h] = None
                          ELSE /\ leases'[h] # None
                               /\ leases'[h].status = Replayed.leases[h].status
                               /\ leases'[h].run = Replayed.leases[h].run
    BY <1>3, <1>4 DEF ProjInv, Agrees, LeasesAgree
  <2> QED BY <2>1, <1>1 DEF ProjInv, Agrees, RunsAgree, LeasesAgree, CheckpointsAgree, Fresh
<1> QED BY <1>1, <1>5, <1>6, <1>7 DEF ProjInv

\* An event is appended: well formed, behind the request of its run, and new if
\* its kind has a key.
LEMMA AppendKeeps ==
  ASSUME ProjInv, NEW e, WellFormed(e), log' = Append(log, e), Len(log) < MaxEvents,
         UNCHANGED <<tables, position, resets>>, MaxEvents \in Nat,
         pending' \in [Runs -> 0..2], \A r \in Runs : pending'[r] <= pending[r],
         e.act \in OfRun \ {"request"} => Requested(e.run),
         e.act = "request" => ~Requested(e.run) /\ runs[e.run] # None,
         e.act \in {"propose", "checkpoint"} => New(e.act, e.id)
  PROVE  ProjInv'
<1> USE DEF tables
<1>1. log \in Seq(EventKinds) /\ e \in EventKinds
  BY DEF ProjInv, LogTyped, WellFormed
<1>2. /\ log' \in Seq(EventKinds) /\ Len(log') = Len(log) + 1 /\ Len(log) \in Nat
      /\ log'[Len(log) + 1] = e /\ \A i \in 1..Len(log) : log'[i] = log[i]
  BY <1>1
<1>3. LogTyped' /\ Positions'
  BY <1>2 DEF ProjInv, LogTyped, Positions, WellFormed
<1>4. /\ Replayed' = Replayed
      /\ \A act : Applied(act)' = Applied(act) /\ \A i \in Applied(act) : log'[i] = log[i]
  <2>1. \A i \in 1..position.last : log'[i] = log[i]
    BY <1>2 DEF ProjInv, Positions
  <2> QED BY <2>1, PrefixStays DEF ProjInv, Applied
<1>5. RequestFirst'
  <2> SUFFICES ASSUME NEW i \in 1..Len(log'), log'[i].act \in OfRun
               PROVE  \E j \in 1..i : log'[j].act = "request" /\ log'[j].run = log'[i].run
    BY DEF RequestFirst
  <2>1. CASE i \in 1..Len(log)
    <3>1. PICK j \in 1..i : log[j].act = "request" /\ log[j].run = log[i].run
      BY <2>1, <1>2 DEF ProjInv, RequestFirst
    <3> QED BY <3>1, <2>1, <1>2
  <2>2. CASE i = Len(log) + 1 /\ e.act = "request"
    BY <2>2, <1>2
  <2>3. CASE i = Len(log) + 1 /\ e.act # "request"
    <3>1. PICK j \in 1..Len(log) : log[j].act = "request" /\ log[j].run = e.run
      BY <2>3, <1>2, RequestedIs
    <3> QED BY <3>1, <2>3, <1>2
  <2> QED BY <2>1, <2>2, <2>3, <1>2
<1>6. KeyedOnce'
  <2>1. e.act \in {"propose", "checkpoint"} =>
          \A i \in 1..Len(log) : ~(log[i].act = e.act /\ log[i].id = e.id)
    BY NewIs
  <2> QED BY <2>1, <1>2 DEF ProjInv, KeyedOnce
<1>7. RequestedOnce'
  <2>1. e.act = "request" => \A i \in 1..Len(log) : ~(log[i].act = "request" /\ log[i].run = e.run)
    BY RequestedIs
  <2> QED BY <2>1, <1>2 DEF ProjInv, RequestedOnce
<1>8. IntentsStay'
  <2>1. \A r \in Runs : pending'[r] > 0 => pending[r] > 0
    BY DEF ProjInv, CountersTyped
  <2> QED BY <2>1, <1>2 DEF ProjInv, IntentsStay
<1>9. RowsTyped' /\ CountersTyped' /\ ReplayTyped' /\ KnownByEvents'
  <2>1. RowsTyped' /\ CountersTyped' /\ ReplayTyped'
    BY <1>4 DEF ProjInv, RowsTyped, CountersTyped, ReplayTyped
  <2>2. UNCHANGED <<leases, checkpoints>> /\ KnownByEvents
    BY DEF ProjInv
  <2>3. \A r \in Runs : Replayed'.runs[r] # None
                          <=> \E i \in Applied("request")' : log'[i].run = r
    <3>1. \A r \in Runs : (\E i \in Applied("request")' : log'[i].run = r)
                          <=> \E i \in Applied("request") : log[i].run = r
      BY <1>4
    <3> QED BY <3>1, <1>4, <2>2 DEF KnownByEvents
  <2>4. ASSUME NEW g \in Grants, leases'[g] # None
        PROVE  \E i \in Applied("propose")' : log'[i].id = g
    <3>1. PICK i \in Applied("propose") : log[i].id = g
      BY <2>2, <2>4 DEF KnownByEvents
    <3>2. i \in Applied("propose")' /\ log'[i] = log[i]
      BY <1>4
    <3> QED BY <3>1, <3>2
  <2>5. ASSUME NEW c \in Checkpoints, checkpoints'[c] # None
        PROVE  \E i \in Applied("checkpoint")' : log'[i].id = c
    <3>1. PICK i \in Applied("checkpoint") : log[i].id = c
      BY <2>2, <2>5 DEF KnownByEvents
    <3>2. i \in Applied("checkpoint")' /\ log'[i] = log[i]
      BY <1>4
    <3> QED BY <3>1, <3>2
  <2> QED BY <2>1, <2>3, <2>4, <2>5 DEF KnownByEvents
<1>10. Agrees'
  BY <1>4, AgreementStays DEF ProjInv
<1> QED BY <1>3, <1>5, <1>6, <1>7, <1>8, <1>9, <1>10 DEF ProjInv

\* Appending run.requested, unless it is on record: one request per run.
LEMMA AppendRequestedKeeps ==
  ASSUME ProjInv, NEW r \in Runs, AppendRequested(r)
  PROVE  ProjInv'
<1> USE DEF AppendRequested
<1> DEFINE e == Event("request", r, None, None)
<1>1. /\ pending' \in [Runs -> 0..2] /\ \A q \in Runs : pending'[q] <= pending[q]
      /\ runs[r] # None
  BY DEF ProjInv, CountersTyped, IntentsStay
<1>2. CASE Requested(r)
  <2> USE DEF tables
  <2>0. UNCHANGED <<log, position>>
    BY <1>2
  <2>1. LogTyped' /\ Positions' /\ RequestFirst' /\ KeyedOnce' /\ RequestedOnce' /\ ReplayTyped'
        /\ Replayed' = Replayed /\ \A act : Applied(act)' = Applied(act)
    BY <2>0, LogStays
  <2>2. CountersTyped' /\ RowsTyped' /\ IntentsStay'
    BY <1>1, <1>2 DEF ProjInv, RowsTyped, CountersTyped, IntentsStay
  <2>3. KnownByEvents' /\ Agrees'
    BY <2>0, <2>1, AgreementStays DEF ProjInv, KnownByEvents
  <2> QED BY <2>1, <2>2, <2>3 DEF ProjInv
<1>3. CASE ~Requested(r)
  <2>1. /\ e.act = "request" /\ e.run = r /\ WellFormed(e)
    BY DEF Event, WellFormed, EventKinds, OfRun, LeaseActs, AllActs
  <2>2. log' = Append(log, e)
    BY <1>3
  <2>3. MaxEvents \in Nat /\ UNCHANGED <<tables, position, resets>> /\ Len(log) < MaxEvents
    BY ProjectorAssumption
  <2> HIDE DEF e
  <2> QED BY <1>1, <1>3, <2>1, <2>2, <2>3, AppendKeeps
<1> QED BY <1>2, <1>3

\* Events of other components.
LEMMA PutKeeps ==
  ASSUME ProjInv, NEW e, WellFormed(e), Put(e), e.act # "request",
         e.act \in OfRun => Requested(e.run),
         e.act \in {"propose", "checkpoint"} => New(e.act, e.id)
  PROVE  ProjInv'
<1>1. MaxEvents \in Nat /\ log' = Append(log, e) /\ Len(log) < MaxEvents
      /\ UNCHANGED <<tables, position, resets>>
  BY ProjectorAssumption DEF Put
<1>2. pending' \in [Runs -> 0..2] /\ \A r \in Runs : pending'[r] <= pending[r]
  BY DEF Put, ProjInv, CountersTyped
<1> QED BY <1>1, <1>2, AppendKeeps

\* The events of other components, kind by kind: an append changes no table.
LEMMA RunEventKeeps ==
  ASSUME ProjInv, NEW r \in Runs, RunEvent(r)
  PROVE  ProjInv'
<1>1. PICK act \in RunActs : Put(Event(act, r, None, None))
  BY DEF RunEvent
<1> DEFINE e == Event(act, r, None, None)
<1>2. WellFormed(e) /\ e.act # "request" /\ e.run = r /\ e.act \notin {"propose", "checkpoint"}
  BY DEF WellFormed, EventKinds, OfRun, Event, AllActs, RunActs, LeaseActs
<1>3. Requested(e.run)
  BY <1>2 DEF RunEvent
<1> HIDE DEF e
<1> QED BY <1>1, <1>2, <1>3, PutKeeps DEF e

\* An event of a lease.
LEMMA LeaseEventKeeps ==
  ASSUME ProjInv, NEW g \in Grants, LeaseEvent(g)
  PROVE  ProjInv'
<1>1. PICK act \in LeaseActs : Put(Event(act, None, g, None))
  BY DEF LeaseEvent
<1> DEFINE e == Event(act, None, g, None)
<1>2. WellFormed(e) /\ e.act \notin OfRun /\ e.act # "request" /\ e.act \notin {"propose", "checkpoint"}
  BY DEF WellFormed, EventKinds, OfRun, Event, AllActs, RunActs, LeaseActs
<1> HIDE DEF e
<1> QED BY <1>1, <1>2, PutKeeps DEF e

\* A proposal brings a new lease.
LEMMA ProposeKeeps ==
  ASSUME ProjInv, NEW r \in Runs, NEW g \in Grants, NEW s \in Snapshots,
         Propose(g, r, s)
  PROVE  ProjInv'
<1> DEFINE e == Event("propose", r, g, s)
<1>1. WellFormed(e) /\ e.act = "propose" /\ e.run = r /\ e.id = g
  BY DEF WellFormed, EventKinds, OfRun, Event, AllActs, RunActs, LeaseActs
<1> HIDE DEF e
<1> QED BY <1>1, PutKeeps DEF Propose, e

\* Checkpoints and handoffs are recorded once.
LEMMA CheckpointEventsKeep ==
  ASSUME ProjInv, NEW r \in Runs, NEW c \in Checkpoints,
         CheckpointEvent(c, r) \/ Handoff(c, r)
  PROVE  ProjInv'
<1>1. CASE CheckpointEvent(c, r)
  <2> DEFINE e == Event("checkpoint", r, c, None)
  <2>1. WellFormed(e) /\ e.act = "checkpoint" /\ e.run = r /\ e.id = c
    BY DEF WellFormed, EventKinds, OfRun, Event, AllActs, RunActs, LeaseActs
  <2> HIDE DEF e
  <2> QED BY <1>1, <2>1, PutKeeps DEF CheckpointEvent, e
<1>2. CASE Handoff(c, r)
  <2> DEFINE e == Event("handoff", r, c, None)
  <2>1. WellFormed(e) /\ e.act = "handoff" /\ e.run = r
    BY DEF WellFormed, EventKinds, OfRun, Event, AllActs, RunActs, LeaseActs
  <2> HIDE DEF e
  <2> QED BY <1>2, <2>1, PutKeeps DEF Handoff, e
<1> QED BY <1>1, <1>2

\* A capacity snapshot.
LEMMA SnapshotEventKeeps ==
  ASSUME ProjInv, NEW s \in Snapshots, SnapshotEvent(s)
  PROVE  ProjInv'
<1> DEFINE e == Event("snapshot", None, s, None)
<1>1. WellFormed(e) /\ e.act = "snapshot" /\ e.act \notin OfRun
  BY DEF WellFormed, EventKinds, OfRun, Event, AllActs, RunActs, LeaseActs
<1> HIDE DEF e
<1> QED BY <1>1, PutKeeps DEF SnapshotEvent, e

\* A rebuild empties the tables and begins at the first event.
LEMMA ResetKeeps ==
  ASSUME ProjInv, Reset
  PROVE  ProjInv'
<1> USE DEF Reset
<1>1. LogTyped' /\ RequestFirst' /\ KeyedOnce' /\ RequestedOnce' /\ Positions'
  BY ProjectorAssumption
     DEF ProjInv, LogTyped, RequestFirst, KeyedOnce, RequestedOnce, Positions, WellFormed
<1>2. Replayed' = PureInit
  <2>1. Replay[0] = PureInit
    BY ReplayUnfolds
  <2>2. Replay'[0] = Replay[0]
    BY ReplayIsStable
  <2> QED BY <2>1, <2>2 DEF Replayed
<1>3. \A act : Applied(act)' = {}
  BY DEF Applied
<1>4. Fresh \in [status : RunStatuses, seq : 0..MaxEvents] /\ Fresh # None
  BY ProjectorAssumption DEF Fresh, RunStatuses
<1>5. RowsTyped' /\ CountersTyped'
  BY ProjectorAssumption, <1>4 DEF ProjInv, RowsTyped, CountersTyped, NoLeases, NoCheckpoints
<1>6. IntentsStay'
  BY <1>4 DEF ProjInv, IntentsStay, LogTyped, WellFormed, OfRun
<1>7. ReplayTyped'
  BY <1>2 DEF ReplayTyped, ReplayStates, PureInit
<1>8. KnownByEvents'
  BY <1>2, <1>3 DEF KnownByEvents, PureInit, NoLeases, NoCheckpoints
<1>9. Agrees'
  BY <1>2 DEF Agrees, RunsAgree, LeasesAgree, CheckpointsAgree, PureInit, NoLeases,
     NoCheckpoints, Fresh
<1> QED BY <1>1, <1>5, <1>6, <1>7, <1>8, <1>9 DEF ProjInv

-----------------------------------------------------------------------------
(* Projecting                                                              *)

\* The projector is healthy, behind the log, and at its next event.
Next1 == log[position.last + 1]
Advances == position' = [position EXCEPT !.last = @ + 1]
OkBefore == ProjInv /\ position.last + 1 <= Len(log) /\ UNCHANGED <<log, pending, resets>>

\* The next event is replayed with the projection of it.
LEMMA ReplayAdvances ==
  ASSUME OkBefore, Advances
  PROVE  /\ Replayed' = PureApply(Replayed, Next1)
         /\ \A act : Applied(act)' =
              Applied(act) \cup (IF Next1.act = act THEN {position.last + 1} ELSE {})
         /\ LogTyped' /\ Positions' /\ RequestFirst' /\ KeyedOnce' /\ RequestedOnce'
         /\ WellFormed(Next1)
<1> USE DEF OkBefore, Advances
<1>1. position.last \in Nat /\ position'.last = position.last + 1 /\ Positions'
  BY ProjectorAssumption DEF ProjInv, Positions, LogTyped
<1>2. Replay'[position.last + 1] = Replay[position.last + 1]
  <2>1. position.last + 1 \in Nat /\ \A i \in 1..position.last + 1 : log'[i] = log[i]
    BY <1>1
  <2> QED BY <2>1, ReplayIsStable
<1>3. Replay[position.last + 1] = PureApply(Replay[position.last], Next1)
  BY <1>1, ReplayUnfolds DEF Next1
<1>4. LogTyped' /\ RequestFirst' /\ KeyedOnce' /\ RequestedOnce'
  BY DEF ProjInv, LogTyped, RequestFirst, KeyedOnce, RequestedOnce, WellFormed
<1>5. WellFormed(Next1)
  BY <1>1 DEF ProjInv, LogTyped, Positions, Next1
<1> QED BY <1>1, <1>2, <1>3, <1>4, <1>5 DEF Replayed, Applied, Next1

\* An event of a run finds its run requested in the replay.
LEMMA RunIsKnown ==
  ASSUME OkBefore, Next1.act \in OfRun \ {"request"}
  PROVE  Next1.run \in Runs /\ Replayed.runs[Next1.run] # None /\ runs[Next1.run] # None
<1> USE DEF OkBefore
<1>1. position.last + 1 \in 1..Len(log) /\ position.last \in Nat /\ WellFormed(Next1)
  BY DEF ProjInv, Positions, LogTyped, Next1
<1>2. PICK j \in 1..position.last + 1 : log[j].act = "request" /\ log[j].run = Next1.run
  BY <1>1 DEF ProjInv, RequestFirst, Next1
<1>3. j \in Applied("request")
  BY <1>1, <1>2 DEF Applied, Next1
<1>4. Next1.run \in Runs
  BY <1>1 DEF WellFormed
<1>5. Replayed.runs[Next1.run] # None
  BY <1>2, <1>3, <1>4 DEF ProjInv, KnownByEvents
<1>6. runs[Next1.run] # None
  BY <1>4, <1>5 DEF ProjInv, Agrees, RunsAgree
<1> QED BY <1>4, <1>5, <1>6

\* A request is the first event of its run.
LEMMA RequestIsNew ==
  ASSUME OkBefore, Next1.act = "request"
  PROVE  /\ Next1.run \in Runs /\ Replayed.runs[Next1.run] = None
         /\ runs[Next1.run] = Fresh
<1> USE DEF OkBefore
<1>1. position.last + 1 \in 1..Len(log) /\ position.last \in Nat /\ WellFormed(Next1)
  BY DEF ProjInv, Positions, LogTyped, Next1
<1>2. Next1.run \in Runs
  BY <1>1 DEF WellFormed, OfRun
<1>3. ~ \E i \in Applied("request") : log[i].run = Next1.run
  BY <1>1 DEF ProjInv, RequestedOnce, Applied, Next1, Positions
<1>4. Replayed.runs[Next1.run] = None
  BY <1>2, <1>3 DEF ProjInv, KnownByEvents
<1>5. runs[Next1.run] # None
  BY <1>1 DEF ProjInv, IntentsStay, Next1
<1>6. runs[Next1.run] \in {None, Fresh}
  BY <1>2, <1>4 DEF ProjInv, Agrees, RunsAgree
<1> QED BY <1>2, <1>4, <1>5, <1>6

\* A proposal or a checkpoint is the first of its id.
LEMMA KeyIsNew ==
  ASSUME OkBefore
  PROVE  /\ Next1.act = "propose" => leases[Next1.id] = None
         /\ Next1.act = "checkpoint" => checkpoints[Next1.id] = None
<1> USE DEF OkBefore
<1>1. position.last + 1 \in 1..Len(log) /\ position.last \in Nat /\ WellFormed(Next1)
  BY DEF ProjInv, Positions, LogTyped, Next1
<1>2. \A act \in {"propose", "checkpoint"} :
        Next1.act = act => ~ \E i \in Applied(act) : log[i].id = Next1.id
  BY <1>1 DEF ProjInv, KeyedOnce, Applied, Next1, Positions
<1> QED BY <1>1, <1>2 DEF ProjInv, KnownByEvents, WellFormed

\* Where the lifecycle tables lead.
LEMMA TargetsTyped ==
  /\ \A s \in RunStatuses : \A a : RunTarget(s, a) \in RunStatuses \cup {"illegal"}
  /\ \A s \in LeaseStatuses : \A a :
       LeaseTarget(s, a) \in LeaseStatuses \cup {"illegal"}
  BY DEF RunTarget, LeaseTarget, RunStatuses, LeaseStatuses

\* An event that cannot be projected stops the projector; the tables stay those of
\* the events before it.
LEMMA FailKeeps ==
  ASSUME OkBefore, Fail
  PROVE  ProjInv'
<1> USE DEF OkBefore, Fail, tables
<1>1. position'.last = position.last /\ position.last \in Nat /\ Positions'
  BY DEF ProjInv, Positions
<1>2. Replay'[position.last] = Replay[position.last]
  BY <1>1, ReplayIsStable
<1>3. Replayed' = Replayed /\ \A act : Applied(act)' = Applied(act)
  BY <1>1, <1>2 DEF Replayed, Applied
<1>4. LogTyped' /\ RequestFirst' /\ KeyedOnce' /\ RequestedOnce'
  BY DEF ProjInv, LogTyped, RequestFirst, KeyedOnce, RequestedOnce, WellFormed
<1>5. CountersTyped' /\ RowsTyped' /\ IntentsStay' /\ ReplayTyped' /\ KnownByEvents'
  BY <1>3 DEF ProjInv, RowsTyped, CountersTyped, IntentsStay, ReplayTyped, KnownByEvents
<1>6. Agrees'
  BY <1>3, AgreementStays DEF ProjInv
<1> QED BY <1>1, <1>4, <1>5, <1>6 DEF ProjInv

\* The next event is of a run: its row changes as the replay changes it.
LEMMA PersistRunKeeps ==
  ASSUME OkBefore, Next1.act \in RunActs \cup {"request"},
         PersistRun(Next1, position.last + 1)
  PROVE  ProjInv'
<1> DEFINE e == Next1
           n == position.last + 1
           to == RunTarget(runs[e.run].status, e.act)
<1>1. e.run \in Runs /\ n \in 1..MaxEvents /\ runs[e.run] \in [status : RunStatuses, seq : 0..MaxEvents]
      /\ runs[e.run] # None
  <2>1. e.run \in Runs /\ runs[e.run] # None
    BY ProjectorAssumption, RunIsKnown, RequestIsNew DEF OfRun, Fresh, RunStatuses
  <2> QED BY ProjectorAssumption, <2>1 DEF OkBefore, ProjInv, RowsTyped, Positions
<1>2. CASE Fail
  BY <1>2, FailKeeps
<1>3. CASE ~Fail
  <2>1. /\ to # "illegal" /\ runs' = [runs EXCEPT ![e.run] = [status |-> to, seq |-> n]]
        /\ Advances /\ UNCHANGED <<leases, checkpoints, snapshots>>
    <3>1. e.act = "request" => runs[e.run] = Fresh
      BY RequestIsNew
    <3> QED BY <1>3, <3>1 DEF PersistRun, Advance, Advances
  <2>2. to \in RunStatuses
    BY <2>1, <1>1, TargetsTyped
  <2>3. /\ Replayed' = PureApply(Replayed, e)
        /\ \A act : Applied(act)' = Applied(act) \cup (IF e.act = act THEN {n} ELSE {})
        /\ LogTyped' /\ Positions' /\ RequestFirst' /\ KeyedOnce' /\ RequestedOnce'
        /\ WellFormed(e)
    BY <2>1, ReplayAdvances
  <2>4. Replayed' = [Replayed EXCEPT !.runs[e.run] = to]
    <3>1. CASE e.act = "request"
      <4>1. to = "requested"
        BY <3>1, RequestIsNew DEF RunTarget, Fresh
      <4> QED BY <2>3, <4>1, <3>1 DEF PureApply, RunActs, LeaseActs
    <3>2. CASE e.act \in RunActs
      <4>1. Replayed.runs[e.run] # None /\ e.act # "request" /\ e.act \in OfRun
        BY <3>2, RunIsKnown DEF RunActs, OfRun
      <4>2. Replayed.runs[e.run] = runs[e.run].status
        BY <4>1, <1>1 DEF OkBefore, ProjInv, Agrees, RunsAgree
      <4>3. IF Replayed.runs[e.run] = None THEN FALSE ELSE RunTarget(Replayed.runs[e.run], e.act) = to
        BY <4>1, <4>2
      <4> QED BY <2>1, <2>3, <4>1, <4>3, <3>2 DEF PureApply, RunActs, LeaseActs
    <3> QED BY <3>1, <3>2
  <2> DEFINE row == [status |-> to, seq |-> n]
  <2>5. row \in [status : RunStatuses, seq : 0..MaxEvents] /\ row # None /\ to # None
        /\ row.status = to
    BY ProjectorAssumption, <1>1, <2>2
  <2>6. runs' = [runs EXCEPT ![e.run] = row]
    BY <2>1
  <2> HIDE DEF row, to, e, n
  <2>7. runs'[e.run] = row /\ \A r \in Runs : r # e.run => runs'[r] = runs[r]
    BY <2>6, <1>1 DEF OkBefore, ProjInv, RowsTyped
  <2>8. RowsTyped' /\ CountersTyped' /\ IntentsStay'
    <3>1. RowsTyped' /\ CountersTyped'
      <4>1. runs' \in [Runs -> [status : RunStatuses, seq : 0..MaxEvents] \cup {None}]
        BY <2>5, <2>6 DEF OkBefore, ProjInv, RowsTyped
      <4>2. UNCHANGED <<leases, checkpoints, snapshots, pending, resets>>
        BY <2>1 DEF OkBefore
      <4> QED BY <4>1, <4>2 DEF OkBefore, ProjInv, RowsTyped, CountersTyped
    <3>2. \A r \in Runs : runs[r] # None => runs'[r] # None
      BY <2>5, <2>7
    <3> QED BY <3>1, <3>2 DEF OkBefore, ProjInv, IntentsStay, LogTyped, WellFormed, OfRun
  <2>9. Replayed \in ReplayStates /\ Replayed' \in ReplayStates /\ Replayed'.runs[e.run] = to
        /\ (\A r \in Runs : r # e.run => Replayed'.runs[r] = Replayed.runs[r])
        /\ Replayed'.ok = Replayed.ok /\ Replayed'.leases = Replayed.leases
        /\ Replayed'.checkpoints = Replayed.checkpoints /\ Replayed'.snapshots = Replayed.snapshots
    BY <2>4, <2>2, <1>1 DEF OkBefore, ProjInv, ReplayTyped, ReplayStates
  <2>10. KnownByEvents'
    <3>1. ASSUME NEW r \in Runs
          PROVE  Replayed'.runs[r] # None <=> \E i \in Applied("request")' : log'[i].run = r
      <4>1. e.act # "request" => Replayed.runs[e.run] # None
        BY RunIsKnown DEF OfRun, e
      <4> QED BY <4>1, <2>3, <2>5, <2>9 DEF OkBefore, ProjInv, KnownByEvents, e, n, Next1
    <3>2. leases' = leases /\ checkpoints' = checkpoints /\ log' = log
          /\ \A act : Applied(act) \subseteq Applied(act)'
      BY <2>1, <2>3 DEF OkBefore
    <3> QED BY <3>1, <3>2 DEF OkBefore, ProjInv, KnownByEvents
  <2>11. Agrees'
    <3>1. RunsAgree(Replayed)'
      BY <2>1, <2>5, <2>7, <2>9 DEF OkBefore, ProjInv, Agrees, RunsAgree, Fresh
    <3>2. LeasesAgree(Replayed)' /\ CheckpointsAgree(Replayed)'
      BY <2>1, <2>9 DEF OkBefore, ProjInv, Agrees, LeasesAgree, CheckpointsAgree
    <3> QED BY <3>1, <3>2, <2>1, <2>9 DEF OkBefore, ProjInv, Agrees
  <2> QED BY <2>3, <2>8, <2>9, <2>10, <2>11 DEF ProjInv, ReplayTyped
<1> QED BY <1>2, <1>3

\* The next event is of a lease.
LEMMA PersistLeaseKeeps ==
  ASSUME OkBefore, Next1.act \in LeaseActs \cup {"propose"},
         PersistLease(Next1)
  PROVE  ProjInv'
<1> DEFINE e == Next1
           n == position.last + 1
           Tables == [status : LeaseStatuses, run : Runs, snapshot : Snapshots]
           Pure == [status : LeaseStatuses, run : Runs]
<1>1. e.id \in Grants /\ leases[e.id] \in Tables \cup {None} /\ WellFormed(e)
  <2>1. position.last + 1 \in 1..Len(log)
    BY DEF OkBefore, ProjInv, Positions, LogTyped
  <2>2. WellFormed(e)
    BY <2>1 DEF OkBefore, ProjInv, LogTyped, Next1
  <2>3. e.id \in Grants
    BY <2>2 DEF WellFormed
  <2> QED BY <2>2, <2>3 DEF OkBefore, ProjInv, RowsTyped
<1>2. CASE Fail
  BY <1>2, FailKeeps
<1>3. CASE ~Fail
  <2>1. PICK row, pure :
          /\ row \in Tables /\ pure \in Pure /\ row # None /\ pure # None
          /\ row.status = pure.status /\ row.run = pure.run
          /\ leases' = [leases EXCEPT ![e.id] = row] /\ Advances
          /\ UNCHANGED <<runs, checkpoints, snapshots>>
          /\ PureApply(Replayed, e) = [Replayed EXCEPT !.leases[e.id] = pure]
          /\ e.act # "propose" => leases[e.id] # None
    <3>1. CASE e.act = "propose"
      <4>1. e.run \in Runs /\ Replayed.runs[e.run] # None /\ leases[e.id] = None
            /\ e.dep \in Snapshots
        BY <3>1, <1>1, RunIsKnown, KeyIsNew DEF OfRun, WellFormed
      <4> DEFINE row == [status |-> "proposed", run |-> e.run, snapshot |-> e.dep]
                 pure == [status |-> "proposed", run |-> e.run]
      <4>2. row \in Tables /\ pure \in Pure /\ row # None /\ pure # None
            /\ row.status = pure.status /\ row.run = pure.run
        BY ProjectorAssumption, <4>1 DEF LeaseStatuses
      <4>3. leases' = [leases EXCEPT ![e.id] = row] /\ Advances
            /\ UNCHANGED <<runs, checkpoints, snapshots>>
        BY <1>3, <3>1, <4>1 DEF PersistLease, Advance, Advances
      <4>4. PureApply(Replayed, e) = [Replayed EXCEPT !.leases[e.id] = pure]
        BY <3>1, <4>1 DEF PureApply, RunActs, LeaseActs
      <4> HIDE DEF row, pure
      <4> QED BY <3>1, <4>2, <4>3, <4>4
    <3>2. CASE e.act # "propose"
      <4> DEFINE to == IF leases[e.id] = None THEN "illegal"
                       ELSE LeaseTarget(leases[e.id].status, e.act)
                 row == [leases[e.id] EXCEPT !.status = to]
                 pure == [Replayed.leases[e.id] EXCEPT !.status = to]
      <4>1. /\ to # "illegal" /\ leases[e.id] # None
            /\ leases' = [leases EXCEPT ![e.id].status = to] /\ Advances
            /\ UNCHANGED <<runs, checkpoints, snapshots>>
        BY <1>3, <3>2 DEF PersistLease, Advance, Advances
      <4>2. leases[e.id] \in Tables /\ to = LeaseTarget(leases[e.id].status, e.act)
            /\ to \in LeaseStatuses
        BY <1>1, <4>1, TargetsTyped
      <4>3. /\ Replayed.leases[e.id] # None /\ Replayed.leases[e.id].status = leases[e.id].status
            /\ Replayed.leases[e.id].run = leases[e.id].run /\ Replayed.leases[e.id] \in Pure
        BY <1>1, <4>1 DEF OkBefore, ProjInv, Agrees, LeasesAgree, ReplayTyped, ReplayStates
      <4>4. row \in Tables /\ pure \in Pure /\ row.status = pure.status /\ row.run = pure.run
        BY <4>2, <4>3
      <4>5. row # None /\ pure # None
        BY ProjectorAssumption, <4>4
      <4>6. leases' = [leases EXCEPT ![e.id] = row]
        BY <4>1
      <4>7. PureApply(Replayed, e) = [Replayed EXCEPT !.leases[e.id] = pure]
        <5>1. PureApply(Replayed, e) = [Replayed EXCEPT !.leases[e.id].status = to]
          <6>1. to = IF Replayed.leases[e.id] = None THEN "illegal"
                     ELSE LeaseTarget(Replayed.leases[e.id].status, e.act)
            BY <4>2, <4>3
          <6>2. e.act \in LeaseActs
            BY <3>2
          <6> HIDE DEF to
          <6> QED BY <6>1, <6>2, <4>1 DEF PureApply, RunActs, LeaseActs
        <5> QED BY <5>1
      <4> HIDE DEF row, pure, to
      <4> QED BY <4>1, <4>4, <4>5, <4>6, <4>7
    <3> QED BY <3>1, <3>2
  <2>2. /\ Replayed' = [Replayed EXCEPT !.leases[e.id] = pure]
        /\ \A act : Applied(act)' = Applied(act) \cup (IF e.act = act THEN {n} ELSE {})
        /\ LogTyped' /\ Positions' /\ RequestFirst' /\ KeyedOnce' /\ RequestedOnce'
    BY <2>1, ReplayAdvances
  <2> HIDE DEF e, n, Tables, Pure
  <2>3. leases'[e.id] = row /\ \A g \in Grants : g # e.id => leases'[g] = leases[g]
    BY <2>1, <1>1 DEF OkBefore, ProjInv, RowsTyped
  <2>4. RowsTyped' /\ CountersTyped' /\ IntentsStay'
    <3>1. leases' \in [Grants -> Tables \cup {None}]
      BY <2>1, <2>3 DEF OkBefore, ProjInv, RowsTyped, Tables
    <3>2. UNCHANGED <<runs, checkpoints, snapshots, pending, resets, log>>
      BY <2>1 DEF OkBefore
    <3> QED BY <3>1, <3>2 DEF OkBefore, ProjInv, RowsTyped, CountersTyped, IntentsStay, Tables
  <2>5. /\ Replayed' \in ReplayStates /\ Replayed'.leases[e.id] = pure
        /\ (\A g \in Grants : g # e.id => Replayed'.leases[g] = Replayed.leases[g])
        /\ Replayed'.ok = Replayed.ok /\ Replayed'.runs = Replayed.runs
        /\ Replayed'.checkpoints = Replayed.checkpoints /\ Replayed'.snapshots = Replayed.snapshots
    BY <2>1, <2>2, <1>1 DEF OkBefore, ProjInv, ReplayTyped, ReplayStates, Pure
  <2>6. KnownByEvents'
    <3>1. Applied("request")' = Applied("request")
      BY <2>2 DEF LeaseActs, e
    <3>2. \A g \in Grants : leases'[g] # None => \E i \in Applied("propose")' : log'[i].id = g
      BY <2>1, <2>2, <2>3 DEF OkBefore, ProjInv, KnownByEvents, e, n, Next1
    <3>3. UNCHANGED <<checkpoints, log>> /\ \A act : Applied(act) \subseteq Applied(act)'
      BY <2>1, <2>2 DEF OkBefore
    <3> QED BY <3>1, <3>2, <3>3, <2>5 DEF OkBefore, ProjInv, KnownByEvents
  <2>7. Agrees'
    <3>1. LeasesAgree(Replayed)'
      BY <2>1, <2>3, <2>5 DEF OkBefore, ProjInv, Agrees, LeasesAgree
    <3>2. RunsAgree(Replayed)' /\ CheckpointsAgree(Replayed)'
      BY <2>1, <2>5 DEF OkBefore, ProjInv, Agrees, RunsAgree, CheckpointsAgree, Fresh
    <3> QED BY <3>1, <3>2, <2>1, <2>5 DEF OkBefore, ProjInv, Agrees
  <2> QED BY <2>2, <2>4, <2>5, <2>6, <2>7 DEF ProjInv, ReplayTyped
<1> QED BY <1>2, <1>3

\* The next event is a checkpoint.
LEMMA PersistCheckpointKeeps ==
  ASSUME OkBefore, Next1.act = "checkpoint",
         PersistCheckpoint(Next1, position.last + 1)
  PROVE  ProjInv'
<1> DEFINE e == Next1
           n == position.last + 1
           row == [run |-> e.run, seq |-> n]
<1>1. /\ Advances /\ UNCHANGED <<runs, leases, snapshots>>
      /\ checkpoints[e.id] = None /\ checkpoints' = [checkpoints EXCEPT ![e.id] = row]
  BY KeyIsNew DEF PersistCheckpoint, Advance, Advances
<1>2. /\ Replayed' = PureApply(Replayed, e)
      /\ \A act : Applied(act)' = Applied(act) \cup (IF e.act = act THEN {n} ELSE {})
      /\ LogTyped' /\ Positions' /\ RequestFirst' /\ KeyedOnce' /\ RequestedOnce'
      /\ WellFormed(e)
  BY <1>1, ReplayAdvances
<1>3. e.run \in Runs /\ Replayed.runs[e.run] # None /\ e.id \in Checkpoints /\ n \in 1..MaxEvents
  BY ProjectorAssumption, <1>2, RunIsKnown DEF OfRun, WellFormed, OkBefore, ProjInv, Positions, LogTyped
<1>4. Replayed' = [Replayed EXCEPT !.checkpoints = @ \cup {<<e.id, e.run>>}]
  BY <1>2, <1>3 DEF PureApply, RunActs, LeaseActs
<1>5. row \in [run : Runs, seq : 1..MaxEvents] /\ row # None /\ row.run = e.run
  BY ProjectorAssumption, <1>3
<1> HIDE DEF row, e, n
<1>6. checkpoints'[e.id] = row /\ (\A c \in Checkpoints : c # e.id => checkpoints'[c] = checkpoints[c])
      /\ checkpoints' \in [Checkpoints -> [run : Runs, seq : 1..MaxEvents] \cup {None}]
  BY <1>1, <1>3, <1>5 DEF OkBefore, ProjInv, RowsTyped
<1>7. RowsTyped' /\ CountersTyped' /\ IntentsStay'
  <2>1. UNCHANGED <<runs, leases, snapshots, pending, resets, log>>
    BY <1>1 DEF OkBefore
  <2> QED BY <2>1, <1>6 DEF OkBefore, ProjInv, RowsTyped, CountersTyped, IntentsStay
<1>8. /\ Replayed' \in ReplayStates
      /\ Replayed'.checkpoints = Replayed.checkpoints \cup {<<e.id, e.run>>}
      /\ Replayed'.ok = Replayed.ok /\ Replayed'.runs = Replayed.runs
      /\ Replayed'.leases = Replayed.leases /\ Replayed'.snapshots = Replayed.snapshots
  BY <1>3, <1>4 DEF OkBefore, ProjInv, ReplayTyped, ReplayStates
<1>9. KnownByEvents'
  <2>1. Applied("request")' = Applied("request") /\ n \in Applied("checkpoint")'
        /\ \A act : Applied(act) \subseteq Applied(act)'
    BY <1>2 DEF e
  <2>2. UNCHANGED <<leases, log>> /\ log[n] = e
    BY <1>1 DEF OkBefore, e, n, Next1
  <2> QED BY <2>1, <2>2, <1>6, <1>8 DEF OkBefore, ProjInv, KnownByEvents
<1>10. Agrees'
  <2>1. CheckpointsAgree(Replayed)'
    <3>1. CheckpointsAgree(Replayed)
      BY DEF OkBefore, ProjInv, Agrees
    <3>2. {d \in Checkpoints : checkpoints'[d] # None}
            = {d \in Checkpoints : checkpoints[d] # None} \cup {e.id}
      BY <1>3, <1>5, <1>6
    <3> QED BY <3>1, <3>2, <1>1, <1>3, <1>5, <1>6, <1>8 DEF CheckpointsAgree
  <2>2. RunsAgree(Replayed)' /\ LeasesAgree(Replayed)'
    BY <1>1, <1>8 DEF OkBefore, ProjInv, Agrees, RunsAgree, LeasesAgree, Fresh
  <2> QED BY <2>1, <2>2, <1>1, <1>8 DEF OkBefore, ProjInv, Agrees
<1> QED BY <1>2, <1>7, <1>8, <1>9, <1>10 DEF ProjInv, ReplayTyped

\* An event that changes no table but the snapshots'.
LEMMA OthersKeep ==
  ASSUME OkBefore, Advances, UNCHANGED <<runs, leases, checkpoints>>,
         \/ Next1.act = "handoff" /\ UNCHANGED snapshots
         \/ Next1.act = "snapshot" /\ snapshots' = snapshots \cup {Next1.id}
  PROVE  ProjInv'
<1> DEFINE e == Next1
<1>1. /\ Replayed' = PureApply(Replayed, e)
      /\ \A act : Applied(act)' = Applied(act) \cup (IF e.act = act THEN {position.last + 1} ELSE {})
      /\ LogTyped' /\ Positions' /\ RequestFirst' /\ KeyedOnce' /\ RequestedOnce'
      /\ WellFormed(e)
  BY ReplayAdvances
<1>2. /\ Replayed \in ReplayStates /\ Replayed.snapshots = snapshots
  BY DEF OkBefore, ProjInv, ReplayTyped, Agrees
<1>3. snapshots' \subseteq Snapshots
  BY <1>1 DEF WellFormed, OkBefore, ProjInv, RowsTyped
<1>4. Replayed' = [Replayed EXCEPT !.snapshots = snapshots']
  BY <1>1, <1>2 DEF PureApply, RunActs, LeaseActs, ReplayStates
<1>5. /\ Replayed' \in ReplayStates /\ Replayed'.snapshots = snapshots'
      /\ Replayed'.ok = Replayed.ok /\ Replayed'.runs = Replayed.runs
      /\ Replayed'.leases = Replayed.leases /\ Replayed'.checkpoints = Replayed.checkpoints
  BY <1>2, <1>3, <1>4 DEF ReplayStates
<1>6. Applied("request")' = Applied("request") /\ \A act : Applied(act) \subseteq Applied(act)'
  BY <1>1
<1> HIDE DEF e
<1>7. RowsTyped' /\ CountersTyped' /\ IntentsStay'
  BY <1>3 DEF OkBefore, ProjInv, RowsTyped, CountersTyped, IntentsStay
<1>8. KnownByEvents'
  BY <1>5, <1>6 DEF OkBefore, ProjInv, KnownByEvents
<1>9. Agrees'
  BY <1>5 DEF OkBefore, ProjInv, Agrees, RunsAgree, LeasesAgree, CheckpointsAgree, Fresh
<1> QED BY <1>1, <1>5, <1>7, <1>8, <1>9 DEF ProjInv, ReplayTyped

\* Applying the next event, of whatever kind, keeps tables and replay together.
LEMMA ApplyNextKeeps ==
  ASSUME ProjInv, ApplyNext
  PROVE  ProjInv'
<1>1. OkBefore
  BY DEF OkBefore, ApplyNext
<1>2. WellFormed(Next1)
  <2>1. position.last + 1 \in 1..Len(log)
    BY <1>1 DEF OkBefore, ProjInv, Positions, LogTyped
  <2> QED BY <2>1 DEF ProjInv, LogTyped, Next1
<1>3. CASE Next1.act \in RunActs \cup {"request"}
  <2>1. PersistRun(Next1, position.last + 1)
    BY <1>3 DEF ApplyNext, Next1, RunActs, LeaseActs
  <2> QED BY <1>1, <1>3, <2>1, PersistRunKeeps
<1>4. CASE Next1.act \in LeaseActs \cup {"propose"}
  <2>1. PersistLease(Next1)
    BY <1>4 DEF ApplyNext, Next1, RunActs, LeaseActs
  <2> QED BY <1>1, <1>4, <2>1, PersistLeaseKeeps
<1>5. CASE Next1.act = "checkpoint"
  <2>1. PersistCheckpoint(Next1, position.last + 1)
    BY <1>5 DEF ApplyNext, Next1, RunActs, LeaseActs
  <2> QED BY <1>1, <1>5, <2>1, PersistCheckpointKeeps
<1>6. CASE Next1.act = "handoff"
  <2>1. PersistHandoff(Next1)
    BY <1>6 DEF ApplyNext, Next1, RunActs, LeaseActs
  <2>2. CASE Fail
    BY <1>1, <2>2, FailKeeps
  <2>3. CASE ~Fail
    <3>1. Advances /\ UNCHANGED <<runs, leases, checkpoints, snapshots>>
      BY <2>1, <2>3 DEF PersistHandoff, Advance, Advances, tables
    <3> QED BY <1>1, <1>6, <3>1, OthersKeep
  <2> QED BY <2>2, <2>3
<1>7. CASE Next1.act = "snapshot"
  <2>1. PersistSnapshot(Next1)
    BY <1>7 DEF ApplyNext, Next1, RunActs, LeaseActs
  <2>2. Advances /\ UNCHANGED <<runs, leases, checkpoints>> /\ snapshots' = snapshots \cup {Next1.id}
    BY <2>1 DEF PersistSnapshot, Advance, Advances
  <2> QED BY <1>1, <1>7, <2>2, OthersKeep
<1> QED BY <1>2, <1>3, <1>4, <1>5, <1>6, <1>7 DEF WellFormed, EventKinds, AllActs

\* At the start log and tables are empty.
LEMMA ProjInitially ==
  ASSUME ProjInit
  PROVE  ProjInv
<1> USE DEF ProjInit
<1>1. Replayed = PureInit
  BY ReplayUnfolds DEF Replayed
<1>2. LogTyped /\ Positions /\ RowsTyped /\ CountersTyped
  BY ProjectorAssumption DEF LogTyped, Positions, RowsTyped, CountersTyped, NoLeases, NoCheckpoints
<1>3. RequestFirst /\ KeyedOnce /\ IntentsStay /\ RequestedOnce
  BY DEF RequestFirst, KeyedOnce, IntentsStay, RequestedOnce
<1>4. ReplayTyped
  BY <1>1 DEF ReplayTyped, ReplayStates, PureInit
<1>5. \A act : Applied(act) = {}
  BY DEF Applied
<1>6. KnownByEvents
  BY <1>1, <1>5 DEF KnownByEvents, PureInit, NoLeases, NoCheckpoints
<1>7. Agrees
  BY <1>1 DEF Agrees, RunsAgree, LeasesAgree, CheckpointsAgree, PureInit, NoLeases,
     NoCheckpoints, Fresh
<1> QED BY <1>2, <1>3, <1>4, <1>6, <1>7 DEF ProjInv

\* Every step keeps the invariant.
LEMMA ProjSteps ==
  ASSUME ProjInv, [ProjNext]_projVars
  PROVE  ProjInv'
<1>1. ASSUME NEW r \in Runs, InsertIntent(r) \/ RequesterDies(r)
                             \/ Reconcile(r) \/ AppendRequested(r)
      PROVE ProjInv'
  BY <1>1, InsertIntentKeeps, RequesterDiesKeeps, ReconcileKeeps, AppendRequestedKeeps
<1>2. ASSUME NEW r \in Runs, RunEvent(r) PROVE ProjInv'
  BY <1>2, RunEventKeeps
<1>3. ASSUME NEW g \in Grants, LeaseEvent(g) PROVE ProjInv'
  BY <1>3, LeaseEventKeeps
<1>4. ASSUME NEW r \in Runs, NEW g \in Grants, NEW s \in Snapshots, Propose(g, r, s)
      PROVE ProjInv'
  BY <1>4, ProposeKeeps
<1>5. ASSUME NEW r \in Runs, NEW c \in Checkpoints, CheckpointEvent(c, r) \/ Handoff(c, r)
      PROVE ProjInv'
  BY <1>5, CheckpointEventsKeep
<1>6. ASSUME NEW s \in Snapshots, SnapshotEvent(s) PROVE ProjInv'
  BY <1>6, SnapshotEventKeeps
<1>7. ASSUME NEW g \in Grants, NEW s \in Snapshots, ChainSnapshot(g, s) PROVE ProjInv'
  BY <1>7, ChainSnapshotKeeps
<1>8. CASE ApplyNext
  BY <1>8, ApplyNextKeeps
<1>9. CASE Reset
  BY <1>9, ResetKeeps
<1>10. CASE UNCHANGED projVars
  <2> USE <1>10 DEF projVars, tables
  <2>1. LogTyped' /\ Positions' /\ RequestFirst' /\ KeyedOnce' /\ RequestedOnce' /\ ReplayTyped'
        /\ Replayed' = Replayed /\ \A act : Applied(act)' = Applied(act)
    BY LogStays
  <2>2. CountersTyped' /\ RowsTyped' /\ IntentsStay'
    BY DEF ProjInv, RowsTyped, CountersTyped, IntentsStay
  <2>3. KnownByEvents' /\ Agrees'
    BY <2>1, AgreementStays DEF ProjInv, KnownByEvents
  <2> QED BY <2>1, <2>2, <2>3 DEF ProjInv
<1> QED BY <1>1, <1>2, <1>3, <1>4, <1>5, <1>6, <1>7, <1>8, <1>9, <1>10 DEF ProjNext

\* What the invariant says of the tables.
LEMMA ProjInvIsEnough == ProjInv => TablesAreRight
<1> SUFFICES ASSUME ProjInv PROVE TablesAreRight
  OBVIOUS
<1>1. ProjTypeOK
  BY DEF ProjInv, LogTyped, WellFormed, EventKinds, Positions, RowsTyped, CountersTyped, ProjTypeOK
<1>2. ReplayAgrees /\ RequestedOnce
  BY AgreementIs DEF ProjInv
<1> QED BY <1>1, <1>2 DEF TablesAreRight

\* However projecting, rebuilding, failing and the run intents interleave, the
\* tables are the pure replay of the events that are projected, and a run is
\* requested once (projector.ex, projector_transition.ex, runs.ex).
THEOREM TablesRight ==
  ProjSpec => []TablesAreRight
<1>1. ProjInit => ProjInv
  BY ProjInitially
<1>2. ProjInv /\ [ProjNext]_projVars => ProjInv'
  BY ProjSteps
<1> QED BY <1>1, <1>2, ProjInvIsEnough, PTL DEF ProjSpec
=============================================================================
