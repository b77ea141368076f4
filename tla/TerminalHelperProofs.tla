------------------------ MODULE TerminalHelperProofs ------------------------
(***************************************************************************)
(* Machine-checked proofs that the PTY helper never leaves provider code   *)
(* without anything that would end it, that it tells of an exit behind all *)
(* of the output, and that its queue keeps room for replies, for every     *)
(* size of its queues and any number of chunks and commands.               *)
(***************************************************************************)
EXTENDS TerminalHelper, FiniteSetTheorems, SequenceTheorems, TLAPS

\* A guardian that was installed watches the group unless it was killed itself.
Watched == guardian = "watching" \/ "guardian" \in faults

\* The group has been killed, or was never started.
NoGroup == leader \in {"none", "gone"} /\ ~member

\* The provider is executed behind the acknowledgement only, the acknowledgement
\* is written behind the guardian only, and who leaves the group behind ended it.
GuardInv ==
  /\ Started => ack
  /\ ack => helper \in LoopPcs \cup Gone
  /\ helper \in LoopPcs \cup {"await"} => Watched
  /\ helper \in {"done", "failed"} => NoGroup
  /\ helper = "killed" /\ ack => Watched \/ NoGroup

\* At first there is neither helper loop nor group.
LEMMA GuardInit == Init => GuardInv
  BY DEF Init, GuardInv, Started, NoGroup, Watched, LoopPcs, Gone

\* Returning, in whatever way, kills the group.
LEMMA ReturnKeeps ==
  ASSUME GuardInv, NEW how \in {"done", "failed"}, Return(how)
  PROVE  GuardInv'
  BY DEF GuardInv, Return, KillGroup, Discard, Started, NoGroup, Watched, LoopPcs, Gone

\* A turn of the loop that goes on starts nothing: provider code was there.
LEMMA LoopKeeps ==
  ASSUME GuardInv, helper \in LoopPcs, helper' \in LoopPcs, UNCHANGED <<guardian, faults, ack>>,
         \/ UNCHANGED <<leader, member>>
         \/ KillGroup
         \/ SignalGroup
  PROVE  GuardInv'
  <1>1. CASE UNCHANGED <<leader, member>>
    BY <1>1 DEF GuardInv, Started, Watched, LoopPcs, Gone
  <1>2. CASE KillGroup
    BY <1>2 DEF GuardInv, KillGroup, Started, Watched, LoopPcs, Gone
  <1>3. CASE SignalGroup
    <2>1. leader' = "provider" => leader = "provider"
      BY <1>3 DEF SignalGroup
    <2>2. member' = member \/ member' = FALSE
      BY <1>3 DEF SignalGroup
    <2>3. Started' => Started
      BY <2>1, <2>2, Zenon DEF Started
    <2> QED BY <2>3 DEF GuardInv, Watched, LoopPcs, Gone
  <1> QED BY <1>1, <1>2, <1>3

\* The handshake and the start-up install the guardian before the acknowledgement.
LEMMA StartKeeps ==
  ASSUME GuardInv, Hello \/ Spawn \/ OpenPty \/ StartGuardian \/ AwaitBootstrap
  PROVE  GuardInv'
  <1>1. CASE Fail
    BY <1>1, ReturnKeeps DEF Fail
  <1>2. CASE ~Fail
    <2>1. CASE Hello
      BY <1>2, <2>1 DEF Hello, procVars, GuardInv, Started, Watched, NoGroup, LoopPcs, Gone
    <2>2. CASE Spawn
      BY <1>2, <2>2 DEF Spawn, procVars, GuardInv, Started, Watched, NoGroup, LoopPcs, Gone
    <2>3. CASE OpenPty
      BY <1>2, <2>3 DEF OpenPty, GuardInv, Started, Watched, NoGroup, LoopPcs, Gone
    <2>4. CASE StartGuardian
      BY <1>2, <2>4 DEF StartGuardian, procVars, GuardInv, Started, Watched, NoGroup, LoopPcs, Gone
    <2>5. CASE AwaitBootstrap
      BY <1>2, <2>5 DEF AwaitBootstrap, GuardInv, Started, Watched, NoGroup, LoopPcs, Gone
    <2> QED BY <2>1, <2>2, <2>3, <2>4, <2>5
  <1> QED BY <1>1, <1>2

\* Every step of the helper keeps the invariant.
LEMMA HelperKeeps ==
  ASSUME GuardInv, HelperStep
  PROVE  GuardInv'
  <1>1. CASE Fail
    BY <1>1, ReturnKeeps DEF Fail
  <1>2. CASE Hello \/ Spawn \/ OpenPty \/ StartGuardian \/ AwaitBootstrap
    BY <1>2, StartKeeps
  <1>3. CASE Top
    <2>1. CASE Return("done")
      BY <2>1, ReturnKeeps
    <2>2. CASE ~Return("done") /\ ~Fail
      <3>1. /\ helper \in LoopPcs /\ helper' \in LoopPcs /\ UNCHANGED <<guardian, faults, ack>>
            /\ UNCHANGED <<leader, member>> \/ KillGroup
        BY <1>3, <2>2 DEF Top, LoopPcs
      <3> QED BY <3>1, LoopKeeps
    <2> QED BY <1>1, <2>1, <2>2
  <1>4. CASE Control /\ ~Fail
    <2>1. /\ helper \in LoopPcs /\ helper' \in LoopPcs /\ UNCHANGED <<guardian, faults, ack>>
          /\ UNCHANGED <<leader, member>> \/ SignalGroup
      BY <1>4 DEF Control, TakeInput, TakeResize, TakePing, TakeSignal, TakeTerminate, TakeInvalid,
                  Answer, Take, procVars, LoopPcs
    <2> QED BY <2>1, LoopKeeps
  <1>5. CASE (EndControl \/ Pty \/ \E frames \in 0..Len(output), part \in BOOLEAN : Write(frames, part))
             /\ ~Fail
    <2>1. /\ helper \in LoopPcs /\ helper' \in LoopPcs
          /\ UNCHANGED <<guardian, faults, ack, leader, member>>
      BY <1>5 DEF EndControl, Pty, Write, procVars, ttyVars, LoopPcs
    <2> QED BY <2>1, LoopKeeps
  <1> QED BY <1>1, <1>2, <1>3, <1>4, <1>5 DEF HelperStep, WriteClosed, SystemCallFails

\* So does every step of another process.
LEMMA OthersKeep ==
  ASSUME GuardInv,
         \/ DeadlinePasses \/ Guard \/ Bootstrap \/ Emit \/ ForkOrExit
         \/ (\E c \in Commands : Send(c)) \/ Close \/ KillHelper \/ KillGuardian
  PROVE  GuardInv'
  <1>1. CASE UNCHANGED <<helper, guardian, faults, ack, leader, member>>
    BY <1>1 DEF GuardInv, Started, Watched, NoGroup
  <1>2. CASE Guard
    BY <1>2 DEF Guard, KillGroup, GuardInv, Started, Watched, NoGroup, LoopPcs, Gone
  <1>3. CASE Bootstrap
    BY <1>3 DEF Bootstrap, HelperAlive, GuardInv, Started, Watched, NoGroup, LoopPcs, Gone
  <1>4. CASE ForkOrExit
    BY <1>4 DEF ForkOrExit, GuardInv, Started, Watched, NoGroup, LoopPcs, Gone
  <1>5. CASE KillHelper
    BY <1>5 DEF KillHelper, Discard, HelperAlive, GuardInv, Started, Watched, NoGroup, LoopPcs, Gone
  <1>6. CASE KillGuardian
    BY <1>6 DEF KillGuardian, procVars, GuardInv, Started, Watched, NoGroup
  <1> QED BY <1>1, <1>2, <1>3, <1>4, <1>5, <1>6
          DEF DeadlinePasses, Emit, Send, Close, procVars, ttyVars

\* The invariant holds in every reachable state.
LEMMA GuardInvariance == Spec => []GuardInv
  <1>1. GuardInv /\ [Next]_vars => GuardInv'
    <2>1. GuardInv /\ UNCHANGED vars => GuardInv'
      BY DEF vars, procVars, GuardInv, Started, Watched, NoGroup
    <2> QED BY <2>1, HelperKeeps, OthersKeep DEF Next
  <1> QED BY <1>1, GuardInit, PTL DEF Spec

\* Provider code runs only while something alive will end it, whatever fails or
\* is killed in whatever order.
THEOREM ProviderGuarded == Spec => []ProviderIsGuarded
  <1>1. GuardInv => ProviderIsGuarded
    BY DEF GuardInv, ProviderIsGuarded, HelperAlive, Started, Watched, NoGroup, Gone, LoopPcs
  <1> QED BY <1>1, GuardInvariance, PTL
-----------------------------------------------------------------------------
(* The output *)

\* What the controller was sent, and what is still queued for it.
Wire == stream \o output

\* Output frames carry the numbers 1..n, every one after its predecessors.
Numbered(q, n) ==
  /\ \A k \in Outputs(q) : q[k].seq \in 1..n
  /\ \A j \in Outputs(q) : \A k \in Outputs(q) : j < k => q[j].seq < q[k].seq

\* Every chunk up to n is before place i.
Before(q, i, n) == \A s \in 1..n : \E k \in Outputs(q) : k < i /\ q[k].seq = s

\* An exited frame names the last chunk and follows all of them.
Ends(q, n) ==
  \A i \in 1..Len(q) : q[i].op = "exited" => q[i].seq = n /\ Before(q, i, n)

Told(q) == \E i \in 1..Len(q) : q[i].op = "exited"

\* A chunk that was written is in the terminal or on the wire, and the exit is
\* queued only when the terminal has ended: then nothing can write to it.
ChunkInv ==
  /\ Numbered(Wire, sequence) /\ Ends(Wire, sequence)
  /\ HelperAlive => Before(Wire, Len(Wire) + 1, sequence) /\ produced = sequence + tty
  /\ Told(Wire) => exitSent
  /\ exitSent => eof
  /\ eof => ~GroupLive /\ tty = 0 /\ produced = sequence
  /\ helper \in Phases => ~eof /\ output = <<>>
  /\ ~HelperAlive => output = <<>> /\ tty = 0 /\ deadline = "none"
  /\ sequence <= produced /\ tty <= produced

\* The terminal is read only in a turn that found half of the queue free.
RoomInv ==
  /\ 2 * Cardinality(Outputs(output)) <= MaxQueue + 1
  /\ helper \in {"control", "pty"} /\ readPty => 2 * Cardinality(Outputs(output)) < MaxQueue

-----------------------------------------------------------------------------
(* Sequences of frames *)

\* What appending to a sequence does.
LEMMA AppendFacts ==
  ASSUME NEW T, NEW q \in Seq(T), NEW e \in T
  PROVE  /\ Append(q, e) \in Seq(T)
         /\ Len(q) \in Nat /\ Len(Append(q, e)) = Len(q) + 1
         /\ \A i \in 1..Len(q) : Append(q, e)[i] = q[i]
         /\ Append(q, e)[Len(q) + 1] = e
  OBVIOUS

\* What joining two sequences does.
LEMMA ConcatFacts ==
  ASSUME NEW T, NEW q \in Seq(T), NEW r \in Seq(T)
  PROVE  /\ q \o r \in Seq(T)
         /\ Len(q) \in Nat /\ Len(r) \in Nat /\ Len(q \o r) = Len(q) + Len(r)
         /\ \A i \in 1..Len(q) : (q \o r)[i] = q[i]
         /\ \A i \in 1..Len(r) : (q \o r)[Len(q) + i] = r[i]
  OBVIOUS

\* A frame that is queued comes last on the wire.
LEMMA QueuedIsLast ==
  ASSUME NEW T, NEW s \in Seq(T), NEW q \in Seq(T), NEW f \in T
  PROVE  s \o Append(q, f) = Append(s \o q, f)
  <1>1. <<f>> \in Seq(T) /\ s \o q \in Seq(T)
    OBVIOUS
  <1>2. Append(q, f) = q \o <<f>> /\ Append(s \o q, f) = (s \o q) \o <<f>>
    BY <1>1, AppendIsConcat
  <1> QED BY <1>1, <1>2, ConcatAssociative

\* Writing whole frames takes them from the queue.
LEMMA WrittenStays ==
  ASSUME NEW T, NEW s \in Seq(T), NEW q \in Seq(T), NEW n \in 0..Len(q)
  PROVE  /\ s \o SubSeq(q, 1, n) \in Seq(T)
         /\ SubSeq(q, n + 1, Len(q)) \in Seq(T)
         /\ Len(SubSeq(q, n + 1, Len(q))) = Len(q) - n
  <1>1. Len(q) \in Nat /\ n \in Nat /\ n <= Len(q)
    OBVIOUS
  <1>2. SubSeq(q, 1, n) \in Seq(T) /\ s \o SubSeq(q, 1, n) \in Seq(T)
    BY <1>1
  <1> QED BY <1>1, <1>2

\* And it leaves the wire alone.
LEMMA WrittenIsWire ==
  ASSUME NEW T, NEW s \in Seq(T), NEW q \in Seq(T), NEW n \in 0..Len(q)
  PROVE  (s \o SubSeq(q, 1, n)) \o SubSeq(q, n + 1, Len(q)) = s \o q
  <1> DEFINE a == SubSeq(q, 1, n)
             b == SubSeq(q, n + 1, Len(q))
  <1>1. a \in Seq(T) /\ b \in Seq(T)
    OBVIOUS
  <1>2. a \o b = q
    <2>1. 1 \in 1..(Len(q) + 1) /\ n \in (1 - 1)..Len(q) /\ Len(q) \in n..Len(q)
      OBVIOUS
    <2>2. a \o b = SubSeq(q, 1, Len(q))
      BY <2>1, ConcatAdjacentSubSeq
    <2> QED BY <2>2, SubSeqFull
  <1>3. (s \o a) \o b = s \o (a \o b)
    <2> HIDE DEF a, b
    <2> QED BY <1>1, ConcatAssociative
  <1> QED BY <1>2, <1>3

\* The numbering of a wire that got a reply at its end.
LEMMA ReplyAppended ==
  ASSUME NEW q \in Seq(Frame), NEW f \in Frame, f.op \notin {"output", "exited"}, NEW n \in Nat
  PROVE  /\ Numbered(q, n) => Numbered(Append(q, f), n)
         /\ Ends(q, n) => Ends(Append(q, f), n)
         /\ Told(Append(q, f)) => Told(q)
         /\ Before(q, Len(q) + 1, n) => Before(Append(q, f), Len(Append(q, f)) + 1, n)
         /\ Outputs(Append(q, f)) = Outputs(q)
  <1> DEFINE r == Append(q, f)
  <1>1. /\ Len(q) \in Nat /\ Len(r) = Len(q) + 1 /\ r[Len(q) + 1] = f
        /\ \A i \in 1..Len(q) : r[i] = q[i]
    BY AppendFacts
  <1> HIDE DEF r
  <1>2. Outputs(r) = Outputs(q)
    BY <1>1 DEF Outputs
  <1>3. \A k \in Outputs(q) : r[k] = q[k]
    BY <1>1 DEF Outputs
  <1>4. Numbered(q, n) => Numbered(r, n)
    BY <1>2, <1>3 DEF Numbered
  <1>5. \A i \in Nat : Before(q, i, n) => Before(r, i, n)
    BY <1>2, <1>3 DEF Before
  <1>6. \A i \in 1..Len(r) : r[i].op = "exited" => i \in 1..Len(q) /\ r[i] = q[i]
    BY <1>1
  <1>7. Ends(q, n) => Ends(r, n)
    BY <1>5, <1>6 DEF Ends
  <1>8. Told(r) => Told(q)
    BY <1>6 DEF Told
  <1>9. Before(q, Len(q) + 1, n) => Before(r, Len(r) + 1, n)
    <2>1. \A k \in Outputs(q) : k < Len(r) + 1
      BY <1>1 DEF Outputs
    <2> QED BY <1>2, <1>3, <2>1 DEF Before
  <1> QED BY <1>2, <1>4, <1>7, <1>8, <1>9 DEF r

\* The numbering of a wire that got the next chunk.
LEMMA OutputAppended ==
  ASSUME NEW q \in Seq(Frame), NEW f \in Frame, NEW n \in Nat, f.op = "output", f.seq = n + 1,
         Numbered(q, n), Before(q, Len(q) + 1, n), ~Told(q)
  PROVE  /\ Numbered(Append(q, f), n + 1) /\ Ends(Append(q, f), n + 1)
         /\ ~Told(Append(q, f))
         /\ Before(Append(q, f), Len(Append(q, f)) + 1, n + 1)
  <1> DEFINE r == Append(q, f)
  <1>1. /\ Len(q) \in Nat /\ Len(r) = Len(q) + 1 /\ r[Len(q) + 1] = f
        /\ \A i \in 1..Len(q) : r[i] = q[i]
    BY AppendFacts
  <1> HIDE DEF r
  <1>2. Outputs(r) = Outputs(q) \cup {Len(q) + 1}
    BY <1>1 DEF Outputs
  <1>3. \A k \in Outputs(q) : r[k] = q[k] /\ k \in Nat /\ k < Len(q) + 1
    BY <1>1 DEF Outputs
  <1>4. \A k \in Outputs(q) : q[k].seq \in 1..n
    BY DEF Numbered
  <1>5. \A k \in Outputs(r) : r[k].seq \in 1..(n + 1)
    BY <1>1, <1>2, <1>3, <1>4
  <1>6. ASSUME NEW j \in Outputs(r), NEW k \in Outputs(r), j < k  PROVE r[j].seq < r[k].seq
    <2>1. j \in Outputs(q)
      BY <1>1, <1>2, <1>3, <1>6
    <2>2. CASE k \in Outputs(q)
      BY <1>3, <1>6, <2>1, <2>2 DEF Numbered
    <2>3. CASE k = Len(q) + 1
      <3>1. r[j].seq \in 1..n
        BY <1>3, <1>4, <2>1
      <3>2. r[k].seq = n + 1
        BY <1>1, <2>3
      <3> QED BY <3>1, <3>2
    <2> QED BY <1>2, <2>2, <2>3
  <1>7. ASSUME NEW s \in 1..(n + 1)  PROVE \E k \in Outputs(r) : k < Len(r) + 1 /\ r[k].seq = s
    <2>1. CASE s = n + 1
      BY <1>1, <1>2, <2>1
    <2>2. CASE s # n + 1
      <3>1. s \in 1..n
        BY <2>2
      <3>2. PICK k \in Outputs(q) : k < Len(q) + 1 /\ q[k].seq = s
        BY <3>1 DEF Before
      <3> QED BY <1>1, <1>2, <1>3, <3>2
    <2> QED BY <2>1, <2>2
  <1>8. ~Told(r)
    BY <1>1 DEF Told
  <1>9. Ends(r, n + 1)
    BY <1>8 DEF Ends, Told
  <1> QED BY <1>5, <1>6, <1>7, <1>8, <1>9 DEF r, Numbered, Before

\* The numbering of a wire at whose end the exit is told.
LEMMA ExitAppended ==
  ASSUME NEW q \in Seq(Frame), NEW f \in Frame, NEW n \in Nat, f.op = "exited", f.seq = n,
         Numbered(q, n), Before(q, Len(q) + 1, n), Ends(q, n)
  PROVE  /\ Numbered(Append(q, f), n) /\ Ends(Append(q, f), n)
         /\ Before(Append(q, f), Len(Append(q, f)) + 1, n)
         /\ Outputs(Append(q, f)) = Outputs(q)
  <1> DEFINE r == Append(q, f)
  <1>1. /\ Len(q) \in Nat /\ Len(r) = Len(q) + 1 /\ r[Len(q) + 1] = f
        /\ \A i \in 1..Len(q) : r[i] = q[i]
    BY AppendFacts
  <1> HIDE DEF r
  <1>2. Outputs(r) = Outputs(q)
    BY <1>1 DEF Outputs
  <1>3. \A k \in Outputs(q) : r[k] = q[k] /\ k < Len(r) + 1
    BY <1>1 DEF Outputs
  <1>4. Numbered(r, n)
    BY <1>2, <1>3 DEF Numbered
  <1>5. \A i \in Nat : Before(q, i, n) => Before(r, i, n)
    BY <1>2, <1>3 DEF Before
  <1>6. Ends(r, n)
    <2> SUFFICES ASSUME NEW i \in 1..Len(r), r[i].op = "exited"
                 PROVE  r[i].seq = n /\ Before(r, i, n)
      BY DEF Ends
    <2>1. CASE i \in 1..Len(q)
      <3>1. q[i].seq = n /\ Before(q, i, n)
        BY <1>1, <2>1 DEF Ends
      <3> QED BY <1>1, <1>5, <2>1, <3>1
    <2>2. CASE i = Len(q) + 1
      BY <1>1, <1>5, <2>2
    <2> QED BY <1>1, <2>1, <2>2
  <1>7. Before(r, Len(r) + 1, n)
    BY <1>2, <1>3 DEF Before
  <1> QED BY <1>2, <1>4, <1>6, <1>7 DEF r

\* What was received of a numbered wire is numbered.
LEMMA ReceivedIsNumbered ==
  ASSUME NEW s \in Seq(Frame), NEW q \in Seq(Frame), NEW n \in Nat,
         Numbered(s \o q, n), Ends(s \o q, n)
  PROVE  /\ Numbered(s, n) /\ Ends(s, n)
         /\ Told(s) => Told(s \o q)
  <1> DEFINE r == s \o q
  <1>1. /\ Len(s) \in Nat /\ Len(q) \in Nat /\ Len(r) = Len(s) + Len(q)
        /\ \A i \in 1..Len(s) : r[i] = s[i]
    BY ConcatFacts
  <1>2. Numbered(r, n) /\ Ends(r, n)
    OBVIOUS
  <1> HIDE DEF r
  <1>3. \A k \in Outputs(s) : k \in Outputs(r) /\ r[k] = s[k] /\ k \in 1..Len(s)
    BY <1>1 DEF Outputs
  <1>4. \A k \in Outputs(r) : k <= Len(s) => k \in Outputs(s) /\ r[k] = s[k]
    BY <1>1 DEF Outputs
  <1>5. Numbered(s, n)
    BY <1>2, <1>3 DEF Numbered
  <1>6. ASSUME NEW i \in 1..Len(s), s[i].op = "exited"  PROVE s[i].seq = n /\ Before(s, i, n)
    <2>1. i \in 1..Len(r) /\ r[i] = s[i]
      BY <1>1
    <2>2. s[i].seq = n /\ Before(r, i, n)
      BY <1>2, <1>6, <2>1 DEF Ends
    <2>3. \A k \in Outputs(r) : k < i => k \in Outputs(s) /\ r[k] = s[k]
      <3>1. \A k \in Outputs(r) : k \in Nat  BY <1>1 DEF Outputs
      <3> QED BY <1>1, <1>4, <3>1
    <2> QED BY <2>2, <2>3 DEF Before
  <1>7. Told(s) => Told(r)
    BY <1>1 DEF Told
  <1> QED BY <1>5, <1>6, <1>7 DEF r, Ends

-----------------------------------------------------------------------------
(* Types *)

\* Types and what they need of the rest: chunks are counted once, and the queue
\* is empty before the loop.
Sized ==
  /\ TypeOK
  /\ helper \in Phases => output = <<>>
  /\ HelperAlive => produced = sequence + tty
  /\ sequence <= produced /\ tty <= produced

LEMMA RepliesAreFrames ==
  ASSUME NEW op \in Replies
  PROVE  Reply(op) \in Frame /\ Reply(op).op = op /\ Reply(op).op \notin {"output", "exited"}
  BY DEF Reply, Frame, Replies

\* A frame that finds room in the queue.
LEMMA EnqueueTyped ==
  ASSUME TypeOK, NEW f \in Frame, HasRoom \/ output = <<>>, Enqueue(f)
  PROVE  /\ output' \in Seq(Frame) /\ Len(output') <= MaxQueue
         /\ output' = Append(output, f) /\ output' # <<>>
  <1>1. output \in Seq(Frame) /\ MaxQueue \in Nat /\ MaxQueue >= 1
    BY QueueAssumption DEF TypeOK
  <1>2. Append(output, f) \in Seq(Frame) /\ Len(Append(output, f)) = Len(output) + 1 /\ Len(output) \in Nat
    BY <1>1, AppendFacts
  <1>3. Len(output) < MaxQueue
    BY <1>1 DEF HasRoom
  <1>4. output' = Append(output, f)
    BY DEF Enqueue
  <1> QED BY <1>1, <1>2, <1>3, <1>4

LEMMA ReturnTyped ==
  ASSUME TypeOK, NEW how \in {"done", "failed"}, Return(how)
  PROVE  TypeOK'
  <1>1. stream' \in Seq(Frame)
    <2>1. Reply("error") \in Frame
      BY RepliesAreFrames DEF Replies
    <2>2. stream \in Seq(Frame)
      BY DEF TypeOK
    <2>3. Append(stream, Reply("error")) \in Seq(Frame)
      BY <2>1, <2>2, AppendFacts
    <2>4. stream' \in {stream, Append(stream, Reply("error"))}
      BY DEF Return
    <2> QED BY <2>2, <2>3, <2>4
  <1>2. output' \in Seq(Frame) /\ Len(output') <= MaxQueue /\ control' \in Seq(Commands)
    BY QueueAssumption DEF Return, Discard
  <1>3. helper' \in Gone /\ leader' \in {"none", "boot", "ready", "provider", "gone"} /\ guardian' \in {"none", "watching", "gone"}
    BY DEF TypeOK, Return, KillGroup, Gone
  <1>4. {member', ack', status', eof', exitSent', readPty', torn', closed'} \subseteq BOOLEAN
    BY DEF TypeOK, Return, KillGroup, Discard
  <1>5. /\ deadline' \in {"none", "armed", "passed"}
        /\ tty' \in 0..MaxChunks /\ produced' \in 0..MaxChunks /\ sequence' \in 0..MaxChunks
        /\ input' \in 0..MaxInput /\ sent' \in 0..MaxCommands /\ faults' \subseteq {"helper", "guardian"}
    BY QueueAssumption, BoundAssumption DEF TypeOK, Return, Discard
  <1> QED BY <1>1, <1>2, <1>3, <1>4, <1>5 DEF TypeOK

\* The start-up.
LEMMA StartTyped ==
  ASSUME Sized, Hello \/ Spawn \/ OpenPty \/ StartGuardian \/ AwaitBootstrap
  PROVE  TypeOK'
  <1>1. CASE Fail
    BY <1>1, ReturnTyped DEF Fail, Sized
  <1>2. CASE Hello /\ ~Fail
    <2>1. stream \in Seq(Frame) /\ Reply("hello") \in Frame
      BY RepliesAreFrames DEF Sized, TypeOK, Replies
    <2>2. Append(stream, Reply("hello")) \in Seq(Frame)
      BY <2>1, AppendFacts
    <2>3. control \in Seq(Commands) /\ (control # <<>> => Tail(control) \in Seq(Commands))
      BY DEF Sized, TypeOK
    <2> QED BY <1>2, <2>2, <2>3 DEF Hello, Reads, Sized, TypeOK, procVars, loopVars, Phases
  <1>3. CASE Spawn /\ ~Fail
    <2>1. control \in Seq(Commands) /\ (control # <<>> => Tail(control) \in Seq(Commands))
      BY DEF Sized, TypeOK
    <2> QED BY <1>3, <2>1 DEF Spawn, Reads, Sized, TypeOK, procVars, loopVars, wireVars, Phases
  <1>4. CASE OpenPty /\ ~Fail
    BY <1>4 DEF OpenPty, Sized, TypeOK, loopVars, wireVars, ctlVars, Phases
  <1>5. CASE StartGuardian /\ ~Fail
    BY <1>5 DEF StartGuardian, Sized, TypeOK, procVars, loopVars, wireVars, ctlVars, Phases
  <1>6. CASE AwaitBootstrap /\ ~Fail
    <2>1. output = <<>> /\ Enqueue(Reply("spawned"))
      BY <1>6 DEF AwaitBootstrap, Sized, Phases
    <2>2. output' \in Seq(Frame) /\ Len(output') <= MaxQueue
      <3>1. Reply("spawned") \in Frame
        BY RepliesAreFrames DEF Replies
      <3> QED BY <2>1, <3>1, EnqueueTyped DEF Sized
    <2> QED BY <1>6, <2>2 DEF AwaitBootstrap, Sized, TypeOK, loopVars, ctlVars, LoopPcs
  <1> QED BY <1>1, <1>2, <1>3, <1>4, <1>5, <1>6

LEMMA TopTyped ==
  ASSUME Sized, Top
  PROVE  TypeOK'
  <1>1. CASE Fail
    BY <1>1, ReturnTyped DEF Fail, Sized
  <1>2. CASE Return("done")
    BY <1>2, ReturnTyped DEF Sized
  <1>3. CASE ~Fail /\ ~Return("done")
    <2> DEFINE waited == status \/ leader = "gone"
    <2>1. output' \in Seq(Frame) /\ Len(output') <= MaxQueue
      <3>1. CASE TellsExit(waited)
        <4>1. HasRoom /\ Enqueue([op |-> "exited", seq |-> sequence])
          BY <1>3, <3>1 DEF Top
        <4>2. [op |-> "exited", seq |-> sequence] \in Frame
          BY DEF Frame, Sized, TypeOK
        <4> QED BY <4>1, <4>2, EnqueueTyped DEF Sized
      <3>2. CASE ~TellsExit(waited)
        BY <1>3, <3>2 DEF Top, Sized, TypeOK
      <3> QED BY <3>1, <3>2
    <2>2. leader' \in {"none", "boot", "ready", "provider", "gone"} /\ {member', status', exitSent', readPty'} \subseteq BOOLEAN
          /\ deadline' \in {"none", "armed", "passed"} /\ helper' = "control"
      BY <1>3 DEF Top, KillGroup, Sized, TypeOK, TellsExit
    <2>3. UNCHANGED <<guardian, faults, input, ack, tty, produced, eof, sequence, torn, stream, ctlVars>>
      BY <1>3 DEF Top
    <2> QED BY <2>1, <2>2, <2>3 DEF Sized, TypeOK, ctlVars, LoopPcs
  <1> QED BY <1>1, <1>2, <1>3

LEMMA ControlTyped ==
  ASSUME Sized, Control
  PROVE  TypeOK'
  <1>1. CASE Fail
    BY <1>1, ReturnTyped DEF Fail, Sized
  <1>2. ASSUME Take, control # <<>>
        PROVE  control' \in Seq(Commands) /\ UNCHANGED <<sent, closed>>
    <2>1. control \in Seq(Commands) /\ (control # <<>> => Tail(control) \in Seq(Commands))
      BY DEF Sized, TypeOK
    <2> QED BY <1>2, <2>1 DEF Take
  <1>3. CASE TakeInput /\ ~Fail
    <2>1. /\ input < MaxInput /\ input' = input + 1 /\ Take /\ control # <<>>
          /\ UNCHANGED <<helper, guardian, faults, procVars, loopVars, wireVars>>
      BY <1>3 DEF TakeInput, Reads
    <2>2. control' \in Seq(Commands) /\ UNCHANGED <<sent, closed>>
      BY <1>2, <2>1
    <2>3. input' \in 0..MaxInput
      BY <2>1, QueueAssumption DEF Sized, TypeOK
    <2> QED BY <2>1, <2>2, <2>3 DEF Sized, TypeOK, procVars, loopVars, wireVars
  <1>4. ASSUME NEW op \in Replies, control # <<>>, ~Fail,
               Answer(op, UNCHANGED <<leader, member>>) \/ Answer(op, SignalGroup)
        PROVE  TypeOK'
    <2>1. HasRoom /\ Enqueue(Reply(op)) /\ Take
      BY <1>4 DEF Answer
    <2>2. output' \in Seq(Frame) /\ Len(output') <= MaxQueue
      BY <2>1, RepliesAreFrames, EnqueueTyped DEF Sized
    <2>3. control' \in Seq(Commands) /\ UNCHANGED <<sent, closed>>
      BY <1>2, <1>4, <2>1
    <2>4. leader' \in {"none", "boot", "ready", "provider", "gone"} /\ member' \in BOOLEAN
      BY <1>4 DEF Answer, SignalGroup, Sized, TypeOK
    <2>5. UNCHANGED <<helper, guardian, faults, input, ack, tty, produced, loopVars, torn, stream>>
      BY <1>4 DEF Answer
    <2> QED BY <2>2, <2>3, <2>4, <2>5 DEF Sized, TypeOK, loopVars
  <1>5. CASE (TakeResize \/ TakePing \/ TakeSignal) /\ ~Fail
    BY <1>4, <1>5 DEF TakeResize, TakePing, TakeSignal, Reads, Replies
  <1>6. CASE TakeTerminate
    <2>1. control' \in Seq(Commands) /\ UNCHANGED <<sent, closed>>
      BY <1>2, <1>6 DEF TakeTerminate, Reads
    <2>2. leader' \in {"none", "boot", "ready", "provider", "gone"} /\ member' \in BOOLEAN
      BY <1>6 DEF TakeTerminate, SignalGroup, Sized, TypeOK
    <2> QED BY <1>6, <2>1, <2>2 DEF TakeTerminate, Sized, TypeOK, wireVars
  <1>7. TakeInvalid => Fail
    BY DEF TakeInvalid
  <1> QED BY <1>1, <1>3, <1>5, <1>6, <1>7 DEF Control

LEMMA RestOfTurnTyped ==
  ASSUME Sized,
         EndControl \/ Pty \/ \E frames \in 0..Len(output), part \in BOOLEAN : Write(frames, part)
  PROVE  TypeOK'
  <1>1. CASE Fail
    BY <1>1, ReturnTyped DEF Fail, Sized
  <1>2. CASE EndControl
    BY <1>2 DEF EndControl, Sized, TypeOK, procVars, loopVars, wireVars, ctlVars, LoopPcs
  <1>3. CASE Pty /\ ~Fail
    <2>1. CASE readPty /\ tty > 0
      <3>1. /\ HasRoom /\ helper = "pty" /\ helper' = "write" /\ tty' = tty - 1 /\ sequence' = sequence + 1
            /\ Enqueue([op |-> "output", seq |-> sequence + 1])
            /\ eof' = (eof \/ (readPty /\ tty = 0 /\ ~GroupLive))
            /\ UNCHANGED <<guardian, faults, input, ttyVars, produced, status, exitSent,
                           deadline, readPty, torn, stream, ctlVars>>
        BY <1>3, <2>1 DEF Pty
      <3>2. output' \in Seq(Frame) /\ Len(output') <= MaxQueue
        <4>1. [op |-> "output", seq |-> sequence + 1] \in Frame
          BY DEF Frame, Sized, TypeOK
        <4> QED BY <3>1, <4>1, EnqueueTyped DEF Sized
      <3>3. tty' \in 0..MaxChunks /\ sequence' \in 0..MaxChunks
        <4>1. HelperAlive
          BY <3>1 DEF HelperAlive, Gone
        <4> QED BY <2>1, <3>1, <4>1, BoundAssumption DEF Sized, TypeOK
      <3> QED BY <3>1, <3>2, <3>3 DEF Sized, TypeOK, ttyVars, ctlVars, LoopPcs
    <2>2. CASE ~(readPty /\ tty > 0)
      BY <1>3, <2>2 DEF Pty, Sized, TypeOK, ttyVars, ctlVars, LoopPcs
    <2> QED BY <2>1, <2>2
  <1>4. ASSUME NEW frames \in 0..Len(output), NEW part \in BOOLEAN, Write(frames, part)
        PROVE  TypeOK'
    <2>1. /\ helper' = "top" /\ input' \in 0..input /\ torn' = (part \/ (torn /\ frames = 0))
          /\ stream' = stream \o SubSeq(output, 1, frames)
          /\ output' = SubSeq(output, frames + 1, Len(output))
          /\ UNCHANGED <<guardian, faults, procVars, loopVars, ctlVars>>
      BY <1>4 DEF Write
    <2>2. stream \in Seq(Frame) /\ output \in Seq(Frame) /\ Len(output) <= MaxQueue
      BY DEF Sized, TypeOK
    <2>3. stream' \in Seq(Frame) /\ output' \in Seq(Frame) /\ Len(output') = Len(output) - frames
      BY <2>1, <2>2, WrittenStays
    <2>4. Len(output') <= MaxQueue
      BY <2>2, <2>3, QueueAssumption
    <2>5. input' \in 0..MaxInput
      BY <2>1, QueueAssumption DEF Sized, TypeOK
    <2> QED BY <2>1, <2>3, <2>4, <2>5 DEF Sized, TypeOK, procVars, loopVars, ctlVars, LoopPcs
  <1> QED BY <1>1, <1>2, <1>3, <1>4

LEMMA OthersTyped ==
  ASSUME Sized,
         \/ DeadlinePasses \/ Guard \/ Bootstrap \/ Emit \/ ForkOrExit
         \/ (\E c \in Commands : Send(c)) \/ Close \/ KillHelper \/ KillGuardian
  PROVE  TypeOK'
  <1>1. CASE DeadlinePasses
    BY <1>1 DEF DeadlinePasses, Sized, TypeOK, procVars, wireVars, ctlVars
  <1>2. CASE Guard
    BY <1>2 DEF Guard, KillGroup, Sized, TypeOK, loopVars, wireVars, ctlVars
  <1>3. CASE Bootstrap
    BY <1>3 DEF Bootstrap, Sized, TypeOK, loopVars, wireVars, ctlVars
  <1>4. CASE Emit
    BY <1>4, BoundAssumption DEF Emit, Sized, TypeOK, ttyVars, loopVars, wireVars, ctlVars
  <1>5. CASE ForkOrExit
    BY <1>5 DEF ForkOrExit, Sized, TypeOK, loopVars, wireVars, ctlVars
  <1>6. ASSUME NEW c \in Commands, Send(c)  PROVE TypeOK'
    <2>1. control \in Seq(Commands) /\ Append(control, c) \in Seq(Commands)
      BY DEF Sized, TypeOK
    <2> QED BY <1>6, <2>1, BoundAssumption DEF Send, Sized, TypeOK, procVars, loopVars, wireVars
  <1>7. CASE Close
    BY <1>7 DEF Close, Sized, TypeOK, procVars, loopVars, wireVars
  <1>8. CASE KillHelper
    <2>1. output' \in Seq(Frame) /\ Len(output') <= MaxQueue /\ control' \in Seq(Commands)
      BY <1>8, QueueAssumption DEF KillHelper, Discard
    <2>2. {member', ack', status', eof', exitSent', readPty', torn', closed'} \subseteq BOOLEAN
      BY <1>8 DEF KillHelper, Discard, Sized, TypeOK
    <2>3. UNCHANGED <<guardian, leader, stream, produced, sequence, sent>>
          /\ helper' \in Gone /\ faults' \subseteq {"helper", "guardian"}
      BY <1>8 DEF KillHelper, Discard, Sized, TypeOK, Gone
    <2>4. tty' \in 0..MaxChunks /\ input' \in 0..MaxInput /\ deadline' \in {"none", "armed", "passed"}
      BY <1>8, QueueAssumption, BoundAssumption DEF KillHelper, Discard
    <2> QED BY <2>1, <2>2, <2>3, <2>4 DEF Sized, TypeOK
  <1>9. CASE KillGuardian
    BY <1>9 DEF KillGuardian, Sized, TypeOK, procVars, loopVars, wireVars, ctlVars
  <1> QED BY <1>1, <1>2, <1>3, <1>4, <1>5, <1>6, <1>7, <1>8, <1>9

-----------------------------------------------------------------------------
(* Chunks *)

LEMMA ChunksAreSized == TypeOK /\ ChunkInv => Sized
  BY DEF ChunkInv, Sized

\* The wire and the counters are what their types say.
LEMMA WireTyped ==
  ASSUME TypeOK
  PROVE  /\ stream \in Seq(Frame) /\ output \in Seq(Frame) /\ Wire \in Seq(Frame)
         /\ sequence \in Nat /\ produced \in Nat /\ tty \in Nat
  BY BoundAssumption, ConcatFacts DEF TypeOK, Wire

\* A step that neither queues nor drops a frame, nor moves a chunk.
LEMMA ChunksStay ==
  ASSUME ChunkInv, Wire' = Wire, UNCHANGED <<sequence, produced, tty, eof, exitSent>>,
         HelperAlive' <=> HelperAlive, helper' \in Phases => helper \in Phases,
         GroupLive' => GroupLive \/ ~eof,
         HelperAlive \/ deadline' = deadline,
         output' = output \/ helper' \in LoopPcs
  PROVE  ChunkInv'
  <1>1. /\ Numbered(Wire', sequence') /\ Ends(Wire', sequence')
        /\ HelperAlive' => Before(Wire', Len(Wire') + 1, sequence') /\ produced' = sequence' + tty'
        /\ Told(Wire') => exitSent'
    BY DEF ChunkInv
  <1>2. /\ exitSent' => eof'
        /\ eof' => ~GroupLive' /\ tty' = 0 /\ produced' = sequence'
        /\ helper' \in Phases => ~eof'
        /\ ~HelperAlive' => tty' = 0 /\ deadline' = "none"
        /\ sequence' <= produced' /\ tty' <= produced'
    BY DEF ChunkInv
  <1>3. /\ helper' \in Phases => output' = <<>>
        /\ ~HelperAlive' => output' = <<>>
    BY DEF ChunkInv, HelperAlive, LoopPcs, Phases, Gone
  <1> QED BY <1>1, <1>2, <1>3 DEF ChunkInv

\* A step that gives the controller a reply.
LEMMA ChunksReply ==
  ASSUME TypeOK, ChunkInv, NEW op \in Replies, Wire' = Append(Wire, Reply(op)),
         UNCHANGED <<sequence, produced, tty, eof, exitSent>>,
         HelperAlive, HelperAlive', helper' \in Phases => helper \in Phases /\ output' = output,
         GroupLive' => GroupLive \/ ~eof
  PROVE  ChunkInv'
  <1>1. Reply(op) \in Frame /\ Reply(op).op \notin {"output", "exited"}
    BY RepliesAreFrames
  <1>2. Wire \in Seq(Frame) /\ sequence \in Nat
    BY WireTyped
  <1>3. /\ Numbered(Wire, sequence) /\ Ends(Wire, sequence)
        /\ Before(Wire, Len(Wire) + 1, sequence) /\ produced = sequence + tty
        /\ Told(Wire) => exitSent
    BY DEF ChunkInv
  <1>4. /\ Numbered(Wire', sequence) /\ Ends(Wire', sequence)
        /\ Before(Wire', Len(Wire') + 1, sequence)
        /\ Told(Wire') => exitSent
    BY <1>1, <1>2, <1>3, ReplyAppended
  <1>5. /\ exitSent' => eof'
        /\ eof' => ~GroupLive' /\ tty' = 0 /\ produced' = sequence'
        /\ helper' \in Phases => ~eof' /\ output' = <<>>
        /\ sequence' <= produced' /\ tty' <= produced'
    BY DEF ChunkInv
  <1> QED BY <1>3, <1>4, <1>5 DEF ChunkInv

\* A helper that ends, in whatever way, drops what is queued.
LEMMA ChunksEnd ==
  ASSUME TypeOK, ChunkInv, Discard, helper' \in Gone,
         stream' \in {stream, Append(stream, Reply("error"))},
         GroupLive' => GroupLive
  PROVE  ChunkInv'
  <1>1. Reply("error") \in Frame /\ Reply("error").op \notin {"output", "exited"}
    BY RepliesAreFrames DEF Replies
  <1>2. /\ stream \in Seq(Frame) /\ output \in Seq(Frame) /\ Wire \in Seq(Frame)
        /\ sequence \in Nat /\ produced \in Nat
    BY WireTyped
  <1>3. Numbered(Wire, sequence) /\ Ends(Wire, sequence) /\ (Told(Wire) => exitSent)
    BY DEF ChunkInv
  <1>4. Numbered(stream, sequence) /\ Ends(stream, sequence) /\ (Told(stream) => exitSent)
    BY <1>2, <1>3, ReceivedIsNumbered DEF Wire
  <1>5. Numbered(stream', sequence) /\ Ends(stream', sequence) /\ (Told(stream') => exitSent)
    BY <1>1, <1>2, <1>4, ReplyAppended
  <1>6. Wire' = stream'
    <2>1. stream' \in Seq(Frame)
      <3>1. Append(stream, Reply("error")) \in Seq(Frame)
        BY <1>1, <1>2, AppendFacts
      <3> QED BY <1>2, <3>1
    <2>2. output' = <<>>
      BY DEF Discard
    <2> QED BY <2>1, <2>2, ConcatEmptySeq DEF Wire
  <1>7. /\ tty' = 0 /\ output' = <<>> /\ deadline' = "none"
        /\ UNCHANGED <<eof, exitSent, sequence, produced>>
    BY DEF Discard
  <1>8. ~HelperAlive' /\ helper' \notin Phases
    BY DEF HelperAlive, Phases, Gone
  <1>9. /\ exitSent' => eof'
        /\ eof' => ~GroupLive' /\ produced' = sequence'
        /\ sequence' <= produced' /\ tty' <= produced'
    BY <1>2, <1>7 DEF ChunkInv
  <1> QED BY <1>5, <1>6, <1>7, <1>8, <1>9 DEF ChunkInv

LEMMA ReturnChunks ==
  ASSUME TypeOK, ChunkInv, NEW how \in {"done", "failed"}, Return(how)
  PROVE  ChunkInv'
  <1>1. Discard /\ helper' \in Gone /\ stream' \in {stream, Append(stream, Reply("error"))}
    BY DEF Return, Gone
  <1>2. GroupLive' => GroupLive
    BY DEF Return, KillGroup, GroupLive
  <1> QED BY <1>1, <1>2, ChunksEnd

\* The start-up queues no output.
LEMMA StartChunks ==
  ASSUME TypeOK, ChunkInv, Hello \/ Spawn \/ OpenPty \/ StartGuardian \/ AwaitBootstrap
  PROVE  ChunkInv'
  <1>1. CASE Fail
    BY <1>1, ReturnChunks DEF Fail
  <1>2. helper \in Phases => ~eof /\ output = <<>>
    BY DEF ChunkInv
  <1>3. stream \in Seq(Frame) /\ output \in Seq(Frame)
    BY WireTyped
  <1>4. CASE Hello /\ ~Fail
    <2>1. /\ helper = "hello" /\ helper' = "spawn" /\ stream' = Append(stream, Reply("hello"))
          /\ UNCHANGED <<procVars, loopVars, output>>
      BY <1>4 DEF Hello
    <2>2. Wire' = Append(Wire, Reply("hello"))
      <3>1. Reply("hello") \in Frame
        BY RepliesAreFrames DEF Replies
      <3>2. output = <<>> /\ output' = <<>>
        BY <1>2, <2>1 DEF Phases
      <3>3. Append(stream, Reply("hello")) \in Seq(Frame)
        BY <1>3, <3>1, AppendFacts
      <3> QED BY <1>3, <2>1, <3>2, <3>3, ConcatEmptySeq DEF Wire
    <2>3. "hello" \in Replies /\ HelperAlive /\ HelperAlive' /\ helper \in Phases
      BY <2>1 DEF Replies, HelperAlive, Gone, Phases
    <2>4. GroupLive' => GroupLive
      BY <2>1 DEF GroupLive, procVars
    <2>5. UNCHANGED <<sequence, produced, tty, eof, exitSent, output>>
      BY <2>1 DEF procVars, loopVars
    <2> QED BY <2>2, <2>3, <2>4, <2>5, ChunksReply
  <1>5. CASE (Spawn \/ OpenPty \/ StartGuardian) /\ ~Fail
    <2>1. /\ helper \in Phases /\ helper' \in Phases
          /\ UNCHANGED <<stream, output, sequence, produced, tty, eof, exitSent, deadline>>
      BY <1>5 DEF Spawn, OpenPty, StartGuardian, procVars, loopVars, wireVars, Phases
    <2>2. Wire' = Wire
      BY <2>1 DEF Wire
    <2>3. HelperAlive /\ HelperAlive'
      BY <2>1 DEF HelperAlive, Phases, Gone
    <2> QED BY <1>2, <2>1, <2>2, <2>3, ChunksStay
  <1>6. CASE AwaitBootstrap /\ ~Fail
    <2>1. /\ helper = "await" /\ helper' = "top" /\ output' = Append(output, Reply("spawned"))
          /\ UNCHANGED <<leader, member, stream, sequence, produced, tty, eof, exitSent>>
      BY <1>6 DEF AwaitBootstrap, Enqueue, loopVars
    <2>2. Wire' = Append(Wire, Reply("spawned"))
      <3>1. Reply("spawned") \in Frame
        BY RepliesAreFrames DEF Replies
      <3> QED BY <1>3, <2>1, <3>1, QueuedIsLast DEF Wire
    <2>3. "spawned" \in Replies /\ HelperAlive /\ HelperAlive' /\ helper' \notin Phases
      BY <2>1 DEF Replies, HelperAlive, Gone, Phases
    <2>4. GroupLive' => GroupLive
      BY <2>1 DEF GroupLive
    <2> QED BY <2>1, <2>2, <2>3, <2>4, ChunksReply
  <1> QED BY <1>1, <1>4, <1>5, <1>6

\* The exit is told behind the last chunk.
LEMMA TopChunks ==
  ASSUME TypeOK, ChunkInv, Top
  PROVE  ChunkInv'
  <1>1. CASE Fail
    BY <1>1, ReturnChunks DEF Fail
  <1>2. CASE Return("done")
    BY <1>2, ReturnChunks
  <1>3. CASE ~Fail /\ ~Return("done")
    <2> DEFINE waited == status \/ leader = "gone"
    <2>1. /\ helper = "top" /\ helper' = "control"
          /\ exitSent' = (exitSent \/ TellsExit(waited))
          /\ IF TellsExit(waited) THEN Enqueue([op |-> "exited", seq |-> sequence])
             ELSE UNCHANGED output
          /\ UNCHANGED <<tty, produced, eof, sequence, stream>>
      BY <1>3 DEF Top
    <2>2. GroupLive' => GroupLive
      BY <1>3 DEF Top, KillGroup, GroupLive
    <2>3. HelperAlive /\ HelperAlive' /\ helper' \in LoopPcs /\ helper' \notin Phases
      BY <2>1 DEF HelperAlive, Gone, LoopPcs, Phases
    <2>4. stream \in Seq(Frame) /\ output \in Seq(Frame) /\ Wire \in Seq(Frame) /\ sequence \in Nat
      BY WireTyped
    <2>5. CASE ~TellsExit(waited)
      <3>1. Wire' = Wire /\ exitSent' = exitSent
        <4>1. exitSent \in BOOLEAN
          BY DEF TypeOK
        <4> QED BY <2>1, <2>5, <4>1 DEF Wire
      <3> QED BY <2>1, <2>2, <2>3, <3>1, ChunksStay
    <2>6. CASE TellsExit(waited)
      <3> DEFINE f == [op |-> "exited", seq |-> sequence]
      <3>1. f \in Frame /\ f.op = "exited" /\ f.seq = sequence
        BY <2>4 DEF Frame
      <3>2. Wire' = Append(Wire, f)
        <4>1. output' = Append(output, f) /\ stream' = stream
          BY <2>1, <2>6 DEF Enqueue
        <4> HIDE DEF f
        <4> QED BY <2>4, <3>1, <4>1, QueuedIsLast DEF Wire
      <3>3. eof /\ exitSent'
        BY <2>1, <2>6 DEF TellsExit
      <3>4. /\ Numbered(Wire, sequence) /\ Ends(Wire, sequence)
            /\ Before(Wire, Len(Wire) + 1, sequence) /\ produced = sequence + tty
        BY <2>3 DEF ChunkInv
      <3> HIDE DEF f
      <3>5. /\ Numbered(Wire', sequence) /\ Ends(Wire', sequence)
            /\ Before(Wire', Len(Wire') + 1, sequence)
        BY <2>4, <3>1, <3>2, <3>4, ExitAppended
      <3>6. /\ eof' => ~GroupLive' /\ tty' = 0 /\ produced' = sequence'
            /\ sequence' <= produced' /\ tty' <= produced'
        BY <2>1, <2>2 DEF ChunkInv
      <3> QED BY <2>1, <2>3, <3>3, <3>4, <3>5, <3>6 DEF ChunkInv
    <2> QED BY <2>5, <2>6
  <1> QED BY <1>1, <1>2, <1>3

\* Commands are answered, and end members of the group at most.
LEMMA ControlChunks ==
  ASSUME TypeOK, ChunkInv, Control
  PROVE  ChunkInv'
  <1>1. CASE Fail
    BY <1>1, ReturnChunks DEF Fail
  <1>2. SignalGroup => (GroupLive' => GroupLive)
    <2> SUFFICES ASSUME SignalGroup  PROVE GroupLive' => GroupLive
      OBVIOUS
    <2>1. leader' \in {"boot", "ready", "provider"} => leader = "provider"
      BY DEF SignalGroup
    <2>2. member' = member \/ member' = FALSE
      BY DEF SignalGroup
    <2> QED BY <2>1, <2>2 DEF GroupLive
  <1>3. HelperAlive /\ helper \notin Phases /\ helper \in LoopPcs
    BY DEF Control, HelperAlive, Gone, Phases, LoopPcs
  <1>4. stream \in Seq(Frame) /\ output \in Seq(Frame)
    BY WireTyped
  <1>5. CASE (TakeInput \/ TakeTerminate) /\ ~Fail
    <2>1. /\ UNCHANGED <<helper, stream, output, sequence, produced, tty, eof, exitSent>>
          /\ UNCHANGED <<leader, member>> \/ SignalGroup
      BY <1>5 DEF TakeInput, TakeTerminate, Take, procVars, loopVars, wireVars
    <2>2. GroupLive' => GroupLive
      BY <1>2, <2>1 DEF GroupLive
    <2>3. Wire' = Wire /\ (HelperAlive' <=> HelperAlive)
      BY <2>1 DEF Wire, HelperAlive
    <2> QED BY <1>3, <2>1, <2>2, <2>3, ChunksStay
  <1>6. ASSUME NEW op \in Replies, ~Fail,
               Answer(op, UNCHANGED <<leader, member>>) \/ Answer(op, SignalGroup)
        PROVE  ChunkInv'
    <2>1. /\ output' = Append(output, Reply(op))
          /\ UNCHANGED <<helper, stream, sequence, produced, tty, eof, exitSent>>
          /\ UNCHANGED <<leader, member>> \/ SignalGroup
      BY <1>6 DEF Answer, Enqueue, loopVars
    <2>2. Wire' = Append(Wire, Reply(op))
      BY <1>4, <2>1, RepliesAreFrames, QueuedIsLast DEF Wire
    <2>3. HelperAlive' /\ helper' \notin Phases /\ (GroupLive' => GroupLive)
      BY <1>2, <1>3, <2>1 DEF HelperAlive, GroupLive
    <2> QED BY <1>3, <2>1, <2>2, <2>3, ChunksReply
  <1>7. CASE (TakeResize \/ TakePing \/ TakeSignal) /\ ~Fail
    BY <1>6, <1>7 DEF TakeResize, TakePing, TakeSignal, Replies
  <1>8. TakeInvalid => Fail
    BY DEF TakeInvalid
  <1> QED BY <1>1, <1>5, <1>7, <1>8 DEF Control

\* A chunk goes from the terminal to the wire, and the end of the terminal is
\* seen when nothing is left in it and nobody to write.
LEMMA RestOfTurnChunks ==
  ASSUME TypeOK, ChunkInv,
         EndControl \/ Pty \/ \E frames \in 0..Len(output), part \in BOOLEAN : Write(frames, part)
  PROVE  ChunkInv'
  <1>1. CASE Fail
    BY <1>1, ReturnChunks DEF Fail
  <1>2. /\ stream \in Seq(Frame) /\ output \in Seq(Frame) /\ Wire \in Seq(Frame)
        /\ sequence \in Nat /\ produced \in Nat /\ tty \in Nat
    BY WireTyped
  <1>3. CASE EndControl
    <2>1. /\ helper = "control" /\ helper' = "pty"
          /\ UNCHANGED <<leader, member, stream, output, sequence, produced, tty, eof, exitSent>>
      BY <1>3 DEF EndControl, procVars, loopVars, wireVars
    <2> QED BY <2>1, ChunksStay DEF Wire, HelperAlive, GroupLive, Gone, Phases
  <1>4. CASE Pty /\ ~Fail
    <2>1. /\ helper = "pty" /\ helper' = "write"
          /\ eof' = (eof \/ (readPty /\ tty = 0 /\ ~GroupLive))
          /\ UNCHANGED <<leader, member, produced, exitSent, stream>>
      BY <1>4 DEF Pty, ttyVars
    <2>2. HelperAlive /\ HelperAlive' /\ helper' \notin Phases /\ (GroupLive' <=> GroupLive)
      BY <2>1 DEF HelperAlive, Gone, Phases, GroupLive
    <2>3. /\ Numbered(Wire, sequence) /\ Ends(Wire, sequence)
          /\ Before(Wire, Len(Wire) + 1, sequence) /\ produced = sequence + tty
          /\ Told(Wire) => exitSent
          /\ exitSent => eof
          /\ eof => ~GroupLive /\ tty = 0
      BY <2>2 DEF ChunkInv
    <2>4. CASE readPty /\ tty > 0
      <3> DEFINE f == [op |-> "output", seq |-> sequence + 1]
      <3>1. f \in Frame /\ f.op = "output" /\ f.seq = sequence + 1
        BY <1>2 DEF Frame
      <3>2. tty' = tty - 1 /\ sequence' = sequence + 1 /\ output' = Append(output, f)
        BY <1>4, <2>4 DEF Pty, Enqueue
      <3>3. Wire' = Append(Wire, f)
        BY <1>2, <2>1, <3>1, <3>2, QueuedIsLast DEF Wire
      <3> HIDE DEF f
      <3>4. ~eof /\ ~exitSent /\ ~eof' /\ ~exitSent' /\ ~Told(Wire)
        <4>1. tty # 0
          BY <1>2, <2>4
        <4>2. ~eof /\ ~exitSent /\ ~Told(Wire)
          BY <2>3, <4>1
        <4> QED BY <2>1, <4>1, <4>2
      <3>5. /\ Numbered(Wire', sequence') /\ Ends(Wire', sequence') /\ ~Told(Wire')
            /\ Before(Wire', Len(Wire') + 1, sequence')
        BY <1>2, <2>3, <3>1, <3>2, <3>3, <3>4, OutputAppended
      <3>6. produced' = sequence' + tty' /\ sequence' <= produced' /\ tty' <= produced'
        BY <1>2, <2>1, <2>3, <2>4, <3>2
      <3> QED BY <2>2, <3>4, <3>5, <3>6 DEF ChunkInv
    <2>5. CASE ~(readPty /\ tty > 0)
      <3>1. UNCHANGED <<tty, sequence, output>> /\ Wire' = Wire
        BY <1>4, <2>1, <2>5 DEF Pty, Wire
      <3>2. eof' => ~GroupLive' /\ tty' = 0 /\ produced' = sequence'
        <4>1. eof' => ~GroupLive /\ tty = 0
          BY <2>1, <2>3
        <4>2. produced' = sequence' + tty'
          BY <2>1, <2>3, <3>1
        <4>3. tty' = 0 => produced' = sequence'
          BY <1>2, <3>1, <4>2
        <4> QED BY <2>2, <3>1, <4>1, <4>3
      <3>3. exitSent' => eof'
        BY <2>1, <2>3
      <3>4. sequence' <= produced' /\ tty' <= produced'
        BY <2>1, <3>1 DEF ChunkInv
      <3> QED BY <2>1, <2>2, <2>3, <3>1, <3>2, <3>3, <3>4 DEF ChunkInv
    <2> QED BY <2>4, <2>5
  <1>5. ASSUME NEW frames \in 0..Len(output), NEW part \in BOOLEAN, Write(frames, part)
        PROVE  ChunkInv'
    <2>1. /\ helper = "write" /\ helper' = "top"
          /\ stream' = stream \o SubSeq(output, 1, frames)
          /\ output' = SubSeq(output, frames + 1, Len(output))
          /\ UNCHANGED <<leader, member, sequence, produced, tty, eof, exitSent>>
      BY <1>5 DEF Write, procVars, loopVars
    <2>2. Wire' = Wire
      <3>1. stream \in Seq(Frame) /\ output \in Seq(Frame)
        BY <1>2
      <3>2. (stream \o SubSeq(output, 1, frames)) \o SubSeq(output, frames + 1, Len(output))
              = stream \o output
        BY <3>1, WrittenIsWire
      <3> QED BY <2>1, <3>2, Zenon DEF Wire
    <2>3. HelperAlive /\ HelperAlive' /\ helper' \in LoopPcs /\ helper' \notin Phases
          /\ (GroupLive' => GroupLive)
      BY <2>1 DEF HelperAlive, GroupLive, Gone, Phases, LoopPcs
    <2> QED BY <2>1, <2>2, <2>3, ChunksStay
  <1> QED BY <1>1, <1>3, <1>4, <1>5

\* The other processes: only a live group writes, and then the end of the
\* terminal was not seen yet.
LEMMA OthersChunks ==
  ASSUME TypeOK, ChunkInv,
         \/ DeadlinePasses \/ Guard \/ Bootstrap \/ Emit \/ ForkOrExit
         \/ (\E c \in Commands : Send(c)) \/ Close \/ KillHelper \/ KillGuardian
  PROVE  ChunkInv'
  <1>1. CASE KillHelper
    <2>1. Discard /\ helper' \in Gone /\ UNCHANGED <<leader, member, stream>>
      BY <1>1 DEF KillHelper, Gone
    <2> QED BY <2>1, ChunksEnd DEF GroupLive
  <1>2. CASE Emit
    <2>1. /\ HelperAlive /\ Started /\ tty' = tty + 1 /\ produced' = produced + 1
          /\ UNCHANGED <<helper, leader, member, stream, output, sequence, eof, exitSent>>
      BY <1>2 DEF Emit, ttyVars, loopVars, wireVars
    <2>2. ~eof /\ ~eof' /\ ~exitSent' /\ ~Told(Wire)
      BY <2>1 DEF Started, GroupLive, ChunkInv
    <2>3. Wire' = Wire /\ HelperAlive'
      BY <2>1 DEF Wire, HelperAlive
    <2>4. sequence \in Nat /\ tty \in Nat /\ produced \in Nat
      BY WireTyped
    <2>5. /\ Numbered(Wire', sequence') /\ Ends(Wire', sequence') /\ ~Told(Wire')
          /\ Before(Wire', Len(Wire') + 1, sequence')
      BY <2>1, <2>2, <2>3 DEF ChunkInv
    <2>6. produced' = sequence' + tty' /\ sequence' <= produced' /\ tty' <= produced'
      BY <2>1, <2>4 DEF ChunkInv
    <2>7. helper' \in Phases => output' = <<>>
      BY <2>1 DEF ChunkInv
    <2> QED BY <2>2, <2>3, <2>5, <2>6, <2>7 DEF ChunkInv
  <1>3. CASE DeadlinePasses \/ Guard \/ Bootstrap \/ ForkOrExit \/ Close \/ KillGuardian
             \/ \E c \in Commands : Send(c)
    <2>1. UNCHANGED <<helper, stream, output, sequence, produced, tty, eof, exitSent>>
      BY <1>3 DEF DeadlinePasses, Guard, Bootstrap, ForkOrExit, Close, KillGuardian, Send,
                  procVars, loopVars, wireVars
    <2>2. GroupLive' => GroupLive
      BY <1>3 DEF DeadlinePasses, Guard, KillGroup, Bootstrap, ForkOrExit, Close, KillGuardian, Send,
                  procVars, GroupLive
    <2>3. HelperAlive \/ deadline' = deadline
      <3>1. ~HelperAlive => deadline = "none"
        BY DEF ChunkInv
      <3>2. deadline' = deadline \/ deadline = "armed"
        BY <1>3 DEF DeadlinePasses, Guard, Bootstrap, ForkOrExit, Close, KillGuardian, Send, loopVars
      <3> QED BY <3>1, <3>2
    <2> QED BY <2>1, <2>2, <2>3, ChunksStay DEF Wire, HelperAlive
  <1> QED BY <1>1, <1>2, <1>3

-----------------------------------------------------------------------------
(* Room *)

LEMMA OutputsAreFinite ==
  ASSUME NEW q \in Seq(Frame)
  PROVE  /\ IsFiniteSet(Outputs(q)) /\ Cardinality(Outputs(q)) \in Nat
         /\ Cardinality(Outputs(q)) <= Len(q) /\ Len(q) \in Nat
  <1>1. Len(q) \in Nat
    OBVIOUS
  <1>2. IsFiniteSet(1..Len(q)) /\ Cardinality(1..Len(q)) = Len(q)
    BY <1>1, FS_Interval
  <1>3. Outputs(q) \in SUBSET (1..Len(q))
    BY DEF Outputs
  <1>4. IsFiniteSet(Outputs(q)) /\ Cardinality(Outputs(q)) <= Len(q)
    BY <1>2, <1>3, FS_Subset
  <1> QED BY <1>1, <1>4, FS_CardinalityType

LEMMA NoOutputs == Outputs(<<>>) = {} /\ Cardinality(Outputs(<<>>)) = 0
  <1>1. Outputs(<<>>) = {}
    BY DEF Outputs
  <1> QED BY <1>1, FS_EmptySet

\* One more frame is at most one more output frame.
LEMMA OutputsAppended ==
  ASSUME NEW q \in Seq(Frame), NEW f \in Frame
  PROVE  Cardinality(Outputs(Append(q, f))) <= Cardinality(Outputs(q)) + 1
  <1> DEFINE r == Append(q, f)
             more == Outputs(q) \cup {Len(q) + 1}
  <1>1. /\ r \in Seq(Frame) /\ Len(q) \in Nat /\ Len(r) = Len(q) + 1
        /\ \A i \in 1..Len(q) : r[i] = q[i]
    BY AppendFacts
  <1>2. IsFiniteSet(Outputs(q)) /\ Cardinality(Outputs(q)) \in Nat
    BY OutputsAreFinite
  <1>3. Outputs(r) \in SUBSET more
    <2> HIDE DEF r
    <2> QED BY <1>1 DEF Outputs
  <1>4. IsFiniteSet(more) /\ Cardinality(more) <= Cardinality(Outputs(q)) + 1
        /\ Cardinality(more) \in Nat
    <2>1. /\ IsFiniteSet(more)
          /\ Cardinality(more) = IF Len(q) + 1 \in Outputs(q) THEN Cardinality(Outputs(q))
                                 ELSE Cardinality(Outputs(q)) + 1
      BY <1>2, FS_AddElement
    <2> QED BY <1>2, <2>1
  <1>5. Cardinality(Outputs(r)) <= Cardinality(more) /\ Cardinality(Outputs(r)) \in Nat
    <2> HIDE DEF r, more
    <2> QED BY <1>1, <1>3, <1>4, FS_Subset, OutputsAreFinite
  <1> HIDE DEF r, more
  <1>6. Cardinality(Outputs(r)) <= Cardinality(Outputs(q)) + 1
    BY <1>2, <1>4, <1>5
  <1> QED BY <1>6 DEF r

\* What is left of a queue holds no more output than the whole.
LEMMA OutputsLeft ==
  ASSUME NEW q \in Seq(Frame), NEW n \in 0..Len(q)
  PROVE  Cardinality(Outputs(SubSeq(q, n + 1, Len(q)))) <= Cardinality(Outputs(q))
  <1> DEFINE r == SubSeq(q, n + 1, Len(q))
             f == [k \in Outputs(r) |-> k + n]
  <1>1. Len(q) \in Nat /\ n \in Nat /\ n <= Len(q)
    OBVIOUS
  <1>2. Len(r) = Len(q) - n /\ \A i \in 1..(Len(q) - n) : r[i] = q[n + i]
    BY <1>1
  <1> HIDE DEF r
  <1>3. \A k \in Outputs(r) : k \in Nat /\ k + n \in Outputs(q)
    <2> SUFFICES ASSUME NEW k \in Outputs(r)  PROVE k \in Nat /\ k + n \in Outputs(q)
      OBVIOUS
    <2>1. k \in 1..(Len(q) - n) /\ r[k].op = "output"
      BY <1>1, <1>2 DEF Outputs
    <2>2. k + n \in 1..Len(q) /\ k + n = n + k /\ k \in Nat
      BY <1>1, <2>1
    <2>3. q[k + n].op = "output"
      BY <1>2, <2>1, <2>2
    <2> QED BY <2>2, <2>3 DEF Outputs
  <1>4. f \in Injection(Outputs(r), Outputs(q))
    <2>1. f \in [Outputs(r) -> Outputs(q)]
      BY <1>3
    <2>2. \A a \in Outputs(r) : \A b \in Outputs(r) : f[a] = f[b] => a = b
      <3>1. \A a \in Outputs(r) : f[a] = a + n /\ a \in Nat
        BY <1>3
      <3> HIDE DEF f
      <3> QED BY <1>1, <3>1
    <2> QED BY <2>1, <2>2 DEF Injection, IsInjective
  <1>5. IsFiniteSet(Outputs(q))
    BY OutputsAreFinite
  <1> HIDE DEF f
  <1>6. Cardinality(Outputs(r)) <= Cardinality(Outputs(q))
    BY <1>4, <1>5, FS_Injection
  <1> QED BY <1>6 DEF r

\* A step that changes neither the queue nor the decision to read.
LEMMA RoomStays ==
  ASSUME RoomInv, UNCHANGED output,
         (helper' \in {"control", "pty"} /\ readPty' => helper \in {"control", "pty"} /\ readPty)
  PROVE  RoomInv'
  BY DEF RoomInv

\* A helper that ends holds nothing.
LEMMA RoomEnds ==
  ASSUME Discard
  PROVE  RoomInv'
  BY NoOutputs, QueueAssumption DEF Discard, RoomInv

\* A reply takes no room from the output.
LEMMA RoomReply ==
  ASSUME TypeOK, RoomInv, NEW op \in Replies, output' = Append(output, Reply(op)),
         (helper' \in {"control", "pty"} /\ readPty' => helper \in {"control", "pty"} /\ readPty)
  PROVE  RoomInv'
  <1>1. Outputs(output') = Outputs(output)
    BY RepliesAreFrames, WireTyped, ReplyAppended
  <1> QED BY <1>1 DEF RoomInv

\* A step of the helper keeps room in the queue.
LEMMA HelperRoom ==
  ASSUME TypeOK, RoomInv, HelperStep
  PROVE  RoomInv'
  <1>1. CASE Fail \/ Return("done")
    BY <1>1, RoomEnds DEF Fail, Return
  <1>2. CASE (Hello \/ Spawn \/ OpenPty \/ StartGuardian) /\ ~Fail
    <2>1. UNCHANGED output /\ helper' \notin {"control", "pty"}
      BY <1>2 DEF Hello, Spawn, OpenPty, StartGuardian, wireVars
    <2> QED BY <2>1, RoomStays
  <1>3. CASE AwaitBootstrap /\ ~Fail
    <2>1. helper' = "top" /\ output' = Append(output, Reply("spawned"))
      BY <1>3 DEF AwaitBootstrap, Enqueue
    <2>2. "spawned" \in Replies
      BY DEF Replies
    <2> QED BY <2>1, <2>2, RoomReply
  <1>4. CASE Top /\ ~Fail /\ ~Return("done")
    <2> DEFINE f == [op |-> "exited", seq |-> sequence]
    <2>1. /\ output' = output \/ output' = Append(output, f)
          /\ readPty' = (~eof /\ RoomForOutput(output'))
      BY <1>4 DEF Top, Enqueue
    <2>2. f \in Frame /\ f.op = "exited" /\ f.op # "output" /\ output \in Seq(Frame)
      BY WireTyped DEF Frame
    <2> HIDE DEF f
    <2>3. output' \in Seq(Frame) /\ Outputs(output') = Outputs(output)
      <3>1. CASE output' = output
        BY <2>2, <3>1
      <3>2. CASE output' = Append(output, f)
        <4>1. /\ Append(output, f) \in Seq(Frame) /\ Len(output) \in Nat
              /\ Len(Append(output, f)) = Len(output) + 1
              /\ \A i \in 1..Len(output) : Append(output, f)[i] = output[i]
              /\ Append(output, f)[Len(output) + 1] = f
          BY <2>2, AppendFacts
        <4>2. /\ output' \in Seq(Frame) /\ Len(output') = Len(output) + 1
              /\ \A i \in 1..Len(output) : output'[i] = output[i]
              /\ output'[Len(output) + 1] = f
          BY <3>2, <4>1
        <4> QED BY <2>2, <4>1, <4>2 DEF Outputs
      <3> QED BY <2>1, <3>1, <3>2
    <2>4. readPty' => 2 * Cardinality(Outputs(output')) < MaxQueue
      <3>1. /\ Cardinality(Outputs(output')) <= Len(output') /\ Len(output') \in Nat
            /\ Cardinality(Outputs(output')) \in Nat
        BY <2>3, OutputsAreFinite
      <3>2. readPty' => 2 * Len(output') < MaxQueue
        BY <2>1 DEF RoomForOutput
      <3> QED BY <3>1, <3>2, QueueAssumption
    <2> QED BY <2>3, <2>4 DEF RoomInv
  <1>5. CASE Control /\ ~Fail
    <2>1. ASSUME NEW op \in Replies,
                 Answer(op, UNCHANGED <<leader, member>>) \/ Answer(op, SignalGroup)
          PROVE  RoomInv'
      <3>1. output' = Append(output, Reply(op)) /\ UNCHANGED <<helper, readPty>>
        BY <1>5, <2>1 DEF Answer, Enqueue, loopVars
      <3> QED BY <3>1, RoomReply
    <2>2. CASE TakeInput \/ TakeTerminate
      <3>1. UNCHANGED <<output, helper, readPty>>
        BY <1>5, <2>2 DEF TakeInput, TakeTerminate, loopVars, wireVars
      <3> QED BY <3>1, RoomStays
    <2>3. CASE TakeResize \/ TakePing \/ TakeSignal
      BY <1>5, <2>1, <2>3 DEF TakeResize, TakePing, TakeSignal, Replies
    <2> QED BY <1>5, <2>2, <2>3 DEF Control, TakeInvalid
  <1>6. CASE EndControl
    <2>1. UNCHANGED <<output, readPty>> /\ helper = "control"
      BY <1>6 DEF EndControl, loopVars, wireVars
    <2> QED BY <2>1, RoomStays
  <1>7. CASE Pty /\ ~Fail
    <2> DEFINE f == [op |-> "output", seq |-> sequence + 1]
    <2>1. /\ helper = "pty" /\ helper' = "write" /\ UNCHANGED readPty
          /\ UNCHANGED output \/ (readPty /\ output' = Append(output, f))
      BY <1>7 DEF Pty, Enqueue
    <2>2. f \in Frame /\ output \in Seq(Frame)
      BY WireTyped DEF Frame
    <2> HIDE DEF f
    <2>3. CASE UNCHANGED output
      BY <2>1, <2>3, RoomStays
    <2>4. CASE readPty /\ output' = Append(output, f)
      <3>1. Cardinality(Outputs(output')) <= Cardinality(Outputs(output)) + 1
        BY <2>2, <2>4, OutputsAppended
      <3>2. 2 * Cardinality(Outputs(output)) < MaxQueue
        BY <2>1, <2>4 DEF RoomInv
      <3>3. Cardinality(Outputs(output)) \in Nat /\ Cardinality(Outputs(output')) \in Nat
        <4>1. Append(output, f) \in Seq(Frame)
          BY <2>2, AppendFacts
        <4> QED BY <2>2, <2>4, <4>1, OutputsAreFinite
      <3>4. 2 * Cardinality(Outputs(output')) <= MaxQueue + 1
        BY ONLY <3>1, <3>2, <3>3, QueueAssumption
      <3> QED BY <2>1, <3>4 DEF RoomInv
    <2> QED BY <2>1, <2>3, <2>4
  <1>8. ASSUME NEW frames \in 0..Len(output), NEW part \in BOOLEAN, Write(frames, part)
        PROVE  RoomInv'
    <2>1. helper' = "top" /\ output' = SubSeq(output, frames + 1, Len(output))
      BY <1>8 DEF Write
    <2>2. output \in Seq(Frame)
      BY WireTyped
    <2>3. Cardinality(Outputs(output')) <= Cardinality(Outputs(output))
      BY <2>1, <2>2, OutputsLeft
    <2>4. Cardinality(Outputs(output)) \in Nat /\ Cardinality(Outputs(output')) \in Nat
      <3>1. SubSeq(output, frames + 1, Len(output)) \in Seq(Frame)
        BY <2>2, WrittenStays
      <3> QED BY <2>1, <2>2, <3>1, OutputsAreFinite
    <2>5. 2 * Cardinality(Outputs(output)) <= MaxQueue + 1
      BY DEF RoomInv
    <2>6. 2 * Cardinality(Outputs(output')) <= MaxQueue + 1
      BY ONLY <2>3, <2>4, <2>5, QueueAssumption
    <2> QED BY <2>1, <2>6 DEF RoomInv
  <1> QED BY <1>1, <1>2, <1>3, <1>4, <1>5, <1>6, <1>7, <1>8 DEF HelperStep, WriteClosed, SystemCallFails

LEMMA OthersRoom ==
  ASSUME RoomInv,
         \/ DeadlinePasses \/ Guard \/ Bootstrap \/ Emit \/ ForkOrExit
         \/ (\E c \in Commands : Send(c)) \/ Close \/ KillHelper \/ KillGuardian
  PROVE  RoomInv'
  <1>1. CASE KillHelper
    BY <1>1, RoomEnds DEF KillHelper
  <1>2. CASE ~KillHelper
    <2>1. UNCHANGED <<output, helper, readPty>>
      BY <1>2 DEF DeadlinePasses, Guard, Bootstrap, Emit, ForkOrExit, Send, Close, KillGuardian,
                  loopVars, wireVars
    <2> QED BY <2>1, RoomStays
  <1> QED BY <1>1, <1>2

-----------------------------------------------------------------------------
(* The output theorems *)

HelperInv == TypeOK /\ ChunkInv /\ RoomInv

LEMMA HelperInit == Init => HelperInv
  <1> SUFFICES ASSUME Init  PROVE HelperInv
    OBVIOUS
  <1>1. TypeOK
    <2>1. /\ output \in Seq(Frame) /\ Len(output) <= MaxQueue /\ stream \in Seq(Frame)
          /\ control \in Seq(Commands) /\ faults \subseteq {"helper", "guardian"}
      BY QueueAssumption DEF Init
    <2>2. /\ tty \in 0..MaxChunks /\ produced \in 0..MaxChunks /\ sequence \in 0..MaxChunks
          /\ input \in 0..MaxInput /\ sent \in 0..MaxCommands
      BY QueueAssumption, BoundAssumption DEF Init
    <2>3. {member, ack, status, eof, exitSent, readPty, torn, closed} \subseteq BOOLEAN
      BY DEF Init
    <2> QED BY <2>1, <2>2, <2>3 DEF Init, TypeOK, Phases
  <1>2. Wire = <<>> /\ Len(Wire) = 0
    BY DEF Init, Wire
  <1>3. Numbered(Wire, 0) /\ Ends(Wire, 0) /\ Before(Wire, Len(Wire) + 1, 0) /\ ~Told(Wire)
    BY <1>2, NoOutputs DEF Numbered, Ends, Before, Told
  <1>4. ChunkInv
    BY <1>3 DEF Init, ChunkInv, HelperAlive, GroupLive, Phases, Gone
  <1>5. RoomInv
    BY NoOutputs, QueueAssumption DEF Init, RoomInv
  <1> QED BY <1>1, <1>4, <1>5 DEF HelperInv

LEMMA HelperStepKeeps ==
  ASSUME HelperInv, [Next]_vars
  PROVE  HelperInv'
  <1>1. TypeOK /\ ChunkInv /\ RoomInv /\ Sized
    BY ChunksAreSized DEF HelperInv
  <1>2. CASE HelperStep
    <2>1. CASE Fail
      BY <1>1, <1>2, <2>1, ReturnTyped, ReturnChunks, HelperRoom DEF Fail, HelperInv
    <2>2. CASE ~Fail
      <3>1. CASE Hello \/ Spawn \/ OpenPty \/ StartGuardian \/ AwaitBootstrap
        BY <1>1, <1>2, <3>1, StartTyped, StartChunks, HelperRoom DEF HelperInv
      <3>2. CASE Top
        BY <1>1, <1>2, <3>2, TopTyped, TopChunks, HelperRoom DEF HelperInv
      <3>3. CASE Control
        BY <1>1, <1>2, <3>3, ControlTyped, ControlChunks, HelperRoom DEF HelperInv
      <3>4. CASE EndControl \/ Pty \/ \E frames \in 0..Len(output), part \in BOOLEAN : Write(frames, part)
        BY <1>1, <1>2, <3>4, RestOfTurnTyped, RestOfTurnChunks, HelperRoom DEF HelperInv
      <3> QED BY <1>2, <2>2, <3>1, <3>2, <3>3, <3>4 DEF HelperStep, WriteClosed, SystemCallFails
    <2> QED BY <2>1, <2>2
  <1>3. CASE DeadlinePasses \/ Guard \/ Bootstrap \/ Emit \/ ForkOrExit
             \/ (\E c \in Commands : Send(c)) \/ Close \/ KillHelper \/ KillGuardian
    BY <1>1, <1>3, OthersTyped, OthersChunks, OthersRoom DEF HelperInv
  <1>4. CASE UNCHANGED vars
    <2>1. UNCHANGED <<helper, guardian, faults, input, leader, member, ack, tty, produced, status,
                      eof, exitSent, deadline, readPty, sequence, output, torn, stream, control, sent, closed>>
      BY <1>4 DEF vars, procVars, loopVars, wireVars, ctlVars
    <2>2. TypeOK'
      BY <1>1, <2>1 DEF TypeOK
    <2>3. ChunkInv'
      BY <1>1, <2>1, ChunksStay DEF Wire, HelperAlive, GroupLive
    <2>4. RoomInv'
      BY <1>1, <2>1, RoomStays
    <2> QED BY <2>2, <2>3, <2>4 DEF HelperInv
  <1> QED BY <1>2, <1>3, <1>4 DEF Next

\* The inductive invariant behind the two theorems that follow holds for every
\* size of the queues and any number of chunks and commands.
THEOREM HelperInvariance == Spec => []HelperInv
  BY HelperInit, HelperStepKeeps, PTL DEF Spec

\* When the controller is told of the exit it has every chunk the group wrote,
\* once and in order (ExitedIsComplete; main.rs, run).
THEOREM ExitsComplete == Spec => []ExitedIsComplete
  <1>1. HelperInv => ExitedIsComplete
    <2> SUFFICES ASSUME HelperInv, NEW i \in 1..Len(stream), stream[i].op = "exited"
                 PROVE  /\ stream[i].seq = produced
                        /\ \A n \in 1..produced : \E k \in Outputs(stream) : k < i /\ stream[k].seq = n
                        /\ \A k \in Outputs(stream) : stream[k].seq \in 1..produced
                        /\ \A j \in Outputs(stream) : \A k \in Outputs(stream) :
                             j < k => stream[j].seq < stream[k].seq
      BY DEF ExitedIsComplete
    <2>1. /\ stream \in Seq(Frame) /\ output \in Seq(Frame) /\ sequence \in Nat
          /\ Numbered(Wire, sequence) /\ Ends(Wire, sequence) /\ (Told(Wire) => exitSent)
      BY WireTyped DEF HelperInv, ChunkInv
    <2>2. Numbered(stream, sequence) /\ Ends(stream, sequence) /\ (Told(stream) => exitSent)
      BY <2>1, ReceivedIsNumbered DEF Wire
    <2>3. produced = sequence
      <3>1. Told(stream)
        BY DEF Told
      <3> QED BY <2>2, <3>1 DEF HelperInv, ChunkInv
    <2>4. stream[i].seq = produced /\ Before(stream, i, produced)
      BY <2>2, <2>3 DEF Ends
    <2> QED BY <2>2, <2>3, <2>4 DEF Numbered, Before
  <1> QED BY <1>1, HelperInvariance, PTL

\* The queue is bounded, and output takes no more than half of it and a frame
\* (QueueKeepsRoom; main.rs, run).
THEOREM RoomKept == Spec => []QueueKeepsRoom
  <1>1. HelperInv => QueueKeepsRoom
    BY DEF HelperInv, RoomInv, QueueKeepsRoom
  <1> QED BY <1>1, HelperInvariance, PTL
=============================================================================
