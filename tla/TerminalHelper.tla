--------------------------- MODULE TerminalHelper ---------------------------
(***************************************************************************)
(* The PTY helper (native/terminal_helper): one helper process owns a      *)
(* pseudo terminal, the process group that runs in it and a guardian that  *)
(* kills that group when the helper dies.  A controller (the Elixir        *)
(* terminal session) drives the helper over a pair of pipes.               *)
(*                                                                         *)
(* Bytes are counted, not spelled: an output chunk and a frame are one     *)
(* unit of the output queue, an input message is one unit of the input     *)
(* queue, and a control message is the name of its command, "other" being  *)
(* every message that is refused where it arrives (wrong session, version, *)
(* order, size).                                                           *)
(* Operators named Mut... are bugs the code could have: the properties are *)
(* checked to notice them.                                                 *)
(***************************************************************************)
EXTENDS Naturals, Sequences, FiniteSets

CONSTANTS
  MaxQueue,     \* MAX_QUEUE, in frames
  MaxInput,     \* MAX_INPUT, in input messages
  MaxChunks,    \* bound: chunks the group writes to its terminal
  MaxCommands   \* bound: messages the controller sends, handshake included

ASSUME QueueAssumption == MaxQueue \in Nat \ {0} /\ MaxInput \in Nat
ASSUME BoundAssumption == MaxChunks \in Nat /\ MaxCommands \in Nat

VARIABLES
  helper,      \* where run() stands, or how the process ended
  leader,      \* the group's first process: bootstrap, then provider
  member,      \* another process of the group is alive
  ack,         \* the byte that lets the bootstrap execute the provider is written
  guardian,    \* the guardian process
  tty,         \* chunks written to the terminal and not read by the helper
  produced,    \* chunks ever written to the terminal
  status,      \* the leader was waited for
  eof,         \* the terminal reported its end
  exitSent,    \* the exited frame was queued
  deadline,    \* the grace period of a terminate
  readPty,     \* read_pty of this turn of the loop
  sequence,    \* number of the last output frame
  output,      \* frames queued for the controller
  torn,        \* the first frame of the queue is partly written
  stream,      \* frames the controller has received whole
  input,       \* input messages queued for the terminal
  control,     \* commands sent and not taken yet
  sent,        \* number of commands sent
  closed,      \* the controller closed its end
  faults       \* processes killed from outside

procVars == <<leader, member, ack, tty, produced>>
ttyVars  == <<leader, member, ack>>
loopVars == <<status, eof, exitSent, deadline, readPty, sequence>>
wireVars == <<output, torn, stream>>
ctlVars  == <<control, sent, closed>>
vars == <<helper, guardian, faults, input, procVars, loopVars, wireVars, ctlVars>>

Phases   == {"hello", "spawn", "open", "unguarded", "await"}
LoopPcs  == {"top", "control", "pty", "write"}
Gone     == {"done", "failed", "killed"}
Commands == {"hello", "spawn", "input", "resize", "signal", "terminate", "ping", "other"}
Replies  == {"hello", "spawned", "resized", "signalled", "heartbeat", "error"}
Frame    == [op : Replies \cup {"output", "exited"}, seq : Nat]
Reply(op) == [op |-> op, seq |-> 0]

HelperAlive == helper \notin Gone
Started     == leader = "provider" \/ member    \* provider code is running
GroupLive   == leader \in {"boot", "ready", "provider"} \/ member

Init ==
  /\ helper = "hello" /\ guardian = "none" /\ faults = {}
  /\ leader = "none" /\ member = FALSE /\ ack = FALSE
  /\ tty = 0 /\ produced = 0 /\ input = 0
  /\ status = FALSE /\ eof = FALSE /\ exitSent = FALSE
  /\ deadline = "none" /\ readPty = FALSE /\ sequence = 0
  /\ output = <<>> /\ torn = FALSE /\ stream = <<>>
  /\ control = <<>> /\ sent = 0 /\ closed = FALSE
-----------------------------------------------------------------------------
(* Signals to the owned group.  KILL ends every member; another signal may *)
(* be ignored by provider code, and ends a bootstrap, which has defaults.  *)

KillGroup ==
  /\ leader' = IF leader = "none" THEN "none" ELSE "gone"
  /\ member' = FALSE

SignalGroup ==
  /\ leader' \in IF leader = "provider" THEN {"provider", "gone"}
                 ELSE {IF leader = "none" THEN "none" ELSE "gone"}
  /\ member' \in {member, FALSE}

\* Queues and descriptors go with the process.
Discard ==
  /\ output' = <<>> /\ torn' = FALSE /\ input' = 0 /\ control' = <<>> /\ tty' = 0
  /\ deadline' = "none" /\ readPty' = FALSE
  /\ UNCHANGED <<status, eof, exitSent, sequence, sent, closed, ack, produced>>

(* run() returns.  Dropping the guardian kills the group, tells the        *)
(* guardian to stand down and waits for it; on an error main() then writes *)
(* an error frame straight to stdout, past whatever is still queued.       *)
Return(how) ==
  /\ helper' = how
  /\ KillGroup
  /\ guardian' = IF guardian = "watching" THEN "gone" ELSE guardian
  /\ stream' \in IF how = "failed" /\ ~torn
                 THEN {stream, Append(stream, Reply("error"))} ELSE {stream}
  /\ Discard /\ UNCHANGED faults

Fail == Return("failed")

HasRoom == Len(output) < MaxQueue
Enqueue(frame) == output' = Append(output, frame)
-----------------------------------------------------------------------------
(* Handshake and spawn *)

\* The blocking read of one command: the next message, or the end of the pipe.
Reads(c)  == control # <<>> /\ Head(control) = c
Misreads(c) == IF control = <<>> THEN closed ELSE Head(control) # c

Hello ==
  /\ helper = "hello"
  /\ \/ /\ Reads("hello")
        /\ helper' = "spawn"
        /\ control' = Tail(control)
        /\ stream' = Append(stream, Reply("hello"))
        /\ UNCHANGED <<guardian, faults, input, procVars, loopVars, output, torn, sent, closed>>
     \/ Misreads("hello") /\ Fail
     \/ closed /\ Fail

Spawn ==
  /\ helper = "spawn"
  /\ \/ /\ Reads("spawn")
        /\ helper' = "open"
        /\ control' = Tail(control)
        /\ UNCHANGED <<guardian, faults, input, procVars, loopVars, wireVars, sent, closed>>
     \/ Misreads("spawn") /\ Fail

\* openpty and spawn_command: the bootstrap is the leader of a new group.
OpenPty ==
  /\ helper = "open"
  /\ \/ /\ helper' = "unguarded" /\ leader' = "boot"
        /\ UNCHANGED <<guardian, faults, input, member, ack, tty, produced,
                       loopVars, wireVars, ctlVars>>
     \/ Fail

\* Guardian::start, or the group is killed and the helper gives up.
StartGuardian ==
  /\ helper = "unguarded"
  /\ \/ /\ helper' = "await" /\ guardian' = "watching"
        /\ UNCHANGED <<faults, input, procVars, loopVars, wireVars, ctlVars>>
     \/ Fail

\* await_bootstrap, the acknowledgement and the first frame.
AwaitBootstrap ==
  /\ helper = "await"
  /\ \/ /\ leader = "ready"
        /\ helper' = "top" /\ ack' = TRUE
        /\ Enqueue(Reply("spawned"))
        /\ UNCHANGED <<guardian, faults, input, leader, member, tty, produced,
                       loopVars, torn, stream, ctlVars>>
     \/ leader \in {"boot", "gone"} /\ Fail
-----------------------------------------------------------------------------
(* One turn of the loop: Top, Control, Pty, Write *)

\* The grace period of a terminate runs out.
DeadlinePasses ==
  /\ deadline = "armed" /\ deadline' = "passed"
  /\ UNCHANGED <<helper, guardian, faults, input, procVars, status, eof, exitSent,
                 readPty, sequence, wireVars, ctlVars>>

\* Mutant: the end of the leader does not end its children.
MutKillsOnlyLate(waited) == deadline = "passed"

\* The group is killed once the deadline has passed, and once the leader was
\* waited for.
KillsGroup(waited) == deadline = "passed" \/ (waited /\ ~status)

\* Mutant: the end of the terminal is not waited for.
MutTellsEarly(waited) == waited /\ ~exitSent

\* Exited is due when both the status and the end of the terminal are known.
TellsExit(waited) == waited /\ ~exitSent /\ eof

\* Mutant: the terminal is read whatever the queue holds.
MutAlwaysRoom(queue) == TRUE

\* The terminal is read only while half of the queue is free.
RoomForOutput(queue) == 2 * Len(queue) < MaxQueue

Top ==
  /\ helper = "top"
  /\ LET waited == status \/ leader = "gone"
     IN IF TellsExit(waited) /\ ~HasRoom THEN Fail
        ELSE IF exitSent /\ output = <<>> THEN Return("done")
        ELSE /\ helper' = "control"
             /\ status' = waited
             /\ IF KillsGroup(waited) THEN KillGroup ELSE UNCHANGED <<leader, member>>
             /\ deadline' = IF deadline = "passed" THEN "none" ELSE deadline
             /\ exitSent' = (exitSent \/ TellsExit(waited))
             /\ IF TellsExit(waited) THEN Enqueue([op |-> "exited", seq |-> sequence])
                ELSE UNCHANGED output
             /\ readPty' = (~eof /\ RoomForOutput(output'))
             /\ UNCHANGED <<guardian, faults, input, ack, tty, produced, eof, sequence,
                            torn, stream, ctlVars>>

\* One command of the control pipe (take_command and its arm of the match).
Take == control' = Tail(control) /\ UNCHANGED <<sent, closed>>

TakeInput ==
  /\ Reads("input") /\ ~status
  /\ IF input < MaxInput
     THEN /\ input' = input + 1 /\ Take
          /\ UNCHANGED <<helper, guardian, faults, procVars, loopVars, wireVars>>
     ELSE Fail

Answer(op, groupStep) ==
  IF HasRoom
  THEN /\ groupStep /\ Enqueue(Reply(op)) /\ Take
       /\ UNCHANGED <<helper, guardian, faults, input, ack, tty, produced, loopVars,
                      torn, stream>>
  ELSE Fail

TakeResize == Reads("resize") /\ (Answer("resized", UNCHANGED <<leader, member>>) \/ Fail)
TakePing   == Reads("ping") /\ Answer("heartbeat", UNCHANGED <<leader, member>>)
TakeSignal == Reads("signal") /\ Answer("signalled", SignalGroup)

\* Mutant: terminate signals the group and arms no deadline.
MutTerminateTrusts ==
  /\ Reads("terminate") /\ Take /\ SignalGroup
  /\ UNCHANGED <<helper, guardian, faults, input, ack, tty, produced, loopVars, wireVars>>

TakeTerminate ==
  /\ Reads("terminate") /\ Take
  /\ SignalGroup
  /\ deadline' = "armed"
  /\ UNCHANGED <<helper, guardian, faults, input, ack, tty, produced, status, eof,
                 exitSent, readPty, sequence, wireVars>>

\* Anything else ends the helper: also input that arrives after the exit.
TakeInvalid ==
  /\ \/ \E c \in {"hello", "spawn", "other"} : Reads(c)
     \/ Reads("input") /\ status
  /\ Fail

Control ==
  /\ helper = "control"
  /\ \/ TakeInput \/ TakeResize \/ TakePing \/ TakeSignal \/ TakeTerminate \/ TakeInvalid
     \/ control = <<>> /\ closed /\ Fail

\* A read takes a part of what the pipe holds, or poll reported nothing.
EndControl ==
  /\ helper = "control" /\ helper' = "pty"
  /\ UNCHANGED <<guardian, faults, input, procVars, loopVars, wireVars, ctlVars>>

Pty ==
  /\ helper = "pty"
  /\ IF readPty /\ tty > 0 /\ ~HasRoom THEN Fail
     ELSE /\ helper' = "write"
          /\ IF readPty /\ tty > 0
             THEN /\ tty' = tty - 1
                  /\ sequence' = sequence + 1
                  /\ Enqueue([op |-> "output", seq |-> sequence + 1])
             ELSE UNCHANGED <<tty, sequence, output>>
          /\ eof' = (eof \/ (readPty /\ tty = 0 /\ ~GroupLive))
          /\ UNCHANGED <<guardian, faults, input, ttyVars, produced, status, exitSent,
                         deadline, readPty, torn, stream, ctlVars>>

\* The writes to the terminal and to the controller take what their readers
\* have room for: some input, some whole frames and perhaps part of the next.
Write(frames, part) ==
  /\ helper = "write"
  /\ closed => output = <<>>
  /\ helper' = "top"
  /\ input' \in 0..input
  /\ torn' = (part \/ (torn /\ frames = 0))
  /\ torn' => frames < Len(output)
  /\ stream' = stream \o SubSeq(output, 1, frames)
  /\ output' = SubSeq(output, frames + 1, Len(output))
  /\ UNCHANGED <<guardian, faults, procVars, loopVars, ctlVars>>

\* The controller's end is closed: poll or the write says so.
WriteClosed == helper = "write" /\ closed /\ Fail

\* Any other system call of the bootstrap or the loop fails.
SystemCallFails == helper \in LoopPcs \cup {"await"} /\ Fail

HelperStep ==
  Hello \/ Spawn \/ OpenPty \/ StartGuardian \/ AwaitBootstrap
  \/ Top \/ Control \/ EndControl \/ Pty
  \/ (\E frames \in 0..Len(output), part \in BOOLEAN : Write(frames, part))
  \/ WriteClosed \/ SystemCallFails
-----------------------------------------------------------------------------
(* The other processes *)

\* Mutant: a guardian whose pipe ends goes without killing the group.
MutGuardTrustsEof ==
  /\ guardian = "watching" /\ helper = "killed" /\ guardian' = "gone"
  /\ UNCHANGED <<helper, faults, input, procVars, loopVars, wireVars, ctlVars>>

\* guard(): the pipe ended without a "D", so the helper died.
Guard ==
  /\ guardian = "watching" /\ helper = "killed"
  /\ guardian' = "gone"
  /\ KillGroup
  /\ UNCHANGED <<helper, faults, input, ack, tty, produced, loopVars, wireVars, ctlVars>>

\* bootstrap(): raw mode, PTYREADY, then the acknowledgement and exec.  Any
\* failure, and the hangup of a terminal whose master is closed, ends it.
Bootstrap ==
  /\ \/ leader = "boot" /\ leader' \in {"ready", "gone"}
     \/ leader = "ready" /\ ack /\ leader' \in {"provider", "gone"}
     \/ leader \in {"boot", "ready"} /\ ~HelperAlive /\ leader' = "gone"
  /\ UNCHANGED <<helper, guardian, faults, input, member, ack, tty, produced, loopVars,
                 wireVars, ctlVars>>

\* The provider and its descendants: output, forks and exits.
Emit ==
  /\ Started /\ HelperAlive /\ produced < MaxChunks
  /\ tty' = tty + 1 /\ produced' = produced + 1
  /\ UNCHANGED <<helper, guardian, faults, input, ttyVars, loopVars, wireVars, ctlVars>>

ForkOrExit ==
  /\ \/ leader = "provider" /\ member' \in BOOLEAN /\ leader' = "provider"
     \/ leader = "provider" /\ leader' = "gone" /\ member' = member
     \/ member /\ member' = FALSE /\ leader' = leader
  /\ UNCHANGED <<helper, guardian, faults, input, ack, tty, produced, loopVars, wireVars,
                 ctlVars>>

\* The controller: hello, spawn, then any command; it may close at any time.
Send(c) ==
  /\ ~closed /\ HelperAlive /\ sent < MaxCommands
  /\ c \in CASE sent = 0 -> {"hello", "other"}
             [] sent = 1 -> {"spawn", "other"}
             [] OTHER    -> Commands \ {"hello", "spawn"}
  /\ control' = Append(control, c) /\ sent' = sent + 1
  /\ UNCHANGED <<helper, guardian, faults, input, procVars, loopVars, wireVars, closed>>

Close ==
  /\ ~closed /\ closed' = TRUE
  /\ UNCHANGED <<helper, guardian, faults, input, procVars, loopVars, wireVars, control, sent>>

\* Faults: the helper or the guardian is killed from outside.
KillHelper ==
  /\ HelperAlive
  /\ helper' = "killed" /\ faults' = faults \cup {"helper"}
  /\ Discard /\ UNCHANGED <<guardian, leader, member, stream>>

KillGuardian ==
  /\ guardian = "watching" /\ guardian' = "gone" /\ faults' = faults \cup {"guardian"}
  /\ UNCHANGED <<helper, input, procVars, loopVars, wireVars, ctlVars>>

Next ==
  \/ HelperStep \/ DeadlinePasses
  \/ Guard \/ Bootstrap \/ Emit \/ ForkOrExit
  \/ \E c \in Commands : Send(c)
  \/ Close \/ KillHelper \/ KillGuardian

Spec == Init /\ [][Next]_vars

\* The scheduler runs every process.  The loop reads its pipe in every turn in
\* which poll reports it, hence strong fairness of Control; a provider, a
\* controller and the faults owe nothing.
Fairness ==
  /\ WF_vars(HelperStep) /\ SF_vars(Control) /\ WF_vars(DeadlinePasses)
  /\ WF_vars(Guard) /\ WF_vars(Bootstrap)
FairSpec == Spec /\ Fairness
-----------------------------------------------------------------------------
TypeOK ==
  /\ helper \in Phases \cup LoopPcs \cup Gone
  /\ leader \in {"none", "boot", "ready", "provider", "gone"}
  /\ guardian \in {"none", "watching", "gone"}
  /\ {member, ack, status, eof, exitSent, readPty, torn, closed} \subseteq BOOLEAN
  /\ deadline \in {"none", "armed", "passed"}
  /\ tty \in 0..MaxChunks /\ produced \in 0..MaxChunks /\ sequence \in 0..MaxChunks
  /\ input \in 0..MaxInput
  /\ output \in Seq(Frame) /\ Len(output) <= MaxQueue
  /\ stream \in Seq(Frame)
  /\ control \in Seq(Commands) /\ sent \in 0..MaxCommands
  /\ faults \subseteq {"helper", "guardian"}

\* Provider code runs only while something alive will end it: the helper, or a
\* guardian that was not itself killed.  This spans the start-up barrier (the
\* bootstrap waits until the guardian is installed), every error return, the
\* death of the helper at any point and a leader that exits before its children.
ProviderIsGuarded ==
  Started => HelperAlive \/ guardian = "watching" \/ "guardian" \in faults

\* The places of output frames in a sequence of frames.
Outputs(frames) == {k \in 1..Len(frames) : frames[k].op = "output"}

\* When the controller is told of the exit, it has every chunk the group wrote
\* to the terminal, in order: neither a slow reader, nor a child that writes
\* after the leader has gone, nor a termination cuts the output short of it.
ExitedIsComplete ==
  \A i \in 1..Len(stream) : stream[i].op = "exited" =>
    LET before == {k \in Outputs(stream) : k < i}
    IN /\ stream[i].seq = produced
       /\ \A n \in 1..produced : \E k \in before : stream[k].seq = n
       /\ \A k \in before : stream[k].seq \in 1..produced
       /\ \A j \in before : \A k \in before : j < k => stream[j].seq < stream[k].seq

\* The queue is bounded and a flood of output never fills it, however slow the
\* controller: half of it stays for replies, so only unread replies end a session
\* for it.
QueueKeepsRoom == TypeOK /\ 2 * Cardinality(Outputs(output)) <= MaxQueue + 1

\* Closing the control pipe, sending a terminate, and the death of the helper
\* at any point all end the whole group, also processes that ignore TERM,
\* unless helper and guardian were both killed.
GroupEnds ==
  (closed \/ ~HelperAlive \/ \E i \in 1..Len(control) : control[i] = "terminate")
    ~> (~GroupLive \/ faults = {"helper", "guardian"})

\* A controller that keeps reading learns how every session ended: once the
\* leader has gone it receives exited, whatever the children do, unless the
\* helper gave up with an error, was killed or was closed.
ExitReported ==
  []<>(output = <<>>) =>
    ((leader = "gone")
       ~> (\/ \E i \in 1..Len(stream) : stream[i].op = "exited"
           \/ closed \/ helper \in {"failed", "killed"}))
=============================================================================
