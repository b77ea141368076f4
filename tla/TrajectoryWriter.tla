-------------------------- MODULE TrajectoryWriter --------------------------
(***************************************************************************)
(* The append path of one goal's trajectory:                               *)
(*   lib/shoestring/trajectory.ex            the callers' side             *)
(*   lib/shoestring/trajectory/writer.ex     the GenServer, one per goal   *)
(*   lib/shoestring/trajectory/writer_supervisor.ex   lookup-or-start      *)
(*                                                                         *)
(* A caller looks the goal's writer up (starting it if needed), calls it,  *)
(* and, when the writer vanished in a way that cannot have processed the   *)
(* call, tries once more on a fresh writer.  The writer runs one immediate *)
(* SQLite transaction per attempt, publishes what it committed and stops   *)
(* itself when idle.  Coordinators that already own a transaction append   *)
(* through it instead (append_in_transaction), so two connections write    *)
(* the same log.  Writers crash, are shut down and idle out at any point;  *)
(* callers time out.                                                       *)
(***************************************************************************)
EXTENDS Naturals, Sequences, FiniteSets

CONSTANTS Calls, Keys, NoKey, KeyOf,
          TxnCalls,    \* the calls made with writer_opts[:transaction_repo]
          NoCall,      \* the write lock is free / the writer is not appending
          MaxRetries,  \* state.max_retries (@default_max_retries)
          MaxWriters   \* bound: writer processes started over a behaviour

ASSUME WriterAssumption == /\ NoKey \notin Keys
                           /\ KeyOf \in [Calls -> Keys \cup {NoKey}]
                           /\ TxnCalls \subseteq Calls
                           /\ NoCall \notin Calls
                           /\ MaxRetries \in Nat
                           /\ MaxWriters \in Nat

VARIABLES
  rows,     \* committed trajectory_events rows of the goal
  inbox,    \* seqs captured for the plan by PlanChildInbox / PlanGoalStatus
  lock,     \* the call on whose behalf SQLite's write lock is held, or NoCall
  staged,   \* rows inserted by the transaction that holds the lock
  spawned,  \* writer processes started so far; the newest has pid = spawned
  alive,    \* the newest writer process is running (and registered)
  mailbox,  \* its message queue: append calls and idle_timeout messages
  token,    \* idle_token of the state: the only timer message that counts
  armed,    \* that timer has not fired yet
  current,  \* the call whose append the writer is executing, or NoCall
  phase,    \* how far that append is
  retries,  \* busy retries of that append
  st,       \* per call: where the caller is
  pid,      \* per call: the writer it looked up
  attempt,  \* per call: 0, or 1 after the one retry of dispatch_append
  reason,   \* per call: the exit reason its GenServer.call raised
  result,   \* per call: what Trajectory.append returned or raised
  feed      \* seqs broadcast on the goal's PubSub topic, oldest first

dbVars     == <<rows, inbox, lock, staged>>
work       == <<current, phase, retries>>
writerVars == <<spawned, alive, mailbox, token, armed, work>>
callVars   == <<st, pid, attempt, reason, result>>
vars       == <<dbVars, writerVars, callVars, feed>>

-----------------------------------------------------------------------------
(* Types                                                                   *)

Row == [seq : Nat \ {0}, key : Keys \cup {NoKey}, call : Calls]

Phases == {"idle", "attempt", "locked", "commit", "publish"}

Append1(c)  == [type |-> "append", call |-> c, token |-> 0]
IdleMsg(t)  == [type |-> "idle_timeout", call |-> NoCall, token |-> t]
Message     == [type : {"append"}, call : Calls, token : {0}]
               \cup [type : {"idle_timeout"}, call : {NoCall}, token : Nat]

CallStates  == {"new", "ensured", "waiting", "exited", "txn", "inserted", "done"}
ExitReasons == {"none", "noproc", "normal", "shutdown", "killed", "timeout"}
Results     == {"none", "ok", "duplicate", "invalid", "transaction_required",
                "start_failed", "disappeared", "ambiguous", "exit",
                "retry_exhausted", "rolled_back", "publish_failed"}

\* Every variable keeps its type; rows, staged rows and the append in hand are
\* well formed.
TypeOK ==
  /\ rows \in SUBSET Row
  /\ inbox \in SUBSET Nat
  /\ lock \in Calls \cup {NoCall}
  /\ staged \in SUBSET Row
  /\ spawned \in Nat
  /\ alive \in BOOLEAN
  /\ mailbox \in Seq(Message)
  /\ token \in Nat
  /\ armed \in BOOLEAN
  /\ current \in Calls \cup {NoCall}
  /\ phase \in Phases
  /\ retries \in 0..MaxRetries
  /\ st \in [Calls -> CallStates]
  /\ pid \in [Calls -> Nat]
  /\ attempt \in [Calls -> {0, 1}]
  /\ reason \in [Calls -> ExitReasons]
  /\ result \in [Calls -> Results]
  /\ feed \in Seq(Nat)

Init ==
  /\ rows = {} /\ inbox = {} /\ lock = NoCall /\ staged = {}
  /\ spawned = 0 /\ alive = FALSE /\ mailbox = <<>>
  /\ token = 0 /\ armed = FALSE
  /\ current = NoCall /\ phase = "idle" /\ retries = 0
  /\ st = [c \in Calls |-> "new"]
  /\ pid = [c \in Calls |-> 0]
  /\ attempt = [c \in Calls |-> 0]
  /\ reason = [c \in Calls |-> "none"]
  /\ result = [c \in Calls |-> "none"]
  /\ feed = <<>>

-----------------------------------------------------------------------------
(* The transaction both paths share                                        *)

\* existing_event: a keyless append never finds one.
ExistingEvent(c) == IF KeyOf[c] = NoKey THEN {} ELSE {r \in rows : r.key = KeyOf[c]}

\* next_sequence: max(sequence) over the goal's rows, or 0, plus one.
NextSequence(n) == \E m \in {0} \cup {r.seq : r \in rows} :
                      n = m + 1 /\ \A r \in rows : r.seq <= m

\* transaction_attempt / insert_new_event, inside the transaction of call c:
\* stage the new row, or nothing when the key already has its event.  The
\* reference checks and database errors are the rollback actions below.
TransactionAttempt(c) ==
  IF ExistingEvent(c) # {}
  THEN staged' = {}
  ELSE \E n \in {1} \cup {r.seq + 1 : r \in rows} :
          /\ NextSequence(n)
          /\ staged' = {[seq |-> n, key |-> KeyOf[c], call |-> c]}

\* COMMIT: the event and what the plan captures about it become durable
\* together, and the lock is released.
Commit == /\ rows' = rows \cup staged
          /\ inbox' = inbox \cup {r.seq : r \in staged \cup ExistingEvent(lock)}
          /\ lock' = NoCall
          /\ staged' = {}

Rollback == lock' = NoCall /\ staged' = {} /\ UNCHANGED <<rows, inbox>>

-----------------------------------------------------------------------------
(* Callers: Trajectory.append                                              *)

Finish(c, r) == /\ st' = [st EXCEPT ![c] = "done"]
                /\ result' = [result EXCEPT ![c] = r]

\* The writer has no append in hand.
NoAppend == current' = NoCall /\ phase' = "idle" /\ retries' = 0

\* The four validations before any process is involved (goal id, input,
\* references, registered payload).
RejectInput(c) ==
  /\ st[c] = "new" /\ attempt[c] = 0
  /\ Finish(c, "invalid")
  /\ UNCHANGED <<dbVars, writerVars, pid, attempt, reason, feed>>

\* WriterSupervisor.ensure_started: the registered writer, or a new one whose
\* init arms the idle timer.  MaxWriters bounds how many a behaviour starts.
EnsureStarted(c) ==
  /\ st[c] = "new" /\ c \notin TxnCalls
  /\ \/ /\ alive
        /\ UNCHANGED writerVars
        /\ pid' = [pid EXCEPT ![c] = spawned]
     \/ /\ ~alive /\ spawned < MaxWriters
        /\ spawned' = spawned + 1
        /\ alive' = TRUE
        /\ mailbox' = <<>> /\ token' = 0 /\ armed' = TRUE
        /\ NoAppend
        /\ pid' = [pid EXCEPT ![c] = spawned + 1]
  /\ st' = [st EXCEPT ![c] = "ensured"]
  /\ UNCHANGED <<dbVars, attempt, reason, result, feed>>

\* start_child fails: the first look-up reports it, the retry of
\* recover_writer_exit folds it into "disappeared".
StartFails(c) ==
  /\ st[c] = "new" /\ c \notin TxnCalls /\ ~alive
  /\ Finish(c, IF attempt[c] = 0 THEN "start_failed" ELSE "disappeared")
  /\ UNCHANGED <<dbVars, writerVars, pid, attempt, reason, feed>>

\* GenServer.call on the pid found earlier: the message is queued, or the call
\* exits with :noproc because that process is gone by now.
DispatchAppend(c) ==
  /\ st[c] = "ensured"
  /\ IF alive /\ pid[c] = spawned
     THEN /\ mailbox' = Append(mailbox, Append1(c))
          /\ st' = [st EXCEPT ![c] = "waiting"]
          /\ UNCHANGED reason
     ELSE /\ st' = [st EXCEPT ![c] = "exited"]
          /\ reason' = [reason EXCEPT ![c] = "noproc"]
          /\ UNCHANGED mailbox
  /\ UNCHANGED <<dbVars, spawned, alive, token, armed, work, pid, attempt, result, feed>>

\* The 15 second call timeout.  The message stays in the writer's queue.
CallTimeout(c) ==
  /\ st[c] = "waiting"
  /\ st' = [st EXCEPT ![c] = "exited"]
  /\ reason' = [reason EXCEPT ![c] = "timeout"]
  /\ UNCHANGED <<dbVars, writerVars, pid, attempt, result, feed>>

\* Mutants: an exit that may have followed the commit counts as disappeared.
ShutdownDisappears(r) == r \in {"noproc", "normal", "shutdown"}
TimeoutDisappears(r)  == r \in {"noproc", "normal", "timeout"}

\* writer_disappeared? and ambiguous_writer_exit?
WriterDisappeared(r)   == r \in {"noproc", "normal"}
AmbiguousWriterExit(r) == r = "shutdown"

\* recover_writer_exit: look up again, exactly once, after an exit that cannot
\* have processed the call; report or re-raise every other exit.
RecoverWriterExit(c) ==
  /\ st[c] = "exited"
  /\ \/ /\ WriterDisappeared(reason[c]) /\ attempt[c] = 0
        /\ attempt' = [attempt EXCEPT ![c] = 1]
        /\ st' = [st EXCEPT ![c] = "new"]
        /\ UNCHANGED result
     \/ /\ WriterDisappeared(reason[c]) /\ attempt[c] = 1
        /\ Finish(c, "disappeared")
        /\ UNCHANGED attempt
     \/ /\ AmbiguousWriterExit(reason[c])
        /\ Finish(c, "ambiguous")
        /\ UNCHANGED attempt
     \/ /\ ~WriterDisappeared(reason[c]) /\ ~AmbiguousWriterExit(reason[c])
        /\ Finish(c, "exit")
        /\ UNCHANGED attempt
  /\ UNCHANGED <<dbVars, writerVars, pid, reason, feed>>

-----------------------------------------------------------------------------
(* Coordinators: Writer.append_in_transaction                              *)

\* Refused outside a transaction.
TransactionRequired(c) ==
  /\ st[c] = "new" /\ c \in TxnCalls
  /\ Finish(c, "transaction_required")
  /\ UNCHANGED <<dbVars, writerVars, pid, attempt, reason, feed>>

\* The coordinator's own BEGIN IMMEDIATE waits for the lock.
TxnBegin(c) ==
  /\ st[c] = "new" /\ c \in TxnCalls /\ lock = NoCall
  /\ lock' = c
  /\ st' = [st EXCEPT ![c] = "txn"]
  /\ UNCHANGED <<rows, inbox, staged, writerVars, pid, attempt, reason, result, feed>>

TxnAppend(c) ==
  /\ st[c] = "txn"
  /\ TransactionAttempt(c)
  /\ st' = [st EXCEPT ![c] = "inserted"]
  /\ UNCHANGED <<rows, inbox, lock, writerVars, pid, attempt, reason, result, feed>>

\* The coordinator commits; its other writes and its broadcasts are its own.
TxnCommit(c) ==
  /\ st[c] = "inserted"
  /\ Commit
  /\ Finish(c, IF staged = {} THEN "duplicate" ELSE "ok")
  /\ UNCHANGED <<writerVars, pid, attempt, reason, feed>>

\* It rolls back (its own reasons, a reference it does not own, a crash).
TxnRollback(c) ==
  /\ st[c] \in {"txn", "inserted"}
  /\ Rollback
  /\ Finish(c, "rolled_back")
  /\ UNCHANGED <<writerVars, pid, attempt, reason, feed>>

-----------------------------------------------------------------------------
(* The writer process                                                      *)

\* {:reply, reply, arm_idle_timer(state)}: answer the caller if it is still
\* waiting for this process, and arm a timer with a fresh token.
Reply(r) ==
  /\ IF st[current] = "waiting" /\ pid[current] = spawned
     THEN Finish(current, r)
     ELSE UNCHANGED <<st, result>>
  /\ NoAppend
  /\ token' = token + 1
  /\ armed' = TRUE
  /\ UNCHANGED <<pid, attempt, reason>>

\* handle_call({:append, ...}): the next message is an append.
TakeAppend ==
  /\ alive /\ current = NoCall /\ mailbox # <<>>
  /\ Head(mailbox).type = "append"
  /\ current' = Head(mailbox).call /\ phase' = "attempt" /\ retries' = 0
  /\ mailbox' = Tail(mailbox)
  /\ UNCHANGED <<dbVars, spawned, alive, token, armed, callVars, feed>>

\* BEGIN IMMEDIATE gets the write lock.
BeginImmediate ==
  /\ phase = "attempt" /\ lock = NoCall
  /\ lock' = current
  /\ phase' = "locked"
  /\ UNCHANGED <<rows, inbox, staged, spawned, alive, mailbox, token, armed, current, retries, callVars, feed>>

\* Mutant: the retry bound is not tested.
RetryBusyForEver ==
  /\ phase = "attempt" /\ lock # NoCall
  /\ retries' = retries + 1
  /\ UNCHANGED <<dbVars, spawned, alive, mailbox, token, armed, current, phase, callVars, feed>>

\* busy_timeout ran out while somebody else held the lock: retryable?(:busy).
RetryBusy ==
  /\ phase = "attempt" /\ lock # NoCall
  /\ retries < MaxRetries
  /\ retries' = retries + 1
  /\ UNCHANGED <<dbVars, spawned, alive, mailbox, token, armed, current, phase, callVars, feed>>

\* ... until {:retry_exhausted, :busy}.
RetryExhausted ==
  /\ phase = "attempt" /\ lock # NoCall
  /\ retries = MaxRetries
  /\ Reply("retry_exhausted")
  /\ UNCHANGED <<dbVars, spawned, alive, mailbox, feed>>

WriterAttempt ==
  /\ phase = "locked"
  /\ TransactionAttempt(current)
  /\ phase' = "commit"
  /\ UNCHANGED <<rows, inbox, lock, spawned, alive, mailbox, token, armed, current, retries, callVars, feed>>

\* A reference the goal does not own, or a database error that is not a busy
\* one: roll back and report, never retry.
WriterRollback ==
  /\ phase \in {"locked", "commit"}
  /\ Rollback
  /\ Reply("rolled_back")
  /\ UNCHANGED <<spawned, alive, mailbox, feed>>

\* Mutant: a duplicate is broadcast like a new event.
WriterCommitRepublishes ==
  /\ phase = "commit"
  /\ Commit
  /\ IF staged = {}
     THEN /\ Reply("duplicate")
          /\ \E r \in ExistingEvent(current) : feed' = Append(feed, r.seq)
     ELSE /\ phase' = "publish"
          /\ UNCHANGED <<current, retries, token, armed, callVars, feed>>
  /\ UNCHANGED <<spawned, alive, mailbox>>

\* COMMIT.  A duplicate is answered at once and never published again.
WriterCommit ==
  /\ phase = "commit"
  /\ Commit
  /\ IF staged = {}
     THEN Reply("duplicate")
     ELSE /\ phase' = "publish"
          /\ UNCHANGED <<current, retries, token, armed, callVars>>
  /\ UNCHANGED <<spawned, alive, mailbox, feed>>

\* publish/2 after the commit: the broadcast, or publish_failed although the
\* event is durable.
Publish ==
  /\ phase = "publish"
  /\ \E r \in {x \in rows : x.call = current} : feed' = Append(feed, r.seq)
  /\ Reply("ok")
  /\ UNCHANGED <<dbVars, spawned, alive, mailbox>>

\* Mutant: the rescue clause swallows the failure without a reply.
PublishFailsSilently ==
  /\ phase = "publish"
  /\ NoAppend
  /\ UNCHANGED <<dbVars, callVars, spawned, alive, mailbox, token, armed, feed>>

PublishFails ==
  /\ phase = "publish"
  /\ Reply("publish_failed")
  /\ UNCHANGED <<dbVars, spawned, alive, mailbox, feed>>

\* Process.send_after fires: the message joins the queue behind the calls that
\* are already there.
IdleTimerFires ==
  /\ alive /\ armed
  /\ mailbox' = Append(mailbox, IdleMsg(token))
  /\ armed' = FALSE
  /\ UNCHANGED <<dbVars, spawned, alive, token, work, callVars, feed>>

\* The process is gone: its transaction rolls back, and every caller that has
\* no answer yet gets the exit reason.
WriterExits(why) ==
  /\ alive' = FALSE
  /\ mailbox' = <<>> /\ armed' = FALSE /\ NoAppend
  /\ IF phase \in {"locked", "commit"} THEN Rollback ELSE UNCHANGED dbVars
  /\ LET left == {c \in Calls : st[c] = "waiting" /\ pid[c] = spawned}
     IN /\ st' = [c \in Calls |-> IF c \in left THEN "exited" ELSE st[c]]
        /\ reason' = [c \in Calls |-> IF c \in left THEN why ELSE reason[c]]
  /\ UNCHANGED <<spawned, token, pid, attempt, result, feed>>

\* handle_info({:idle_timeout, token}) with the current token: stop :normal.
IdleStop ==
  /\ alive /\ current = NoCall /\ mailbox # <<>>
  /\ Head(mailbox) = IdleMsg(token)
  /\ WriterExits("normal")

\* ... with a stale token: ignored.
StaleIdleTimeout ==
  /\ alive /\ current = NoCall /\ mailbox # <<>>
  /\ Head(mailbox).type = "idle_timeout" /\ Head(mailbox).token # token
  /\ mailbox' = Tail(mailbox)
  /\ UNCHANGED <<dbVars, spawned, alive, token, armed, work, callVars, feed>>

\* The supervisor terminates it, or it is killed, wherever it is.
WriterKilled == \E why \in {"shutdown", "killed"} : alive /\ WriterExits(why)

-----------------------------------------------------------------------------
Caller(c) == \/ RejectInput(c) \/ EnsureStarted(c) \/ StartFails(c)
             \/ DispatchAppend(c) \/ CallTimeout(c) \/ RecoverWriterExit(c)

Coordinator(c) == \/ TransactionRequired(c) \/ TxnBegin(c) \/ TxnAppend(c)
                  \/ TxnCommit(c) \/ TxnRollback(c)

Writer == \/ TakeAppend \/ BeginImmediate \/ RetryBusy \/ RetryExhausted
          \/ WriterAttempt \/ WriterRollback \/ WriterCommit
          \/ Publish \/ PublishFails
          \/ IdleStop \/ StaleIdleTimeout

Next == \/ \E c \in Calls : Caller(c) \/ Coordinator(c)
        \/ Writer
        \/ IdleTimerFires
        \/ WriterKilled

Spec == Init /\ [][Next]_vars

\* Running processes keep running: a caller takes its next step, a writer with
\* work handles it, a coordinator finishes its transaction.  Nothing says that
\* a timer fires, that a caller times out or that anybody crashes.
Fairness ==
  /\ WF_vars(Writer)
  /\ \A c \in Calls : /\ WF_vars(EnsureStarted(c) \/ StartFails(c)
                                 \/ DispatchAppend(c) \/ RecoverWriterExit(c))
                      /\ WF_vars(TxnAppend(c) \/ TxnCommit(c) \/ TxnRollback(c))

FairSpec == Spec /\ Fairness

-----------------------------------------------------------------------------
(* Properties                                                              *)

Log == INSTANCE EventLog

\* The append path implements the event log: whatever idles out, crashes,
\* retries or interleaves with a coordinator's transaction, committed events
\* are numbered without a gap, never change, and there is at most one per
\* idempotency key and one per call, keyless calls and the retry of
\* recover_writer_exit included.
ImplementsEventLog == Log!LogSpec

\* What append answers is what happened.  An answer that names an event means
\* the event is committed; every answer that reports a definite failure means
\* that this call appended nothing and never will, so that the caller may
\* append again even without a key.  Only "ambiguous" and a re-raised exit
\* leave it open.
AnswersAreTrue ==
  \A c \in Calls :
    /\ result[c] \in {"ok", "publish_failed"} => \E r \in rows : r.call = c
    /\ result[c] = "duplicate" => \E r \in rows : r.key = KeyOf[c] /\ r.call # c
    /\ result[c] \in {"invalid", "transaction_required", "start_failed",
                      "disappeared", "retry_exhausted", "rolled_back"}
         => \A r \in rows : r.call # c

\* Subscribers of the goal's topic see committed events only, each once and in
\* sequence order, across writer crashes and replacements.
FeedInOrder ==
  /\ \A i \in 1..Len(feed) : \E r \in rows : r.seq = feed[i]
  /\ \A i, j \in 1..Len(feed) : i < j => feed[i] < feed[j]

\* No event is committed without being captured for its plan, and nothing is
\* captured that is not committed, even when the writer dies between the
\* commit and the broadcast.
InboxComplete == inbox = {r.seq : r \in rows}

\* What is committed is told: to the subscribers in order, to the planner all.
CommittedIsTold == FeedInOrder /\ InboxComplete

\* A caller that got hold of a writer eventually returns, without counting on
\* the call timeout: neither the retry nor the busy loop goes on for ever.
CallsReturn == \A c \in Calls : st[c] = "ensured" ~> st[c] = "done"

-----------------------------------------------------------------------------
(* The inductive invariant behind the safety properties                    *)

\* The calls whose message is in the writer's queue, the calls that have an
\* event, and the keys that are taken.
MailCalls == {c \in Calls : \E i \in 1..Len(mailbox) :
                 mailbox[i].type = "append" /\ mailbox[i].call = c}
Appended  == {r.call : r \in rows}
HeldKeys  == {r.key : r \in rows} \ {NoKey}

\* No call is queued twice.
QueueDistinct == \A i, j \in 1..Len(mailbox) :
                   mailbox[i].type = "append" /\ mailbox[j] = mailbox[i] => i = j

\* No copy of the call is with the writer, and it has no event.
Untouched(c) == c \notin MailCalls /\ current # c /\ c \notin Appended

\* The write lock belongs to exactly one transaction, and rows are staged
\* under it only.
Locking ==
  /\ lock = NoCall => staged = {}
  /\ phase \in {"locked", "commit"} => lock = current
  /\ \A c \in Calls : st[c] \in {"txn", "inserted"} => lock = c /\ c \in TxnCalls
  /\ lock # NoCall => \/ (current = lock /\ phase \in {"locked", "commit"})
                       \/ st[lock] \in {"txn", "inserted"}

\* What is staged can be committed: next number, fresh key, this call.
StagedIsNext ==
  \A r \in staged :
    /\ staged = {r}
    /\ r.call = lock /\ r.key = KeyOf[lock]
    /\ KeyOf[lock] \notin HeldKeys
    /\ NextSequence(r.seq)

\* A transaction that staged nothing found the key's event.
NothingStaged ==
  /\ phase = "commit" /\ staged = {} => KeyOf[current] \in HeldKeys
  /\ \A c \in Calls : st[c] = "inserted" /\ staged = {} => KeyOf[c] \in HeldKeys

Dense == \E n \in {0} \cup {r.seq : r \in rows} : {r.seq : r \in rows} = 1..n

KeysOfRows == \A r \in rows : r.key = KeyOf[r.call]

\* Where a call can be: in one place at a time, and with no event as long as
\* it may still be executed or retried.
Untried  == \A c \in Calls : st[c] \in {"new", "ensured", "txn", "inserted"} => Untouched(c)
Vanished == \A c \in Calls : st[c] = "exited" /\ WriterDisappeared(reason[c]) => Untouched(c)
Queued   == \A c \in MailCalls : alive /\ c \notin Appended /\ current # c
Waiting  == \A c \in Calls : st[c] = "waiting" =>
              alive /\ pid[c] = spawned /\ (c \in MailCalls \/ current = c)
InHand   == /\ current # NoCall => alive
            /\ current = NoCall <=> phase = "idle"
            /\ phase \in {"attempt", "locked", "commit"} => current \notin Appended
            /\ phase = "publish" => current \in Appended
Paths    == \A c \in TxnCalls : st[c] \in {"new", "txn", "inserted", "done"}

DefiniteFailures == {"invalid", "transaction_required", "start_failed",
                     "disappeared", "retry_exhausted", "rolled_back"}

Answered ==
  \A c \in Calls :
    /\ result[c] # "none" => st[c] = "done"
    /\ result[c] \in {"ok", "publish_failed"} => c \in Appended
    /\ result[c] = "duplicate" => KeyOf[c] \in HeldKeys
    /\ result[c] \in DefiniteFailures \cup {"duplicate"} => Untouched(c)

WriterInv == /\ TypeOK /\ Locking /\ StagedIsNext /\ NothingStaged
             /\ Dense /\ KeysOfRows /\ QueueDistinct /\ Untried /\ Vanished
             /\ Queued /\ Waiting /\ InHand /\ Paths /\ Answered

\* What the writer is about to broadcast is later than all it broadcast.
Unpublished == phase = "publish" =>
                 \A r \in rows : r.call = current => \A i \in 1..Len(feed) : feed[i] < r.seq

\* The invariant behind CommittedIsTold, beside WriterInv.
ToldInv == FeedInOrder /\ InboxComplete /\ Unpublished
=============================================================================
