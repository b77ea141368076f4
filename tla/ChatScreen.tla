----------------------------- MODULE ChatScreen -----------------------------
(***************************************************************************)
(* The chat screen: what its model holds of the session's state            *)
(* (native/chat_client/src/model.rs), which popup takes a key (main.rs),   *)
(* which one is drawn on top (ui.rs), and the thread that draws a copy of  *)
(* the model.  The service pushes snapshots of its state; asks end here or *)
(* elsewhere, lessons are approved and dispatches go on at any time, and   *)
(* the connection comes and goes.                                          *)
(*                                                                         *)
(* Texts are left out: an ask, a lesson and a dispatch are numbers, in the *)
(* order the service lists them, and the input line is one word starting   *)
(* with "/" or anything else.                                              *)
(***************************************************************************)
EXTENDS Naturals, FiniteSets, SequencesExt

CONSTANTS
  Asks,        \* what workers ask, numbered from 1
  Network,     \* the asks to reach a host
  Lessons,     \* the lessons approved in time, numbered from 1
  Dispatches,  \* numbered from 1
  MaxChanges,  \* bound: changes of the service's state
  MaxLosses    \* bound: connections lost

ASSUME ChatScreenAssumption ==
  /\ Asks \subseteq Nat \ {0} /\ Lessons \subseteq Nat \ {0} /\ Dispatches \subseteq Nat \ {0}
  /\ Network \subseteq Asks /\ {MaxChanges, MaxLosses} \subseteq Nat

VARIABLES
  live,      \* model.connection is Live
  asks, answered, later, deny,    \* asks, asks_answered, asks_later, deny_reason
  lessons, seen, loaded, retire,  \* lessons, lessons_seen, lessons_loaded, retire
  rows,      \* dispatches: the state of each listed one
  selected, focus, detail, confirm, start,
  text, help,                     \* the editor's text, by kind, and the help
  dirty,     \* the model changed since it was copied for drawing
  screen,    \* what is on top in the copy last drawn
  service,   \* the service's state: its asks, lessons and dispatches
  pushed,    \* snapshots on their way
  changes, losses,   \* bounds only
  sent,      \* sent[a]: how often this screen answered a
  known,     \* lessons approved before the first push
  popped     \* lessons whose popup the person dismissed, in order

askVars    == <<asks, answered, later, deny>>
lessonVars == <<lessons, seen, loaded, retire>>
workVars   == <<rows, selected, focus, detail, confirm, start>>
editVars   == <<text, help>>
drawVars   == <<dirty, screen>>
wire       == <<live, pushed, changes, losses>>
history    == <<sent, known, popped>>
vars == <<askVars, lessonVars, workVars, editVars, drawVars, service, wire, history>>

Nothing == <<"nothing", 0>>
States  == {"absent", "held", "running", "done"}
Phases  == {"coming", "there", "gone"}
There(phase) == {x \in DOMAIN phase : phase[x] = "there"}
Listed  == {d \in Dispatches : rows[d] # "absent"}
Least(S) == CHOOSE x \in S : \A y \in S : x <= y

\* A set of lessons as the service lists them: the i-th has i - 1 before it.
InOrder(S) ==
  [i \in 1..Cardinality(S) |-> CHOOSE x \in S : Cardinality({y \in S : y <= x}) = i]

Init ==
  /\ live = FALSE
  /\ asks = {} /\ answered = {} /\ later = {} /\ deny = 0
  /\ lessons = <<>> /\ seen = {} /\ loaded = FALSE /\ retire = 0
  /\ rows = [d \in Dispatches |-> "absent"] /\ selected = 0 /\ focus = FALSE
  /\ detail = 0 /\ confirm = 0 /\ start = 0
  /\ text = "plain" /\ help = FALSE
  /\ dirty = TRUE /\ screen = Nothing
  /\ service = [asks |-> [a \in Asks |-> "coming"], lessons |-> [l \in Lessons |-> "coming"],
                 rows |-> rows]
  /\ pushed = <<>> /\ changes = 0 /\ losses = 0
  /\ sent = [a \in Asks |-> 0] /\ known = {} /\ popped = <<>>
-----------------------------------------------------------------------------
(* What the model shows *)

\* The oldest ask neither answered nor put off; 0 for none.
Waiting == asks \ (answered \cup later)
CurrentAsk == IF Waiting = {} THEN 0 ELSE Least(Waiting)

\* Each popup and what it is about, 0 when it is not open.
About(popup) ==
  CASE popup = "help"    -> IF help THEN 1 ELSE 0
    [] popup = "detail"  -> detail
    [] popup = "start"   -> start
    [] popup = "confirm" -> confirm
    [] popup = "lesson"  -> IF lessons = <<>> THEN 0 ELSE Head(lessons)
    [] popup = "retire"  -> retire
    [] popup = "ask"     -> IF deny = 0 THEN CurrentAsk ELSE 0
    [] popup = "deny"    -> deny

OpenIn(order) == {i \in DOMAIN order : About(order[i]) # 0}

\* Below the popups, the focused dispatches, the "/" menu or the input line.
Base == <<IF focus THEN "agents" ELSE IF text = "slash" THEN "menu" ELSE "editor", 1>>

\* draw: each popup is drawn over the ones before it.
DrawOrder == <<"help", "detail", "start", "confirm", "lesson", "retire", "ask", "deny">>
Topmost ==
  LET drawn == OpenIn(DrawOrder)
  IN IF drawn = {} THEN Base
     ELSE LET last == CHOOSE i \in drawn : \A j \in drawn : j <= i
          IN <<DrawOrder[last], About(DrawOrder[last])>>

\* Mutant: lessons are tried before the retirement they may ask for.
MutKeyOrder == <<"help", "deny", "ask", "lesson", "retire", "start", "confirm", "detail">>

\* input and key_pressed: the first open one takes the key.
KeyOrder == <<"help", "deny", "ask", "retire", "lesson", "start", "confirm", "detail">>
Taker ==
  LET taking == OpenIn(KeyOrder)
  IN IF taking = {} THEN Base[1] ELSE KeyOrder[Least(taking)]
-----------------------------------------------------------------------------
(* Keys.  Every input event marks the model to be drawn. *)

Key(popup) == Taker = popup /\ dirty' = TRUE /\ UNCHANGED <<screen, service>>

HelpKey ==
  /\ Key("help") /\ help' = FALSE
  /\ UNCHANGED <<askVars, lessonVars, workVars, text, wire, history>>

\* send_answer: the ask is hidden at once, unless the screen is disconnected.
SendAnswer(a) ==
  IF live THEN answered' = answered \cup {a} /\ sent' = [sent EXCEPT ![a] = @ + 1]
  ELSE UNCHANGED <<answered, sent>>

\* A denial's reason takes every key until it is sent or dropped.
DenyKey ==
  /\ Key("deny") /\ deny' = 0
  /\ SendAnswer(deny) \/ UNCHANGED <<answered, sent>>
  /\ UNCHANGED <<asks, later, lessonVars, workVars, editVars, wire, known, popped>>

\* Allowed, for now or for the agent, or denied; denied with a reason, which
\* a network ask does not take; or put off.
AskKey ==
  /\ Key("ask")
  /\ \/ SendAnswer(CurrentAsk) /\ UNCHANGED <<later, deny>>
     \/ CurrentAsk \notin Network /\ deny' = CurrentAsk /\ UNCHANGED <<answered, sent, later>>
     \/ later' = later \cup {CurrentAsk} /\ UNCHANGED <<answered, sent, deny>>
  /\ UNCHANGED <<asks, lessonVars, workVars, editVars, wire, known, popped>>

\* `A` shows the asks put off again.
AgainKey ==
  /\ Taker \notin {"help", "deny", "ask"} /\ later # {} /\ later' = {}
  /\ dirty' = TRUE /\ UNCHANGED <<screen, service>>
  /\ UNCHANGED <<asks, answered, deny, lessonVars, workVars, editVars, wire, history>>

\* Any key closes these; `y`, while connected, sends the request first.
RetireKey ==
  /\ Key("retire") /\ retire' = 0
  /\ UNCHANGED <<askVars, lessons, seen, loaded, workVars, editVars, wire, history>>

\* Read, opened on the web, or about to be retired.
LessonKey ==
  /\ Key("lesson") /\ lessons' = Tail(lessons) /\ popped' = Append(popped, Head(lessons))
  /\ retire' \in {retire, Head(lessons)}
  /\ UNCHANGED <<askVars, seen, loaded, workVars, editVars, wire, sent, known>>

StartKey ==
  /\ Key("start") /\ start' = 0
  /\ UNCHANGED <<askVars, lessonVars, rows, selected, focus, detail, confirm, editVars, wire, history>>

ConfirmKey ==
  /\ Key("confirm") /\ confirm' = 0
  /\ UNCHANGED <<askVars, lessonVars, rows, selected, focus, detail, start, editVars, wire, history>>

\* ask_cancel and ask_start: offered by the dispatch's state as last pushed.
AskFirst(d) ==
  \/ d \in Listed /\ rows[d] # "done" /\ confirm' = d /\ UNCHANGED start
  \/ d \in Listed /\ rows[d] = "held" /\ start' = d /\ UNCHANGED confirm

DetailKey ==
  /\ Key("detail")
  /\ \/ detail' = 0 /\ UNCHANGED <<confirm, start>>
     \/ AskFirst(detail) /\ UNCHANGED detail
  /\ UNCHANGED <<askVars, lessonVars, rows, selected, focus, editVars, wire, history>>

\* select: the row above or below, as far as there is one.
Beside(at) == {d \in Listed : \A e \in Listed : ~(at < e /\ e < d) /\ ~(d < e /\ e < at)}
Select ==
  IF Listed = {} THEN selected' = 0
  ELSE selected' \in Beside(IF selected \in Listed THEN selected ELSE Least(Listed))

\* Tab moves to the dispatches and back, also from the input line.
FocusKey ==
  /\ \/ Key("agents") \/ Key("editor")
  /\ focus' = ~focus /\ (IF selected = 0 THEN Select ELSE UNCHANGED selected)
  /\ UNCHANGED <<askVars, lessonVars, rows, detail, confirm, start, editVars, wire, history>>

AgentsKey ==
  /\ Key("agents")
  /\ \/ Select /\ UNCHANGED <<focus, detail, confirm, start>>
     \/ focus' = FALSE /\ UNCHANGED <<selected, detail, confirm, start>>
     \/ selected # 0 /\ detail' = selected /\ UNCHANGED <<selected, focus, confirm, start>>
     \/ AskFirst(selected) /\ UNCHANGED <<selected, focus, detail>>
  /\ UNCHANGED <<askVars, lessonVars, rows, editVars, wire, history>>

\* The "/" menu completes the command; Enter goes on to run it, as the input
\* line does with what it holds: /help, or something not about popups.
MenuKey ==
  /\ Key("menu")
  /\ \/ text' \in {"slash", "plain"} /\ UNCHANGED help
     \/ text' = "plain" /\ help' = TRUE
  /\ UNCHANGED <<askVars, lessonVars, workVars, wire, history>>

EditKey ==
  /\ Key("editor")
  /\ \/ text' \in {"slash", "plain"} /\ UNCHANGED help
     \/ text' = "plain" /\ help' = TRUE
  /\ UNCHANGED <<askVars, lessonVars, workVars, wire, history>>

\* What is pasted goes into the input line, whatever is open over it.  Any other
\* event, and a key nothing takes, changes nothing.
Paste ==
  /\ text' \in {"slash", "plain"} /\ dirty' = TRUE /\ UNCHANGED <<screen, service>>
  /\ UNCHANGED <<askVars, lessonVars, workVars, help, wire, history>>
-----------------------------------------------------------------------------
(* The connection *)

GoLive ==
  /\ ~live /\ live' = TRUE /\ dirty' = TRUE
  /\ UNCHANGED <<askVars, lessonVars, workVars, editVars, screen, service, pushed, changes,
                 losses, history>>

Lose ==
  /\ live /\ losses < MaxLosses /\ losses' = losses + 1
  /\ live' = FALSE /\ pushed' = <<>> /\ dirty' = TRUE
  /\ UNCHANGED <<askVars, lessonVars, workVars, editVars, screen, service, changes, history>>

\* Mutant: any snapshot shows the answered asks again.
MutForgetsAnswers(listed) == answered' = {} /\ later' = later \cap listed

\* apply_asks: an answer sent hides its ask until the service drops it.
KeepListed(listed) == answered' = answered \cap listed /\ later' = later \cap listed

\* Mutant: only lessons that pop up count as seen.
MutSeenWhenQueued(listed) == seen' = IF loaded THEN seen \cup listed ELSE seen

\* apply_lessons: those not seen queue a popup each, but for the first push.
MarkSeen(listed) == seen' = seen \cup listed

\* Mutant: a snapshot is not marked to be drawn.
MutNotMarked == UNCHANGED dirty

MarkDirty == dirty' = TRUE

\* apply_state: the whole snapshot, in one step.
ReceiveState ==
  /\ pushed # <<>> /\ pushed' = Tail(pushed)
  /\ LET new == Head(pushed)
         current == There(new.lessons)
         fresh == current \ seen
     IN /\ rows' = new.rows
        /\ selected' = IF selected # 0 /\ new.rows[selected] # "absent" THEN selected
                       ELSE LET listed == {d \in Dispatches : new.rows[d] # "absent"}
                            IN IF listed = {} THEN 0 ELSE Least(listed)
        /\ MarkSeen(current) /\ loaded' = TRUE
        /\ lessons' = IF loaded THEN lessons \o InOrder(fresh) ELSE lessons
        /\ asks' = There(new.asks) /\ KeepListed(There(new.asks))
  /\ known' = IF loaded THEN known ELSE There(Head(pushed).lessons)
  /\ MarkDirty
  /\ UNCHANGED <<deny, retire, focus, detail, confirm, start, editVars, screen, service,
                 live, changes, losses, sent, popped>>
-----------------------------------------------------------------------------
(* The draw thread: it takes a copy of the model and draws that. *)

Draw ==
  /\ dirty /\ dirty' = FALSE /\ screen' = Topmost
  /\ UNCHANGED <<askVars, lessonVars, workVars, editVars, service, wire, history>>
-----------------------------------------------------------------------------
(* The service *)

Moves(phase, next) ==
  {[phase EXCEPT ![x] = next[phase[x]]] : x \in {y \in DOMAIN phase : phase[y] \in DOMAIN next}}
Onwards == [coming |-> "there", there |-> "gone"]
Works   == [absent |-> "held", held |-> "running", running |-> "done"]

\* An ask, a lesson or a dispatch goes on, by itself, elsewhere or because this
\* screen requested it.
Work ==
  /\ changes < MaxChanges /\ changes' = changes + 1
  /\ \/ \E m \in Moves(service.asks, Onwards) : service' = [service EXCEPT !.asks = m]
     \/ \E m \in Moves(service.lessons, Onwards) : service' = [service EXCEPT !.lessons = m]
     \/ \E m \in Moves(service.rows, Works) : service' = [service EXCEPT !.rows = m]
  /\ UNCHANGED <<askVars, lessonVars, workVars, editVars, drawVars, live, pushed, losses, history>>

\* A snapshot is pushed, the first as the connection is made; what happens until
\* it is received is in a later one.  (Bound: one snapshot on its way.)
Push ==
  /\ live /\ pushed = <<>> /\ pushed' = <<service>>
  /\ UNCHANGED <<askVars, lessonVars, workVars, editVars, drawVars, service, live, changes,
                 losses, history>>
-----------------------------------------------------------------------------
KeyStep ==
  \/ HelpKey \/ DenyKey \/ AskKey \/ AgainKey \/ RetireKey \/ LessonKey \/ StartKey
  \/ ConfirmKey \/ DetailKey \/ FocusKey \/ AgentsKey \/ MenuKey \/ EditKey

Next ==
  \/ KeyStep \/ Paste \/ GoLive \/ Lose \/ ReceiveState \/ Draw \/ Work \/ Push

Spec == Init /\ [][Next]_vars
-----------------------------------------------------------------------------
TypeOK ==
  /\ live \in BOOLEAN /\ asks \in SUBSET Asks
  /\ answered \subseteq Asks /\ later \subseteq asks /\ deny \in Asks \cup {0}
  /\ lessons \in Seq(Lessons) /\ seen \subseteq Lessons /\ retire \in Lessons \cup {0}
  /\ rows \in [Dispatches -> States] /\ selected \in Listed \cup {0}
  /\ {detail, confirm, start} \subseteq Dispatches \cup {0}
  /\ text \in {"slash", "plain"} /\ {help, focus, dirty, loaded} \subseteq BOOLEAN

\* What the person's keys do is done to what they see on top (ui.rs: "Lessons
\* answer keys first, so they are drawn on top"), though the order the keys are
\* tried in and the order the popups are drawn in are written apart.  (With the
\* help open a key only closes it, and `A` only shows asks again.)
OnlyTopActs ==
  [][/\ text' # text /\ KeyStep => Topmost[1] \in {"menu", "editor"}
     /\ sent' # sent => Topmost[1] \in {"ask", "deny"}
     /\ popped' # popped => Topmost[1] = "lesson"
     /\ retire' # retire => Topmost[1] \in {"lesson", "retire"}
     /\ start' # start => Topmost[1] \in {"start", "detail", "agents"}
     /\ confirm' # confirm => Topmost[1] \in {"confirm", "detail", "agents"}
     /\ detail' # detail => Topmost[1] \in {"detail", "agents"}]_vars

\* When nothing is marked to be drawn, what the terminal shows on top is what
\* the model has there: no key and no push leaves an old popup standing.
ScreenIsCurrent == ~dirty => screen = Topmost

\* An ask is answered at most once from this screen, whatever snapshots are
\* on their way when the answer is sent, and over reconnects.
AnsweredOnce == \A a \in Asks : sent[a] <= 1

\* A lesson pops up once, over any pushes, retirements and reconnects, and
\* never one that was approved before the first push.
LessonsPopOnce ==
  LET queued == popped \o lessons
  IN IsInjective(queued) /\ ToSet(queued) \cap known = {}

\* What is listed, hidden, put off and queued fits together, and lessons pop
\* up once.
PopupsAreSound == TypeOK /\ LessonsPopOnce
=============================================================================
