-------------------------- MODULE ChatScreenProofs --------------------------
(***************************************************************************)
(* Machine-checked proofs about the chat screen, for any number of asks,   *)
(* lessons and dispatches, however long it is open and however often its   *)
(* connection is lost.  The second part is about the line a person types   *)
(* into (ChatEditor): any characters of any sizes, texts of any length.    *)
(***************************************************************************)
EXTENDS ChatScreen, ChatEditor, FiniteSetTheorems, SequenceTheorems, WellFoundedInduction, TLAPS

-----------------------------------------------------------------------------
(* Which popup takes a key, and which one is drawn on top                  *)

\* A set of numbers has a least one.
LEMMA LeastExists ==
  ASSUME NEW S \in SUBSET Nat, S # {}
  PROVE  \E x \in S : \A y \in S : x <= y
  <1> DEFINE UpTo(x) == {y \in S : y <= x}
             starts  == {UpTo(x) : x \in S}
             smaller == StrictSubsetOrdering(S)
  <1>1. IsWellFoundedOn(smaller, FiniteSubsetsOf(S))
    BY FS_StrictSubsetOrderingWellFounded
  <1>2. starts \subseteq FiniteSubsetsOf(S) /\ starts # {}
    <2>1. ASSUME NEW x \in S  PROVE IsFiniteSet(UpTo(x))
      BY FS_BoundedSetOfNaturals
    <2>2. PICK n \in S : TRUE  OBVIOUS
    <2>3. UpTo(n) \in starts  BY <2>2
    <2> QED BY <2>1, <2>3 DEF FiniteSubsetsOf
  <1> HIDE DEF smaller
  <1>3. PICK U \in starts : \A V \in starts : ~(<<V, U>> \in smaller)
    <2> HIDE DEF starts
    <2> QED BY <1>1, <1>2, WFMin
  <1>4. PICK x \in S : U = UpTo(x)
    BY <1>3
  <1>5. ASSUME NEW y \in S, ~(x <= y)  PROVE FALSE
    <2> x \in Nat /\ y \in Nat /\ \A z \in S : z \in Nat
      OBVIOUS
    <2>1. y < x
      BY <1>5
    <2>2. UpTo(y) \subseteq UpTo(x) /\ x \in UpTo(x) /\ x \notin UpTo(y)
      <3>1. \A z \in S : z <= y => z <= x  BY <2>1
      <3>2. x <= x /\ ~(x <= y)  BY <2>1
      <3> QED BY <3>1, <3>2, Zenon
    <2>3. UpTo(y) \in SUBSET S /\ UpTo(x) \in SUBSET S /\ UpTo(y) # UpTo(x)
      BY <2>2
    <2>4. <<UpTo(y), UpTo(x)>> \in smaller
      <3> HIDE DEF UpTo
      <3> QED BY <2>2, <2>3 DEF smaller, StrictSubsetOrdering
    <2> QED BY <1>3, <1>4, <2>4
  <1> QED BY <1>5

\* A set of places in an order has a last one.
LEMMA LastPlace ==
  ASSUME NEW S \in SUBSET (1..8), S # {}
  PROVE  \E x \in S : \A y \in S : y <= x
  <1> DEFINE fromEnd == {9 - i : i \in S}
  <1>1. fromEnd \in SUBSET Nat /\ fromEnd # {}
    <2>1. PICK i \in S : TRUE  OBVIOUS
    <2>2. 9 - i \in fromEnd  BY <2>1
    <2>3. fromEnd \in SUBSET Nat  OBVIOUS
    <2> QED BY <2>2, <2>3
  <1>2. PICK n \in fromEnd : \A m \in fromEnd : n <= m
    BY <1>1, LeastExists
  <1>3. PICK x \in S : n = 9 - x
    BY <1>2
  <1>4. ASSUME NEW y \in S  PROVE y <= x
    <2>1. 9 - y \in fromEnd  OBVIOUS
    <2> QED BY <1>2, <1>3, <2>1
  <1> QED BY <1>4

\* The popup that takes a key is open and none before it in the order of the
\* keys is; with none open the base of the screen takes it.
LEMMA TakerIsFirst ==
  /\ \A i \in 1..8 : Taker = KeyOrder[i] =>
       About(KeyOrder[i]) # 0 /\ \A j \in 1..8 : j < i => About(KeyOrder[j]) = 0
  /\ Taker \in {"agents", "menu", "editor"} =>
       Taker = Base[1] /\ \A j \in 1..8 : About(KeyOrder[j]) = 0
  <1> DEFINE taking == OpenIn(KeyOrder)
  <1>1. DOMAIN KeyOrder = 1..8 /\ taking \in SUBSET (1..8)
    BY DEF KeyOrder, OpenIn
  <1>2. CASE taking = {}
    <2>1. Taker = Base[1] /\ Taker \in {"agents", "menu", "editor"}
      BY <1>2 DEF Taker, Base
    <2>2. \A j \in 1..8 : About(KeyOrder[j]) = 0
      BY <1>1, <1>2 DEF OpenIn
    <2>3. \A i \in 1..8 : KeyOrder[i] \notin {"agents", "menu", "editor"}
      BY DEF KeyOrder
    <2> QED BY <2>1, <2>2, <2>3
  <1>3. CASE taking # {}
    <2> DEFINE first == Least(taking)
    <2>1. first \in taking /\ \A y \in taking : first <= y
      BY <1>1, <1>3, LeastExists DEF Least
    <2>2. Taker = KeyOrder[first]
      BY <1>3 DEF Taker
    <2>3. \A i \in 1..8 : Taker = KeyOrder[i] => i = first
      BY <1>1, <2>1, <2>2 DEF KeyOrder
    <2>4. About(KeyOrder[first]) # 0 /\ \A j \in 1..8 : j < first => About(KeyOrder[j]) = 0
      BY <1>1, <2>1 DEF OpenIn
    <2>5. Taker \notin {"agents", "menu", "editor"}
      BY <1>1, <2>1, <2>2 DEF KeyOrder
    <2> QED BY <2>3, <2>4, <2>5
  <1> QED BY <1>2, <1>3

\* The popup open last in the order they are drawn is on top; with none open
\* the base of the screen is.
LEMMA TopmostIsLast ==
  /\ \A i \in 1..8 :
       About(DrawOrder[i]) # 0 /\ (\A j \in 1..8 : i < j => About(DrawOrder[j]) = 0)
         => Topmost[1] = DrawOrder[i]
  /\ (\A j \in 1..8 : About(DrawOrder[j]) = 0) => Topmost = Base
  <1> DEFINE drawn == OpenIn(DrawOrder)
  <1>1. DOMAIN DrawOrder = 1..8 /\ drawn \in SUBSET (1..8)
    BY DEF DrawOrder, OpenIn
  <1>2. (\A j \in 1..8 : About(DrawOrder[j]) = 0) => Topmost = Base
    BY <1>1 DEF Topmost, OpenIn
  <1>3. ASSUME NEW i \in 1..8, About(DrawOrder[i]) # 0,
               \A j \in 1..8 : i < j => About(DrawOrder[j]) = 0
        PROVE  Topmost[1] = DrawOrder[i]
    <2> DEFINE last == CHOOSE x \in drawn : \A y \in drawn : y <= x
    <2>1. i \in drawn /\ \A y \in drawn : y <= i
      BY <1>1, <1>3 DEF OpenIn
    <2>2. last \in drawn /\ \A y \in drawn : y <= last
      BY <1>1, <2>1, LastPlace
    <2>3. last = i
      BY <1>1, <2>1, <2>2
    <2>4. Topmost = <<DrawOrder[last], About(DrawOrder[last])>>
      BY <2>1 DEF Topmost
    <2> QED BY <2>3, <2>4
  <1> QED BY <1>2, <1>3

-----------------------------------------------------------------------------
(* The screen is current                                                   *)

\* A step that touches nothing a popup or the base shows leaves what is on top.
LEMMA TopmostSame ==
  ASSUME UNCHANGED <<askVars, lessonVars, workVars, editVars>>
  PROVE  Topmost' = Topmost
  <1>1. UNCHANGED <<asks, answered, later, deny, lessons, retire, focus, detail, confirm, start,
                    text, help>>
    BY DEF askVars, lessonVars, workVars, editVars
  <1> QED
    BY <1>1 DEF Topmost, OpenIn, About, CurrentAsk, Waiting, Base

\* Each step marks the model to be drawn, draws it, or leaves what is on top.
LEMMA MarksOrDraws ==
  ASSUME [Next]_vars
  PROVE  \/ dirty' = TRUE
         \/ screen' = Topmost /\ UNCHANGED <<askVars, lessonVars, workVars, editVars>>
         \/ UNCHANGED <<askVars, lessonVars, workVars, editVars, drawVars>>
  <1>1. CASE KeyStep
    BY <1>1 DEF KeyStep, Key, HelpKey, DenyKey, AskKey, AgainKey, RetireKey, LessonKey, StartKey,
                ConfirmKey, DetailKey, FocusKey, AgentsKey, MenuKey, EditKey
  <1>2. CASE Paste \/ GoLive \/ Lose
    BY <1>2 DEF Paste, GoLive, Lose
  <1>3. CASE ReceiveState
    BY <1>3 DEF ReceiveState, MarkDirty
  <1>4. CASE Draw
    BY <1>4 DEF Draw
  <1>5. CASE Work \/ Push
    BY <1>5 DEF Work, Push
  <1>6. CASE UNCHANGED vars
    BY <1>6 DEF vars
  <1> QED BY <1>1, <1>2, <1>3, <1>4, <1>5, <1>6 DEF Next

\* With nothing marked to be drawn, the terminal shows what the model has on
\* top, for any number of asks, lessons and dispatches (main.rs, the draw
\* thread and every handler that marks the model).
THEOREM ScreenCurrent == Spec => []ScreenIsCurrent
  <1>1. Init => ScreenIsCurrent
    BY DEF Init, ScreenIsCurrent
  <1>2. ScreenIsCurrent /\ [Next]_vars => ScreenIsCurrent'
    <2> SUFFICES ASSUME ScreenIsCurrent, [Next]_vars
                 PROVE  ScreenIsCurrent'
      OBVIOUS
    <2>1. CASE dirty' = TRUE
      BY <2>1 DEF ScreenIsCurrent
    <2>2. CASE screen' = Topmost /\ UNCHANGED <<askVars, lessonVars, workVars, editVars>>
      BY <2>2, TopmostSame DEF ScreenIsCurrent
    <2>3. CASE UNCHANGED <<askVars, lessonVars, workVars, editVars, drawVars>>
      BY <2>3, TopmostSame DEF ScreenIsCurrent, drawVars
    <2> QED BY <2>1, <2>2, <2>3, MarksOrDraws
  <1> QED BY <1>1, <1>2, PTL DEF Spec

-----------------------------------------------------------------------------
(* An ask is answered once                                                 *)

\* What the screen keeps of the asks.
AsksTyped ==
  /\ asks \subseteq Asks /\ answered \subseteq Asks /\ deny \in Asks \cup {0}
  /\ sent \in [Asks -> {0, 1}]

\* The service's state, and the states of the service that the screen is yet to
\* see: a snapshot on its way, which may be old when it arrives, and the present.
ServiceStates ==
  [asks : [Asks -> Phases], lessons : [Lessons -> Phases], rows : [Dispatches -> States]]
Views == IF pushed = <<>> THEN {service} ELSE {service, Head(pushed)}

ServiceTyped ==
  /\ service \in ServiceStates
  /\ pushed = <<>> \/ \E s \in ServiceStates : pushed = <<s>>

\* A snapshot shows what was so: no ask in it has come further since than it is now.
PushIsPast ==
  \A a \in Asks : \A s \in Views :
    /\ s.asks[a] = "gone" => service.asks[a] = "gone"
    /\ s.asks[a] = "there" => service.asks[a] \in {"there", "gone"}

\* An ask this screen has answered is hidden, or gone in all it is yet to see.
AnsweredIsHidden ==
  \A a \in Asks : sent[a] = 1 =>
    a \in answered \/ (a \notin asks /\ \A s \in Views : s.asks[a] = "gone")

\* The screen knows of no ask before it is told of it.
KnownHasCome ==
  \A a \in Asks : a \in asks \/ a \in answered \/ deny = a =>
    \A s \in Views : s.asks[a] \in {"there", "gone"}

\* The ask whose denial is being written is not answered yet.
DenyIsOpen == deny # 0 => sent[deny] = 0

AsksInv ==
  /\ AsksTyped /\ ServiceTyped /\ PushIsPast
  /\ AnsweredIsHidden /\ KnownHasCome /\ DenyIsOpen

\* An ask that takes keys is a listed one, neither answered nor put off, and no
\* denial is being written beside it.
LEMMA AskTaker ==
  ASSUME Taker = "ask", AsksInv
  PROVE  deny = 0 /\ CurrentAsk \in asks /\ CurrentAsk \notin answered
  <1>1. About("ask") # 0
    <2>1. KeyOrder[3] = "ask" /\ 3 \in 1..8 BY DEF KeyOrder
    <2> QED BY <2>1, TakerIsFirst
  <1>2. deny = 0 /\ CurrentAsk # 0
    BY <1>1 DEF About
  <1>3. Waiting # {} /\ CurrentAsk = Least(Waiting) /\ Waiting \subseteq Nat
    BY <1>2, ChatScreenAssumption DEF CurrentAsk, Waiting, AsksInv, AsksTyped
  <1>4. \E x \in Waiting : \A y \in Waiting : x <= y
    <2>1. PICK n \in Waiting : TRUE  BY <1>3
    <2> QED BY <1>3, <2>1, LeastExists
  <1>5. CurrentAsk \in Waiting
    BY <1>3, <1>4 DEF Least
  <1> QED BY <1>2, <1>5 DEF Waiting

\* A denial that takes keys is about an ask.
LEMMA DenyTaker ==
  ASSUME Taker = "deny"
  PROVE  deny # 0
  <1>1. KeyOrder[2] = "deny" /\ 2 \in 1..8 BY DEF KeyOrder
  <1> QED BY <1>1, TakerIsFirst DEF About

\* What moves on stays in its states, and what is gone stays gone.
LEMMA OnwardsMoves ==
  ASSUME NEW X, NEW phase \in [X -> Phases], NEW m \in Moves(phase, Onwards)
  PROVE  /\ m \in [X -> Phases]
         /\ \A x \in X : phase[x] = "gone" => m[x] = "gone"
         /\ \A x \in X : phase[x] = "there" => m[x] \in {"there", "gone"}
  <1>1. PICK x \in X : phase[x] \in DOMAIN Onwards /\ m = [phase EXCEPT ![x] = Onwards[phase[x]]]
    BY DEF Moves
  <1>2. DOMAIN Onwards = {"coming", "there"} /\ Onwards["coming"] = "there" /\ Onwards["there"] = "gone"
    BY DEF Onwards
  <1> QED BY <1>1, <1>2 DEF Phases

\* A dispatch that moves on stays in its states.
LEMMA WorksMoves ==
  ASSUME NEW X, NEW phase \in [X -> States], NEW m \in Moves(phase, Works)
  PROVE  m \in [X -> States]
  <1>1. PICK x \in X : phase[x] \in DOMAIN Works /\ m = [phase EXCEPT ![x] = Works[phase[x]]]
    BY DEF Moves
  <1>2. /\ DOMAIN Works = {"absent", "held", "running"} /\ Works["absent"] = "held"
        /\ Works["held"] = "running" /\ Works["running"] = "done"
    BY DEF Works
  <1> QED BY <1>1, <1>2 DEF States

\* Answering an open, listed ask keeps the invariant.
LEMMA SendKeeps ==
  ASSUME AsksInv, NEW a \in Asks, sent[a] = 0, a \in asks \/ deny = a,
         SendAnswer(a), UNCHANGED <<asks, service, pushed>>, deny' = 0
  PROVE  AsksInv'
  <1>0. Views' = Views
    BY DEF Views
  <1>1. \A s \in Views : s.asks[a] \in {"there", "gone"}
    BY DEF AsksInv, KnownHasCome
  <1>2. answered' \subseteq answered \cup {a} /\ answered \subseteq answered'
    BY DEF SendAnswer
  <1>3. CASE live
    <2>1. answered' = answered \cup {a} /\ sent' = [sent EXCEPT ![a] = 1]
      BY <1>3 DEF SendAnswer, AsksInv, AsksTyped
    <2>2. AsksTyped' /\ ServiceTyped' /\ PushIsPast' /\ DenyIsOpen'
      BY <1>0, <2>1 DEF AsksInv, AsksTyped, ServiceTyped, PushIsPast, DenyIsOpen
    <2>3. AnsweredIsHidden'
      BY <1>0, <2>1 DEF AsksInv, AsksTyped, AnsweredIsHidden
    <2>4. KnownHasCome'
      <3> SUFFICES ASSUME NEW b \in Asks, b \in asks' \/ b \in answered' \/ deny' = b
                   PROVE  \A s \in Views : s.asks[b] \in {"there", "gone"}
        BY <1>0 DEF KnownHasCome
      <3>1. b = a \/ b \in asks \/ b \in answered
        BY <2>1, ChatScreenAssumption
      <3> QED BY <1>1, <3>1 DEF AsksInv, KnownHasCome
    <2> QED BY <2>2, <2>3, <2>4 DEF AsksInv
  <1>4. CASE ~live
    <2>1. UNCHANGED <<answered, sent>>
      BY <1>4 DEF SendAnswer
    <2>2. \A b \in Asks : b # 0
      BY ChatScreenAssumption
    <2> QED BY <1>0, <2>1, <2>2 DEF AsksInv, AsksTyped, ServiceTyped, PushIsPast, AnsweredIsHidden,
                              KnownHasCome, DenyIsOpen
  <1> QED BY <1>3, <1>4

\* A key answers only an ask that is open.
LEMMA AskKeysKeep ==
  ASSUME AsksInv, DenyKey \/ AskKey
  PROVE  AsksInv'
  <1>0. (\A b \in Asks : b # 0) /\ Views' = Views
    BY ChatScreenAssumption DEF Views, DenyKey, AskKey, Key, wire
  <1>1. CASE DenyKey /\ SendAnswer(deny)
    <2>1. deny # 0 /\ deny \in Asks /\ sent[deny] = 0
      BY <1>1, DenyTaker DEF DenyKey, Key, AsksInv, AsksTyped, DenyIsOpen
    <2> QED BY <1>1, <2>1, SendKeeps DEF DenyKey, Key, wire
  <1>2. CASE DenyKey /\ UNCHANGED <<answered, sent>>
    BY <1>0, <1>2 DEF DenyKey, Key, wire, AsksInv, AsksTyped, ServiceTyped, PushIsPast,
                 AnsweredIsHidden, KnownHasCome, DenyIsOpen
  <1>3. CASE AskKey
    <2>1. deny = 0 /\ CurrentAsk \in asks /\ CurrentAsk \notin answered
      BY <1>3, AskTaker DEF AskKey, Key
    <2>2. CurrentAsk \in Asks /\ sent[CurrentAsk] = 0
      BY <2>1 DEF AsksInv, AsksTyped, AnsweredIsHidden
    <2>3. CASE SendAnswer(CurrentAsk) /\ UNCHANGED <<later, deny>>
      BY <1>3, <2>1, <2>2, <2>3, SendKeeps DEF AskKey, Key, wire
    <2>4. CASE deny' \in {0, CurrentAsk} /\ UNCHANGED <<answered, sent>>
      <3>1. UNCHANGED <<asks, service, pushed>>
        BY <1>3 DEF AskKey, Key, wire
      <3>2. AsksTyped' /\ ServiceTyped' /\ PushIsPast' /\ AnsweredIsHidden'
        BY <1>0, <2>2, <2>4, <3>1 DEF AsksInv, AsksTyped, ServiceTyped, PushIsPast, AnsweredIsHidden
      <3>3. KnownHasCome' /\ DenyIsOpen'
        BY <1>0, <2>1, <2>2, <2>4, <3>1 DEF AsksInv, KnownHasCome, DenyIsOpen
      <3> QED BY <3>2, <3>3 DEF AsksInv
    <2> QED BY <1>3, <2>1, <2>3, <2>4 DEF AskKey
  <1> QED BY <1>1, <1>2, <1>3 DEF DenyKey

\* A snapshot drops only what is gone.
LEMMA ReceiveKeeps ==
  ASSUME AsksInv, ReceiveState
  PROVE  AsksInv'
  <1>1. PICK new \in ServiceStates : pushed = <<new>>
    BY DEF ReceiveState, AsksInv, ServiceTyped
  <1>2. /\ Head(pushed) = new /\ Tail(pushed) = <<>>
        /\ Views = {service, new} /\ Views' = {service'}
    <2>1. pushed # <<>> /\ Head(pushed) = new /\ Tail(pushed) = <<>>
      BY <1>1
    <2>2. pushed' = <<>>
      BY <2>1 DEF ReceiveState
    <2> QED BY <2>1, <2>2 DEF Views
  <1>3. /\ asks' = There(new.asks) /\ answered' = answered \cap There(new.asks)
        /\ pushed' = <<>> /\ UNCHANGED <<deny, sent, service>>
    BY <1>2 DEF ReceiveState, KeepListed
  <1>4. There(new.asks) = {a \in Asks : new.asks[a] = "there"}
    BY DEF There, ServiceStates
  <1>5. AsksTyped' /\ ServiceTyped' /\ DenyIsOpen'
    BY <1>3, <1>4 DEF AsksInv, AsksTyped, ServiceTyped, DenyIsOpen
  <1>6. PushIsPast'
    BY <1>2, <1>3 DEF AsksInv, PushIsPast
  <1>7. KnownHasCome'
    <2> SUFFICES ASSUME NEW a \in Asks, a \in asks' \/ a \in answered' \/ deny = a
                 PROVE  service.asks[a] \in {"there", "gone"}
      BY <1>2, <1>3 DEF KnownHasCome
    <2>1. CASE a \in answered \/ deny = a
      BY <1>2, <2>1 DEF AsksInv, KnownHasCome
    <2>2. CASE new.asks[a] = "there"
      BY <1>2, <2>2 DEF AsksInv, PushIsPast
    <2> QED BY <1>3, <1>4, <2>1, <2>2
  <1>8. AnsweredIsHidden'
    <2> SUFFICES ASSUME NEW a \in Asks, sent[a] = 1, a \notin answered'
                 PROVE  a \notin asks' /\ service.asks[a] = "gone"
      BY <1>2, <1>3 DEF AnsweredIsHidden
    <2>1. CASE a \in answered
      <3>1. new.asks[a] \in {"there", "gone"} /\ new.asks[a] # "there"
        BY <1>2, <1>3, <1>4, <2>1 DEF AsksInv, KnownHasCome
      <3> QED BY <1>2, <1>3, <1>4, <3>1 DEF AsksInv, PushIsPast
    <2>2. CASE a \notin answered
      BY <1>2, <1>3, <1>4, <2>2 DEF AsksInv, AnsweredIsHidden
    <2> QED BY <2>1, <2>2
  <1> QED BY <1>5, <1>6, <1>7, <1>8 DEF AsksInv

\* The service goes on; what is on its way is of the past.
LEMMA WorkKeeps ==
  ASSUME AsksInv, Work
  PROVE  AsksInv'
  <1>1. UNCHANGED <<asks, answered, deny, sent, pushed>>
    BY DEF Work, askVars, history
  <1>2. /\ service' \in ServiceStates
        /\ \A a \in Asks :
             /\ service.asks[a] = "gone" => service'.asks[a] = "gone"
             /\ service.asks[a] = "there" => service'.asks[a] \in {"there", "gone"}
    <2>1. CASE \E m \in Moves(service.asks, Onwards) : service' = [service EXCEPT !.asks = m]
      <3>1. PICK m \in Moves(service.asks, Onwards) : service' = [service EXCEPT !.asks = m]
        BY <2>1
      <3>2. service.asks \in [Asks -> Phases]
        BY DEF AsksInv, ServiceTyped, ServiceStates
      <3>3. /\ m \in [Asks -> Phases]
            /\ \A x \in Asks : service.asks[x] = "gone" => m[x] = "gone"
            /\ \A x \in Asks : service.asks[x] = "there" => m[x] \in {"there", "gone"}
        BY <3>2, OnwardsMoves
      <3>4. service'.asks = m /\ service' \in ServiceStates
        BY <3>1, <3>3 DEF AsksInv, ServiceTyped, ServiceStates
      <3> QED BY <3>3, <3>4
    <2>2. CASE \E m \in Moves(service.lessons, Onwards) : service' = [service EXCEPT !.lessons = m]
      <3>1. PICK m \in Moves(service.lessons, Onwards) : service' = [service EXCEPT !.lessons = m]
        BY <2>2
      <3>2. service.lessons \in [Lessons -> Phases]
        BY DEF AsksInv, ServiceTyped, ServiceStates
      <3>3. m \in [Lessons -> Phases]
        BY <3>2, OnwardsMoves
      <3> QED BY <3>1, <3>3 DEF AsksInv, ServiceTyped, ServiceStates
    <2>3. CASE \E m \in Moves(service.rows, Works) : service' = [service EXCEPT !.rows = m]
      <3>1. PICK m \in Moves(service.rows, Works) : service' = [service EXCEPT !.rows = m]
        BY <2>3
      <3>2. service.rows \in [Dispatches -> States]
        BY DEF AsksInv, ServiceTyped, ServiceStates
      <3>3. m \in [Dispatches -> States]
        BY <3>2, WorksMoves
      <3> QED BY <3>1, <3>3 DEF AsksInv, ServiceTyped, ServiceStates
    <2> QED BY <2>1, <2>2, <2>3 DEF Work
  <1>3. AsksTyped' /\ ServiceTyped' /\ DenyIsOpen'
    BY <1>1, <1>2 DEF AsksInv, AsksTyped, ServiceTyped, DenyIsOpen
  <1>4. service \in Views /\ \A s \in Views' : s = service' \/ s \in Views
    BY <1>1 DEF Views
  <1>5. PushIsPast'
    BY <1>2, <1>4 DEF AsksInv, PushIsPast
  <1>6. AnsweredIsHidden' /\ KnownHasCome'
    BY <1>1, <1>2, <1>4 DEF AsksInv, AnsweredIsHidden, KnownHasCome
  <1> QED BY <1>3, <1>5, <1>6 DEF AsksInv

\* Every other step leaves the asks alone; what is on its way stays, is lost, or
\* is what the service is now.
LEMMA OthersKeep ==
  ASSUME AsksInv, UNCHANGED <<asks, answered, deny, sent, service>>,
         pushed' \in {pushed, <<>>, <<service>>}
  PROVE  AsksInv'
  <1>1. service \in Views /\ Views' \subseteq Views
    BY DEF Views
  <1>2. AsksTyped' /\ ServiceTyped' /\ DenyIsOpen'
    BY DEF AsksInv, AsksTyped, ServiceTyped, DenyIsOpen
  <1>3. PushIsPast' /\ AnsweredIsHidden' /\ KnownHasCome'
    BY <1>1 DEF AsksInv, PushIsPast, AnsweredIsHidden, KnownHasCome
  <1> QED BY <1>2, <1>3 DEF AsksInv

\* What the screen keeps of an ask it answered agrees with the service.
THEOREM AsksInvariance == Spec => []AsksInv
  <1>1. Init => AsksInv
    <2> SUFFICES ASSUME Init  PROVE AsksInv
      OBVIOUS
    <2>1. AsksTyped /\ ServiceTyped
      BY DEF Init, AsksTyped, ServiceTyped, ServiceStates, Phases, States
    <2>2. PushIsPast /\ AnsweredIsHidden /\ KnownHasCome /\ DenyIsOpen
      BY ChatScreenAssumption
      DEF Init, Views, PushIsPast, AnsweredIsHidden, KnownHasCome, DenyIsOpen
    <2> QED BY <2>1, <2>2 DEF AsksInv
  <1>2. AsksInv /\ [Next]_vars => AsksInv'
    <2> SUFFICES ASSUME AsksInv, [Next]_vars  PROVE AsksInv'
      OBVIOUS
    <2>1. CASE DenyKey \/ AskKey
      BY <2>1, AskKeysKeep
    <2>2. CASE \/ HelpKey \/ AgainKey \/ RetireKey \/ LessonKey \/ StartKey \/ ConfirmKey
               \/ DetailKey \/ FocusKey \/ AgentsKey \/ MenuKey \/ EditKey
      BY <2>2, OthersKeep
      DEF HelpKey, AgainKey, RetireKey, LessonKey, StartKey, ConfirmKey, DetailKey, FocusKey,
          AgentsKey, MenuKey, EditKey, Key, askVars, wire, history
    <2>3. CASE Paste \/ GoLive \/ Lose \/ Draw \/ Push
      BY <2>3, OthersKeep DEF Paste, GoLive, Lose, Draw, Push, askVars, wire, history
    <2>4. CASE ReceiveState
      BY <2>4, ReceiveKeeps
    <2>5. CASE Work
      BY <2>5, WorkKeeps
    <2>6. CASE UNCHANGED vars
      BY <2>6, OthersKeep DEF vars, askVars, wire, history
    <2> QED BY <2>1, <2>2, <2>3, <2>4, <2>5, <2>6 DEF Next, KeyStep
  <1> QED BY <1>1, <1>2, PTL DEF Spec

\* However often the connection is lost and whatever snapshot is on its way, an
\* ask is answered at most once (main.rs send_answer, model.rs apply_asks).
THEOREM Answered == Spec => []AnsweredOnce
  <1>1. AsksInv => AnsweredOnce
    BY DEF AsksInv, AsksTyped, AnsweredOnce
  <1> QED BY <1>1, AsksInvariance, PTL

-----------------------------------------------------------------------------
(* Only what is on top acts                                                *)

\* The two confirmations are never open together: each is offered by a key that
\* is taken only while neither is open.  The order the keys are tried in and the
\* order the popups are drawn in would differ for the person otherwise.
OneConfirmation == start = 0 \/ confirm = 0

\* Opening one of them leaves the other as it is.
LEMMA AskFirstOpensOne ==
  ASSUME NEW d, AskFirst(d), start = 0, confirm = 0
  PROVE  OneConfirmation'
  BY DEF AskFirst, OneConfirmation

\* The popups before one in the order of the keys are closed when it takes a key.
LEMMA DetailTaker ==
  ASSUME Taker \in {"detail", "agents", "editor", "menu"}
  PROVE  /\ start = 0 /\ confirm = 0 /\ deny = 0 /\ retire = 0 /\ ~help
         /\ About("lesson") = 0 /\ About("ask") = 0
  <1>1. \A j \in 1..7 : About(KeyOrder[j]) = 0
    <2>1. CASE Taker = "detail"
      <3>1. KeyOrder[8] = "detail" /\ 8 \in 1..8  BY DEF KeyOrder
      <3> QED BY <2>1, <3>1, TakerIsFirst
    <2>2. CASE Taker \in {"agents", "editor", "menu"}
      BY <2>2, TakerIsFirst
    <2> QED BY <2>1, <2>2
  <1>2. /\ About("help") = 0 /\ About("deny") = 0 /\ About("ask") = 0 /\ About("retire") = 0
        /\ About("lesson") = 0 /\ About("start") = 0 /\ About("confirm") = 0
    BY <1>1 DEF KeyOrder
  <1> QED BY <1>2 DEF About

\* At most one confirmation is open.
LEMMA ConfirmationsInvariance == Spec => []OneConfirmation
  <1>1. Init => OneConfirmation
    BY DEF Init, OneConfirmation
  <1>2. OneConfirmation /\ [Next]_vars => OneConfirmation'
    <2> SUFFICES ASSUME OneConfirmation, [Next]_vars  PROVE OneConfirmation'
      OBVIOUS
    <2>1. CASE DetailKey \/ AgentsKey
      <3>1. start = 0 /\ confirm = 0
        BY <2>1, DetailTaker DEF DetailKey, AgentsKey, Key
      <3>2. UNCHANGED <<start, confirm>> \/ \E d : AskFirst(d)
        BY <2>1 DEF DetailKey, AgentsKey
      <3> QED BY <3>1, <3>2, AskFirstOpensOne DEF OneConfirmation
    <2>2. CASE StartKey \/ ConfirmKey
      BY <2>2 DEF StartKey, ConfirmKey, OneConfirmation
    <2>3. CASE UNCHANGED <<start, confirm>>
      BY <2>3 DEF OneConfirmation
    <2>4. CASE \/ HelpKey \/ DenyKey \/ AskKey \/ AgainKey \/ RetireKey \/ LessonKey
               \/ FocusKey \/ MenuKey \/ EditKey \/ Paste \/ GoLive \/ Lose \/ ReceiveState
               \/ Draw \/ Work \/ Push \/ UNCHANGED vars
      BY <2>3, <2>4
      DEF HelpKey, DenyKey, AskKey, AgainKey, RetireKey, LessonKey, FocusKey, MenuKey, EditKey,
          Paste, GoLive, Lose, ReceiveState, Draw, Work, Push, vars, workVars
    <2> QED BY <2>1, <2>2, <2>4 DEF Next, KeyStep
  <1> QED BY <1>1, <1>2, PTL DEF Spec

\* The popups drawn over the one that takes a key are those tried before it, so
\* it is on top; the help alone takes keys below the others.
LEMMA TakerIsOnTop ==
  ASSUME OneConfirmation,
         Taker \in {"deny", "ask", "retire", "lesson", "start", "confirm", "detail", "agents",
                    "menu", "editor"}
  PROVE  Topmost[1] = Taker
  <1> /\ KeyOrder[1] = "help" /\ KeyOrder[2] = "deny" /\ KeyOrder[3] = "ask"
      /\ KeyOrder[4] = "retire" /\ KeyOrder[5] = "lesson" /\ KeyOrder[6] = "start"
      /\ KeyOrder[7] = "confirm" /\ KeyOrder[8] = "detail"
    BY DEF KeyOrder
  <1> /\ DrawOrder[1] = "help" /\ DrawOrder[2] = "detail" /\ DrawOrder[3] = "start"
      /\ DrawOrder[4] = "confirm" /\ DrawOrder[5] = "lesson" /\ DrawOrder[6] = "retire"
      /\ DrawOrder[7] = "ask" /\ DrawOrder[8] = "deny"
    BY DEF DrawOrder
  <1>1. ASSUME NEW i \in 1..8, Taker = KeyOrder[i]
        PROVE  About(KeyOrder[i]) # 0 /\ \A j \in 1..8 : j < i => About(KeyOrder[j]) = 0
    BY <1>1, TakerIsFirst
  <1>2. ASSUME NEW i \in 1..8, About(DrawOrder[i]) # 0,
               \A j \in 1..8 : i < j => About(DrawOrder[j]) = 0
        PROVE  Topmost[1] = DrawOrder[i]
    BY <1>2, TopmostIsLast
  <1>3. CASE Taker = "deny"
    <2>1. About("deny") # 0  BY <1>1, <1>3
    <2> QED BY <1>2, <1>3, <2>1
  <1>4. CASE Taker = "ask"
    <2>1. About("ask") # 0 /\ About("deny") = 0  BY <1>1, <1>4
    <2> QED BY <1>2, <1>4, <2>1
  <1>5. CASE Taker = "retire"
    <2>1. About("retire") # 0 /\ About("deny") = 0 /\ About("ask") = 0  BY <1>1, <1>5
    <2> QED BY <1>2, <1>5, <2>1
  <1>6. CASE Taker = "lesson"
    <2>1. /\ About("lesson") # 0
          /\ About("deny") = 0 /\ About("ask") = 0 /\ About("retire") = 0
      BY <1>1, <1>6
    <2> QED BY <1>2, <1>6, <2>1
  <1>7. CASE Taker = "start"
    <2>1. /\ About("start") # 0 /\ About("deny") = 0 /\ About("ask") = 0
          /\ About("retire") = 0 /\ About("lesson") = 0
      BY <1>1, <1>7
    <2>2. About("confirm") = 0
      BY <2>1 DEF About, OneConfirmation
    <2> QED BY <1>2, <1>7, <2>1, <2>2
  <1>8. CASE Taker = "confirm"
    <2>1. /\ About("confirm") # 0 /\ About("deny") = 0 /\ About("ask") = 0
          /\ About("retire") = 0 /\ About("lesson") = 0
      BY <1>1, <1>8
    <2> QED BY <1>2, <1>8, <2>1
  <1>9. CASE Taker = "detail"
    <2>1. /\ About("detail") # 0 /\ About("deny") = 0 /\ About("ask") = 0 /\ About("retire") = 0
          /\ About("lesson") = 0 /\ About("start") = 0 /\ About("confirm") = 0
      BY <1>1, <1>9
    <2> QED BY <1>2, <1>9, <2>1
  <1>10. CASE Taker \in {"agents", "menu", "editor"}
    <2>1. Taker = Base[1] /\ \A j \in 1..8 : About(KeyOrder[j]) = 0
      BY <1>10, TakerIsFirst
    <2>2. \A j \in 1..8 : About(DrawOrder[j]) = 0
      BY <2>1
    <2> QED BY <2>1, <2>2, TopmostIsLast
  <1> QED BY <1>3, <1>4, <1>5, <1>6, <1>7, <1>8, <1>9, <1>10

\* A key changes only what the popup that takes it is about, and nothing else does.
LEMMA KeysActOnTop ==
  ASSUME OneConfirmation, [Next]_vars
  PROVE  /\ text' # text /\ KeyStep => Topmost[1] \in {"menu", "editor"}
         /\ sent' # sent => Topmost[1] \in {"ask", "deny"}
         /\ popped' # popped => Topmost[1] = "lesson"
         /\ retire' # retire => Topmost[1] \in {"lesson", "retire"}
         /\ start' # start => Topmost[1] \in {"start", "detail", "agents"}
         /\ confirm' # confirm => Topmost[1] \in {"confirm", "detail", "agents"}
         /\ detail' # detail => Topmost[1] \in {"detail", "agents"}
  <1>1. CASE HelpKey \/ AgainKey \/ FocusKey
    <2>1. UNCHANGED <<text, sent, popped, retire, start, confirm, detail>>
      BY <1>1 DEF HelpKey, AgainKey, FocusKey, lessonVars, workVars, editVars, history
    <2> QED BY <2>1
  <1>2. CASE DenyKey \/ AskKey
    <2>1. UNCHANGED <<text, popped, retire, start, confirm, detail>>
      BY <1>2 DEF DenyKey, AskKey, lessonVars, workVars, editVars
    <2> QED BY <1>2, <2>1, TakerIsOnTop DEF DenyKey, AskKey, Key
  <1>3. CASE RetireKey
    <2>1. UNCHANGED <<text, sent, popped, start, confirm, detail>>
      BY <1>3 DEF RetireKey, workVars, editVars, history
    <2> QED BY <1>3, <2>1, TakerIsOnTop DEF RetireKey, Key
  <1>4. CASE LessonKey
    <2>1. UNCHANGED <<text, sent, start, confirm, detail>>
      BY <1>4 DEF LessonKey, workVars, editVars
    <2> QED BY <1>4, <2>1, TakerIsOnTop DEF LessonKey, Key
  <1>5. CASE StartKey
    <2>1. UNCHANGED <<text, sent, popped, retire, confirm, detail>>
      BY <1>5 DEF StartKey, lessonVars, editVars, history
    <2> QED BY <1>5, <2>1, TakerIsOnTop DEF StartKey, Key
  <1>6. CASE ConfirmKey
    <2>1. UNCHANGED <<text, sent, popped, retire, start, detail>>
      BY <1>6 DEF ConfirmKey, lessonVars, editVars, history
    <2> QED BY <1>6, <2>1, TakerIsOnTop DEF ConfirmKey, Key
  <1>7. CASE DetailKey \/ AgentsKey
    <2>1. UNCHANGED <<text, sent, popped, retire>>
      BY <1>7 DEF DetailKey, AgentsKey, lessonVars, editVars, history
    <2> QED BY <1>7, <2>1, TakerIsOnTop DEF DetailKey, AgentsKey, Key
  <1>8. CASE MenuKey \/ EditKey
    <2>1. UNCHANGED <<sent, popped, retire, start, confirm, detail>>
      BY <1>8 DEF MenuKey, EditKey, lessonVars, workVars, history
    <2> QED BY <1>8, <2>1, TakerIsOnTop DEF MenuKey, EditKey, Key
  <1>9. CASE ~KeyStep
    <2>1. \/ Paste \/ GoLive \/ Lose \/ ReceiveState \/ Draw \/ Work \/ Push
          \/ UNCHANGED vars
      BY <1>9 DEF Next
    <2>2. UNCHANGED <<sent, popped, retire, start, confirm, detail>>
      BY <2>1 DEF Paste, GoLive, Lose, ReceiveState, Draw, Work, Push, vars, lessonVars, workVars,
                  history
    <2> QED BY <1>9, <2>2
  <1> QED BY <1>1, <1>2, <1>3, <1>4, <1>5, <1>6, <1>7, <1>8, <1>9 DEF KeyStep

\* A key acts on what the person sees on top, for any number of asks, lessons and
\* dispatches (the order of main.rs key_pressed against that of ui.rs draw).
THEOREM TopActs == Spec => OnlyTopActs
  <1>1. OneConfirmation /\ [Next]_vars =>
          [/\ text' # text /\ KeyStep => Topmost[1] \in {"menu", "editor"}
           /\ sent' # sent => Topmost[1] \in {"ask", "deny"}
           /\ popped' # popped => Topmost[1] = "lesson"
           /\ retire' # retire => Topmost[1] \in {"lesson", "retire"}
           /\ start' # start => Topmost[1] \in {"start", "detail", "agents"}
           /\ confirm' # confirm => Topmost[1] \in {"confirm", "detail", "agents"}
           /\ detail' # detail => Topmost[1] \in {"detail", "agents"}]_vars
    BY KeysActOnTop
  <1> QED BY <1>1, ConfirmationsInvariance, PTL DEF Spec, OnlyTopActs

-----------------------------------------------------------------------------
(* A lesson pops up once                                                   *)

\* Listing a finite set of numbers in order lists each of them once.
LEMMA InOrderListsOnce ==
  ASSUME NEW S \in SUBSET Nat, IsFiniteSet(S)
  PROVE  /\ InOrder(S) \in Seq(S)
         /\ \A i, j \in 1..Len(InOrder(S)) : InOrder(S)[i] = InOrder(S)[j] => i = j
  <1> DEFINE UpTo(x) == {y \in S : y <= x}
             n == Cardinality(S)
             rank == [x \in S |-> Cardinality(UpTo(x))]
  <1>1. n \in Nat /\ IsFiniteSet(1..n) /\ Cardinality(1..n) = n
    BY FS_CardinalityType, FS_Interval
  <1>2. ASSUME NEW x \in S
        PROVE  /\ IsFiniteSet(UpTo(x)) /\ Cardinality(UpTo(x)) \in 1..n
    <2>1. UpTo(x) \in SUBSET S /\ x \in UpTo(x)
      OBVIOUS
    <2> HIDE DEF UpTo
    <2>2. IsFiniteSet(UpTo(x)) /\ Cardinality(UpTo(x)) <= n
      BY <2>1, FS_Subset
    <2>3. Cardinality(UpTo(x)) \in Nat /\ Cardinality(UpTo(x)) # 0
      BY <2>1, <2>2, FS_CardinalityType, FS_EmptySet
    <2> QED BY <1>1, <2>2, <2>3
  <1>3. ASSUME NEW x \in S, NEW y \in S, x < y
        PROVE  Cardinality(UpTo(x)) # Cardinality(UpTo(y))
    <2>1. x \in Nat /\ y \in Nat /\ \A z \in S : z \in Nat
      OBVIOUS
    <2>2. UpTo(x) \in SUBSET UpTo(y)
      <3>1. \A z \in S : z <= x => z <= y
        BY <1>3, <2>1
      <3> QED BY <3>1
    <2>3. y \in UpTo(y) /\ y \notin UpTo(x)
      BY <1>3, <2>1
    <2>4. IsFiniteSet(UpTo(y)) /\ UpTo(x) # UpTo(y)
      BY <1>2, <2>3, Zenon
    <2> HIDE DEF UpTo
    <2> QED BY <2>2, <2>4, FS_Subset
  <1>4. rank \in Injection(S, 1..n)
    <2>1. rank \in [S -> 1..n] /\ \A x \in S : rank[x] = Cardinality(UpTo(x))
      BY <1>2
    <2> HIDE DEF rank, UpTo
    <2>2. ASSUME NEW x \in S, NEW y \in S, rank[x] = rank[y]  PROVE x = y
      <3>1. ~(x < y) /\ ~(y < x)
        BY <1>3, <2>1, <2>2
      <3> QED BY <3>1
    <2> QED BY <2>1, <2>2 DEF Injection, IsInjective
  <1>5. \A i \in 1..n : \E x \in S : Cardinality(UpTo(x)) = i
    <2>1. rank \in Surjection(S, 1..n)
      <3> HIDE DEF rank
      <3> QED BY <1>1, <1>4, FS_Injection
    <2>2. \A i \in 1..n : \E x \in S : rank[x] = i
      <3> HIDE DEF rank
      <3> QED BY <2>1 DEF Surjection
    <2>3. \A x \in S : rank[x] = Cardinality(UpTo(x))
      <3> HIDE DEF UpTo
      <3> QED OBVIOUS
    <2> HIDE DEF rank, UpTo
    <2> QED BY <2>2, <2>3
  <1> DEFINE nth(i) == CHOOSE x \in S : Cardinality(UpTo(x)) = i
  <1>6. \A i \in 1..n : nth(i) \in S /\ Cardinality(UpTo(nth(i))) = i
    <2> HIDE DEF UpTo
    <2> QED BY <1>5
  <1>7. InOrder(S) = [i \in 1..n |-> nth(i)]
    BY DEF InOrder
  <1> HIDE DEF nth, UpTo
  <1>8. InOrder(S) \in Seq(S) /\ Len(InOrder(S)) = n
    <2>1. [i \in 1..n |-> nth(i)] \in [1..n -> S]
      BY <1>6
    <2> QED BY <1>1, <1>7, <2>1
  <1>9. \A i, j \in 1..n : InOrder(S)[i] = InOrder(S)[j] => i = j
    <2>1. \A i \in 1..n : InOrder(S)[i] = nth(i)
      BY <1>7
    <2> QED BY <1>6, <2>1
  <1> QED BY <1>8, <1>9

\* What moves on leaves finitely many there.
LEMMA OnwardsFinite ==
  ASSUME NEW X, NEW phase \in [X -> Phases], NEW m \in Moves(phase, Onwards),
         IsFiniteSet(There(phase))
  PROVE  IsFiniteSet(There(m))
  <1>1. PICK x \in X : m = [phase EXCEPT ![x] = Onwards[phase[x]]]
    BY DEF Moves
  <1>2. There(m) \in SUBSET (There(phase) \cup {x})
    BY <1>1 DEF There
  <1> QED BY <1>2, FS_AddElement, FS_Subset

\* The lessons of the service are a finite list in all the screen is yet to see.
LessonsFinite == \A s \in Views : IsFiniteSet(There(s.lessons))

\* The popups that were or are to be shown, in order.
Queued == popped \o lessons

\* A lesson that is queued is marked as seen, and with it never queued again.
QueuedOnce ==
  /\ popped \in Seq(Lessons) /\ lessons \in Seq(Lessons)
  /\ \A i \in 1..Len(Queued) : Queued[i] \in seen /\ Queued[i] \notin known
  /\ \A i, j \in 1..Len(Queued) : Queued[i] = Queued[j] => i = j
  /\ known \subseteq seen
  /\ loaded \in BOOLEAN
  /\ ~loaded => lessons = <<>> /\ popped = <<>>

\* What appending and joining do.
LEMMA ConcatFacts ==
  ASSUME NEW T, NEW q \in Seq(T), NEW r \in Seq(T)
  PROVE  /\ q \o r \in Seq(T) /\ Len(q) \in Nat /\ Len(r) \in Nat
         /\ Len(q \o r) = Len(q) + Len(r)
         /\ \A i \in 1..Len(q) : (q \o r)[i] = q[i]
         /\ \A i \in 1..Len(r) : (q \o r)[Len(q) + i] = r[i]
  OBVIOUS

LEMMA ConcatIsAssociative ==
  ASSUME NEW T, NEW q \in Seq(T), NEW r \in Seq(T), NEW s \in Seq(T)
  PROVE  q \o (r \o s) = (q \o r) \o s
  OBVIOUS

\* Dismissing the first popup leaves the queue of all popups as it is.
LEMMA DismissedStays ==
  ASSUME NEW T, NEW q \in Seq(T), NEW r \in Seq(T), r # <<>>
  PROVE  /\ Append(q, Head(r)) \in Seq(T) /\ Tail(r) \in Seq(T)
         /\ Append(q, Head(r)) \o Tail(r) = q \o r
  OBVIOUS

\* A lesson that takes keys is there.
LEMMA LessonTaker ==
  ASSUME Taker = "lesson"
  PROVE  lessons # <<>>
  <1>1. KeyOrder[5] = "lesson" /\ 5 \in 1..8 BY DEF KeyOrder
  <1> QED BY <1>1, TakerIsFirst DEF About

LEMMA LessonKeyOnce ==
  ASSUME QueuedOnce, LessonKey
  PROVE  QueuedOnce' /\ Head(lessons) \in Lessons
  <1>1. /\ lessons # <<>> /\ lessons' = Tail(lessons) /\ popped' = Append(popped, Head(lessons))
        /\ UNCHANGED <<seen, loaded, known>>
    BY LessonTaker DEF LessonKey, Key
  <1>2. popped \in Seq(Lessons) /\ lessons \in Seq(Lessons)
    BY DEF QueuedOnce
  <1>3. popped' \in Seq(Lessons) /\ lessons' \in Seq(Lessons) /\ Head(lessons) \in Lessons
    BY <1>1, <1>2
  <1>4. Queued' = Queued
    <2>1. Append(popped, Head(lessons)) \o Tail(lessons) = popped \o lessons
      BY <1>1, <1>2, DismissedStays
    <2> QED BY <1>1, <2>1, Zenon DEF Queued
  <1>5. loaded
    BY <1>1 DEF QueuedOnce
  <1> QED BY <1>1, <1>3, <1>4, <1>5 DEF QueuedOnce

\* A snapshot queues what was not seen.
LEMMA ReceiveOnce ==
  ASSUME QueuedOnce, AsksInv, LessonsFinite, ReceiveState
  PROVE  QueuedOnce'
  <1>1. PICK new \in ServiceStates : pushed = <<new>>
    BY DEF ReceiveState, AsksInv, ServiceTyped
  <1> DEFINE current == There(new.lessons)
             fresh == current \ seen
             more == InOrder(fresh)
  <1>2. Head(pushed) = new /\ new \in Views
    BY <1>1 DEF Views
  <1>3. /\ seen' = seen \cup current /\ loaded' = TRUE /\ UNCHANGED popped
        /\ lessons' = IF loaded THEN lessons \o more ELSE lessons
        /\ known' = IF loaded THEN known ELSE current
    BY <1>2 DEF ReceiveState, MarkSeen
  <1>4. current \in SUBSET Lessons /\ IsFiniteSet(current)
    <2>1. new.lessons \in [Lessons -> Phases]
      BY DEF ServiceStates
    <2> QED BY <1>2, <2>1 DEF There, LessonsFinite
  <1> HIDE DEF current
  <1>5. fresh \in SUBSET Lessons /\ fresh \in SUBSET Nat /\ IsFiniteSet(fresh)
    BY <1>4, FS_Subset, ChatScreenAssumption
  <1>6. popped \in Seq(Lessons) /\ lessons \in Seq(Lessons) /\ known \subseteq seen
    BY DEF QueuedOnce
  <1>7. CASE ~loaded
    <2>1. lessons' = <<>> /\ popped' = <<>> /\ Queued' = <<>>
      BY <1>3, <1>7 DEF QueuedOnce, Queued
    <2> QED BY <1>3, <1>7, <2>1 DEF QueuedOnce
  <1>8. CASE loaded
    <2>1. more \in Seq(fresh) /\ \A i, j \in 1..Len(more) : more[i] = more[j] => i = j
      BY <1>5, InOrderListsOnce
    <2> HIDE DEF more
    <2>2. more \in Seq(Lessons) /\ \A i \in 1..Len(more) : more[i] \in fresh
      BY <1>5, <2>1
    <2> DEFINE q == Queued
               r == Queued'
    <2>3. q \in Seq(Lessons)
      BY <1>6 DEF Queued
    <2>4. r = q \o more
      <3>1. popped \o (lessons \o more) = (popped \o lessons) \o more
        BY <1>6, <2>2, ConcatIsAssociative
      <3> QED BY <1>3, <1>8, <3>1 DEF Queued
    <2>5. /\ Len(q) \in Nat /\ Len(more) \in Nat /\ Len(r) = Len(q) + Len(more)
          /\ \A i \in 1..Len(q) : r[i] = q[i]
          /\ \A i \in 1..Len(more) : r[Len(q) + i] = more[i]
      <3> HIDE DEF q, r
      <3> QED BY <2>2, <2>3, <2>4, ConcatFacts
    <2>6. /\ \A i \in 1..Len(q) : q[i] \in seen /\ q[i] \notin known
          /\ \A i, j \in 1..Len(q) : q[i] = q[j] => i = j
      BY DEF QueuedOnce
    <2>7. seen' = seen \cup current /\ known' = known /\ \A x \in fresh : x \in seen' /\ x \notin seen
      BY <1>3, <1>8
    <2> HIDE DEF q, r, fresh
    <2>8. \A i \in 1..Len(r) : \/ i \in 1..Len(q)
                               \/ i - Len(q) \in 1..Len(more) /\ Len(q) + (i - Len(q)) = i
      BY <2>5
    <2>9. ASSUME NEW i \in 1..Len(r)  PROVE r[i] \in seen' /\ r[i] \notin known'
      <3>1. CASE i \in 1..Len(q)
        BY <2>5, <2>6, <2>7, <3>1
      <3>2. CASE i \notin 1..Len(q)
        <4>1. r[i] \in fresh
          BY <2>2, <2>5, <2>8, <3>2
        <4> QED BY <1>6, <2>7, <4>1
      <3> QED BY <3>1, <3>2
    <2>10. ASSUME NEW i \in 1..Len(r), NEW j \in 1..Len(r), r[i] = r[j]  PROVE i = j
      <3>1. CASE i \in 1..Len(q) /\ j \in 1..Len(q)
        BY <2>5, <2>6, <2>10, <3>1
      <3>2. CASE i \notin 1..Len(q) /\ j \notin 1..Len(q)
        <4>1. /\ i - Len(q) \in 1..Len(more) /\ r[i] = more[i - Len(q)]
              /\ j - Len(q) \in 1..Len(more) /\ r[j] = more[j - Len(q)]
          BY <2>5, <2>8, <3>2
        <4>2. i - Len(q) = j - Len(q)
          BY <2>1, <2>10, <4>1
        <4> QED BY <2>5, <4>2
      <3>3. CASE i \in 1..Len(q) /\ j \notin 1..Len(q)
        <4>1. r[i] \in seen /\ r[j] \in fresh
          BY <2>2, <2>5, <2>6, <2>8, <3>3
        <4> QED BY <2>7, <2>10, <4>1
      <3>4. CASE i \notin 1..Len(q) /\ j \in 1..Len(q)
        <4>1. r[j] \in seen /\ r[i] \in fresh
          BY <2>2, <2>5, <2>6, <2>8, <3>4
        <4> QED BY <2>7, <2>10, <4>1
      <3> QED BY <3>1, <3>2, <3>3, <3>4
    <2>11. lessons' \in Seq(Lessons) /\ popped' \in Seq(Lessons)
      BY <1>3, <1>6, <1>8, <2>2
    <2>12. known' \subseteq seen' /\ loaded' = TRUE
      BY <1>3, <1>6, <2>7
    <2> QED BY <2>9, <2>10, <2>11, <2>12 DEF QueuedOnce, r
  <1>9. loaded \in BOOLEAN
    BY DEF QueuedOnce
  <1> QED BY <1>7, <1>8, <1>9

LEMMA FiniteStep ==
  ASSUME LessonsFinite, AsksInv, [Next]_vars
  PROVE  LessonsFinite'
  <1>1. service \in ServiceStates /\ service \in Views
    BY DEF AsksInv, ServiceTyped, Views
  <1>2. CASE Work
    <2>1. UNCHANGED pushed /\ \A s \in Views' : s = service' \/ s \in Views
      BY <1>2 DEF Work, Views
    <2>2. IsFiniteSet(There(service'.lessons))
      <3>1. CASE \E m \in Moves(service.lessons, Onwards) : service' = [service EXCEPT !.lessons = m]
        <4>1. PICK m \in Moves(service.lessons, Onwards) : service' = [service EXCEPT !.lessons = m]
          BY <3>1
        <4>2. service'.lessons = m /\ service.lessons \in [Lessons -> Phases]
          BY <1>1, <4>1 DEF ServiceStates
        <4>3. IsFiniteSet(There(service.lessons))
          BY <1>1 DEF LessonsFinite
        <4> QED BY <4>2, <4>3, OnwardsFinite
      <3>2. CASE \/ \E m \in Moves(service.asks, Onwards) : service' = [service EXCEPT !.asks = m]
                 \/ \E m \in Moves(service.rows, Works) : service' = [service EXCEPT !.rows = m]
        <4>1. service'.lessons = service.lessons
          BY <1>1, <3>2 DEF ServiceStates
        <4> QED BY <1>1, <4>1 DEF LessonsFinite
      <3> QED BY <1>2, <3>1, <3>2 DEF Work
    <2> QED BY <2>1, <2>2 DEF LessonsFinite
  <1>3. CASE ~Work
    <2>1. UNCHANGED service
      BY <1>3 DEF Next, KeyStep, Key, HelpKey, DenyKey, AskKey, AgainKey, RetireKey, LessonKey, StartKey,
                  ConfirmKey, DetailKey, FocusKey, AgentsKey, MenuKey, EditKey, Paste, GoLive, Lose,
                  ReceiveState, Draw, Push, vars
    <2>2. pushed' \in {pushed, <<>>, <<service>>}
      <3>1. CASE ReceiveState
        <4>1. PICK new \in ServiceStates : pushed = <<new>>
          BY <3>1 DEF ReceiveState, AsksInv, ServiceTyped
        <4> QED BY <3>1, <4>1 DEF ReceiveState
      <3>2. CASE ~ReceiveState
        BY <1>3, <3>2 DEF Next, KeyStep, HelpKey, DenyKey, AskKey, AgainKey, RetireKey, LessonKey,
                  StartKey, ConfirmKey, DetailKey, FocusKey, AgentsKey, MenuKey, EditKey, Paste, GoLive,
                  Lose, Draw, Push, vars, wire
      <3> QED BY <3>1, <3>2
    <2>3. Views' \subseteq Views
      BY <2>1, <2>2 DEF Views
    <2> QED BY <2>3 DEF LessonsFinite
  <1> QED BY <1>2, <1>3

\* The rows a snapshot or the model lists.
LEMMA ListedTyped ==
  ASSUME TypeOK
  PROVE  /\ Listed \in SUBSET Dispatches /\ Listed \in SUBSET Nat /\ 0 \notin Dispatches
         /\ Listed # {} => Least(Listed) \in Listed
  <1>1. Listed \in SUBSET Dispatches /\ Listed \in SUBSET Nat /\ 0 \notin Dispatches
    BY ChatScreenAssumption DEF Listed
  <1>2. Listed # {} => Least(Listed) \in Listed
    BY <1>1, LeastExists DEF Least
  <1> QED BY <1>1, <1>2

\* Keys keep the types of what the popups show.
LEMMA AskKeysTyped ==
  ASSUME TypeOK, AsksInv, DenyKey \/ AskKey
  PROVE  TypeOK'
  <1>1. /\ asks' = asks /\ answered' \subseteq Asks /\ later' \subseteq asks /\ deny' \in Asks \cup {0}
        /\ UNCHANGED <<live, lessonVars, workVars, editVars>> /\ dirty' = TRUE
    <2>1. CASE DenyKey
      <3>1. deny \in Asks
        BY <2>1, DenyTaker DEF DenyKey, Key, TypeOK
      <3>2. answered' \subseteq Asks
        BY <2>1, <3>1 DEF DenyKey, SendAnswer, TypeOK
      <3> QED BY <2>1, <3>2 DEF DenyKey, Key, TypeOK, wire
    <2>2. CASE AskKey
      <3>1. CurrentAsk \in asks /\ CurrentAsk \in Asks
        BY <2>2, AskTaker DEF AskKey, Key, TypeOK
      <3>2. answered' \subseteq Asks
        BY <2>2, <3>1 DEF AskKey, SendAnswer, TypeOK
      <3>3. later' \subseteq asks /\ deny' \in Asks \cup {0}
        BY <2>2, <3>1 DEF AskKey, TypeOK
      <3> QED BY <2>2, <3>2, <3>3 DEF AskKey, Key, wire
    <2> QED BY <2>1, <2>2
  <1> QED BY <1>1 DEF TypeOK, Listed, lessonVars, workVars, editVars

\* The selection stays on a listed dispatch.
LEMMA SelectTyped ==
  ASSUME TypeOK, Select
  PROVE  selected' \in Listed \cup {0}
  BY DEF Select, Beside

LEMMA WorkKeysTyped ==
  ASSUME TypeOK, StartKey \/ ConfirmKey \/ DetailKey \/ FocusKey \/ AgentsKey
  PROVE  TypeOK'
  <1>1. UNCHANGED <<askVars, lessonVars, rows, editVars, live>> /\ dirty' = TRUE
    BY DEF StartKey, ConfirmKey, DetailKey, FocusKey, AgentsKey, Key, wire
  <1>2. focus' \in BOOLEAN
    BY DEF TypeOK, StartKey, ConfirmKey, DetailKey, FocusKey, AgentsKey
  <1>3. selected' \in Listed \cup {0}
    <2>1. selected' = selected \/ Select
      BY DEF StartKey, ConfirmKey, DetailKey, FocusKey, AgentsKey
    <2> QED BY <2>1, SelectTyped DEF TypeOK
  <1>4. {detail', confirm', start'} \subseteq Dispatches \cup {0}
    <2>1. Listed \in SUBSET Dispatches
      BY ListedTyped
    <2>2. CASE StartKey \/ ConfirmKey \/ FocusKey
      BY <2>2 DEF StartKey, ConfirmKey, FocusKey, TypeOK
    <2>3. ASSUME NEW d, AskFirst(d)
          PROVE  {confirm', start'} \subseteq Dispatches \cup {0}
      BY <2>1, <2>3 DEF AskFirst, TypeOK
    <2>4. CASE DetailKey
      BY <2>3, <2>4 DEF DetailKey, TypeOK
    <2>5. CASE AgentsKey
      <3>1. selected \in Dispatches \cup {0} /\ {detail, confirm, start} \subseteq Dispatches \cup {0}
        BY <2>1 DEF TypeOK
      <3> QED BY <2>3, <2>5, <3>1 DEF AgentsKey
    <2> QED BY <2>2, <2>4, <2>5
  <1>5. Listed' = Listed
    BY <1>1 DEF Listed
  <1> QED BY <1>1, <1>2, <1>3, <1>4, <1>5 DEF TypeOK, askVars, lessonVars, editVars

\* A snapshot keeps the types of the model.
LEMMA ReceiveTyped ==
  ASSUME TypeOK, AsksInv, QueuedOnce', ReceiveState
  PROVE  TypeOK'
  <1>1. PICK new \in ServiceStates : pushed = <<new>>
    BY DEF ReceiveState, AsksInv, ServiceTyped
  <1>2. Head(pushed) = new
    BY <1>1
  <1> DEFINE listed == {d \in Dispatches : new.rows[d] # "absent"}
  <1>3. /\ rows' = new.rows
        /\ selected' = IF selected # 0 /\ new.rows[selected] # "absent" THEN selected
                       ELSE IF listed = {} THEN 0 ELSE Least(listed)
        /\ seen' = seen \cup There(new.lessons) /\ loaded' = TRUE /\ dirty' = TRUE
        /\ asks' = There(new.asks) /\ answered' = answered \cap There(new.asks)
        /\ later' = later \cap There(new.asks)
        /\ UNCHANGED <<deny, retire, focus, detail, confirm, start, editVars, live>>
    BY <1>2 DEF ReceiveState, MarkSeen, KeepListed, MarkDirty
  <1>4. /\ new.rows \in [Dispatches -> States]
        /\ There(new.lessons) \subseteq Lessons /\ There(new.asks) \subseteq Asks
    BY DEF ServiceStates, There
  <1>5. Listed' = listed
    BY <1>3 DEF Listed
  <1>6. selected' \in Listed' \cup {0}
    <2>1. listed \in SUBSET Nat
      BY ChatScreenAssumption
    <2>2. listed # {} => Least(listed) \in listed
      <3> HIDE DEF listed
      <3> QED BY <2>1, LeastExists DEF Least
    <2>3. selected # 0 => selected \in Dispatches
      BY DEF TypeOK, Listed
    <2> QED BY <1>3, <1>5, <2>2, <2>3
  <1>7. lessons' \in Seq(Lessons)
    BY DEF QueuedOnce
  <1>8. /\ asks' \in SUBSET Asks /\ answered' \subseteq Asks /\ later' \subseteq asks'
        /\ seen' \subseteq Lessons /\ rows' \in [Dispatches -> States]
    BY <1>3, <1>4 DEF TypeOK
  <1> QED BY <1>3, <1>6, <1>7, <1>8 DEF TypeOK, editVars

PopupsInv == TypeOK /\ QueuedOnce

LEMMA PopupsStep ==
  ASSUME PopupsInv, AsksInv, LessonsFinite, [Next]_vars
  PROVE  PopupsInv'
  <1> USE DEF PopupsInv
  <1>1. UNCHANGED <<lessons, seen, loaded, known, popped>> => QueuedOnce'
    BY DEF QueuedOnce, Queued
  <1>2. CASE HelpKey \/ MenuKey \/ EditKey
    <2>1. UNCHANGED <<live, askVars, lessonVars, workVars, history>> /\ dirty' = TRUE
          /\ text' \in {"slash", "plain"} /\ help' \in BOOLEAN
      BY <1>2 DEF HelpKey, MenuKey, EditKey, Key, wire, TypeOK
    <2>2. TypeOK'
      BY <2>1 DEF TypeOK, Listed, askVars, lessonVars, workVars
    <2> QED BY <1>1, <2>1, <2>2 DEF lessonVars, history
  <1>3. CASE DenyKey \/ AskKey
    <2>1. UNCHANGED <<lessonVars, known, popped>>
      BY <1>3 DEF DenyKey, AskKey
    <2> QED BY <1>1, <1>3, <2>1, AskKeysTyped DEF lessonVars
  <1>4. CASE AgainKey \/ RetireKey
    <2>1. UNCHANGED <<live, asks, answered, deny, lessons, seen, loaded, workVars, editVars, history>>
          /\ dirty' = TRUE /\ later' \in {later, {}} /\ retire' \in {retire, 0}
      BY <1>4 DEF AgainKey, RetireKey, Key, askVars, lessonVars, wire
    <2>2. TypeOK'
      BY <2>1 DEF TypeOK, Listed, workVars, editVars
    <2> QED BY <1>1, <2>1, <2>2 DEF history
  <1>5. CASE LessonKey
    <2>1. QueuedOnce' /\ Head(lessons) \in Lessons
      BY <1>5, LessonKeyOnce
    <2>2. /\ UNCHANGED <<live, askVars, seen, loaded, workVars, editVars>> /\ dirty' = TRUE
          /\ retire' \in {retire, Head(lessons)}
      BY <1>5 DEF LessonKey, Key, wire
    <2>3. TypeOK'
      <3>1. lessons' \in Seq(Lessons)
        BY <2>1 DEF QueuedOnce
      <3> QED BY <2>1, <2>2, <3>1 DEF TypeOK, Listed, askVars, workVars, editVars
    <2> QED BY <2>1, <2>3
  <1>6. CASE StartKey \/ ConfirmKey \/ DetailKey \/ FocusKey \/ AgentsKey
    <2>1. UNCHANGED <<lessonVars, history>>
      BY <1>6 DEF StartKey, ConfirmKey, DetailKey, FocusKey, AgentsKey
    <2> QED BY <1>1, <1>6, <2>1, WorkKeysTyped DEF lessonVars, history
  <1>7. CASE ReceiveState
    BY <1>7, ReceiveOnce, ReceiveTyped
  <1>8. CASE Paste \/ GoLive \/ Lose \/ Draw \/ Work \/ Push \/ UNCHANGED vars
    <2>1. /\ UNCHANGED <<askVars, lessonVars, workVars, help, history>>
          /\ text' \in {text, "slash", "plain"} /\ live' \in BOOLEAN /\ dirty' \in BOOLEAN
      BY <1>8 DEF Paste, GoLive, Lose, Draw, Work, Push, vars, wire, editVars, drawVars, TypeOK
    <2>2. TypeOK'
      BY <2>1 DEF TypeOK, Listed, askVars, lessonVars, workVars
    <2> QED BY <1>1, <2>1, <2>2 DEF lessonVars, history
  <1> QED BY <1>2, <1>3, <1>4, <1>5, <1>6, <1>7, <1>8 DEF Next, KeyStep

LEMMA PopupsInit == Init => PopupsInv /\ LessonsFinite
  <1> SUFFICES ASSUME Init  PROVE PopupsInv /\ LessonsFinite
    OBVIOUS
  <1>0. <<>> \in Seq(Lessons) /\ Len(<<>>) = 0 /\ <<>> \o <<>> = <<>>
    OBVIOUS
  <1>1. TypeOK
    <2>1. lessons \in Seq(Lessons)
      BY <1>0 DEF Init
    <2>2. rows \in [Dispatches -> States]
      BY DEF Init, States
    <2>3. {help, focus, dirty, loaded} \subseteq BOOLEAN
      BY DEF Init
    <2>4. {detail, confirm, start} \subseteq Dispatches \cup {0}
      BY DEF Init
    <2>5. /\ live \in BOOLEAN /\ asks \in SUBSET Asks
          /\ answered \subseteq Asks /\ later \subseteq asks /\ deny \in Asks \cup {0}
          /\ seen \subseteq Lessons /\ retire \in Lessons \cup {0}
          /\ selected = 0 /\ text \in {"slash", "plain"}
      BY DEF Init
    <2> QED BY <2>1, <2>2, <2>3, <2>4, <2>5 DEF TypeOK
  <1>2. QueuedOnce
    <2>1. Queued = <<>> /\ lessons = <<>> /\ popped = <<>>
      BY <1>0 DEF Init, Queued
    <2>2. Len(Queued) = 0
      BY <1>0, <2>1
    <2>3. 1..Len(Queued) = {}
      BY <2>2
    <2>4. known = {} /\ loaded = FALSE
      BY DEF Init
    <2> HIDE DEF Queued
    <2> QED BY <1>0, <2>1, <2>3, <2>4 DEF QueuedOnce
  <1>3. There(service.lessons) = {} /\ Views = {service}
    BY DEF Init, There, Views
  <1>4. LessonsFinite
    BY <1>3, FS_EmptySet DEF LessonsFinite
  <1> QED BY <1>1, <1>2, <1>4 DEF PopupsInv

\* A lesson pops up once, never one approved before the first push, over any
\* snapshots, retirements and reconnects; and what is listed, hidden, put off and
\* queued fits together (PopupsAreSound; model.rs apply_lessons, apply_state).
THEOREM PopupsSound == Spec => []PopupsAreSound
  <1>1. Init => PopupsInv /\ LessonsFinite
    BY PopupsInit
  <1>2. PopupsInv /\ LessonsFinite /\ AsksInv /\ [Next]_vars => (PopupsInv /\ LessonsFinite)'
    BY PopupsStep, FiniteStep
  <1>3. PopupsInv => PopupsAreSound
    <2> SUFFICES ASSUME PopupsInv  PROVE PopupsAreSound
      OBVIOUS
    <2>1. /\ TypeOK
          /\ \A i \in 1..Len(Queued) : Queued[i] \notin known
          /\ \A i, j \in 1..Len(Queued) : Queued[i] = Queued[j] => i = j
          /\ Queued \in Seq(Lessons)
      BY ConcatFacts DEF PopupsInv, QueuedOnce, Queued
    <2>2. DOMAIN Queued = 1..Len(Queued)
      BY <2>1
    <2>3. IsInjective(Queued)
      BY <2>1, <2>2 DEF IsInjective
    <2>4. ToSet(Queued) \cap known = {}
      BY <2>1, <2>2 DEF ToSet
    <2> QED BY <2>1, <2>3, <2>4 DEF PopupsAreSound, LessonsPopOnce, Queued
  <1> QED BY <1>1, <1>2, <1>3, AsksInvariance, PTL DEF Spec

-----------------------------------------------------------------------------
(* The input line of the screen (ChatEditor)                               *)

\* Induction: a set with 0 and with the successor of each of its numbers has
\* them all.
LEMMA Induction ==
  ASSUME NEW S, 0 \in S, \A n \in Nat : n \in S => n + 1 \in S
  PROVE  Nat \subseteq S
<1> SUFFICES ASSUME ~(Nat \subseteq S) PROVE FALSE
  OBVIOUS
<1> DEFINE T == {n \in Nat : n \notin S}
<1>1. PICK n \in T : \A m \in T : n <= m
  BY LeastExists
<1>2. n # 0 /\ n - 1 \in Nat /\ n - 1 \notin T
  BY <1>1
<1> QED BY <1>1, <1>2


\* The greatest number of a set that reaches up to one.
LEMMA GreatestOf ==
  ASSUME NEW k \in Nat, NEW s \in SUBSET (1..k + 1)
  PROVE  /\ k + 1 \in s => Max(s) = k + 1 /\ s \ {k + 1} \in SUBSET (1..k)
         /\ k + 1 \notin s => s \in SUBSET (1..k)
<1>1. k + 1 \notin s => s \in SUBSET (1..k)
  OBVIOUS
<1>2. s \ {k + 1} \in SUBSET (1..k)
  OBVIOUS
<1>3. ASSUME k + 1 \in s PROVE Max(s) = k + 1
  <2>1. \A y \in s : k + 1 >= y /\ y \in Nat
    OBVIOUS
  <2>2. \A x \in s : (\A y \in s : x >= y) => x = k + 1
    BY <1>3, <2>1
  <2> QED BY <1>3, <2>1, <2>2 DEF Max
<1> QED BY <1>1, <1>2, <1>3

\* One character of a paste, in the mode that the ones before it left.
CleanStep(done, c) ==
  [mode |-> NextMode(done.mode, c),
   out  |-> IF done.mode = "text" THEN done.out \o Shown(c) ELSE done.out]
CleanBase == [mode |-> "text", out |-> <<>>]

\* Cleaning goes through the characters one by one: there are the modes and the
\* outputs after each.
LEMMA CleanUnfolds ==
  ASSUME NEW raw, NEW n \in Nat, DOMAIN raw = 1..n
  PROVE  \E f : /\ f[0] = CleanBase
                /\ \A k \in 1..n : f[k] = CleanStep(f[k - 1], raw[k])
                /\ Clean(raw) = f[n].out
<1> DEFINE Body(g, s) == IF s = {} THEN CleanBase
                         ELSE CleanStep(g[s \ {Max(s)}], raw[Max(s)])
           Good(g, k) == \A s \in SUBSET (1..k) : g[s] = Body(g, s)
           Iter == CHOOSE g : g = [s \in SUBSET (DOMAIN raw) |-> Body(g, s)]
<1>1. Clean(raw) = Iter[1..n].out
  BY Zenon DEF Clean, FoldLeft, MapThenFoldSet, CleanStep, CleanBase
<1>2. \E g : Good(g, n)
  <2> DEFINE S == {k \in Nat : \E g : Good(g, k)}
  <2>1. 0 \in S
    <3>1. Good([s \in SUBSET (1..0) |-> CleanBase], 0)
      <4>1. \A s \in SUBSET (1..0) : s = {}
        OBVIOUS
      <4> QED BY <4>1
    <3> QED BY <3>1
  <2>2. ASSUME NEW k \in Nat, k \in S PROVE k + 1 \in S
    <3>1. PICK g : Good(g, k)
      BY <2>2
    <3> DEFINE h == [s \in SUBSET (1..k + 1) |->
                       IF k + 1 \in s THEN CleanStep(g[s \ {k + 1}], raw[k + 1]) ELSE g[s]]
    <3>2. ASSUME NEW s \in SUBSET (1..k) PROVE s \in SUBSET (1..k + 1) /\ h[s] = g[s]
      <4>1. k + 1 \notin s /\ s \in SUBSET (1..k + 1)
        OBVIOUS
      <4> QED BY <4>1
    <3>3. ASSUME NEW s \in SUBSET (1..k + 1) PROVE h[s] = Body(h, s)
      <4>1. CASE k + 1 \in s
        <5>1. Max(s) = k + 1 /\ s \ {k + 1} \in SUBSET (1..k) /\ s # {}
          BY <4>1, GreatestOf
        <5>2. h[s \ {k + 1}] = g[s \ {k + 1}]
          BY <3>2, <5>1
        <5>3. h[s] = CleanStep(g[s \ {k + 1}], raw[k + 1])
          BY <4>1
        <5> HIDE DEF h
        <5> QED BY <5>1, <5>2, <5>3
      <4>2. CASE k + 1 \notin s
        <5>1. s \in SUBSET (1..k)
          BY <4>2, GreatestOf
        <5>2. h[s] = g[s] /\ h[s \ {Max(s)}] = g[s \ {Max(s)}]
          BY <3>2, <5>1
        <5>3. g[s] = Body(g, s)
          BY <3>1, <5>1
        <5> HIDE DEF h
        <5> QED BY <5>2, <5>3
      <4> QED BY <4>1, <4>2
    <3> HIDE DEF h, Body
    <3>4. Good(h, k + 1)
      BY <3>3
    <3> QED BY <3>4
  <2> HIDE DEF S
  <2>3. Nat \subseteq S
    BY <2>1, <2>2, Induction
  <2> QED BY <2>3 DEF S
<1>3. \E g : g = [s \in SUBSET (DOMAIN raw) |-> Body(g, s)]
  <2>1. PICK g : Good(g, n)
    BY <1>2
  <2> DEFINE h == [s \in SUBSET (1..n) |-> g[s]]
             t == [s \in SUBSET (1..n) |-> Body(h, s)]
  <2>2. ASSUME NEW s \in SUBSET (1..n) PROVE h[s] = t[s]
    <3>1. h[s] = g[s] /\ s \ {Max(s)} \in SUBSET (1..n)
      OBVIOUS
    <3>2. h[s \ {Max(s)}] = g[s \ {Max(s)}]
      BY <3>1
    <3>3. g[s] = Body(g, s)
      BY <2>1
    <3>4. t[s] = Body(h, s)
      OBVIOUS
    <3> HIDE DEF h, t
    <3> QED BY <3>1, <3>2, <3>3, <3>4
  <2>3. h = t
    <3>1. h = [s \in SUBSET (1..n) |-> h[s]] /\ t = [s \in SUBSET (1..n) |-> t[s]]
      OBVIOUS
    <3> HIDE DEF h, t
    <3> QED BY <2>2, <3>1
  <2>4. h = [s \in SUBSET (DOMAIN raw) |-> Body(h, s)]
    <3> HIDE DEF h, Body
    <3> QED BY <2>3
  <2> HIDE DEF h, t, Body
  <2> QED BY <2>4
<1>4. Iter = [s \in SUBSET (1..n) |-> Body(Iter, s)]
  <2> HIDE DEF Body
  <2> QED BY <1>3
<1> DEFINE f == [k \in 0..n |-> Iter[1..k]]
<1>5. ASSUME NEW k \in 0..n PROVE f[k] = Body(Iter, 1..k)
  <2> HIDE DEF Iter, Body
  <2>1. 1..k \in SUBSET (1..n)
    OBVIOUS
  <2> QED BY <1>4, <2>1
<1>6. f[0] = CleanBase
  <2>1. 1..0 = {} /\ 0 \in 0..n
    OBVIOUS
  <2> HIDE DEF f, Iter
  <2> QED BY <1>5, <2>1
<1>7. ASSUME NEW k \in 1..n PROVE f[k] = CleanStep(f[k - 1], raw[k])
  <2>1. k - 1 \in Nat /\ (k - 1) + 1 = k /\ 1..k \in SUBSET (1..(k - 1) + 1) /\ k \in 1..k
        /\ k \in 0..n /\ k - 1 \in 0..n
    OBVIOUS
  <2>2. Max(1..k) = k
    BY <2>1, GreatestOf
  <2>3. (1..k) \ {k} = 1..k - 1 /\ 1..k # {}
    <3> HIDE DEF f, Iter
    <3>1. k \in Nat /\ k >= 1
      OBVIOUS
    <3>2. ASSUME NEW x PROVE x \in (1..k) \ {k} <=> x \in 1..k - 1
      BY <3>1
    <3> QED BY <3>2, <2>1
  <2>4. f[k] = CleanStep(Iter[1..k - 1], raw[k])
    <3> HIDE DEF f, Iter
    <3> QED BY <1>5, <2>1, <2>2, <2>3
  <2>5. f[k - 1] = Iter[1..k - 1]
    BY <2>1
  <2> HIDE DEF f, Iter
  <2> QED BY <2>4, <2>5
<1>8. f[n] = Iter[1..n]
  OBVIOUS
<1> HIDE DEF f, Iter
<1> QED BY <1>1, <1>6, <1>7, <1>8

\* One more element makes the next prefix.
LEMMA AppendedPrefix ==
  ASSUME NEW s, NEW T, s \in Seq(T), NEW k \in 0..Len(s) - 1
  PROVE  SubSeq(s, 1, k) \o <<s[k + 1]>> = SubSeq(s, 1, k + 1)
<1> DEFINE p == SubSeq(s, 1, k)
           q == SubSeq(s, 1, k + 1)
           r == p \o <<s[k + 1]>>
<1>1. Len(s) \in Nat /\ k \in Nat /\ k + 1 <= Len(s) /\ s[k + 1] \in T
  OBVIOUS
<1>2. p \in Seq(T) /\ Len(p) = k /\ \A i \in 1..k : p[i] = s[i]
  BY <1>1
<1>3. q \in Seq(T) /\ Len(q) = k + 1 /\ \A i \in 1..k + 1 : q[i] = s[i]
  BY <1>1
<1> HIDE DEF p, q
<1>4. r \in Seq(T) /\ Len(r) = k + 1 /\ \A i \in 1..k + 1 : r[i] = s[i]
  BY <1>1, <1>2
<1> HIDE DEF r
<1>5. r = q
  BY <1>1, <1>3, <1>4, SeqEqual
<1> QED BY <1>5 DEF p, q, r

\* What may come out of a paste.
Clear == Readable \cup {"replacement"}

\* A character that may come in is shown as characters that may come out.
LEMMA ShownClear ==
  ASSUME NEW c \in Raw
  PROVE  Shown(c) \in Seq(Clear)
<1>1. CASE c \in Replaced
  <2>1. Shown(c) = <<"replacement">>
    BY <1>1 DEF Shown, Replaced, Escapes
  <2> QED BY <2>1 DEF Clear
<1>2. CASE c \notin Replaced /\ c \in Escapes \cup {"cr"}
  <2>1. Shown(c) = <<>>
    BY <1>2 DEF Shown, Escapes
  <2> QED BY <2>1
<1>3. CASE c = "tab"
  BY <1>3 DEF Shown, Clear, Readable, Replaced, Escapes
<1>4. CASE c \in Readable
  <2>1. c \notin Replaced /\ c \notin Escapes \cup {"cr"} /\ c # "tab"
    BY <1>4 DEF Readable, Replaced, Escapes
  <2> QED BY <1>4, <2>1 DEF Shown, Clear
<1> QED BY <1>1, <1>2, <1>3, <1>4 DEF Raw, Replaced

\* What a paste is cleaned to may come out.
LEMMA CleanClear ==
  ASSUME NEW raw \in Seq(Raw)
  PROVE  Clean(raw) \in Seq(Clear)
<1>1. Len(raw) \in Nat /\ DOMAIN raw = 1..Len(raw) /\ \A k \in 1..Len(raw) : raw[k] \in Raw
  OBVIOUS
<1>2. PICK f : /\ f[0] = CleanBase
               /\ \A k \in 1..Len(raw) : f[k] = CleanStep(f[k - 1], raw[k])
               /\ Clean(raw) = f[Len(raw)].out
  BY <1>1, CleanUnfolds
<1> DEFINE S == {k \in Nat : k <= Len(raw) => f[k].out \in Seq(Clear)}
<1>3. 0 \in S
  <2>1. CleanBase.out = <<>> /\ <<>> \in Seq(Clear)
    BY DEF CleanBase
  <2>2. f[0].out \in Seq(Clear)
    BY <1>2, <2>1, Zenon
  <2> QED BY <2>2
<1>4. ASSUME NEW k \in Nat, k \in S PROVE k + 1 \in S
  <2> SUFFICES ASSUME k + 1 <= Len(raw) PROVE f[k + 1].out \in Seq(Clear)
    OBVIOUS
  <2>1. k + 1 \in 1..Len(raw) /\ (k + 1) - 1 = k /\ f[k].out \in Seq(Clear)
    BY <1>1, <1>4
  <2>2. f[k + 1] = CleanStep(f[k], raw[k + 1])
    <3>1. f[k + 1] = CleanStep(f[(k + 1) - 1], raw[k + 1])
      BY <1>2, <2>1, Zenon
    <3> QED BY <2>1, <3>1, Zenon
  <2>4. f[k + 1].out = IF f[k].mode = "text" THEN f[k].out \o Shown(raw[k + 1])
                       ELSE f[k].out
    BY <2>2 DEF CleanStep
  <2>3. Shown(raw[k + 1]) \in Seq(Clear)
    BY <1>1, <2>1, ShownClear
  <2> QED BY <2>1, <2>3, <2>4
<1> HIDE DEF S
<1>5. Len(raw) \in S
  BY <1>1, <1>3, <1>4, Induction
<1> QED BY <1>1, <1>2, <1>5 DEF S

\* What may come out is left as it is when it comes in again.
LEMMA CleanKeeps ==
  ASSUME NEW raw \in Seq(Clear)
  PROVE  Clean(raw) = raw
<1>1. Len(raw) \in Nat /\ DOMAIN raw = 1..Len(raw) /\ \A k \in 1..Len(raw) : raw[k] \in Clear
  OBVIOUS
<1>2. PICK f : /\ f[0] = CleanBase
               /\ \A k \in 1..Len(raw) : f[k] = CleanStep(f[k - 1], raw[k])
               /\ Clean(raw) = f[Len(raw)].out
  BY <1>1, CleanUnfolds
<1> DEFINE S == {k \in Nat : k <= Len(raw) =>
                               f[k].mode = "text" /\ f[k].out = SubSeq(raw, 1, k)}
<1>3. 0 \in S
  <2>1. CleanBase.out = <<>> /\ CleanBase.mode = "text" /\ SubSeq(raw, 1, 0) = <<>>
    BY DEF CleanBase
  <2>2. f[0].mode = "text" /\ f[0].out = SubSeq(raw, 1, 0)
    BY <1>2, <2>1, Zenon
  <2> QED BY <2>2
<1>4. ASSUME NEW k \in Nat, k \in S PROVE k + 1 \in S
  <2> SUFFICES ASSUME k + 1 <= Len(raw)
               PROVE  f[k + 1].mode = "text" /\ f[k + 1].out = SubSeq(raw, 1, k + 1)
    OBVIOUS
  <2>1. k + 1 \in 1..Len(raw) /\ (k + 1) - 1 = k /\ f[k].mode = "text"
        /\ f[k].out = SubSeq(raw, 1, k)
    BY <1>1, <1>4
  <2> DEFINE c == raw[k + 1]
  <2>2. c \in Clear
    BY <1>1, <2>1
  <2>3. c \notin Replaced /\ c \notin Escapes \cup {"cr"} /\ c # "tab"
    BY <2>2 DEF Clear, Readable, Replaced, Escapes
  <2> HIDE DEF c
  <2>4. Shown(c) = <<c>> /\ NextMode("text", c) = "text"
    BY <2>3 DEF Shown, NextMode
  <2>5. f[k + 1].mode = "text" /\ f[k + 1].out = SubSeq(raw, 1, k) \o <<c>>
    <3>1. f[k + 1] = CleanStep(f[(k + 1) - 1], c)
      BY <1>2, <2>1, Zenon DEF c
    <3>2. f[k + 1] = CleanStep(f[k], c)
      BY <2>1, <3>1, Zenon
    <3> QED BY <2>1, <2>4, <3>2 DEF CleanStep
  <2>6. SubSeq(raw, 1, k) \o <<c>> = SubSeq(raw, 1, k + 1)
    BY <1>1, <2>1, AppendedPrefix DEF c
  <2> QED BY <2>5, <2>6
<1> HIDE DEF S
<1>5. Len(raw) \in S
  BY <1>1, <1>3, <1>4, Induction
<1>6. SubSeq(raw, 1, Len(raw)) = raw
  OBVIOUS
<1> QED BY <1>1, <1>2, <1>5, <1>6 DEF S

\* A paste is made of what the terminal may send, throughout.
PasteTyped == pasted \in Seq(Raw)

\* Such a paste is cleaned of everything the terminal would act on.
LEMMA PasteTypedClean ==
  PasteTyped => PasteIsClean
<1> SUFFICES ASSUME PasteTyped PROVE PasteIsClean
  OBVIOUS
<1> DEFINE clean == Clean(pasted)
<1>1. clean \in Seq(Clear)
  BY CleanClear DEF PasteTyped
<1> HIDE DEF clean
<1>2. ToSet(clean) \subseteq Clear
  BY <1>1 DEF ToSet
<1>3. Clean(clean) = clean
  BY <1>1, CleanKeeps
<1>4. ASSUME ToSet(pasted) \subseteq Readable PROVE clean = pasted
  <2>1. pasted \in Seq(Clear)
    BY <1>4 DEF ToSet, PasteTyped, Clear
  <2> QED BY <2>1, CleanKeeps DEF clean
<1> QED BY <1>2, <1>3, <1>4 DEF PasteIsClean, clean, Clear

\* No paste brings in a character the terminal would act on, cleaning twice
\* changes nothing more, and readable text is kept as it is.
THEOREM PasteClean ==
  EditSpec => []PasteIsClean
<1>1. EditInit => PasteTyped
  BY DEF EditInit, PasteTyped
<1>2. PasteTyped /\ [EditNext]_lineVars => PasteTyped'
  <2> SUFFICES ASSUME PasteTyped, [EditNext]_lineVars PROVE PasteTyped'
    OBVIOUS
  <2>1. CASE LineKey
    BY <2>1 DEF LineKey, PasteTyped
  <2>2. CASE Copy
    BY <2>2 DEF Copy, PasteTyped
  <2>3. CASE EditPaste
    BY <2>3 DEF EditPaste, PasteTyped
  <2>4. CASE UNCHANGED lineVars
    BY <2>4 DEF lineVars, PasteTyped
  <2>5. Move \/ Up \/ Down \/ Type \/ DeleteBack \/ DeleteForward
        \/ Submit => LineKey
    BY DEF Move, MoveTo, Up, Down, Type, DeleteBack,
           DeleteForward, Submit
  <2> QED BY <2>1, <2>2, <2>3, <2>4, <2>5 DEF EditNext
<1>3. EditSpec => []PasteTyped
  BY <1>1, <1>2, PTL DEF EditSpec
<1> QED BY <1>3, PasteTypedClean, PTL

\* The bytes of a text are counted character by character: there are the counts
\* after each.
LEMMA BytesUnfold ==
  ASSUME NEW raw, NEW n \in Nat, DOMAIN raw = 1..n
  PROVE  \E f : /\ f[0] = 0
                /\ \A k \in 1..n : f[k] = f[k - 1] + SizeOf[raw[k]]
                /\ Bytes(raw) = f[n]
<1> DEFINE Body(g, s) == IF s = {} THEN 0
                         ELSE g[s \ {Max(s)}] + SizeOf[raw[Max(s)]]
           Good(g, k) == \A s \in SUBSET (1..k) : g[s] = Body(g, s)
           Iter == CHOOSE g : g = [s \in SUBSET (DOMAIN raw) |-> Body(g, s)]
<1>1. Bytes(raw) = Iter[1..n]
  BY Zenon DEF Bytes, FoldLeft, MapThenFoldSet
<1>2. \E g : Good(g, n)
  <2> DEFINE S == {k \in Nat : \E g : Good(g, k)}
  <2>1. 0 \in S
    <3>1. Good([s \in SUBSET (1..0) |-> 0], 0)
      <4>1. \A s \in SUBSET (1..0) : s = {}
        OBVIOUS
      <4> QED BY <4>1
    <3> QED BY <3>1
  <2>2. ASSUME NEW k \in Nat, k \in S PROVE k + 1 \in S
    <3>1. PICK g : Good(g, k)
      BY <2>2
    <3> DEFINE h == [s \in SUBSET (1..k + 1) |->
                       IF k + 1 \in s THEN g[s \ {k + 1}] + SizeOf[raw[k + 1]] ELSE g[s]]
    <3>2. ASSUME NEW s \in SUBSET (1..k) PROVE s \in SUBSET (1..k + 1) /\ h[s] = g[s]
      <4>1. k + 1 \notin s /\ s \in SUBSET (1..k + 1)
        OBVIOUS
      <4> QED BY <4>1
    <3>3. ASSUME NEW s \in SUBSET (1..k + 1) PROVE h[s] = Body(h, s)
      <4>1. CASE k + 1 \in s
        <5>1. Max(s) = k + 1 /\ s \ {k + 1} \in SUBSET (1..k) /\ s # {}
          BY <4>1, GreatestOf
        <5>2. h[s \ {k + 1}] = g[s \ {k + 1}]
          BY <3>2, <5>1
        <5>3. h[s] = g[s \ {k + 1}] + SizeOf[raw[k + 1]]
          BY <4>1
        <5> HIDE DEF h
        <5> QED BY <5>1, <5>2, <5>3
      <4>2. CASE k + 1 \notin s
        <5>1. s \in SUBSET (1..k)
          BY <4>2, GreatestOf
        <5>2. h[s] = g[s] /\ h[s \ {Max(s)}] = g[s \ {Max(s)}]
          BY <3>2, <5>1
        <5>3. g[s] = Body(g, s)
          BY <3>1, <5>1
        <5> HIDE DEF h
        <5> QED BY <5>2, <5>3
      <4> QED BY <4>1, <4>2
    <3> HIDE DEF h, Body
    <3>4. Good(h, k + 1)
      BY <3>3
    <3> QED BY <3>4
  <2> HIDE DEF S
  <2>3. Nat \subseteq S
    BY <2>1, <2>2, Induction
  <2> QED BY <2>3 DEF S
<1>3. \E g : g = [s \in SUBSET (DOMAIN raw) |-> Body(g, s)]
  <2>1. PICK g : Good(g, n)
    BY <1>2
  <2> DEFINE h == [s \in SUBSET (1..n) |-> g[s]]
             t == [s \in SUBSET (1..n) |-> Body(h, s)]
  <2>2. ASSUME NEW s \in SUBSET (1..n) PROVE h[s] = t[s]
    <3>1. h[s] = g[s] /\ s \ {Max(s)} \in SUBSET (1..n)
      OBVIOUS
    <3>2. h[s \ {Max(s)}] = g[s \ {Max(s)}]
      BY <3>1
    <3>3. g[s] = Body(g, s)
      BY <2>1
    <3>4. t[s] = Body(h, s)
      OBVIOUS
    <3> HIDE DEF h, t
    <3> QED BY <3>1, <3>2, <3>3, <3>4
  <2>3. h = t
    <3>1. h = [s \in SUBSET (1..n) |-> h[s]] /\ t = [s \in SUBSET (1..n) |-> t[s]]
      OBVIOUS
    <3> HIDE DEF h, t
    <3> QED BY <2>2, <3>1
  <2>4. h = [s \in SUBSET (DOMAIN raw) |-> Body(h, s)]
    <3> HIDE DEF h, Body
    <3> QED BY <2>3
  <2> HIDE DEF h, t, Body
  <2> QED BY <2>4
<1>4. Iter = [s \in SUBSET (1..n) |-> Body(Iter, s)]
  <2> HIDE DEF Body
  <2> QED BY <1>3
<1> DEFINE f == [k \in 0..n |-> Iter[1..k]]
<1>5. ASSUME NEW k \in 0..n PROVE f[k] = Body(Iter, 1..k)
  <2> HIDE DEF Iter, Body
  <2>1. 1..k \in SUBSET (1..n)
    OBVIOUS
  <2> QED BY <1>4, <2>1
<1>6. f[0] = 0
  <2>1. 1..0 = {} /\ 0 \in 0..n
    OBVIOUS
  <2> HIDE DEF f, Iter
  <2> QED BY <1>5, <2>1
<1>7. ASSUME NEW k \in 1..n PROVE f[k] = f[k - 1] + SizeOf[raw[k]]
  <2>1. k - 1 \in Nat /\ (k - 1) + 1 = k /\ 1..k \in SUBSET (1..(k - 1) + 1) /\ k \in 1..k
        /\ k \in 0..n /\ k - 1 \in 0..n
    OBVIOUS
  <2>2. Max(1..k) = k
    BY <2>1, GreatestOf
  <2>3. (1..k) \ {k} = 1..k - 1 /\ 1..k # {}
    <3> HIDE DEF f, Iter
    <3>1. k \in Nat /\ k >= 1
      OBVIOUS
    <3>2. ASSUME NEW x PROVE x \in (1..k) \ {k} <=> x \in 1..k - 1
      BY <3>1
    <3> QED BY <3>2, <2>1
  <2>4. f[k] = Iter[1..k - 1] + SizeOf[raw[k]]
    <3> HIDE DEF f, Iter
    <3> QED BY <1>5, <2>1, <2>2, <2>3
  <2>5. f[k - 1] = Iter[1..k - 1]
    BY <2>1
  <2> HIDE DEF f, Iter
  <2> QED BY <2>4, <2>5
<1>8. f[n] = Iter[1..n]
  OBVIOUS
<1> HIDE DEF f, Iter
<1> QED BY <1>1, <1>6, <1>7, <1>8

\* A text has a count of bytes, none when it is empty.
LEMMA BytesCount ==
  ASSUME NEW s \in Seq(Chars)
  PROVE  Bytes(s) \in Nat /\ Bytes(s) >= Len(s)
         /\ (s = <<>> => Bytes(s) = 0)
<1>1. Len(s) \in Nat /\ DOMAIN s = 1..Len(s) /\ \A k \in 1..Len(s) : s[k] \in Chars
  OBVIOUS
<1>2. PICK f : /\ f[0] = 0
               /\ \A k \in 1..Len(s) : f[k] = f[k - 1] + SizeOf[s[k]]
               /\ Bytes(s) = f[Len(s)]
  BY <1>1, BytesUnfold
<1> DEFINE S == {k \in Nat : k <= Len(s) => f[k] \in Nat /\ f[k] >= k}
<1>3. 0 \in S
  BY <1>2
<1>4. ASSUME NEW k \in Nat, k \in S PROVE k + 1 \in S
  <2> SUFFICES ASSUME k + 1 <= Len(s) PROVE f[k + 1] \in Nat /\ f[k + 1] >= k + 1
    OBVIOUS
  <2>1. k + 1 \in 1..Len(s) /\ (k + 1) - 1 = k /\ f[k] \in Nat /\ f[k] >= k
    BY <1>1, <1>4
  <2>2. f[k + 1] = f[(k + 1) - 1] + SizeOf[s[k + 1]]
    BY <1>2, <2>1, Zenon
  <2>3. SizeOf[s[k + 1]] \in Nat /\ SizeOf[s[k + 1]] >= 1
    BY ChatEditorAssumption, <1>1, <2>1
  <2> QED BY <2>1, <2>2, <2>3
<1> HIDE DEF S
<1>5. Len(s) \in S
  BY <1>1, <1>3, <1>4, Induction
<1>6. s = <<>> => Len(s) = 0
  OBVIOUS
<1> QED BY <1>1, <1>2, <1>5, <1>6 DEF S

\* A character more adds its bytes.
LEMMA BytesAppend ==
  ASSUME NEW s \in Seq(Chars), NEW c \in Chars
  PROVE  Bytes(s \o <<c>>) = Bytes(s) + SizeOf[c]
<1> DEFINE n == Len(s)
           t == s \o <<c>>
<1>1. n \in Nat /\ DOMAIN s = 1..n /\ DOMAIN t = 1..n + 1 /\ t[n + 1] = c
      /\ \A k \in 1..n : t[k] = s[k] /\ s[k] \in Chars
  OBVIOUS
<1> HIDE DEF n, t
<1>2. PICK f : f[0] = 0 /\ (\A k \in 1..n : f[k] = f[k - 1] + SizeOf[s[k]]) /\ Bytes(s) = f[n]
  BY <1>1, BytesUnfold
<1>3. PICK g : g[0] = 0 /\ (\A k \in 1..n + 1 : g[k] = g[k - 1] + SizeOf[t[k]])
               /\ Bytes(t) = g[n + 1]
  BY <1>1, BytesUnfold
<1> DEFINE S == {k \in Nat : k <= n => f[k] = g[k]}
<1>4. 0 \in S
  BY <1>2, <1>3
<1>5. ASSUME NEW k \in Nat, k \in S PROVE k + 1 \in S
  <2> SUFFICES ASSUME k + 1 <= n PROVE f[k + 1] = g[k + 1]
    OBVIOUS
  <2>1. k + 1 \in 1..n /\ k + 1 \in 1..n + 1 /\ (k + 1) - 1 = k /\ f[k] = g[k]
    BY <1>1, <1>5
  <2>2. f[k + 1] = f[(k + 1) - 1] + SizeOf[s[k + 1]]
    BY <1>2, <2>1, Zenon
  <2>3. g[k + 1] = g[(k + 1) - 1] + SizeOf[t[k + 1]]
    BY <1>3, <2>1, Zenon
  <2> QED BY <1>1, <2>1, <2>2, <2>3
<1> HIDE DEF S
<1>6. n \in S
  BY <1>1, <1>4, <1>5, Induction
<1>7. f[n] = g[n]
  BY <1>1, <1>6 DEF S
<1>8. g[n + 1] = g[n] + SizeOf[c]
  <2>1. n + 1 \in 1..n + 1 /\ (n + 1) - 1 = n
    BY <1>1
  <2>2. g[n + 1] = g[(n + 1) - 1] + SizeOf[t[n + 1]]
    BY <1>3, <2>1, Zenon
  <2> QED BY <1>1, <2>1, <2>2
<1>9. Bytes(t) = Bytes(s) + SizeOf[c]
  BY <1>2, <1>3, <1>7, <1>8
<1> QED BY <1>9 DEF t

\* Appending to the second of two texts is appending to both.
LEMMA AppendLast ==
  ASSUME NEW T, NEW q \in Seq(T), NEW r \in Seq(T), NEW c \in T
  PROVE  (q \o r) \o <<c>> = q \o (r \o <<c>>)
<1> DEFINE v == <<c>>
<1>1. v \in Seq(T)
  OBVIOUS
<1> HIDE DEF v
<1>2. (q \o r) \o v = q \o (r \o v)
  BY <1>1, ConcatIsAssociative
<1> QED BY <1>2 DEF v

\* The bytes of two texts one after the other are those of both.
LEMMA BytesConcat ==
  ASSUME NEW s \in Seq(Chars), NEW t \in Seq(Chars)
  PROVE  Bytes(s \o t) = Bytes(s) + Bytes(t)
<1> DEFINE p(k) == SubSeq(t, 1, k)
           S == {k \in Nat : k <= Len(t) =>
                   Bytes(s \o p(k)) = Bytes(s) + Bytes(p(k))}
<1>1. Len(t) \in Nat /\ \A k \in 1..Len(t) : t[k] \in Chars
  OBVIOUS
<1>2. 0 \in S
  <2>1. p(0) = <<>> /\ s \o p(0) = s
    OBVIOUS
  <2> HIDE DEF p
  <2>2. <<>> \in Seq(Chars)
    OBVIOUS
  <2>3. Bytes(<<>>) = 0 /\ Bytes(s) \in Nat
    BY <2>2, BytesCount
  <2>4. Bytes(s \o p(0)) = Bytes(s) + Bytes(p(0))
    <3>1. Bytes(s \o p(0)) = Bytes(s) /\ Bytes(p(0)) = Bytes(<<>>)
      BY <2>1, Zenon
    <3> QED BY <2>3, <3>1
  <2> QED BY <2>4
<1>3. ASSUME NEW k \in Nat, k \in S PROVE k + 1 \in S
  <2> SUFFICES ASSUME k + 1 <= Len(t)
               PROVE  Bytes(s \o p(k + 1)) = Bytes(s) + Bytes(p(k + 1))
    OBVIOUS
  <2> DEFINE c == t[k + 1]
  <2>1. k \in 0..Len(t) - 1 /\ c \in Chars /\ k <= Len(t) /\ p(k) \in Seq(Chars) /\ <<c>> \in Seq(Chars)
    BY <1>1
  <2>2. p(k) \o <<c>> = p(k + 1)
    BY <2>1, AppendedPrefix
  <2>3. Bytes(s \o p(k)) = Bytes(s) + Bytes(p(k))
    BY <1>3, <2>1
  <2> HIDE DEF p, c
  <2>4. (s \o p(k)) \o <<c>> = s \o p(k + 1)
    <3>1. (s \o p(k)) \o <<c>> = s \o (p(k) \o <<c>>)
      BY <2>1, AppendLast
    <3> QED BY <2>2, <3>1, Zenon
  <2>5. s \o p(k) \in Seq(Chars)
    BY <2>1
  <2>6. Bytes(s \o p(k + 1)) = Bytes(s \o p(k)) + SizeOf[c]
    BY <2>1, <2>4, <2>5, BytesAppend
  <2>7. Bytes(p(k + 1)) = Bytes(p(k)) + SizeOf[c]
    BY <2>1, <2>2, BytesAppend
  <2>8. Bytes(s) \in Nat /\ Bytes(p(k)) \in Nat /\ SizeOf[c] \in Nat
    <3>1. SizeOf[c] \in Nat
      BY ChatEditorAssumption, <2>1
    <3> QED BY <2>1, <3>1, BytesCount
  <2> QED BY <2>3, <2>6, <2>7, <2>8
<1>4. p(Len(t)) = t
  OBVIOUS
<1> HIDE DEF S
<1>5. Len(t) \in S
  BY <1>1, <1>2, <1>3, Induction
<1>6. Bytes(s \o p(Len(t))) = Bytes(s) + Bytes(p(Len(t)))
  <2> HIDE DEF p
  <2> QED BY <1>1, <1>5 DEF S
<1> HIDE DEF p
<1> QED BY <1>4, <1>6, Zenon

\* A part of a text is a text, with its characters in their places.
LEMMA PartOf ==
  ASSUME NEW T, NEW s \in Seq(T), NEW j \in 1..Len(s) + 1, NEW k \in j - 1..Len(s)
  PROVE  /\ SubSeq(s, j, k) \in Seq(T)
         /\ Len(SubSeq(s, j, k)) = k - j + 1
         /\ \A i \in 1..k - j + 1 : SubSeq(s, j, k)[i] = s[j + i - 1]
<1>1. Len(s) \in Nat /\ j \in Nat /\ j >= 1 /\ k \in Nat /\ k <= Len(s) /\ k >= j - 1
  OBVIOUS
<1> QED BY <1>1

\* Two parts that meet make one.
LEMMA PartsMeet ==
  ASSUME NEW T, NEW s \in Seq(T), NEW i \in 1..Len(s) + 1,
         NEW j \in i - 1..Len(s), NEW k \in j..Len(s)
  PROVE  SubSeq(s, i, j) \o SubSeq(s, j + 1, k) = SubSeq(s, i, k)
<1> DEFINE p == SubSeq(s, i, j)
           q == SubSeq(s, j + 1, k)
           r == SubSeq(s, i, k)
<1>1. Len(s) \in Nat /\ i \in Nat /\ i >= 1 /\ j \in Nat /\ k \in Nat /\ j >= i - 1 /\ j <= k
      /\ k <= Len(s)
  OBVIOUS
<1>2. p \in Seq(T) /\ Len(p) = j - i + 1 /\ \A m \in 1..j - i + 1 : p[m] = s[i + m - 1]
  BY <1>1, PartOf
<1>3. q \in Seq(T) /\ Len(q) = k - j /\ \A m \in 1..k - j : q[m] = s[j + m]
  <2>1. j + 1 \in 1..Len(s) + 1 /\ k \in (j + 1) - 1..Len(s)
    BY <1>1
  <2>2. q \in Seq(T) /\ Len(q) = k - (j + 1) + 1
        /\ \A m \in 1..k - (j + 1) + 1 : q[m] = s[(j + 1) + m - 1]
    BY <2>1, PartOf
  <2> HIDE DEF q
  <2> QED BY <1>1, <2>2
<1>4. r \in Seq(T) /\ Len(r) = k - i + 1 /\ \A m \in 1..k - i + 1 : r[m] = s[i + m - 1]
  BY <1>1, PartOf
<1> HIDE DEF p, q, r
<1>5. p \o q \in Seq(T) /\ Len(p \o q) = k - i + 1
  <2>1. p \o q \in Seq(T) /\ Len(p \o q) = Len(p) + Len(q)
    BY <1>2, <1>3, ConcatProperties, Zenon
  <2> QED BY <1>1, <1>2, <1>3, <2>1
<1>6. ASSUME NEW m \in 1..k - i + 1 PROVE (p \o q)[m] = r[m]
  <2>1. m \in 1..Len(p) + Len(q)
    BY <1>1, <1>2, <1>3
  <2>2. (p \o q)[m] = IF m <= Len(p) THEN p[m] ELSE q[m - Len(p)]
    BY <1>2, <1>3, <2>1, ConcatProperties
  <2>3. CASE m <= Len(p)
    BY <1>1, <1>2, <1>4, <2>2, <2>3
  <2>4. CASE ~(m <= Len(p))
    <3>1. m - Len(p) \in 1..k - j /\ j + (m - Len(p)) = i + m - 1
      BY <1>1, <1>2, <2>4
    <3> QED BY <1>3, <1>4, <2>2, <2>4, <3>1
  <2> QED BY <2>3, <2>4
<1>7. p \o q = r
  BY <1>4, <1>5, <1>6, SeqEqual
<1> QED BY <1>7 DEF p, q, r

\* Where the last character of a kind is, 0 if there is none.
IsLast(s, K, x) ==
  x \in 0..Len(s) /\ (x > 0 => s[x] \in K) /\ \A i \in x + 1..Len(s) : s[i] \notin K

\* How much comes before the first character of a kind, all if there is none.
IsUntil(s, K, x) ==
  x \in 0..Len(s) /\ (x < Len(s) => s[x + 1] \in K) /\ \A i \in 1..x : s[i] \notin K

\* A set of the numbers up to one has a greatest and a least.
LEMMA Extremes ==
  ASSUME NEW n \in Nat, NEW I \in SUBSET (1..n), I # {}
  PROVE  /\ Max(I) \in I /\ \A i \in I : i <= Max(I)
         /\ Min(I) \in I /\ \A i \in I : Min(I) <= i
<1>1. \E x \in I : \A y \in I : x >= y
  <2> DEFINE T == {n - i : i \in I}
  <2>0. \A i \in I : i \in Nat /\ n - i \in Nat
    <3>1. \A i \in 1..n : i \in Nat /\ n - i \in Nat
      OBVIOUS
    <3> QED BY <3>1, I \in SUBSET (1..n)
  <2>1. T \subseteq Nat /\ T # {}
    BY <2>0
  <2>2. PICK d \in T : \A e \in T : d <= e
    BY <2>1, LeastExists
  <2>3. PICK x \in I : d = n - x
    BY <2>2
  <2>4. ASSUME NEW y \in I PROVE x >= y
    <3>1. n - y \in T /\ y \in Nat /\ x \in Nat
      BY <2>0
    <3>2. d <= n - y
      BY <2>2, <3>1
    <3> QED BY <2>3, <3>1, <3>2
  <2> QED BY <2>4
<1>2. \E x \in I : \A y \in I : x <= y
  <2>1. I \subseteq Nat
    OBVIOUS
  <2> QED BY <2>1, LeastExists
<1>3. Max(I) \in I /\ \A i \in I : Max(I) >= i
  BY <1>1 DEF Max
<1>4. Min(I) \in I /\ \A i \in I : Min(I) <= i
  BY <1>2 DEF Min
<1>5. I \subseteq Nat
  OBVIOUS
<1> QED BY <1>3, <1>4, <1>5

\* The searches of the editor find those places.
LEMMA LastFound ==
  ASSUME NEW s, Len(s) \in Nat, NEW K, NEW I, I = {i \in 1..Len(s) : s[i] \in K}
  PROVE  IsLast(s, K, IF I # {} THEN Max(I) ELSE 0)
<1>1. CASE I = {}
  BY <1>1 DEF IsLast
<1>2. CASE I # {}
  <2>1. Max(I) \in I /\ \A i \in I : i <= Max(I)
    BY <1>2, Extremes
  <2>2. Max(I) \in 1..Len(s) /\ s[Max(I)] \in K
    BY <2>1
  <2>3. ASSUME NEW i \in Max(I) + 1..Len(s) PROVE s[i] \notin K
    BY <2>1, <2>2
  <2> QED BY <1>2, <2>2, <2>3 DEF IsLast
<1> QED BY <1>1, <1>2

\* The first of a kind, counted by what comes before it.
LEMMA UntilFound ==
  ASSUME NEW s, Len(s) \in Nat, NEW K, NEW I, I = {i \in 1..Len(s) : s[i] \in K},
         NEW x, x = IF I # {} THEN Min(I) ELSE 0
  PROVE  IsUntil(s, K, IF x = 0 THEN Len(s) ELSE x - 1)
<1>1. CASE I = {}
  BY <1>1 DEF IsUntil
<1>2. CASE I # {}
  <2>1. Min(I) \in I /\ \A i \in I : Min(I) <= i
    BY <1>2, Extremes
  <2>2. x \in 1..Len(s) /\ s[x] \in K /\ x # 0
    BY <1>2, <2>1
  <2>3. ASSUME NEW i \in 1..x - 1 PROVE s[i] \notin K
    BY <1>2, <2>1, <2>2
  <2> QED BY <2>2, <2>3 DEF IsUntil
<1> QED BY <1>1, <1>2

NonWhite == Chars \ Whitespace

\* The searches the moves make, each for its kind of character.
LEMMA LastNewline ==
  ASSUME NEW s \in Seq(Chars)
  PROVE  IsLast(s, {"nl"}, SelectLastInSeq(s, IsNewline))
<1> DEFINE I == {i \in 1..Len(s) : s[i] \in {"nl"}}
           J == {i \in 1..Len(s) : s[i] = "nl"}
<1>1. I = J
  OBVIOUS
<1>2. Len(s) \in Nat
  OBVIOUS
<1>3. SelectLastInSeq(s, IsNewline) = IF J # {} THEN Max(J) ELSE 0
  BY Zenon DEF SelectLastInSeq, IsNewline
<1> HIDE DEF J
<1> QED BY <1>1, <1>2, <1>3, LastFound

\* Of white space, from the end.
LEMMA LastWhite ==
  ASSUME NEW s \in Seq(Chars)
  PROVE  IsLast(s, Whitespace, SelectLastInSeq(s, IsWhite))
<1> DEFINE J == {i \in 1..Len(s) : s[i] \in Whitespace}
<1>1. Len(s) \in Nat
  OBVIOUS
<1>2. SelectLastInSeq(s, IsWhite) = IF J # {} THEN Max(J) ELSE 0
  BY Zenon DEF SelectLastInSeq, IsWhite
<1> QED BY <1>1, <1>2, LastFound

\* Trimming the end stops at the last character that is no white space.
LEMMA Trimmed ==
  ASSUME NEW s \in Seq(Chars)
  PROVE  \E x : IsLast(s, NonWhite, x) /\ TrimEnd(s) = SubSeq(s, 1, x)
<1> DEFINE I == {i \in 1..Len(s) : s[i] \in NonWhite}
           J == {i \in 1..Len(s) : ~(s[i] \in Whitespace)}
<1>1. I = J
  BY DEF NonWhite
<1>2. Len(s) \in Nat
  OBVIOUS
<1>3. TrimEnd(s) = SubSeq(s, 1, IF J # {} THEN Max(J) ELSE 0)
  BY Zenon DEF TrimEnd, SelectLastInSeq, IsWhite
<1> HIDE DEF J
<1> QED BY <1>1, <1>2, <1>3, LastFound

\* Of a line break, from the start.
LEMMA UntilNewline ==
  ASSUME NEW s \in Seq(Chars)
  PROVE  IsUntil(s, {"nl"}, Until(s, IsNewline))
<1> DEFINE I == {i \in 1..Len(s) : s[i] \in {"nl"}}
           J == {i \in 1..Len(s) : s[i] = "nl"}
           x == IF J # {} THEN Min(J) ELSE 0
<1>1. I = J
  OBVIOUS
<1>2. Len(s) \in Nat
  OBVIOUS
<1>3. Until(s, IsNewline) = IF x = 0 THEN Len(s) ELSE x - 1
  BY Zenon DEF Until, SelectInSeq, IsNewline
<1> HIDE DEF J
<1> QED BY <1>1, <1>2, <1>3, UntilFound

\* Of white space, from the start.
LEMMA UntilWhite ==
  ASSUME NEW s \in Seq(Chars)
  PROVE  IsUntil(s, Whitespace, Until(s, IsWhite))
<1> DEFINE J == {i \in 1..Len(s) : s[i] \in Whitespace}
           x == IF J # {} THEN Min(J) ELSE 0
<1>1. Len(s) \in Nat
  OBVIOUS
<1>2. Until(s, IsWhite) = IF x = 0 THEN Len(s) ELSE x - 1
  BY Zenon DEF Until, SelectInSeq, IsWhite
<1> HIDE DEF J
<1> QED BY <1>1, <1>2, UntilFound DEF J

\* Trimming the start stops at the first character that is no white space.
LEMMA TrimmedStart ==
  ASSUME NEW s \in Seq(Chars)
  PROVE  \E x : IsUntil(s, NonWhite, x) /\ TrimStart(s) = SubSeq(s, x + 1, Len(s))
<1> DEFINE I == {i \in 1..Len(s) : s[i] \in NonWhite}
           J == {i \in 1..Len(s) : ~(s[i] \in Whitespace)}
           x == IF J # {} THEN Min(J) ELSE 0
<1>1. I = J
  BY DEF NonWhite
<1>2. Len(s) \in Nat
  OBVIOUS
<1>3. TrimStart(s) = SubSeq(s, (IF x = 0 THEN Len(s) ELSE x - 1) + 1, Len(s))
  BY Zenon DEF TrimStart, Until, SelectInSeq, IsWhite
<1> HIDE DEF J
<1> QED BY <1>1, <1>2, <1>3, UntilFound

\* The bytes up to a place and on to a later one.
LEMMA PartsAdd ==
  ASSUME NEW s \in Seq(Chars),
         NEW j \in 0..Len(s), NEW k \in j..Len(s)
  PROVE  /\ SubSeq(s, j + 1, k) \in Seq(Chars) /\ Len(SubSeq(s, j + 1, k)) = k - j
         /\ Bytes(SubSeq(s, 1, k)) =
              Bytes(SubSeq(s, 1, j)) + Bytes(SubSeq(s, j + 1, k))
<1>1. Len(s) \in Nat /\ j \in Nat /\ k \in Nat /\ j <= k /\ k <= Len(s)
      /\ 1 \in 1..Len(s) + 1 /\ j \in 1 - 1..Len(s)
      /\ j + 1 \in 1..Len(s) + 1 /\ k \in (j + 1) - 1..Len(s) /\ k - (j + 1) + 1 = k - j
  OBVIOUS
<1>2. SubSeq(s, 1, j) \o SubSeq(s, j + 1, k) = SubSeq(s, 1, k)
  BY <1>1, PartsMeet
<1>3. SubSeq(s, 1, j) \in Seq(Chars)
  BY <1>1, PartOf
<1>4. SubSeq(s, j + 1, k) \in Seq(Chars) /\ Len(SubSeq(s, j + 1, k)) = k - (j + 1) + 1
  BY <1>1, PartOf
<1>5. Bytes(SubSeq(s, 1, j) \o SubSeq(s, j + 1, k)) =
        Bytes(SubSeq(s, 1, j)) + Bytes(SubSeq(s, j + 1, k))
  BY <1>3, <1>4, BytesConcat
<1>6. Len(SubSeq(s, j + 1, k)) = k - j
  BY <1>1, <1>4, Zenon
<1> QED BY <1>2, <1>4, <1>5, <1>6, Zenon

\* The byte index of a place is that of no other.
LEMMA PlacesDiffer ==
  ASSUME NEW s \in Seq(Chars),
         NEW j \in 0..Len(s), NEW k \in 0..Len(s),
         Bytes(SubSeq(s, 1, j)) = Bytes(SubSeq(s, 1, k))
  PROVE  j = k
<1>1. ASSUME NEW a \in 0..Len(s), NEW b \in 0..Len(s), a < b
      PROVE  Bytes(SubSeq(s, 1, a)) # Bytes(SubSeq(s, 1, b))
  <2> DEFINE p == SubSeq(s, a + 1, b)
             q == SubSeq(s, 1, a)
  <2>1. Len(s) \in Nat /\ b \in a..Len(s) /\ 1 \in 1..Len(s) + 1 /\ a \in 1 - 1..Len(s)
        /\ b - a >= 1
    BY <1>1
  <2>2. p \in Seq(Chars) /\ Len(p) = b - a
        /\ Bytes(SubSeq(s, 1, b)) = Bytes(q) + Bytes(p)
    BY <2>1, PartsAdd
  <2>3. q \in Seq(Chars)
    BY <2>1, PartOf
  <2> HIDE DEF p, q
  <2>4. Bytes(p) \in Nat /\ Bytes(p) >= Len(p) /\ Bytes(q) \in Nat
    BY <2>2, <2>3, BytesCount
  <2>5. Bytes(q) # Bytes(q) + Bytes(p)
    BY <2>1, <2>2, <2>4
  <2> QED BY <2>2, <2>5 DEF q
<1>2. j \in Nat /\ k \in Nat
  OBVIOUS
<1>3. CASE j < k
  BY <1>1, <1>3
<1>4. CASE k < j
  BY <1>1, <1>4
<1> QED BY <1>2, <1>3, <1>4

\* Slicing the text at the byte index of a place gives what comes before it.
LEMMA SliceAt ==
  ASSUME line \in Seq(Chars), NEW k \in 0..Len(line)
  PROVE  PrefixTo(Bytes(SubSeq(line, 1, k))) = SubSeq(line, 1, k)
<1> DEFINE at == Bytes(SubSeq(line, 1, k))
           chosen == CHOOSE i \in 0..Len(line) : Bytes(SubSeq(line, 1, i)) = at
<1>1. chosen \in 0..Len(line) /\ Bytes(SubSeq(line, 1, chosen)) = at
  OBVIOUS
<1>2. chosen = k
  <2> HIDE DEF chosen
  <2> QED BY <1>1, PlacesDiffer
<1>3. PrefixTo(at) = SubSeq(line, 1, chosen)
  BY Zenon DEF PrefixTo
<1> QED BY <1>2, <1>3, Zenon

\* The cursor is after the first c characters of the text.
CursorAfter(c) ==
  line \in Seq(Chars) /\ c \in 0..Len(line) /\ cursor = Bytes(SubSeq(line, 1, c))

\* What comes after a place of a sequence.
LEMMA RestOf ==
  ASSUME NEW T, NEW s \in Seq(T), NEW j \in 0..Len(s), NEW k \in j..Len(s)
  PROVE  /\ SubSeq(s, j + 1, k) \in Seq(T) /\ Len(SubSeq(s, j + 1, k)) = k - j
         /\ \A i \in 1..k - j : SubSeq(s, j + 1, k)[i] = s[j + i]
<1> DEFINE p == SubSeq(s, j + 1, k)
<1>1. Len(s) \in Nat /\ j \in Nat /\ k \in Nat /\ j <= k /\ k <= Len(s)
      /\ j + 1 \in 1..Len(s) + 1 /\ k \in (j + 1) - 1..Len(s) /\ k - (j + 1) + 1 = k - j
  OBVIOUS
<1>2. p \in Seq(T) /\ Len(p) = k - (j + 1) + 1
      /\ \A m \in 1..k - (j + 1) + 1 : p[m] = s[(j + 1) + m - 1]
  BY <1>1, PartOf
<1> HIDE DEF p
<1>3. Len(p) = k - j
  BY <1>1, <1>2
<1>4. ASSUME NEW i \in 1..k - j PROVE p[i] = s[j + i]
  <2>1. i \in 1..k - (j + 1) + 1 /\ (j + 1) + i - 1 = j + i
    BY <1>1
  <2> QED BY <1>2, <2>1
<1> QED BY <1>2, <1>3, <1>4 DEF p

\* What comes before the cursor, how much, and what comes after it.
LEMMA Around ==
  ASSUME NEW c, CursorAfter(c)
  PROVE  /\ Before = SubSeq(line, 1, c) /\ Count = c
         /\ After = SubSeq(line, c + 1, Len(line))
         /\ Before \in Seq(Chars) /\ Len(Before) = c
         /\ \A i \in 1..c : Before[i] = line[i]
         /\ After \in Seq(Chars) /\ Len(After) = Len(line) - c
         /\ \A i \in 1..Len(line) - c : After[i] = line[c + i]
<1>1. line \in Seq(Chars) /\ c \in 0..Len(line) /\ cursor = Bytes(SubSeq(line, 1, c))
  BY DEF CursorAfter
<1>2. Len(line) \in Nat /\ c \in Nat /\ c <= Len(line) /\ 1 \in 1..Len(line) + 1
      /\ c \in 1 - 1..Len(line) /\ c - 1 + 1 = c
      /\ c + 1 \in 1..Len(line) + 1 /\ Len(line) \in (c + 1) - 1..Len(line)
      /\ Len(line) \in c..Len(line)
  BY <1>1
<1>3. Before = SubSeq(line, 1, c)
  BY <1>1, SliceAt DEF Before
<1>4. SubSeq(line, 1, c) \in Seq(Chars) /\ Len(SubSeq(line, 1, c)) = c
      /\ \A i \in 1..c : SubSeq(line, 1, c)[i] = line[i]
  BY <1>1, <1>2
<1>5. Count = c
  BY <1>3, <1>4 DEF Count
<1>6. After = SubSeq(line, c + 1, Len(line))
  BY <1>5 DEF After
<1>7. SubSeq(line, c + 1, Len(line)) \in Seq(Chars)
      /\ Len(SubSeq(line, c + 1, Len(line))) = Len(line) - c
      /\ \A i \in 1..Len(line) - c : SubSeq(line, c + 1, Len(line))[i] = line[c + i]
  BY <1>1, <1>2, RestOf, Zenon
<1> QED BY <1>3, <1>4, <1>5, <1>6, <1>7

\* A part of a part is a part of the whole.
LEMMA PartOfPart ==
  ASSUME NEW T, NEW s \in Seq(T), NEW j \in 0..Len(s), NEW k \in j..Len(s),
         NEW a \in 0..k - j, NEW b \in a..k - j
  PROVE  SubSeq(SubSeq(s, j + 1, k), a + 1, b) = SubSeq(s, j + a + 1, j + b)
<1> DEFINE p == SubSeq(s, j + 1, k)
           q == SubSeq(p, a + 1, b)
           r == SubSeq(s, j + a + 1, j + b)
<1>1. Len(s) \in Nat /\ j \in Nat /\ k \in Nat /\ a \in Nat /\ b \in Nat /\ j <= k
      /\ k <= Len(s) /\ a <= b /\ b <= k - j
  OBVIOUS
<1>2. p \in Seq(T) /\ Len(p) = k - j /\ \A i \in 1..k - j : p[i] = s[j + i]
  BY RestOf, Zenon
<1> HIDE DEF p
<1>3. a \in 0..Len(p) /\ b \in a..Len(p)
  BY <1>1, <1>2
<1>4. q \in Seq(T) /\ Len(q) = b - a /\ \A i \in 1..b - a : q[i] = p[a + i]
  BY <1>2, <1>3, RestOf, Zenon
<1>5. j + a \in 0..Len(s) /\ j + b \in j + a..Len(s) /\ (j + b) - (j + a) = b - a
  BY <1>1
<1>6. r \in Seq(T) /\ Len(r) = (j + b) - (j + a)
      /\ \A i \in 1..(j + b) - (j + a) : r[i] = s[(j + a) + i]
  BY <1>5, RestOf, Zenon
<1> HIDE DEF q, r
<1>7. Len(q) = Len(r)
  BY <1>4, <1>5, <1>6
<1>8. ASSUME NEW i \in 1..Len(q) PROVE q[i] = r[i]
  <2>1. i \in 1..b - a /\ i \in 1..(j + b) - (j + a) /\ a + i \in 1..k - j
        /\ j + (a + i) = (j + a) + i
    BY <1>1, <1>4, <1>5
  <2>2. q[i] = p[a + i] /\ p[a + i] = s[j + (a + i)] /\ r[i] = s[(j + a) + i]
    BY <1>2, <1>4, <1>6, <2>1, Zenon
  <2> QED BY <2>1, <2>2, Zenon
<1>9. q = r
  BY <1>4, <1>6, <1>7, <1>8, SeqEqual
<1> QED BY <1>9 DEF p, q, r

\* The parts of what comes before the cursor and after it, in the text.
LEMMA PartsAround ==
  ASSUME NEW c, CursorAfter(c)
  PROVE  /\ \A x \in 0..c : SubSeq(Before, 1, x) = SubSeq(line, 1, x)
         /\ \A x \in 0..Len(line) - c :
              /\ SubSeq(After, 1, x) = SubSeq(line, c + 1, c + x)
              /\ SubSeq(After, x + 1, Len(After)) = SubSeq(line, c + x + 1, Len(line))
              /\ cursor + Bytes(SubSeq(After, 1, x)) = At(c + x)
<1>1. line \in Seq(Chars) /\ c \in 0..Len(line) /\ cursor = Bytes(SubSeq(line, 1, c))
  BY DEF CursorAfter
<1>2. Len(line) \in Nat /\ c \in Nat /\ c <= Len(line) /\ 0 \in 0..Len(line) /\ c \in 0..Len(line)
      /\ Len(line) \in c..Len(line) /\ c - 0 = c /\ 0 + 1 = 1
  BY <1>1
<1>3. Before = SubSeq(line, 1, c) /\ After = SubSeq(line, c + 1, Len(line))
      /\ Len(After) = Len(line) - c
  BY Around
<1>4. ASSUME NEW x \in 0..c PROVE SubSeq(Before, 1, x) = SubSeq(line, 1, x)
  <2>1. 0 \in 0..c - 0 /\ x \in 0..c - 0 /\ 0 + 0 + 1 = 1 /\ 0 + x = x
    BY <1>2
  <2>2. SubSeq(SubSeq(line, 0 + 1, c), 0 + 1, x) = SubSeq(line, 0 + 0 + 1, 0 + x)
    BY <1>1, <1>2, <2>1, PartOfPart
  <2> QED BY <1>2, <1>3, <2>1, <2>2
<1>5. ASSUME NEW x \in 0..Len(line) - c
      PROVE  /\ SubSeq(After, 1, x) = SubSeq(line, c + 1, c + x)
             /\ SubSeq(After, x + 1, Len(After)) = SubSeq(line, c + x + 1, Len(line))
             /\ cursor + Bytes(SubSeq(After, 1, x)) = At(c + x)
  <2>1. 0 \in 0..Len(line) - c /\ x \in 0..Len(line) - c /\ c + 0 + 1 = c + 1 /\ c + x \in c..Len(line)
        /\ Len(line) - c \in x..Len(line) - c /\ c + (Len(line) - c) = Len(line)
    BY <1>2
  <2>2. SubSeq(SubSeq(line, c + 1, Len(line)), 0 + 1, x) = SubSeq(line, c + 0 + 1, c + x)
    BY <1>1, <1>2, <2>1, PartOfPart
  <2>3. SubSeq(After, 1, x) = SubSeq(line, c + 1, c + x)
    BY <1>2, <1>3, <2>1, <2>2
  <2>4. SubSeq(SubSeq(line, c + 1, Len(line)), x + 1, Len(line) - c) =
          SubSeq(line, c + x + 1, c + (Len(line) - c))
    BY <1>1, <1>2, <2>1, PartOfPart
  <2>5. SubSeq(After, x + 1, Len(After)) = SubSeq(line, c + x + 1, Len(line))
    BY <1>3, <2>1, <2>4, Zenon
  <2>6. Bytes(SubSeq(line, 1, c + x)) =
          Bytes(SubSeq(line, 1, c)) + Bytes(SubSeq(line, c + 1, c + x))
    BY <1>1, <2>1, PartsAdd, Zenon
  <2> QED BY <1>1, <2>3, <2>5, <2>6, Zenon DEF At
<1> QED BY <1>4, <1>5

\* Left and Right go one character, unless there is none.
LEMMA StepsAt ==
  ASSUME NEW c, CursorAfter(c)
  PROVE  /\ Left = At(IF c = 0 THEN 0 ELSE c - 1)
         /\ Right = At(IF c = Len(line) THEN c ELSE c + 1)
<1>1. line \in Seq(Chars) /\ c \in 0..Len(line) /\ cursor = Bytes(SubSeq(line, 1, c))
  BY DEF CursorAfter
<1>2. Len(line) \in Nat /\ c \in Nat /\ c <= Len(line)
  BY <1>1
<1>3. Len(Before) = c /\ Before \in Seq(Chars) /\ (\A i \in 1..c : Before[i] = line[i])
      /\ After \in Seq(Chars) /\ Len(After) = Len(line) - c
      /\ \A i \in 1..Len(line) - c : After[i] = line[c + i]
  BY Around, Zenon
<1>4. \A k \in 1..Len(line) : At(k) = At(k - 1) + SizeOf[line[k]]
                              /\ At(k - 1) \in Nat /\ SizeOf[line[k]] \in Nat
  <2> TAKE k \in 1..Len(line)
  <2>1. k - 1 \in 0..Len(line) - 1 /\ (k - 1) + 1 = k /\ line[k] \in Chars
        /\ SubSeq(line, 1, k - 1) \in Seq(Chars)
    BY <1>1
  <2>2. SubSeq(line, 1, k - 1) \o <<line[(k - 1) + 1]>> = SubSeq(line, 1, (k - 1) + 1)
    BY <1>1, <2>1, AppendedPrefix
  <2>3. Bytes(SubSeq(line, 1, k - 1) \o <<line[k]>>) =
          Bytes(SubSeq(line, 1, k - 1)) + SizeOf[line[k]]
    BY <2>1, BytesAppend, Zenon
  <2>4. Bytes(SubSeq(line, 1, k - 1)) \in Nat
    BY <2>1, BytesCount
  <2>5. SizeOf[line[k]] \in Nat
    BY ChatEditorAssumption, <2>1
  <2> QED BY <2>1, <2>2, <2>3, <2>4, <2>5, Zenon DEF At
<1>5. cursor = At(c)
  BY <1>1 DEF At
<1>6. Left = At(IF c = 0 THEN 0 ELSE c - 1)
  <2>1. CASE c = 0
    <3>1. Before = <<>>
      BY <1>3, <2>1
    <3> QED BY <1>5, <2>1, <3>1 DEF Left
  <2>2. CASE c # 0
    <3>1. c \in 1..Len(line) /\ c \in 1..c
      BY <1>2, <2>2
    <3>2. Before # <<>> /\ Last(Before) = line[c]
      BY <1>3, <2>2, <3>1 DEF Last
    <3>3. Left = cursor - SizeOf[line[c]]
      BY <3>2, Zenon DEF Left
    <3>4. At(c) = At(c - 1) + SizeOf[line[c]] /\ At(c - 1) \in Nat /\ SizeOf[line[c]] \in Nat
      BY <1>4, <3>1, Zenon
    <3> QED BY <1>5, <2>2, <3>3, <3>4
  <2> QED BY <2>1, <2>2
<1>7. Right = At(IF c = Len(line) THEN c ELSE c + 1)
  <2>1. CASE c = Len(line)
    <3>1. After = <<>>
      BY <1>2, <1>3, <2>1
    <3> QED BY <1>5, <2>1, <3>1 DEF Right
  <2>2. CASE c # Len(line)
    <3>1. c + 1 \in 1..Len(line) /\ 1 \in 1..Len(line) - c /\ (c + 1) - 1 = c
      BY <1>2, <2>2
    <3>2. After # <<>> /\ Head(After) = line[c + 1]
      BY <1>3, <3>1
    <3>3. Right = cursor + SizeOf[line[c + 1]]
      BY <3>2, Zenon DEF Right
    <3>4. At(c + 1) = At((c + 1) - 1) + SizeOf[line[c + 1]]
      BY <1>4, <3>1, Zenon
    <3> QED BY <1>5, <2>2, <3>1, <3>3, <3>4
  <2> QED BY <2>1, <2>2
<1> QED BY <1>6, <1>7

\* The last character of a kind among the first n of the text, and the place
\* before the next one of a kind after them.
LastIn(K, n, x) ==
  x \in 0..n /\ (x > 0 => line[x] \in K) /\ \A i \in x + 1..n : line[i] \notin K
NextIn(K, n, x) ==
  /\ x \in n..Len(line) /\ (x < Len(line) => line[x + 1] \in K)
  /\ \A i \in n + 1..x : line[i] \notin K

\* A search of a part of the text finds them.
LEMMA LastOfPart ==
  ASSUME line \in Seq(Chars), NEW n \in 0..Len(line), NEW K, NEW x,
         IsLast(SubSeq(line, 1, n), K, x)
  PROVE  LastIn(K, n, x)
<1> DEFINE p == SubSeq(line, 1, n)
<1>1. Len(line) \in Nat /\ n \in Nat /\ n <= Len(line)
  OBVIOUS
<1>2. Len(p) = n /\ \A i \in 1..n : p[i] = line[i]
  BY <1>1
<1>3. IsLast(p, K, x)
  OBVIOUS
<1> HIDE DEF p
<1>4. x \in 0..n /\ (x > 0 => p[x] \in K) /\ \A i \in x + 1..n : p[i] \notin K
  BY <1>2, <1>3 DEF IsLast
<1>5. (x > 0 => x \in 1..n) /\ \A i \in x + 1..n : i \in 1..n
  BY <1>1, <1>4
<1> QED BY <1>2, <1>4, <1>5 DEF LastIn

\* The same from a place on.
LEMMA NextOfPart ==
  ASSUME line \in Seq(Chars), NEW n \in 0..Len(line), NEW K, NEW x,
         IsUntil(SubSeq(line, n + 1, Len(line)), K, x)
  PROVE  NextIn(K, n, n + x) /\ x \in 0..Len(line) - n
<1> DEFINE p == SubSeq(line, n + 1, Len(line))
<1>1. Len(line) \in Nat /\ n \in Nat /\ n <= Len(line) /\ Len(line) \in n..Len(line)
  OBVIOUS
<1>2. Len(p) = Len(line) - n /\ \A i \in 1..Len(line) - n : p[i] = line[n + i]
  BY <1>1, RestOf, Zenon
<1>3. IsUntil(p, K, x)
  OBVIOUS
<1> HIDE DEF p
<1>4. x \in 0..Len(line) - n /\ (x < Len(line) - n => p[x + 1] \in K) /\ \A i \in 1..x : p[i] \notin K
  BY <1>2, <1>3 DEF IsUntil
<1>5. n + x \in n..Len(line)
  BY <1>1, <1>4
<1>6. n + x < Len(line) => line[(n + x) + 1] \in K
  <2> SUFFICES ASSUME n + x < Len(line) PROVE line[(n + x) + 1] \in K
    OBVIOUS
  <2>1. x + 1 \in 1..Len(line) - n /\ n + (x + 1) = (n + x) + 1 /\ x < Len(line) - n
    BY <1>1, <1>4
  <2>2. p[x + 1] = line[n + (x + 1)]
    BY <1>2, <2>1, Zenon
  <2> QED BY <1>4, <2>1, <2>2
<1>7. ASSUME NEW i \in n + 1..n + x PROVE line[i] \notin K
  <2>1. i - n \in 1..x /\ i - n \in 1..Len(line) - n /\ n + (i - n) = i
    BY <1>1, <1>4
  <2>2. p[i - n] = line[n + (i - n)] /\ p[i - n] \notin K
    BY <1>2, <1>4, <2>1, Zenon
  <2> QED BY <2>1, <2>2
<1> QED BY <1>4, <1>5, <1>6, <1>7 DEF NextIn

\* Home goes to the start of the cursor's line and End to its end.
LEMMA EndsAt ==
  ASSUME NEW c, CursorAfter(c)
  PROVE  /\ LastIn({"nl"}, c, LineStart) /\ Home = At(LineStart)
         /\ Until(After, IsNewline) \in 0..Len(line) - c
         /\ NextIn({"nl"}, c, c + Until(After, IsNewline))
         /\ End = At(c + Until(After, IsNewline))
<1>1. line \in Seq(Chars) /\ c \in 0..Len(line)
  BY DEF CursorAfter
<1>2. Before = SubSeq(line, 1, c) /\ After = SubSeq(line, c + 1, Len(line))
      /\ Before \in Seq(Chars) /\ After \in Seq(Chars)
  BY Around, Zenon
<1>3. IsLast(Before, {"nl"}, LineStart)
  BY <1>2, LastNewline DEF LineStart
<1>4. LastIn({"nl"}, c, LineStart)
  BY <1>1, <1>2, <1>3, LastOfPart
<1>5. Home = At(LineStart)
  BY DEF Home, At
<1> DEFINE u == Until(After, IsNewline)
<1>6. IsUntil(After, {"nl"}, u)
  BY <1>2, UntilNewline
<1>7. End = cursor + Bytes(SubSeq(After, 1, u))
  BY Zenon DEF End
<1> HIDE DEF u
<1>8. NextIn({"nl"}, c, c + u) /\ u \in 0..Len(line) - c
  BY <1>1, <1>2, <1>6, NextOfPart
<1>9. End = At(c + u)
  BY <1>7, <1>8, PartsAround, Zenon
<1> QED BY <1>4, <1>5, <1>8, <1>9 DEF u

\* Option+Left passes the white space before the cursor and the word before that.
LEMMA WordLeftAt ==
  ASSUME NEW c, CursorAfter(c)
  PROVE  \E t, w : LastIn(NonWhite, c, t) /\ LastIn(Whitespace, t, w) /\ WordLeft = At(w)
<1>1. line \in Seq(Chars) /\ c \in 0..Len(line)
  BY DEF CursorAfter
<1>2. Before = SubSeq(line, 1, c) /\ Before \in Seq(Chars)
  BY Around, Zenon
<1>3. PICK t : IsLast(Before, NonWhite, t) /\ TrimEnd(Before) = SubSeq(Before, 1, t)
  BY <1>2, Trimmed, Zenon
<1>4. LastIn(NonWhite, c, t)
  BY <1>1, <1>2, <1>3, LastOfPart
<1>5. t \in 0..c /\ t \in 0..Len(line)
  BY <1>1, <1>4 DEF LastIn
<1>6. TrimEnd(Before) = SubSeq(line, 1, t)
  BY <1>3, <1>5, PartsAround, Zenon
<1>7. SubSeq(line, 1, t) \in Seq(Chars)
  BY <1>1, <1>5
<1> DEFINE w == SelectLastInSeq(TrimEnd(Before), IsWhite)
<1>8. IsLast(SubSeq(line, 1, t), Whitespace, w)
  BY <1>6, <1>7, LastWhite
<1>9. WordLeft = At(w)
  BY Zenon DEF WordLeft, At
<1> HIDE DEF w
<1>10. LastIn(Whitespace, t, w)
  BY <1>1, <1>5, <1>8, LastOfPart
<1> QED BY <1>4, <1>9, <1>10

\* Option+Right passes the white space after the cursor and the word after that.
LEMMA WordRightAt ==
  ASSUME NEW c, CursorAfter(c)
  PROVE  \E u, v : NextIn(NonWhite, c, u) /\ NextIn(Whitespace, u, v) /\ WordRight = At(v)
<1>1. line \in Seq(Chars) /\ c \in 0..Len(line) /\ Len(line) \in Nat /\ c \in Nat
  BY DEF CursorAfter
<1>2. After = SubSeq(line, c + 1, Len(line)) /\ After \in Seq(Chars)
      /\ Len(After) = Len(line) - c
  BY Around, Zenon
<1>3. PICK x : IsUntil(After, NonWhite, x)
               /\ TrimStart(After) = SubSeq(After, x + 1, Len(After))
  BY <1>2, TrimmedStart, Zenon
<1>4. NextIn(NonWhite, c, c + x) /\ x \in 0..Len(line) - c
  BY <1>1, <1>2, <1>3, NextOfPart
<1> DEFINE rest == TrimStart(After)
           y == Until(rest, IsWhite)
<1>5. rest = SubSeq(line, c + x + 1, Len(line))
  BY <1>3, <1>4, PartsAround, Zenon
<1>6. c + x \in 0..Len(line) /\ Len(line) \in c + x..Len(line)
  BY <1>1, <1>4
<1>7. rest \in Seq(Chars) /\ Len(rest) = Len(line) - (c + x)
  <2> DEFINE m == c + x
  <2>1. m \in 0..Len(line) /\ Len(line) \in m..Len(line)
    BY <1>6
  <2>2. rest = SubSeq(line, m + 1, Len(line))
    BY <1>5
  <2>3. SubSeq(line, m + 1, Len(line)) \in Seq(Chars)
        /\ Len(SubSeq(line, m + 1, Len(line))) = Len(line) - m
    <3> HIDE DEF m
    <3>1. line \in Seq(Chars)
      BY <1>1
    <3> QED BY <2>1, <3>1, RestOf
  <2> HIDE DEF m, rest
  <2>4. rest \in Seq(Chars) /\ Len(rest) = Len(line) - m
    BY <2>2, <2>3
  <2> QED BY <2>4 DEF m
<1>8. WordRight =
        cursor + Bytes(SubSeq(After, 1, (Len(After) - Len(rest)) + y))
  BY Zenon DEF WordRight
<1> HIDE DEF rest
<1>9. IsUntil(rest, Whitespace, y)
  BY <1>7, UntilWhite
<1> HIDE DEF y
<1>10. NextIn(Whitespace, c + x, (c + x) + y) /\ y \in 0..Len(line) - (c + x)
  BY <1>1, <1>5, <1>6, <1>9, NextOfPart
<1>11. (Len(After) - Len(rest)) + y = x + y /\ x + y \in 0..Len(line) - c
       /\ c + (x + y) = (c + x) + y
  BY <1>1, <1>2, <1>4, <1>7, <1>10
<1>12. WordRight = At((c + x) + y)
  <2>1. cursor + Bytes(SubSeq(After, 1, x + y)) = At(c + (x + y))
    BY <1>11, PartsAround, Zenon
  <2> QED BY <1>8, <1>11, <2>1
<1> QED BY <1>4, <1>10, <1>12

\* The column of a place, in a line with that start and end, or the end of that line.
ColumnOr(from, end, column) == IF from + column < end THEN from + column ELSE end

\* Up goes to the column in the line above, or to that line's end.
LEMMA UpAt ==
  ASSUME NEW c, CursorAfter(c), LineStart # 0
  PROVE  \E p : /\ LastIn({"nl"}, LineStart - 1, p)
                /\ UpIndex = At(ColumnOr(p, LineStart - 1, c - LineStart))
<1>1. line \in Seq(Chars) /\ c \in 0..Len(line)
  BY DEF CursorAfter
<1> DEFINE ls == LineStart
           p == SelectLastInSeq(SubSeq(line, 1, ls - 1), IsNewline)
<1>2. ls \in 0..c
  BY EndsAt DEF LastIn
<1>3. Count = c
  BY Around
<1>4. UpIndex = At(ColumnOr(p, ls - 1, c - ls))
  BY <1>3 DEF UpIndex, ColumnIn, At, ColumnOr
<1> HIDE DEF ls
<1>5. ls - 1 \in 0..Len(line)
  BY <1>1, <1>2 DEF ls
<1>6. SubSeq(line, 1, ls - 1) \in Seq(Chars)
  BY <1>1, <1>5
<1>7. IsLast(SubSeq(line, 1, ls - 1), {"nl"}, p)
  BY <1>6, LastNewline
<1> HIDE DEF p
<1>8. LastIn({"nl"}, ls - 1, p)
  BY <1>1, <1>5, <1>7, LastOfPart
<1> QED BY <1>4, <1>8 DEF ls

\* Down goes to the column in the line below, or to that line's end.
LEMMA DownAt ==
  ASSUME NEW c, CursorAfter(c),
         Until(After, IsNewline) < Len(After)
  PROVE  \E b, e : /\ b = c + Until(After, IsNewline) + 1 /\ b \in c + 1..Len(line)
                   /\ line[b] = "nl" /\ (\A i \in c + 1..b - 1 : line[i] # "nl")
                   /\ NextIn({"nl"}, b, e)
                   /\ DownIndex = At(ColumnOr(b, e, c - LineStart))
<1>1. line \in Seq(Chars) /\ c \in 0..Len(line) /\ Len(line) \in Nat /\ c \in Nat
  BY DEF CursorAfter
<1> DEFINE u == Until(After, IsNewline)
           b == c + u + 1
           x == Until(SubSeq(line, b + 1, Len(line)), IsNewline)
<1>2. Count = c /\ Len(After) = Len(line) - c
  BY Around, Zenon
<1>3. u \in 0..Len(line) - c /\ NextIn({"nl"}, c, c + u)
  BY EndsAt, Zenon
<1>4. DownIndex = At(ColumnOr(b, b + x, c - LineStart))
  BY <1>2 DEF DownIndex, ColumnIn, At, ColumnOr
<1>5. u < Len(line) - c
  BY <1>2
<1> HIDE DEF u
<1>6. b \in c + 1..Len(line) /\ b \in 0..Len(line) /\ Len(line) \in b..Len(line) /\ c + u < Len(line)
      /\ b - 1 = c + u /\ b = (c + u) + 1
  BY <1>1, <1>3, <1>5
<1>7. line[b] = "nl" /\ \A i \in c + 1..b - 1 : line[i] # "nl"
  <2>1. line[(c + u) + 1] \in {"nl"} /\ \A i \in c + 1..c + u : line[i] \notin {"nl"}
    BY <1>3, <1>6 DEF NextIn
  <2> QED BY <1>6, <2>1
<1> HIDE DEF b
<1>8. SubSeq(line, b + 1, Len(line)) \in Seq(Chars)
  BY <1>1, <1>6, RestOf, Zenon
<1>9. IsUntil(SubSeq(line, b + 1, Len(line)), {"nl"}, x)
  BY <1>8, UntilNewline
<1> HIDE DEF x
<1>10. NextIn({"nl"}, b, b + x)
  BY <1>1, <1>6, <1>9, NextOfPart
<1> QED BY <1>4, <1>6, <1>7, <1>10 DEF b, u

\* Where Option+Left goes is the nearest start of a word before the cursor.
LEMMA WordStart ==
  ASSUME line \in Seq(Chars), NEW c \in 0..Len(line), NEW t, NEW w,
         LastIn(NonWhite, c, t), LastIn(Whitespace, t, w),
         NEW starts, starts = {k \in 0..c - 1 : ~White(k + 1) /\ (k = 0 \/ White(k))}
  PROVE  /\ \A m \in starts : m \in Nat /\ m <= w
         /\ starts = {} => w = 0
         /\ starts # {} => w \in starts
<1>1. Len(line) \in Nat /\ c \in Nat /\ c <= Len(line) /\ t \in Nat /\ t <= c /\ w \in Nat /\ w <= t
      /\ \A i \in 1..c : line[i] \in Chars
  BY DEF LastIn
<1>2. \A i \in 1..c : White(i) <=> line[i] \notin NonWhite
  BY <1>1 DEF NonWhite, White
<1>3. \A i \in 1..c : White(i) <=> line[i] \in Whitespace
  BY DEF White
<1>4. (t > 0 => ~White(t)) /\ \A i \in t + 1..c : White(i)
  <2>1. (t > 0 => line[t] \in NonWhite) /\ \A i \in t + 1..c : line[i] \notin NonWhite
    BY DEF LastIn
  <2>2. (t > 0 => t \in 1..c) /\ \A i \in t + 1..c : i \in 1..c
    BY <1>1
  <2> QED BY <1>2, <2>1, <2>2
<1>5. (w > 0 => White(w)) /\ \A i \in w + 1..t : ~White(i)
  <2>1. (w > 0 => line[w] \in Whitespace) /\ \A i \in w + 1..t : line[i] \notin Whitespace
    BY DEF LastIn
  <2>2. (w > 0 => w \in 1..c) /\ \A i \in w + 1..t : i \in 1..c
    BY <1>1
  <2> QED BY <1>3, <2>1, <2>2
<1>6. ASSUME NEW m \in starts PROVE m \in Nat /\ m < t /\ m <= w
  <2>1. m \in 0..c - 1 /\ ~White(m + 1) /\ (m = 0 \/ White(m))
    OBVIOUS
  <2>2. m \in Nat /\ m + 1 \in Nat /\ m + 1 <= c
    BY <1>1, <2>1
  <2>3. m < t
    <3> SUFFICES ASSUME ~(m < t) PROVE FALSE
      OBVIOUS
    <3>1. m + 1 \in t + 1..c
      BY <1>1, <2>2
    <3> QED BY <1>4, <2>1, <3>1
  <2>4. m <= w
    <3> SUFFICES ASSUME ~(m <= w) PROVE FALSE
      OBVIOUS
    <3>1. m \in w + 1..t /\ m # 0
      BY <1>1, <2>2, <2>3
    <3> QED BY <1>5, <2>1, <3>1
  <2> QED BY <2>2, <2>3, <2>4
<1>7. CASE t = 0
  <2>1. starts = {} /\ w = 0
    BY <1>1, <1>6, <1>7
  <2> QED BY <1>6, <2>1
<1>8. CASE t # 0
  <2>1. w # t
    BY <1>1, <1>4, <1>5, <1>8
  <2>2. w + 1 \in w + 1..t /\ w \in 0..c - 1
    BY <1>1, <2>1
  <2>3. w \in starts
    BY <1>1, <1>5, <2>2
  <2> QED BY <1>6, <2>3
<1> QED BY <1>6, <1>7, <1>8

\* Where Option+Right goes is the nearest end of a word after the cursor.
LEMMA WordEnd ==
  ASSUME line \in Seq(Chars), NEW c \in 0..Len(line), NEW u, NEW v,
         NextIn(NonWhite, c, u), NextIn(Whitespace, u, v),
         NEW ends, ends = {k \in c + 1..Len(line) :
                             ~White(k) /\ (k = Len(line) \/ White(k + 1))}
  PROVE  /\ \A m \in ends : m \in Nat /\ v <= m
         /\ ends = {} => v = Len(line)
         /\ ends # {} => v \in ends
<1> DEFINE n == Len(line)
<1>1. n \in Nat /\ c \in Nat /\ c <= n /\ u \in Nat /\ c <= u /\ u <= n /\ v \in Nat /\ u <= v /\ v <= n
      /\ \A i \in 1..n : line[i] \in Chars
  BY DEF NextIn
<1>2. \A i \in 1..n : (White(i) <=> line[i] \notin NonWhite)
  BY <1>1 DEF NonWhite, White
<1>3. \A i \in 1..n : (White(i) <=> line[i] \in Whitespace)
  BY DEF White
<1>4. (u < n => ~White(u + 1)) /\ \A i \in c + 1..u : White(i)
  <2>1. (u < n => line[u + 1] \in NonWhite) /\ \A i \in c + 1..u : line[i] \notin NonWhite
    BY DEF NextIn
  <2>2. (u < n => u + 1 \in 1..n) /\ \A i \in c + 1..u : i \in 1..n
    BY <1>1
  <2> QED BY <1>2, <2>1, <2>2
<1>5. (v < n => White(v + 1)) /\ \A i \in u + 1..v : ~White(i)
  <2>1. (v < n => line[v + 1] \in Whitespace) /\ \A i \in u + 1..v : line[i] \notin Whitespace
    BY DEF NextIn
  <2>2. (v < n => v + 1 \in 1..n) /\ \A i \in u + 1..v : i \in 1..n
    BY <1>1
  <2> QED BY <1>3, <2>1, <2>2
<1>6. ASSUME NEW m \in ends PROVE m \in Nat /\ u < n /\ v <= m
  <2>1. m \in c + 1..n /\ ~White(m) /\ (m = n \/ White(m + 1))
    OBVIOUS
  <2>2. m \in Nat /\ c + 1 <= m /\ m <= n
    BY <1>1, <2>1
  <2>3. u < m
    <3> SUFFICES ASSUME ~(u < m) PROVE FALSE
      OBVIOUS
    <3>1. m \in c + 1..u
      BY <1>1, <2>2
    <3> QED BY <1>4, <2>1, <3>1
  <2>4. v <= m
    <3> SUFFICES ASSUME ~(v <= m) PROVE FALSE
      OBVIOUS
    <3>1. m + 1 \in u + 1..v /\ m # n
      BY <1>1, <2>2, <2>3
    <3> QED BY <1>5, <2>1, <3>1
  <2> QED BY <1>1, <2>2, <2>3, <2>4
<1> HIDE DEF n
<1>7. CASE u = n
  <2>1. ends = {} /\ v = n
    BY <1>1, <1>6, <1>7
  <2> QED BY <1>6, <2>1 DEF n
<1>8. CASE u # n
  <2>1. v # u
    BY <1>1, <1>4, <1>5, <1>8
  <2>2. v \in u + 1..v /\ v \in c + 1..n
    BY <1>1, <2>1
  <2>3. v \in ends
    BY <1>1, <1>5, <2>2 DEF n
  <2> QED BY <1>6, <2>3
<1> QED BY <1>6, <1>7, <1>8 DEF n

\* With the cursor on a boundary, the word moves reach words.
LEMMA WordMoves ==
  ASSUME NEW c, CursorAfter(c)
  PROVE  WordMovesReachWords
<1>1. line \in Seq(Chars) /\ c \in 0..Len(line) /\ Count = c
  BY Around DEF CursorAfter
<1> DEFINE starts == {k \in 0..Count - 1 : ~White(k + 1) /\ (k = 0 \/ White(k))}
           ends == {k \in Count + 1..Len(line) :
                      ~White(k) /\ (k = Len(line) \/ White(k + 1))}
<1>2. WordLeft =
        At(IF starts = {} THEN 0 ELSE CHOOSE k \in starts : \A m \in starts : m <= k)
  <2>1. starts = {k \in 0..c - 1 : ~White(k + 1) /\ (k = 0 \/ White(k))}
    BY <1>1
  <2>2. PICK t, w : LastIn(NonWhite, c, t) /\ LastIn(Whitespace, t, w) /\ WordLeft = At(w)
    BY WordLeftAt, Zenon
  <2> HIDE DEF starts
  <2>3. /\ \A m \in starts : m \in Nat /\ m <= w
        /\ starts = {} => w = 0
        /\ starts # {} => w \in starts
    BY <1>1, <2>1, <2>2, WordStart
  <2>4. starts # {} => (CHOOSE k \in starts : \A m \in starts : m <= k) = w
    <3>1. \A k \in starts : (\A m \in starts : m <= k) => (w \in starts => k = w)
      BY <2>3
    <3> QED BY <2>3, <3>1
  <2>5. w = IF starts = {} THEN 0 ELSE CHOOSE k \in starts : \A m \in starts : m <= k
    BY <2>3, <2>4, Zenon
  <2> QED BY <2>2, <2>5, Zenon
<1>3. WordRight =
        At(IF ends = {} THEN Len(line) ELSE CHOOSE k \in ends : \A m \in ends : k <= m)
  <2>1. ends = {k \in c + 1..Len(line) :
                  ~White(k) /\ (k = Len(line) \/ White(k + 1))}
    BY <1>1
  <2>2. PICK u, v : NextIn(NonWhite, c, u) /\ NextIn(Whitespace, u, v) /\ WordRight = At(v)
    BY WordRightAt, Zenon
  <2> HIDE DEF ends
  <2>3. /\ \A m \in ends : m \in Nat /\ v <= m
        /\ ends = {} => v = Len(line)
        /\ ends # {} => v \in ends
    BY <1>1, <2>1, <2>2, WordEnd
  <2>4. ends # {} => (CHOOSE k \in ends : \A m \in ends : k <= m) = v
    <3>1. \A k \in ends : (\A m \in ends : k <= m) => (v \in ends => k = v)
      BY <2>3
    <3> QED BY <2>3, <3>1
  <2>5. v = IF ends = {} THEN Len(line) ELSE CHOOSE k \in ends : \A m \in ends : k <= m
    BY <2>3, <2>4, Zenon
  <2> QED BY <2>2, <2>5, Zenon
<1> QED BY <1>2, <1>3, Zenon DEF WordMovesReachWords

\* The line breaks among the first k characters: as many as the row of that place.
Newlines(k) == {i \in 1..k : line[i] = "nl"}

\* A row is a number, of finitely many line breaks.
LEMMA RowCounts ==
  ASSUME NEW k \in Nat
  PROVE  /\ IsFiniteSet(Newlines(k)) /\ Row(k) = Cardinality(Newlines(k)) /\ Row(k) \in Nat
<1>1. IsFiniteSet(Newlines(k))
  <2>1. IsFiniteSet(1..k)
    BY FS_Interval
  <2>2. Newlines(k) \in SUBSET (1..k)
    BY DEF Newlines
  <2> QED BY <2>1, <2>2, FS_Subset
<1>2. Row(k) = Cardinality(Newlines(k))
  BY Zenon DEF Row, Cardinality, Cardinality, Newlines
<1> QED BY <1>1, <1>2, FS_CardinalityType

\* Rows only grow along the text: by one at a line break, and not without one.
LEMMA RowGrows ==
  ASSUME NEW j \in Nat, NEW k \in Nat, j <= k
  PROVE  Row(j) <= Row(k)
<1>1. Newlines(j) \in SUBSET Newlines(k)
  BY DEF Newlines
<1> QED BY <1>1, RowCounts, FS_Subset

\* Without a line break in between, two places are in one row.
LEMMA RowStays ==
  ASSUME NEW j \in Nat, NEW k \in Nat, j <= k, \A i \in j + 1..k : line[i] # "nl"
  PROVE  Row(j) = Row(k)
<1>1. \A i \in 1..k : i \in 1..j \/ i \in j + 1..k
  OBVIOUS
<1>2. Newlines(j) = Newlines(k)
  BY <1>1 DEF Newlines
<1> QED BY <1>2, RowCounts, Zenon

\* A line break begins the next row.
LEMMA RowBreaks ==
  ASSUME NEW k \in Nat, k >= 1, line[k] = "nl"
  PROVE  Row(k) = Row(k - 1) + 1
<1>1. k - 1 \in Nat /\ k \in 1..k /\ k \notin 1..k - 1 /\ \A i \in 1..k : i = k \/ i \in 1..k - 1
  OBVIOUS
<1>2. Newlines(k) = Newlines(k - 1) \cup {k} /\ k \notin Newlines(k - 1)
  BY <1>1 DEF Newlines
<1>3. IsFiniteSet(Newlines(k - 1)) /\ Row(k - 1) = Cardinality(Newlines(k - 1))
      /\ Row(k) = Cardinality(Newlines(k))
  BY <1>1, RowCounts
<1> QED BY <1>2, <1>3, FS_AddElement

\* A place beyond a line break is in a later row.
LEMMA RowAfterBreak ==
  ASSUME NEW j \in Nat, NEW b \in Nat, NEW k \in Nat, j < b, b <= k, line[b] = "nl"
  PROVE  Row(j) < Row(k)
<1>1. b - 1 \in Nat /\ j <= b - 1 /\ b >= 1
  OBVIOUS
<1>2. Row(j) <= Row(b - 1) /\ Row(b) <= Row(k)
  BY <1>1, RowGrows
<1>3. Row(b) = Row(b - 1) + 1
  BY <1>1, RowBreaks
<1>4. Row(j) \in Nat /\ Row(b - 1) \in Nat /\ Row(k) \in Nat
  BY <1>1, RowCounts
<1> QED BY <1>2, <1>3, <1>4

\* The column of a place counts from the last line break before it.
LEMMA ColumnFrom ==
  ASSUME line \in Seq(Chars), NEW k \in 0..Len(line), NEW a, LastIn({"nl"}, k, a)
  PROVE  Column(k) = k - a
<1> DEFINE x == SelectLastInSeq(SubSeq(line, 1, k), IsNewline)
<1>1. SubSeq(line, 1, k) \in Seq(Chars)
  OBVIOUS
<1>2. IsLast(SubSeq(line, 1, k), {"nl"}, x)
  BY <1>1, LastNewline
<1>3. Column(k) = k - x
  BY DEF Column
<1> HIDE DEF x
<1>4. LastIn({"nl"}, k, x)
  BY <1>2, LastOfPart
<1>5. x = a
  <2>1. k \in Nat /\ x \in Nat /\ x <= k /\ a \in Nat /\ a <= k
        /\ (x > 0 => line[x] = "nl") /\ (a > 0 => line[a] = "nl")
        /\ (\A i \in x + 1..k : line[i] # "nl") /\ (\A i \in a + 1..k : line[i] # "nl")
    BY <1>4 DEF LastIn
  <2>2. ASSUME x < a PROVE FALSE
    <3>1. a \in x + 1..k /\ a > 0
      BY <2>1, <2>2
    <3> QED BY <2>1, <3>1
  <2>3. ASSUME a < x PROVE FALSE
    <3>1. x \in a + 1..k /\ x > 0
      BY <2>1, <2>3
    <3> QED BY <2>1, <3>1
  <2> QED BY <2>1, <2>2, <2>3
<1> QED BY <1>3, <1>5

\* A line of the text, from the place after a line break to the next one.
IsLine(a, z) ==
  /\ a \in 0..Len(line) /\ z \in a..Len(line)
  /\ a = 0 \/ line[a] = "nl"
  /\ \A i \in a + 1..z : line[i] # "nl"
  /\ z = Len(line) \/ line[z + 1] = "nl"

\* The places of a line are those of its row, and count their columns from its start.
LEMMA PlacesOfLine ==
  ASSUME line \in Seq(Chars), NEW a, NEW z, IsLine(a, z), NEW m \in 0..Len(line)
  PROVE  /\ Row(m) = Row(a) <=> m \in a..z
         /\ m \in a..z => Column(m) = m - a
<1>1. Len(line) \in Nat /\ a \in Nat /\ z \in Nat /\ m \in Nat /\ a <= z /\ z <= Len(line)
      /\ m <= Len(line)
  BY DEF IsLine
<1>2. \A k \in Nat : Row(k) \in Nat
  BY RowCounts
<1>3. ASSUME m \in a..z PROVE Row(m) = Row(a) /\ Column(m) = m - a
  <2>1. a <= m /\ \A i \in a + 1..m : i \in a + 1..z
    BY <1>1, <1>3
  <2>2. \A i \in a + 1..m : line[i] # "nl"
    BY <2>1 DEF IsLine
  <2>3. Row(a) = Row(m)
    BY <1>1, <2>1, <2>2, RowStays
  <2>4. LastIn({"nl"}, m, a)
    <3>1. a \in 0..m /\ (a > 0 => line[a] = "nl")
      BY <1>1, <2>1 DEF IsLine
    <3> QED BY <2>2, <3>1 DEF LastIn
  <2> QED BY <2>3, <2>4, ColumnFrom
<1>4. ASSUME m < a PROVE Row(m) # Row(a)
  <2>1. line[a] = "nl" /\ a <= a
    BY <1>1, <1>4 DEF IsLine
  <2>2. Row(m) < Row(a)
    BY <1>1, <1>4, <2>1, RowAfterBreak
  <2> QED BY <1>1, <1>2, <2>2
<1>5. ASSUME z < m PROVE Row(m) # Row(a)
  <2>1. line[z + 1] = "nl" /\ z + 1 \in Nat /\ a < z + 1 /\ z + 1 <= m
    BY <1>1, <1>5 DEF IsLine
  <2>2. Row(a) < Row(m)
    BY <1>1, <2>1, RowAfterBreak
  <2> QED BY <1>1, <1>2, <2>2
<1> QED BY <1>1, <1>3, <1>4, <1>5

\* The place of a line that has a column, or its end, is the one the cursor
\* should reach from that column.
LEMMA ColumnReached ==
  ASSUME line \in Seq(Chars), NEW a, NEW z, IsLine(a, z), NEW column \in Nat,
         NEW k, k = ColumnOr(a, z, column)
  PROVE  /\ k \in 0..Len(line) /\ Row(k) = Row(a) /\ Column(k) <= column
         /\ \A m \in 0..Len(line) :
              Row(m) = Row(a) /\ Column(m) <= column => Column(m) <= Column(k)
<1>1. Len(line) \in Nat /\ a \in Nat /\ z \in Nat /\ a <= z /\ z <= Len(line)
  BY DEF IsLine
<1>2. k \in a..z /\ k - a <= column /\ k - a <= z - a /\ (k - a = column \/ k - a = z - a)
  BY <1>1 DEF ColumnOr
<1>3. k \in 0..Len(line)
  BY <1>1, <1>2
<1>4. Row(k) = Row(a) /\ Column(k) = k - a
  BY <1>2, <1>3, PlacesOfLine
<1>5. ASSUME NEW m \in 0..Len(line), Row(m) = Row(a), Column(m) <= column
      PROVE  Column(m) <= Column(k)
  <2>1. m \in a..z /\ Column(m) = m - a
    BY <1>5, PlacesOfLine
  <2> QED BY <1>1, <1>2, <1>4, <1>5, <2>1
<1> QED BY <1>2, <1>3, <1>4, <1>5

\* With the cursor on a boundary, Up and Down keep to its column.
LEMMA LinesKeep ==
  ASSUME NEW c, CursorAfter(c)
  PROVE  LinesKeepColumn
<1> DEFINE ls == LineStart
           u == Until(After, IsNewline)
           Reaches(index, row) ==
             \E k \in 0..Len(line) :
               /\ At(k) = index /\ Row(k) = row /\ Column(k) <= Column(c)
               /\ \A m \in 0..Len(line) :
                    Row(m) = row /\ Column(m) <= Column(c)
                      => Column(m) <= Column(k)
<1>1. line \in Seq(Chars) /\ c \in 0..Len(line) /\ Len(line) \in Nat /\ c \in Nat /\ c <= Len(line)
  BY DEF CursorAfter
<1>2. Count = c /\ Len(After) = Len(line) - c
  BY Around, Zenon
<1>3. LastIn({"nl"}, c, ls) /\ u \in 0..Len(line) - c /\ NextIn({"nl"}, c, c + u)
  BY EndsAt, Zenon
<1>4. Column(c) = c - ls
  BY <1>1, <1>3, ColumnFrom
<1>5. LinesKeepColumn <=>
        /\ Row(c) > 0 => Reaches(UpIndex, Row(c) - 1)
        /\ Row(c) < Row(Len(line)) => Reaches(DownIndex, Row(c) + 1)
  BY <1>2 DEF LinesKeepColumn
<1>6. ls \in Nat /\ ls <= c /\ (ls > 0 => line[ls] = "nl") /\ (\A i \in ls + 1..c : line[i] # "nl")
      /\ c - ls \in Nat
  BY <1>1, <1>3 DEF LastIn
<1>7. Row(ls) = Row(c) /\ Row(c) \in Nat
  <2> HIDE DEF ls
  <2> QED BY <1>1, <1>6, RowStays, RowCounts
<1>8. ASSUME Row(c) > 0 PROVE Reaches(UpIndex, Row(c) - 1)
  <2>1. ls # 0
    <3>1. Newlines(0) = {}
      BY DEF Newlines
    <3>2. Row(0) = 0
      BY <3>1, RowCounts, FS_EmptySet
    <3> QED BY <1>7, <1>8, <3>2
  <2>2. PICK p : LastIn({"nl"}, ls - 1, p) /\ UpIndex = At(ColumnOr(p, ls - 1, c - ls))
    BY <2>1, UpAt
  <2> HIDE DEF ls, Reaches
  <2>3. ls \in Nat /\ ls >= 1 /\ ls - 1 \in Nat /\ ls - 1 <= Len(line) /\ line[ls] = "nl" /\ (ls - 1) + 1 = ls
    BY <1>1, <1>6, <2>1
  <2>4. p \in Nat /\ p <= ls - 1 /\ (p > 0 => line[p] = "nl") /\ \A i \in p + 1..ls - 1 : line[i] # "nl"
    BY <2>2, <2>3 DEF LastIn
  <2>5. IsLine(p, ls - 1)
    BY <1>1, <2>3, <2>4 DEF IsLine
  <2>6. Row(p) = Row(c) - 1
    <3>1. Row(p) = Row(ls - 1)
      BY <2>3, <2>4, RowStays
    <3>2. Row(ls) = Row(ls - 1) + 1
      BY <2>3, RowBreaks
    <3>3. Row(ls - 1) \in Nat
      BY <2>3, RowCounts
    <3> QED BY <1>7, <3>1, <3>2, <3>3
  <2> DEFINE k == ColumnOr(p, ls - 1, c - ls)
  <2>7. /\ k \in 0..Len(line) /\ Row(k) = Row(p) /\ Column(k) <= c - ls
        /\ \A m \in 0..Len(line) :
             Row(m) = Row(p) /\ Column(m) <= c - ls => Column(m) <= Column(k)
    BY <1>1, <1>6, <2>5, ColumnReached
  <2> HIDE DEF k
  <2>8. At(k) = UpIndex
    BY <2>2 DEF k
  <2> QED BY <1>4, <2>6, <2>7, <2>8 DEF Reaches
<1>9. ASSUME Row(c) < Row(Len(line)) PROVE Reaches(DownIndex, Row(c) + 1)
  <2> HIDE DEF Reaches
  <2>1. u < Len(line) - c
    <3> SUFFICES ASSUME ~(u < Len(line) - c) PROVE FALSE
      OBVIOUS
    <3> HIDE DEF u
    <3>1. c + u = Len(line)
      BY <1>1, <1>3
    <3>2. \A i \in c + 1..Len(line) : line[i] # "nl"
      BY <1>3, <3>1 DEF NextIn
    <3>3. Row(c) = Row(Len(line))
      BY <1>1, <3>2, RowStays
    <3> QED BY <1>7, <1>9, <3>3
  <2>2. u < Len(After)
    BY <1>2, <2>1
  <2>3. PICK b, e : /\ b = c + u + 1 /\ b \in c + 1..Len(line)
                    /\ line[b] = "nl" /\ (\A i \in c + 1..b - 1 : line[i] # "nl")
                    /\ NextIn({"nl"}, b, e)
                    /\ DownIndex = At(ColumnOr(b, e, c - ls))
    BY <2>2, DownAt
  <2> HIDE DEF u, ls
  <2>4. b \in Nat /\ b >= 1 /\ b - 1 \in Nat /\ c <= b - 1 /\ b <= Len(line)
    BY <1>1, <2>3
  <2>5. e \in b..Len(line) /\ (e < Len(line) => line[e + 1] = "nl") /\ \A i \in b + 1..e : line[i] # "nl"
    BY <2>3 DEF NextIn
  <2>6. IsLine(b, e)
    <3>1. e = Len(line) \/ e < Len(line)
      BY <1>1, <2>4, <2>5
    <3> QED BY <1>1, <2>3, <2>4, <2>5, <3>1 DEF IsLine
  <2>7. Row(b) = Row(c) + 1
    <3>1. Row(c) = Row(b - 1)
      BY <1>1, <2>3, <2>4, RowStays
    <3>2. Row(b) = Row(b - 1) + 1
      BY <2>3, <2>4, RowBreaks
    <3> QED BY <3>1, <3>2
  <2> DEFINE k == ColumnOr(b, e, c - ls)
  <2>8. /\ k \in 0..Len(line) /\ Row(k) = Row(b) /\ Column(k) <= c - ls
        /\ \A m \in 0..Len(line) :
             Row(m) = Row(b) /\ Column(m) <= c - ls => Column(m) <= Column(k)
    BY <1>1, <1>6, <2>6, ColumnReached
  <2> HIDE DEF k
  <2>9. At(k) = DownIndex
    BY <2>3 DEF k
  <2> QED BY <1>4, <2>7, <2>8, <2>9 DEF Reaches
<1> HIDE DEF Reaches
<1> QED BY <1>5, <1>8, <1>9

\* The cursor on a boundary is after some of the characters.
LEMMA OnBoundary ==
  EditTypeOK <=> (\E c : CursorAfter(c)) /\ pasted \in Seq(Raw)
  BY DEF EditTypeOK, CursorAfter

\* Wherever a key moves the cursor to is a boundary of the text; what a key
\* deletes back to is not after the cursor.
LEMMA KeysAt ==
  ASSUME NEW c, CursorAfter(c)
  PROVE  /\ \A index \in {Left, WordLeft, Home} :
              \E k \in 0..Len(line) : index = At(k)
         /\ \A index \in {Right, End, WordRight} :
              \E k \in 0..Len(line) : index = At(k)
         /\ LineStart # 0 => \E k \in 0..Len(line) : UpIndex = At(k)
         /\ Until(After, IsNewline) < Len(After) =>
              \E k \in 0..Len(line) : DownIndex = At(k)
<1>1. line \in Seq(Chars) /\ c \in 0..Len(line) /\ Len(line) \in Nat /\ c \in Nat /\ c <= Len(line)
  BY DEF CursorAfter
<1>2. \E k \in 0..Len(line) : Left = At(k)
  <2>1. (IF c = 0 THEN 0 ELSE c - 1) \in 0..Len(line)
    BY <1>1
  <2> QED BY <2>1, StepsAt, Zenon
<1>3. \E k \in 0..Len(line) : Right = At(k)
  <2>1. (IF c = Len(line) THEN c ELSE c + 1) \in 0..Len(line)
    BY <1>1
  <2> QED BY <2>1, StepsAt, Zenon
<1>4. LastIn({"nl"}, c, LineStart) /\ Home = At(LineStart)
      /\ NextIn({"nl"}, c, c + Until(After, IsNewline))
      /\ End = At(c + Until(After, IsNewline))
  BY EndsAt, Zenon
<1> DEFINE ls == LineStart
<1> HIDE DEF ls
<1>5. ls \in 0..c /\ ls \in 0..Len(line)
  BY <1>1, <1>4 DEF LastIn, ls
<1>6. \E k \in 0..Len(line) : Home = At(k)
  BY <1>4, <1>5 DEF ls
<1>7. \E k \in 0..Len(line) : End = At(k)
  <2>1. c + Until(After, IsNewline) \in c..Len(line)
    BY <1>4 DEF NextIn
  <2>2. c..Len(line) \subseteq 0..Len(line)
    BY <1>1
  <2> QED BY <1>4, <2>1, <2>2, Zenon
<1>8. \E k \in 0..Len(line) : WordLeft = At(k)
  <2>1. PICK t, w : LastIn(NonWhite, c, t) /\ LastIn(Whitespace, t, w) /\ WordLeft = At(w)
    BY WordLeftAt, Zenon
  <2>2. t \in 0..c /\ w \in 0..t
    BY <2>1 DEF LastIn
  <2>3. w \in 0..Len(line)
    BY <1>1, <2>2
  <2> QED BY <2>1, <2>3
<1>9. \E k \in 0..Len(line) : WordRight = At(k)
  <2>1. PICK u, v : NextIn(NonWhite, c, u) /\ NextIn(Whitespace, u, v) /\ WordRight = At(v)
    BY WordRightAt, Zenon
  <2>2. u \in c..Len(line) /\ v \in u..Len(line)
    BY <2>1 DEF NextIn
  <2>3. v \in 0..Len(line)
    BY <1>1, <2>2
  <2> QED BY <2>1, <2>3
<1>10. ASSUME LineStart # 0 PROVE \E k \in 0..Len(line) : UpIndex = At(k)
  <2>1. PICK p : LastIn({"nl"}, ls - 1, p) /\ UpIndex = At(ColumnOr(p, ls - 1, c - ls))
    BY <1>10, UpAt DEF ls
  <2>2. p \in 0..ls - 1 /\ ls # 0
    BY <1>10, <2>1 DEF LastIn, ls
  <2>3. ColumnOr(p, ls - 1, c - ls) \in 0..Len(line)
    BY <1>1, <1>5, <2>2 DEF ColumnOr
  <2> QED BY <2>1, <2>3, Zenon
<1>11. ASSUME Until(After, IsNewline) < Len(After)
       PROVE  \E k \in 0..Len(line) : DownIndex = At(k)
  <2>1. PICK b, e : /\ b \in c + 1..Len(line) /\ NextIn({"nl"}, b, e)
                    /\ DownIndex = At(ColumnOr(b, e, c - ls))
    BY <1>11, DownAt DEF ls
  <2>2. e \in b..Len(line)
    BY <2>1 DEF NextIn
  <2>3. ColumnOr(b, e, c - ls) \in 0..Len(line)
    BY <1>1, <1>5, <2>1, <2>2 DEF ColumnOr
  <2> QED BY <2>1, <2>3, Zenon
<1> QED BY <1>2, <1>3, <1>6, <1>7, <1>8, <1>9, <1>10, <1>11

\* A move to a place leaves the cursor on a boundary.
LEMMA MoveKeeps ==
  ASSUME EditTypeOK, NEW k \in 0..Len(line), MoveTo(At(k))
  PROVE  EditTypeOK'
<1>1. line' = line /\ pasted' = pasted /\ cursor' = Bytes(SubSeq(line, 1, k))
  BY DEF MoveTo, LineKey, At
<1> QED BY <1>1 DEF EditTypeOK

\* A text made of two has a boundary between them.
LEMMA JoinKeeps ==
  ASSUME NEW p \in Seq(Chars), NEW q \in Seq(Chars),
         line' = p \o q, cursor' = Bytes(p), pasted' \in Seq(Raw)
  PROVE  EditTypeOK'
<1> DEFINE r == p \o q
<1>1. r \in Seq(Chars) /\ Len(p) \in 0..Len(r)
  BY ConcatFacts
<1>2. SubSeq(r, 1, Len(p)) = p
  <2>1. Len(p) \in Nat /\ Len(r) \in Nat /\ Len(p) <= Len(r) /\ \A i \in 1..Len(p) : r[i] = p[i]
    BY ConcatFacts
  <2> HIDE DEF r
  <2>2. SubSeq(r, 1, Len(p)) \in Seq(Chars) /\ Len(SubSeq(r, 1, Len(p))) = Len(p)
        /\ \A i \in 1..Len(p) : SubSeq(r, 1, Len(p))[i] = p[i]
    BY <1>1, <2>1
  <2> QED BY <2>2, SeqEqual
<1>3. line' = r
  OBVIOUS
<1> HIDE DEF r
<1>4. cursor' = Bytes(SubSeq(line', 1, Len(p))) /\ Len(p) \in 0..Len(line') /\ line' \in Seq(Chars)
  BY <1>1, <1>2, <1>3
<1> QED BY <1>4 DEF EditTypeOK

\* What is inserted at the cursor leaves it on a boundary.
LEMMA InsertKeeps ==
  ASSUME EditTypeOK, NEW s \in Seq(Chars), Insert(s),
         pasted' \in Seq(Raw)
  PROVE  EditTypeOK'
<1>1. PICK c : CursorAfter(c)
  BY OnBoundary
<1>2. Before \in Seq(Chars) /\ After \in Seq(Chars) /\ cursor = Bytes(Before)
  <2>1. Before = SubSeq(line, 1, c)
    BY <1>1, Around
  <2> QED BY <1>1, <2>1, Around DEF CursorAfter
<1> DEFINE p == Before \o s
<1>3. p \in Seq(Chars) /\ Bytes(p) = Bytes(Before) + Bytes(s)
  BY <1>2, BytesConcat, ConcatFacts
<1>4. line' = p \o After /\ cursor' = Bytes(p)
  BY <1>2, <1>3 DEF Insert
<1> HIDE DEF p
<1> QED BY <1>2, <1>3, <1>4, JoinKeeps

\* Every key and every paste leaves the cursor on a boundary.
LEMMA EditStep ==
  ASSUME EditTypeOK, [EditNext]_lineVars
  PROVE  EditTypeOK'
<1>1. PICK c : CursorAfter(c) /\ pasted \in Seq(Raw)
  BY OnBoundary
<1>2. line \in Seq(Chars) /\ c \in 0..Len(line) /\ cursor = At(c)
  BY <1>1 DEF CursorAfter, At
<1>3. Before \in Seq(Chars) /\ After \in Seq(Chars) /\ cursor = Bytes(Before)
      /\ Len(After) \in Nat
  <2>1. Before = SubSeq(line, 1, c) /\ Before \in Seq(Chars) /\ After \in Seq(Chars)
    BY <1>1, Around
  <2> QED BY <1>1, <2>1 DEF CursorAfter
<1>4. CASE Move
  <2>1. PICK index \in {Left, Right, Home, End, WordLeft, WordRight} :
          MoveTo(index)
    BY <1>4 DEF Move
  <2>2. PICK k \in 0..Len(line) : index = At(k)
    BY <1>1, KeysAt
  <2> QED BY <2>1, <2>2, MoveKeeps
<1>5. CASE Up
  <2>1. PICK k \in 0..Len(line) : UpIndex = At(k)
    BY <1>1, <1>5, KeysAt DEF Up
  <2> QED BY <1>5, <2>1, MoveKeeps DEF Up
<1>6. CASE Down
  <2>1. PICK k \in 0..Len(line) : DownIndex = At(k)
    BY <1>1, <1>6, KeysAt DEF Down
  <2> QED BY <1>6, <2>1, MoveKeeps DEF Down
<1>7. CASE Type
  <2>1. PICK x \in Typed : Insert(<<x>>) /\ pasted' = pasted
    BY <1>7 DEF Type, LineKey
  <2>2. <<x>> \in Seq(Chars)
    BY ChatEditorAssumption
  <2> QED BY <1>1, <2>1, <2>2, InsertKeeps
<1>8. CASE DeleteBack
  <2>1. PICK index \in {Left, WordLeft, Home} :
          cursor' = index /\ line' = PrefixTo(index) \o After
    BY <1>8 DEF DeleteBack
  <2>2. PICK k \in 0..Len(line) : index = At(k)
    BY <1>1, KeysAt
  <2>3. PrefixTo(index) = SubSeq(line, 1, k) /\ SubSeq(line, 1, k) \in Seq(Chars)
        /\ index = Bytes(SubSeq(line, 1, k))
    BY <1>2, <2>2, SliceAt DEF At
  <2>4. pasted' = pasted
    BY <1>8 DEF DeleteBack, LineKey
  <2> QED BY <1>1, <1>3, <2>1, <2>3, <2>4, JoinKeeps
<1>9. CASE DeleteForward
  <2>1. PICK n \in {IF After = <<>> THEN 0 ELSE 1, Until(After, IsNewline)} :
          line' = Before \o SubSeq(After, n + 1, Len(After))
    BY <1>9 DEF DeleteForward
  <2>2. n \in 0..Len(After)
    <3>1. IsUntil(After, {"nl"}, Until(After, IsNewline))
      BY <1>3, UntilNewline
    <3>2. Until(After, IsNewline) \in 0..Len(After)
      BY <3>1 DEF IsUntil
    <3>3. (IF After = <<>> THEN 0 ELSE 1) \in 0..Len(After)
      BY <1>3
    <3> QED BY <3>2, <3>3
  <2>3. SubSeq(After, n + 1, Len(After)) \in Seq(Chars)
    <3>1. Len(After) \in n..Len(After)
      BY <1>3, <2>2
    <3> QED BY <1>3, <2>2, <3>1, RestOf, Zenon
  <2>4. cursor' = cursor /\ pasted' = pasted
    BY <1>9 DEF DeleteForward, LineKey
  <2> QED BY <1>1, <1>3, <2>1, <2>3, <2>4, JoinKeeps
<1>10. CASE Submit
  <2>1. line' = <<>> \o <<>> /\ cursor' = 0 /\ pasted' = pasted /\ <<>> \in Seq(Chars)
    BY <1>10 DEF Submit, LineKey
  <2>2. Bytes(<<>>) = 0
    BY <2>1, BytesCount
  <2> QED BY <1>1, <2>1, <2>2, JoinKeeps
<1>11. CASE Copy
  <2>1. line' = line /\ cursor' = cursor /\ pasted' \in Seq(Raw)
    BY <1>1, <1>11 DEF Copy
  <2> QED BY <2>1 DEF EditTypeOK
<1>12. CASE EditPaste
  <2>1. Insert(Clean(pasted)) /\ pasted' \in Seq(Raw)
    BY <1>12 DEF EditPaste
  <2>2. Clean(pasted) \in Seq(Clear)
    BY <1>1, CleanClear
  <2>3. Clean(pasted) \in Seq(Chars)
    BY ChatEditorAssumption, <2>2 DEF Clear
  <2> QED BY <2>1, <2>3, InsertKeeps
<1>13. CASE UNCHANGED lineVars
  BY <1>13 DEF lineVars, EditTypeOK
<1> QED BY <1>4, <1>5, <1>6, <1>7, <1>8, <1>9, <1>10, <1>11, <1>12, <1>13 DEF EditNext

\* The cursor stays on a character boundary, where slicing the text does not
\* panic, and every move gets to where it should.
THEOREM EditorMoves ==
  EditSpec => []MovesAreRight
<1>1. EditInit => EditTypeOK
  <2> SUFFICES ASSUME EditInit PROVE EditTypeOK
    OBVIOUS
  <2>1. line = <<>> /\ cursor = 0 /\ pasted = <<>> /\ line \in Seq(Chars) /\ SubSeq(line, 1, 0) = <<>>
        /\ 0 \in 0..Len(line)
    BY DEF EditInit
  <2>2. <<>> \in Seq(Chars)
    OBVIOUS
  <2>3. Bytes(<<>>) = 0
    BY <2>2, BytesCount
  <2>4. cursor = Bytes(SubSeq(line, 1, 0))
    BY <2>1, <2>3
  <2>5. pasted \in Seq(Raw)
    BY <2>1
  <2> QED BY <2>1, <2>4, <2>5 DEF EditTypeOK
<1>2. EditTypeOK /\ [EditNext]_lineVars => EditTypeOK'
  BY EditStep
<1>3. EditTypeOK => MovesAreRight
  <2> SUFFICES ASSUME EditTypeOK PROVE MovesAreRight
    OBVIOUS
  <2>1. PICK c : CursorAfter(c)
    BY OnBoundary
  <2> QED BY <2>1, WordMoves, LinesKeep DEF MovesAreRight
<1> QED BY <1>1, <1>2, <1>3, PTL DEF EditSpec
=============================================================================
