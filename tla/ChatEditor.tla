----------------------------- MODULE ChatEditor -----------------------------
(***************************************************************************)
(* The input line of the chat screen (native/chat_client/src/editor.rs)    *)
(* and what a paste is cleaned of before it enters it (text.rs).           *)
(*                                                                         *)
(* The text is a sequence of characters; the cursor is a byte index, so a  *)
(* character counts by its size in UTF-8.  Slicing the text off a          *)
(* character boundary panics: Before has no value there.                   *)
(***************************************************************************)
\* Some names begin with Edit or line: the proofs see this module beside ChatScreen.
EXTENDS Naturals, FiniteSets, SequencesExt

CONSTANTS
  Chars,        \* the characters of a text
  Typed,        \* those a key types
  SizeOf,       \* the bytes of each
  Whitespace,   \* those that separate words
  MaxLength,    \* bound: characters of the text
  MaxPaste      \* bound: characters of what is pasted

\* What a paste is made of, by what the cleaning tells apart: ESC, the
\* control characters that open a CSI and a string, what may end one (BEL),
\* other controls, overrides, and readable characters: a parameter of a CSI
\* (" "), and those with a meaning after ESC.
Escapes  == {"esc", "csi", "osc"}
Readable == {"[", "]", "\\", " ", "a", "nl"}
Raw == Escapes \cup Readable \cup {"bel", "control", "override", "cr", "tab"}

ASSUME ChatEditorAssumption ==
  /\ SizeOf \in [Chars -> 1..4] /\ Typed \subseteq Chars
  /\ "nl" \in Whitespace /\ Whitespace \subseteq Chars
  /\ Readable \cup {"replacement"} \subseteq Chars
  /\ MaxLength \in Nat /\ MaxPaste \in Nat

VARIABLES
  line, cursor,  \* the editor: its text, and where the cursor is in it
  pasted         \* what the terminal is about to paste

lineVars == <<line, cursor, pasted>>

Bytes(s) == FoldLeft(LAMBDA sum, c : sum + SizeOf[c], 0, s)
IsWhite(c)   == c \in Whitespace
IsNewline(c) == c = "nl"

\* The characters before the byte index, how many, and those after.
PrefixTo(index) ==
  SubSeq(line, 1, CHOOSE k \in 0..Len(line) : Bytes(SubSeq(line, 1, k)) = index)
Before == PrefixTo(cursor)
Count  == Len(Before)
After  == SubSeq(line, Count + 1, Len(line))

\* How much of s comes before the first character of a kind, all if none.
Until(s, Kind(_)) == LET i == SelectInSeq(s, Kind) IN IF i = 0 THEN Len(s) ELSE i - 1
TrimEnd(s) == SubSeq(s, 1, SelectLastInSeq(s, LAMBDA c : ~IsWhite(c)))
TrimStart(s) == SubSeq(s, Until(s, LAMBDA c : ~IsWhite(c)) + 1, Len(s))

EditInit == line = <<>> /\ cursor = 0 /\ pasted = <<>>
-----------------------------------------------------------------------------
(* Where the cursor goes: each gives a byte index *)

Left  == IF Before = <<>> THEN cursor ELSE cursor - SizeOf[Last(Before)]
Right == IF After = <<>> THEN cursor ELSE cursor + SizeOf[Head(After)]
LineStart == SelectLastInSeq(Before, IsNewline)
Home == Bytes(SubSeq(line, 1, LineStart))
End  == cursor + Bytes(SubSeq(After, 1, Until(After, IsNewline)))

\* Mutant: white space is taken to be one byte long.
MutOneByte ==
  LET i == SelectLastInSeq(TrimEnd(Before), IsWhite)
  IN IF i = 0 THEN 0 ELSE Bytes(SubSeq(line, 1, i - 1)) + 1

\* Back over the white space, then to the white space before the word.
WordLeft == Bytes(SubSeq(line, 1, SelectLastInSeq(TrimEnd(Before), IsWhite)))

WordRight ==
  LET rest == TrimStart(After)
      skipped == Len(After) - Len(rest)
  IN cursor + Bytes(SubSeq(After, 1, skipped + Until(rest, IsWhite)))

\* column_in: the byte index `column` characters into a line, or its end.
ColumnIn(start, end, column) ==
  Bytes(SubSeq(line, 1, IF start + column < end THEN start + column ELSE end))

UpIndex ==
  ColumnIn(SelectLastInSeq(SubSeq(line, 1, LineStart - 1), IsNewline), LineStart - 1,
           Count - LineStart)

DownIndex ==
  LET below == Count + Until(After, IsNewline) + 1
  IN ColumnIn(below, below + Until(SubSeq(line, below + 1, Len(line)), IsNewline),
              Count - LineStart)
-----------------------------------------------------------------------------
(* Cleaning a paste: each character in the mode the ones before it left. *)

\* "text" copies, the other modes skip: an escape, its parameters up to one
\* final character, or a string up to BEL or ESC "\".
NextMode(mode, c) ==
  CASE mode = "text"   -> IF c \in Escapes THEN c ELSE "text"
    [] mode = "esc"    -> (CASE c = "[" -> "csi" [] c = "]" -> "osc" [] OTHER -> "text")
    [] mode = "csi"    -> IF c = " " THEN "csi" ELSE "text"
    [] mode = "osc"    -> (CASE c = "bel" -> "text" [] c = "esc" -> "end" [] OTHER -> "osc")
    [] mode = "end"    -> (CASE c \in {"\\", "bel"} -> "text" [] c = "esc" -> "end"
                             [] OTHER -> "osc")

\* Mutant: the characters that reorder text are let through.
MutOverridesPass == {"bel", "control"}

Replaced == {"bel", "control", "override"}

Shown(c) ==
  CASE c \in Replaced -> <<"replacement">>
    [] c \in Escapes \cup {"cr"} -> <<>>
    [] c = "tab" -> <<" ", " ", " ", " ">>
    [] OTHER -> <<c>>

Clean(raw) ==
  FoldLeft(LAMBDA done, c :
             [mode |-> NextMode(done.mode, c),
              out  |-> IF done.mode = "text" THEN done.out \o Shown(c) ELSE done.out],
           [mode |-> "text", out |-> <<>>], raw).out
-----------------------------------------------------------------------------
(* The keys *)

\* A paste arrives in one event, so no key comes between its characters.
LineKey == pasted = <<>> /\ UNCHANGED pasted

MoveTo(index) == LineKey /\ cursor' = index /\ UNCHANGED line

Move == \E index \in {Left, Right, Home, End, WordLeft, WordRight} : MoveTo(index)
Up   == LineStart # 0 /\ MoveTo(UpIndex)
Down == Until(After, IsNewline) < Len(After) /\ MoveTo(DownIndex)

Insert(s) ==
  /\ Len(line) + Len(s) <= MaxLength
  /\ line' = Before \o s \o After /\ cursor' = cursor + Bytes(s)

Type == LineKey /\ \E c \in Typed : Insert(<<c>>)

\* backspace, delete_word_back and kill_to_start delete back to an index.
DeleteBack ==
  /\ LineKey
  /\ \E index \in {Left, WordLeft, Home} : cursor' = index /\ line' = PrefixTo(index) \o After

\* delete_forward and kill_to_end.
DeleteForward ==
  /\ LineKey /\ UNCHANGED cursor
  /\ \E n \in {IF After = <<>> THEN 0 ELSE 1, Until(After, IsNewline)} :
       line' = Before \o SubSeq(After, n + 1, Len(After))

\* Enter takes the whole text and leaves the editor empty.
Submit == LineKey /\ line' = <<>> /\ cursor' = 0

\* The terminal's paste, longer by a character, and its arrival.
Copy ==
  /\ line = <<>> /\ Len(pasted) < MaxPaste
  /\ \E c \in Raw : pasted' = Append(pasted, c)
  /\ Len(Clean(pasted')) <= MaxLength
  /\ UNCHANGED <<line, cursor>>

EditPaste == pasted # <<>> /\ Insert(Clean(pasted)) /\ pasted' = <<>>

EditNext == Move \/ Up \/ Down \/ Type \/ DeleteBack \/ DeleteForward \/ Submit \/ Copy \/ EditPaste
EditSpec == EditInit /\ [][EditNext]_lineVars
-----------------------------------------------------------------------------
\* The cursor stays on a character boundary of the text, where slicing at it
\* does not panic.
EditTypeOK ==
  /\ line \in Seq(Chars) /\ pasted \in Seq(Raw)
  /\ cursor \in {Bytes(SubSeq(line, 1, k)) : k \in 0..Len(line)}

At(k) == Bytes(SubSeq(line, 1, k))
White(k) == line[k] \in Whitespace

\* Option+Left goes to the nearest start of a word before the cursor, or to
\* the start; Option+Right to the nearest end of one after it, or to the end.
WordMovesReachWords ==
  LET starts == {k \in 0..Count - 1 : ~White(k + 1) /\ (k = 0 \/ White(k))}
      ends == {k \in Count + 1..Len(line) : ~White(k) /\ (k = Len(line) \/ White(k + 1))}
  IN /\ WordLeft = At(IF starts = {} THEN 0 ELSE CHOOSE k \in starts : \A m \in starts : m <= k)
     /\ WordRight = At(IF ends = {} THEN Len(line)
                       ELSE CHOOSE k \in ends : \A m \in ends : k <= m)

Row(k) == Cardinality({i \in 1..k : line[i] = "nl"})
Column(k) == k - SelectLastInSeq(SubSeq(line, 1, k), IsNewline)

\* Up and Down reach the line next to the cursor's, in its column or, when
\* that line is shorter, at its end.
LinesKeepColumn ==
  LET Reaches(index, row) ==
        \E k \in 0..Len(line) :
          /\ At(k) = index /\ Row(k) = row /\ Column(k) <= Column(Count)
          /\ \A m \in 0..Len(line) :
               Row(m) = row /\ Column(m) <= Column(Count) => Column(m) <= Column(k)
  IN /\ Row(Count) > 0 => Reaches(UpIndex, Row(Count) - 1)
     /\ Row(Count) < Row(Len(line)) => Reaches(DownIndex, Row(Count) + 1)

\* The cursor stays on a boundary between characters, and every move gets to
\* where it should.
MovesAreRight == EditTypeOK /\ WordMovesReachWords /\ LinesKeepColumn

\* No paste brings in a character the terminal would act on; cleaning twice
\* changes nothing more, and readable text is kept as it is.
PasteIsClean ==
  LET clean == Clean(pasted)
  IN /\ ToSet(clean) \subseteq Readable \cup {"replacement"}
     /\ Clean(clean) = clean
     /\ ToSet(pasted) \subseteq Readable => clean = pasted
=============================================================================
