---------------------------- MODULE MCChatEditor ----------------------------
(* Characters of one to three bytes for ChatEditor. *)
EXTENDS ChatEditor
MCTyped == {"a", "acute", " ", "wide space", "nl"}
MCChars == MCTyped \cup Readable \cup {"replacement"}
MCWhitespace == {" ", "wide space", "nl"}
MCSizeOf == [c \in MCChars |-> IF c = "acute" THEN 2
                              ELSE IF c \in {"wide space", "replacement"} THEN 3 ELSE 1]
=============================================================================
