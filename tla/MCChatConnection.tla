-------------------------- MODULE MCChatConnection --------------------------
(* Model values of ChatConnection. *)
EXTENDS ChatConnection
CONSTANTS m1, c1
MCMessages == {m1}
MCCancels == {c1}
MCNone == {}
=============================================================================
