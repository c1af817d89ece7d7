----------------------------- MODULE MCChatState -----------------------------
(***************************************************************************)
(* Small instances of ChatState: a few messages of one chat, or two chats.  *)
(***************************************************************************)
EXTENDS ChatStateInvariant

CONSTANTS c1, c2, m1, m2, m3

OneChat == [m \in Messages |-> c1]
TwoChats == [m \in Messages |-> IF m = m1 THEN c1 ELSE c2]
=============================================================================
