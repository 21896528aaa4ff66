--------------------------- MODULE MCConversation ---------------------------
(* An empty line, chat, the command that ends a session, a login, and a    *)
(* command in Lua; lengths of two cells, and room for one frame and a part *)
(* of the next on the way to the client.                                   *)
EXTENDS Conversation, TLC

Line(slashes, word, words) ==
  [slashes |-> slashes, word |-> word, folded |-> word, words |-> words]

MCLines == {
  Line(0, "", 0),         \* an empty line
  QuitLine,
  Line(1, "quit", 1),
  Line(1, "login", 3),
  Line(1, "roll", 1)}     \* a Lua function, which fails
=============================================================================
