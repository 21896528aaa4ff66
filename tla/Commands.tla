------------------------------ MODULE Commands ------------------------------
(***************************************************************************)
(* What handle_message makes of one message: the two command tables of     *)
(* main, then the Lua functions of commands.lua, then "unknown command".   *)
(*                                                                         *)
(* A message is a record: slashes, how many of them the first word starts  *)
(* with; word, the rest of the first word; folded, that in lower case;     *)
(* words, how many words there are.  A key of a table is <<slashes, word>>.*)
(*                                                                         *)
(* An outcome is a record: answers, the frames its sender is sent, and     *)
(* does, what becomes of the sender's session.  What commands do to        *)
(* sessions and groups in detail is in modules Sessions and Groups.        *)
(***************************************************************************)
EXTENDS Naturals

Outcome(n, effect) == [answers |-> n, does |-> effect]
Answered == {Outcome(1, "nothing")}

(* user_commands.  whoami lacks its slash, so that no command is it.       *)
UserCommands ==
  {<<0, "whoami">>} \cup
  {<<1, w>> : w \in {"list", "w", "help", "quit", "create", "join", "send", "listgroups",
                     "groupkick", "leave", "transfer", "groupunban"}}

(* admin_commands.                                                         *)
AdminCommands == {<<1, "kick">>}

(* Commands that may tell their sender, too, what they tell others: a      *)
(* whisper to his own name in another spelling, a kick, an unban and a     *)
(* transfer by the owner, who is a member, and the leave that dissolves.   *)
EchoedFrom(w) == IF w = "leave" THEN 2 ELSE 3
Echoed(key, words) ==
  \E w \in {"w", "groupkick", "groupunban", "transfer", "leave"} :
    key = <<1, w>> /\ words >= EchoedFrom(w)

(* Each handler returns an answer.  /quit has sent it itself; so has       *)
(* /send to a group, since its sender is a member.                         *)
UserCommand(key, words) ==
  IF key = <<1, "quit">> THEN {Outcome(1, "quit")}
  ELSE IF Echoed(key, words) THEN Answered \cup {Outcome(2, "nothing")}
  ELSE Answered

(* /kick: nobody of that name is online; somebody else, whose departure is *)
(* broadcast, to the administrator too; or the administrator himself, who  *)
(* is told so as the target as well.                                       *)
AdminCommand(words) ==
  IF words < 2 THEN Answered
  ELSE Answered \cup {Outcome(2, "nothing"), Outcome(2, "quit")}

(* commands.lua.  A function is called with nickname, is_admin and the     *)
(* words; hello and roll declare two parameters, so args is a boolean.     *)
(* hello broadcasts its greeting, also to the sender, and fails at #args;  *)
(* roll fails at args[1].                                                  *)
Script(name) ==
  [broadcasts |-> IF name = <<0, "hello">> THEN 1 ELSE 0,
   handled    |-> FALSE]

(* execute_command: the function lua_cmd_ plus the first word without ONE  *)
(* slash.  One that fails counts as not found.  lua_cmd_kick is never      *)
(* reached: /kick with any number of slashes is in admin_commands.         *)
Lua(m) == Script(<<m.slashes - 1, m.word>>)

(* Mutant: what no table and no script handles is not answered.            *)
Dispatch_Silent(rights, m) ==
  LET key == <<1, m.word>>
  IN  IF key \in UserCommands THEN UserCommand(key, m.words)
      ELSE IF key \in AdminCommands
           THEN IF rights = "admin" THEN AdminCommand(m.words) ELSE Answered
      ELSE {Outcome(Lua(m).broadcasts, "nothing")}

(* A word with slashes.  The tables see it with the slashes stripped to    *)
(* one, Lua as it was sent.                                                *)
Dispatch(rights, m) ==
  LET key == <<1, m.word>>
  IN  IF key \in UserCommands THEN UserCommand(key, m.words)
      ELSE IF key \in AdminCommands
           THEN IF rights = "admin" THEN AdminCommand(m.words) ELSE Answered
      ELSE {Outcome(Lua(m).broadcasts + IF Lua(m).handled THEN 0 ELSE 1, "nothing")}

(* Before the login: too few words, /register, /login, or anything else;   *)
(* here, and only here, capital letters do not matter.                     *)
Anonymous(m) ==
  IF m.words < 3 THEN Answered
  ELSE IF <<m.slashes, m.folded>> = <<1, "login">>
       THEN Answered \cup {Outcome(1, "user"), Outcome(1, "admin")}
  ELSE Answered

(* handle_message.  What does not start with a slash is chat, for others.  *)
Outcomes(rights, m) ==
  IF rights = "nobody" THEN Anonymous(m)
  ELSE IF m.slashes = 0 THEN {Outcome(0, "nothing")}
  ELSE Dispatch(rights, m)
=============================================================================
