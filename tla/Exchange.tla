------------------------------ MODULE Exchange ------------------------------
(***************************************************************************)
(* What a client and the server promise each other over a connection that  *)
(* stays intact: the lines are handled one after the other as they were    *)
(* typed, all answers to a line stand together in what the client is told, *)
(* and the client prints what it is told, in that order.  There are no     *)
(* bytes, buffers or pieces of frames here.                                *)
(***************************************************************************)
EXTENDS Commands, Sequences

CONSTANT Lines  \* what the user may type, as messages

VARIABLES
  intact,   \* nothing was dropped, and both ends are there
  said,     \* the lines typed
  handled,  \* the numbers of the lines handled
  rights,   \* of the session
  told,     \* all frames for the client, each as the line it answers, or 0
  printed   \* the numbers of the frames printed

exchangeVars == <<intact, said, handled, rights, told, printed>>

ExchangeInit ==
  /\ intact = TRUE
  /\ said = <<>> /\ handled = <<>>
  /\ rights = "nobody"
  /\ told = <<>> /\ printed = <<>>

Say(m) ==
  /\ intact
  /\ said' = Append(said, m)
  /\ UNCHANGED <<intact, handled, rights, told, printed>>

Handle ==
  /\ intact
  /\ Len(handled) < Len(said)
  /\ LET i == Len(handled) + 1
     IN  /\ handled' = Append(handled, i)
         /\ \E o \in Outcomes(rights, said[i]) :
              /\ told' = told \o [k \in 1..o.answers |-> i]
              /\ rights' = IF o.does \in {"user", "admin"} THEN o.does ELSE rights
  /\ UNCHANGED <<intact, said, printed>>

(* Others speak.                                                           *)
Overhear ==
  /\ intact
  /\ told' = Append(told, 0)
  /\ UNCHANGED <<intact, said, handled, rights, printed>>

Show ==
  /\ intact
  /\ Len(printed) < Len(told)
  /\ printed' = Append(printed, Len(printed) + 1)
  /\ UNCHANGED <<intact, said, handled, rights, told>>

(* From here on nothing is promised.                                       *)
Break == intact' = FALSE

ExchangeNext == Handle \/ Overhear \/ Show \/ Break \/ \E m \in Lines : Say(m)

ExchangeSpec == ExchangeInit /\ [][ExchangeNext]_exchangeVars

-----------------------------------------------------------------------------
(* Properties.                                                             *)

(* The answers stand in the order of the commands they answer, and all of  *)
(* what was handled and begins with a slash is answered.                   *)
AnswersInOrder ==
  intact =>
    /\ \A j, k \in DOMAIN told : j < k /\ told[j] # 0 /\ told[k] # 0 => told[j] <= told[k]
    /\ \A i \in 1..Len(handled) : said[i].slashes > 0 => \E k \in DOMAIN told : told[k] = i
=============================================================================
