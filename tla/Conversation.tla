---------------------------- MODULE Conversation ----------------------------
(***************************************************************************)
(* The client program and the server at the two ends of one connection,    *)
(* cell by cell: frames of a length and a text, sent by the client in one  *)
(* piece and read by the server with a peek and a second recv; sent by the *)
(* server on a non-blocking socket and read by the client's receiving      *)
(* thread in two loops.                                                    *)
(*                                                                         *)
(* A frame is HeaderSize cells for the length and one for a text that is   *)
(* not empty; cell k of frame i is <<i, k>>.  Cells that are not the       *)
(* beginning of a frame but are read as a length give any length up to     *)
(* MaxGarbage; the buffer for it is assumed to be allocated.               *)
(*                                                                         *)
(* The other connections are only what they do to this one: broadcasts,    *)
(* and a kick or the heartbeat (Expel).  Module EventLoop has the loop     *)
(* with all its connections, counting whole frames.                        *)
(***************************************************************************)
EXTENDS Commands, Sequences

CONSTANTS
  Lines,       \* what the user may type, as messages
  HeaderSize,  \* sizeof(uint32_t), in cells
  MaxGarbage,  \* the longest text a misread length announces
  Capacity,    \* cells between the server's send and the client's recv
  MaxSaid,     \* lines the user types
  MaxTold      \* frames after which others leave the client alone

ASSUME ConversationAssumption ==
  /\ HeaderSize \in Nat \ {0}
  /\ {MaxGarbage, Capacity, MaxSaid, MaxTold} \subseteq Nat
  /\ \A m \in Lines : m.slashes \in Nat /\ m.words \in Nat

VARIABLES
  (* The client program. *)
  said,     \* the lines it has sent
  typing,   \* its main thread: "typing", "leaving", "joining", "exited"
  recving,  \* recv_thread_func: "on", "last" call on a closed socket, "returned"
  part,     \* the cells of the frame it is receiving
  expect,   \* how many cells that frame has, as far as is known
  printed,  \* the frames it has printed, up to one that never was sent: 0
  (* The kernels and the network. *)
  upNet,    \* cells on their way to the server
  upBuf,    \* cells in the server's receive buffer
  upEnd,    \* what the server's kernel knows of the client's end of the
            \* connection: "open"; "fin", closed; "reset", given up
  edge,     \* the descriptor is on epoll's ready list
  down,     \* cells on their way to the client
  (* The server. *)
  sock,     \* "open", "expelled" or "doomed" (in to_remove), "closed"
  rights,   \* of the session: "nobody", "user", "admin"
  at,       \* the loop: at its "wait", or in the recv loop, before a "peek"
  outbox,   \* frames to send, each as the frame it answers, or 0
  left,     \* cells of the first of them still to be sent
  (* History. *)
  handled,  \* the frames handled, up to one that never was sent: 0
  told,     \* the frames sent, if only in part, as in outbox
  lost,     \* cells were taken from upBuf and dropped
  unsent    \* frames were given up: "none", "whole" ones, one in "part"

clientVars == <<said, typing, recving, part, expect, printed>>
netVars == <<upNet, upBuf, upEnd, edge, down>>
loopVars == <<sock, rights, at, handled, lost>>
sendVars == <<outbox, left, told, unsent>>
vars == <<clientVars, netVars, loopVars, sendVars>>

Least(a, b) == IF a < b THEN a ELSE b
Cells(i, n) == [k \in 1..n |-> <<i, k>>]
First(s, n) == SubSeq(s, 1, n)
After(s, n) == SubSeq(s, n + 1, Len(s))

Size(m) == HeaderSize + (IF m.words = 0 THEN 0 ELSE 1)
SizeDown == HeaderSize + 1

(* The sizes of the frames sent so far, each way.                          *)
SizesUp == [i \in DOMAIN said |-> Size(said[i])]
SizesDown == [i \in DOMAIN told |-> SizeDown]

(* Which of the frames of the given sizes s is; 0 if none.                 *)
FrameIn(s, sizes) ==
  IF \E i \in DOMAIN sizes : s = Cells(i, sizes[i])
  THEN CHOOSE i \in DOMAIN sizes : s = Cells(i, sizes[i])
  ELSE 0

FrameSizes == HeaderSize..(HeaderSize + 1 + MaxGarbage)

(* The frame sizes that a length read from the cells s may announce.       *)
Announced(s, sizes) ==
  IF \E i \in DOMAIN sizes : s = Cells(i, HeaderSize)
  THEN {sizes[i] : i \in {j \in DOMAIN sizes : s = Cells(j, HeaderSize)}}
  ELSE HeaderSize..(HeaderSize + MaxGarbage)

(* A history that ends with its first 0.                                   *)
Record(history, i) ==
  IF history # <<>> /\ history[Len(history)] = 0 THEN history ELSE Append(history, i)

QuitLine == [slashes |-> 0, word |-> "quit", folded |-> "quit", words |-> 1]

(* The connection has been accepted, nothing has been said.                *)
Init ==
  /\ said = <<>> /\ typing = "typing"
  /\ recving = "on" /\ part = <<>> /\ expect = HeaderSize /\ printed = <<>>
  /\ upNet = <<>> /\ upBuf = <<>> /\ upEnd = "open" /\ edge = FALSE /\ down = <<>>
  /\ sock = "open" /\ rights = "nobody"
  /\ at = "wait"
  /\ outbox = <<>> /\ left = SizeDown
  /\ handled = <<>> /\ told = <<>>
  /\ lost = FALSE /\ unsent = "none"

-----------------------------------------------------------------------------
(* The client's main thread.                                               *)

(* A line is sent whole; after "quit" the loop ends.                       *)
TypeLine(m) ==
  /\ typing = "typing"
  /\ Len(said) < MaxSaid
  /\ said' = Append(said, m)
  /\ upNet' = upNet \o Cells(Len(said) + 1, Size(m))
  /\ typing' = IF m = QuitLine THEN "leaving" ELSE "typing"
  /\ UNCHANGED <<recving, part, expect, printed, upBuf, upEnd, edge, down>>
  /\ UNCHANGED <<loopVars, sendVars>>

(* send fails, once the server has closed; or getline finds no more input. *)
StopTyping ==
  /\ typing = "typing"
  /\ typing' = "leaving"
  /\ UNCHANGED <<said, recving, part, expect, printed, netVars, loopVars, sendVars>>

(* close does not interrupt a recv of another thread, and the socket is    *)
(* only released when that recv has returned.  If the thread is between    *)
(* two calls, the next one fails at once.                                  *)
CloseSocket ==
  /\ typing = "leaving"
  /\ typing' = "joining"
  /\ IF recving = "on" THEN recving' \in {"last", "returned"} ELSE UNCHANGED recving
  /\ UNCHANGED <<said, part, expect, printed, netVars, loopVars, sendVars>>

Join ==
  /\ typing = "joining"
  /\ recving = "returned"
  /\ typing' = "exited"
  /\ UNCHANGED <<said, recving, part, expect, printed, netVars, loopVars, sendVars>>

-----------------------------------------------------------------------------
(* recv_thread_func.                                                       *)

(* The thread goes on with the cells got; a complete frame is printed.     *)
Receive(got) ==
  LET Shown == /\ printed' = Record(printed, FrameIn(got, SizesDown))
               /\ part' = <<>>
               /\ expect' = HeaderSize
  IN  \/ /\ Len(got) < expect
         /\ part' = got
         /\ UNCHANGED <<expect, printed>>
      \/ /\ Len(got) = HeaderSize /\ expect = HeaderSize
         /\ \E size \in Announced(got, SizesDown) :
              IF size = HeaderSize
              THEN Shown
              ELSE part' = got /\ expect' = size /\ UNCHANGED printed
      \/ /\ Len(got) = expect /\ expect > HeaderSize
         /\ Shown

(* Mutant: the thread calls recv again after an error.                     *)
AfterThisCall_Retries ==
  /\ recving \in {"on", "last"}
  /\ UNCHANGED recving

(* The call after the last one fails, for want of a descriptor.            *)
AfterThisCall ==
  /\ recving \in {"on", "last"}
  /\ recving' = IF recving = "on" THEN "on" ELSE "returned"

(* recv returns some of what is missing of the length, or of the text.     *)
RecvSome ==
  /\ AfterThisCall
  /\ \E k \in 1..Least(Len(down), expect - Len(part)) :
       /\ down' = After(down, k)
       /\ Receive(part \o First(down, k))
  /\ UNCHANGED <<said, typing, upNet, upBuf, upEnd, edge, loopVars, sendVars>>

(* Mutant: only a negative result of recv ends the thread.                 *)
RecvEnd_Retries ==
  /\ AfterThisCall
  /\ down = <<>> /\ sock = "closed"
  /\ UNCHANGED <<said, typing, part, expect, printed, netVars, loopVars, sendVars>>

(* recv returns 0, or an error: the server has closed.                     *)
RecvEnd ==
  /\ recving \in {"on", "last"}
  /\ down = <<>> /\ sock = "closed"
  /\ recving' = "returned"
  /\ UNCHANGED <<said, typing, part, expect, printed, netVars, loopVars, sendVars>>

-----------------------------------------------------------------------------
(* The kernels and the network.                                            *)

Released == typing \in {"joining", "exited"} /\ recving = "returned"

(* The server closes with something unread, which resets the connection:   *)
(* what the client has not received by then may be gone.                   *)
Reset == down' \in {<<>>, down}

Arrive ==
  /\ \E k \in 1..Len(upNet) :
       /\ upNet' = After(upNet, k)
       /\ IF sock = "closed"
          THEN Reset /\ UNCHANGED <<upBuf, edge>>
          ELSE upBuf' = upBuf \o First(upNet, k) /\ edge' = TRUE /\ UNCHANGED down
  /\ UNCHANGED <<upEnd, clientVars, loopVars, sendVars>>

(* The end of file, behind everything that was sent.                       *)
ArriveFin ==
  /\ Released /\ upNet = <<>>
  /\ sock # "closed" /\ upEnd = "open"
  /\ upEnd' = "fin"
  /\ edge' = TRUE
  /\ UNCHANGED <<upNet, upBuf, down, clientVars, loopVars, sendVars>>

(* Cells for a client that has closed are never read: whether they are in  *)
(* its buffer when it closes or come later, its kernel answers with a      *)
(* reset, and does not send what is still to be sent.  What the server has *)
(* in its buffer stays there.                                              *)
ArriveReset ==
  /\ Released /\ down # <<>>
  /\ sock # "closed"
  /\ upEnd' = "reset"
  /\ edge' = TRUE
  /\ upNet' = <<>> /\ down' = <<>>
  /\ UNCHANGED <<upBuf, clientVars, loopVars, sendVars>>

-----------------------------------------------------------------------------
(* The server: send_message_with_length.  It runs to its end wherever it   *)
(* is called, so the loop waits for the outbox to be empty.                *)

Idle == at = "wait" /\ outbox = <<>>

(* n more frames for the client, because of its frame i, or of others.     *)
Send(n, i) == outbox' = outbox \o [k \in 1..n |-> i]

NextFrame == outbox' = Tail(outbox) /\ left' = SizeDown

(* The frame in front is number Len(told) once its first cell is sent.     *)
Begun == IF left = SizeDown THEN Append(told, Head(outbox)) ELSE told

(* Mutant: after a partial send the frame is sent again from its start.    *)
SendSome_FromStart ==
  /\ outbox # <<>> /\ upEnd # "reset" /\ Len(down) < Capacity
  /\ told' = Begun
  /\ LET k == Least(Capacity - Len(down), left)
     IN  /\ down' = down \o First(Cells(Len(told'), SizeDown), k)
         /\ IF k = left THEN NextFrame ELSE left' = left - k /\ UNCHANGED outbox
  /\ UNCHANGED <<unsent, upNet, upBuf, upEnd, edge, clientVars, loopVars>>

(* Mutant: bytes_sent keeps its value from one message to the next.        *)
SendSome_Stale ==
  /\ outbox # <<>> /\ upEnd # "reset" /\ Len(down) < Capacity
  /\ told' = Begun
  /\ LET k == Least(Capacity - Len(down), left)
     IN  /\ down' = down \o First(After(Cells(Len(told'), SizeDown), SizeDown - left), k)
         /\ left' = left - k
         /\ outbox' = IF k = left THEN Tail(outbox) ELSE outbox
  /\ UNCHANGED <<unsent, upNet, upBuf, upEnd, edge, clientVars, loopVars>>

(* send takes what fits; if that was not all, the loop calls it again.     *)
SendSome ==
  /\ outbox # <<>> /\ upEnd # "reset" /\ Len(down) < Capacity
  /\ told' = Begun
  /\ LET k == Least(Capacity - Len(down), left)
     IN  /\ down' = down \o First(After(Cells(Len(told'), SizeDown), SizeDown - left), k)
         /\ IF k = left THEN NextFrame ELSE left' = left - k /\ UNCHANGED outbox
  /\ UNCHANGED <<unsent, upNet, upBuf, upEnd, edge, clientVars, loopVars>>

(* send returns -1, because nothing fits (EAGAIN) or the connection has    *)
(* been reset: what has not been sent of the frame never will be.          *)
SendFails ==
  /\ outbox # <<>>
  /\ Len(down) = Capacity \/ upEnd = "reset"
  /\ unsent' = IF left < SizeDown \/ unsent = "part" THEN "part" ELSE "whole"
  /\ NextFrame
  /\ UNCHANGED <<told, netVars, clientVars, loopVars>>

-----------------------------------------------------------------------------
(* The server: the loop of main, as far as it concerns this connection.    *)

(* epoll_wait reports the descriptor.  Its own disconnect is followed by   *)
(* a clean-up; after an expulsion an event of the same round may come.     *)
Wake ==
  /\ Idle /\ edge /\ sock \in {"open", "expelled"}
  /\ edge' = FALSE
  /\ at' = "peek"
  /\ UNCHANGED <<upNet, upBuf, upEnd, down, sock, rights, handled, lost>>
  /\ UNCHANGED <<clientVars, sendVars>>

Peeking == at = "peek" /\ outbox = <<>>
LeaveRecvLoop == at' = "wait" /\ UNCHANGED <<rights, handled>>

(* EAGAIN.                                                                 *)
PeekNothing ==
  /\ Peeking /\ upBuf = <<>> /\ upEnd = "open"
  /\ LeaveRecvLoop
  /\ UNCHANGED <<sock, lost, netVars, clientVars, sendVars>>

(* Mutant: only a negative result of recv disconnects.                     *)
PeekEnd_Ignored ==
  /\ Peeking /\ upBuf = <<>> /\ upEnd # "open"
  /\ LeaveRecvLoop
  /\ UNCHANGED <<sock, lost, netVars, clientVars, sendVars>>

(* End of file: disconnect_client.                                         *)
PeekEnd ==
  /\ Peeking /\ upBuf = <<>> /\ upEnd # "open"
  /\ sock' = "doomed"
  /\ LeaveRecvLoop
  /\ UNCHANGED <<lost, netVars, clientVars, sendVars>>

(* Mutant: the length is received, not peeked at.                          *)
PeekShort_Takes ==
  /\ Peeking /\ Len(upBuf) \in 1..(HeaderSize - 1)
  /\ upBuf' = <<>>
  /\ LeaveRecvLoop
  /\ UNCHANGED <<sock, lost, upNet, upEnd, edge, down, clientVars, sendVars>>

(* Part of a length stays where it is, also when no more can follow.       *)
PeekShort ==
  /\ Peeking /\ Len(upBuf) \in 1..(HeaderSize - 1)
  /\ LeaveRecvLoop
  /\ UNCHANGED <<sock, lost, netVars, clientVars, sendVars>>

(* A length has been read, and size of the frame with it.  What arrives    *)
(* between the peek and the second recv may as well have arrived before.   *)
Peeked(size) ==
  /\ Peeking /\ Len(upBuf) >= HeaderSize
  /\ size \in Announced(First(upBuf, HeaderSize), SizesUp)

(* Mutant: what the second recv returns is handled, complete or not.       *)
TakePart_Handles ==
  /\ \E size \in FrameSizes : Peeked(size) /\ Len(upBuf) < size
  /\ upBuf' = <<>>
  /\ handled' = Record(handled, 0)
  /\ Send(1, 0)
  /\ UNCHANGED <<at, sock, rights, lost, upNet, upEnd, edge, down, clientVars>>
  /\ UNCHANGED <<left, told, unsent>>

(* The second recv returns less than the whole frame: that is dropped.     *)
TakePart ==
  /\ \E size \in FrameSizes : Peeked(size) /\ Len(upBuf) < size
  /\ upBuf' = <<>>
  /\ lost' = TRUE
  /\ LeaveRecvLoop
  /\ UNCHANGED <<sock, upNet, upEnd, edge, down, clientVars, sendVars>>

(* The whole frame is handled; a misread one may say anything.             *)
TakeFrame ==
  \E size \in FrameSizes :
    /\ Peeked(size) /\ Len(upBuf) >= size
    /\ upBuf' = After(upBuf, size)
    /\ LET i == FrameIn(First(upBuf, size), SizesUp)
       IN  /\ handled' = Record(handled, i)
           /\ \E m \in IF i = 0 THEN Lines ELSE {said[i]} : \E o \in Outcomes(rights, m) :
                /\ Send(o.answers, i)
                /\ sock' = IF o.does = "quit" THEN "doomed" ELSE sock
                /\ rights' = IF o.does \in {"user", "admin"} THEN o.does ELSE rights
    /\ UNCHANGED <<at, lost, upNet, upEnd, edge, down, clientVars>>
    /\ UNCHANGED <<left, told, unsent>>

(* The clean-up closes the descriptor.                                     *)
Sweep ==
  /\ Idle /\ sock \in {"expelled", "doomed"}
  /\ sock' = "closed"
  /\ upBuf' = <<>> /\ edge' = FALSE
  /\ IF upBuf = <<>> THEN UNCHANGED down ELSE Reset
  /\ UNCHANGED <<rights, at, handled, lost, upNet, upEnd, clientVars, sendVars>>

-----------------------------------------------------------------------------
(* What other connections bring about for this one.                        *)

(* A broadcast, a whisper, a message to a group, or the notice of a kick.  *)
(* After a reset they come to nothing and are left out.                    *)
Others ==
  /\ Idle /\ sock # "closed" /\ upEnd # "reset" /\ Len(told) < MaxTold
  /\ Send(1, 0)
  /\ UNCHANGED <<left, told, unsent, netVars, clientVars, loopVars>>

(* disconnect_client, called because an administrator kicks this user or   *)
(* because the heartbeat finds that nothing was handled for too long.      *)
Expel ==
  /\ Idle /\ sock = "open"
  /\ sock' = "expelled"
  /\ UNCHANGED <<rights, at, handled, lost, sendVars, netVars, clientVars>>

(* The client program has ended and the server has closed the connection.  *)
Over == typing = "exited" /\ sock = "closed" /\ UNCHANGED vars

-----------------------------------------------------------------------------
MainStep == CloseSocket \/ Join
ThreadStep == RecvSome \/ RecvEnd
NetStep == Arrive \/ ArriveFin \/ ArriveReset
ServerStep ==
  \/ SendSome \/ SendFails \/ Wake \/ Sweep
  \/ PeekNothing \/ PeekEnd \/ PeekShort \/ TakePart \/ TakeFrame

Next ==
  \/ \E m \in Lines : TypeLine(m)
  \/ StopTyping
  \/ MainStep \/ ThreadStep \/ NetStep \/ ServerStep
  \/ Others \/ Expel \/ Over

Spec == Init /\ [][Next]_vars

(* The threads of the client and the server's loop are scheduled, and what *)
(* was sent arrives.  Nobody has to type, and neither others nor the       *)
(* heartbeat have to do anything.                                          *)
Fairness ==
  /\ WF_vars(MainStep)
  /\ WF_vars(ThreadStep)
  /\ WF_vars(NetStep)
  /\ WF_vars(ServerStep)

FairSpec == Spec /\ Fairness

-----------------------------------------------------------------------------
(* Properties.                                                             *)

Natural(n) == [k \in 1..n |-> k]

(* Types; the cells between the ends are within their bounds.              *)
ConversationTypeOK ==
  /\ said \in Seq(Lines) /\ Len(said) <= MaxSaid
  /\ typing \in {"typing", "leaving", "joining", "exited"}
  /\ recving \in {"on", "last", "returned"}
  /\ expect \in FrameSizes /\ Len(part) < expect
  /\ Len(down) <= Capacity
  /\ upEnd \in {"open", "fin", "reset"} /\ {edge, lost} \subseteq BOOLEAN
  /\ unsent \in {"none", "whole", "part"}
  /\ sock \in {"open", "expelled", "doomed", "closed"}
  /\ rights \in {"nobody", "user", "admin"}
  /\ at \in {"wait", "peek"}
  /\ left \in 1..SizeDown
  /\ \A s \in {handled, outbox, told} : \A k \in DOMAIN s : s[k] \in 0..Len(said)

(* The server handles what the client sent: each frame once, whole and in  *)
(* order, unless a frame that arrived in pieces was dropped (the recv loop *)
(* of main, against any way the bytes may arrive).                         *)
HandledInOrder == lost \/ handled = Natural(Len(handled))

(* The client prints the frames that the server sent: each once, whole and *)
(* in order, unless the server gave one up half-way (the loops of          *)
(* send_message_with_length and of recv_thread_func).                      *)
PrintedInOrder == unsent = "part" \/ printed = Natural(Len(printed))

IsAnswered(i) == \E k \in DOMAIN printed : printed[k] # 0 /\ told[printed[k]] = i
Disturbed == lost \/ unsent # "none"
Intact == ~Disturbed /\ sock # "closed" /\ ~Released

(* Nothing is on its way, in neither direction.                            *)
Quiet ==
  /\ upNet = <<>> /\ upBuf = <<>>
  /\ outbox = <<>> /\ down = <<>> /\ part = <<>>

(* Once everything has come to rest and nothing was dropped, the server    *)
(* has handled every line and the client has printed an answer to every    *)
(* command: no answer is forgotten between the recv loop, handle_message,  *)
(* the sends and recv_thread_func, whatever else is sent in between.       *)
QuietMeansAnswered ==
  Quiet /\ Intact
    => /\ Len(handled) = Len(said)
       /\ \A i \in DOMAIN said : said[i].slashes > 0 => IsAnswered(i)

(* The frames not begun; the one that has been is in told.                 *)
NotBegun == IF left = SizeDown \/ outbox = <<>> THEN outbox ELSE Tail(outbox)

Talk == INSTANCE Exchange WITH
  intact <- Intact,
  told <- told \o NotBegun

(* As long as nothing is dropped and both ends are there, client and       *)
(* server do what they would do without a network between them: the pieces *)
(* in which frames are sent, buffered and received, and the way these are  *)
(* interleaved, make no difference (module Exchange; the recv loop of      *)
(* main, send_message_with_length and recv_thread_func).                   *)
ImplementsExchange == Talk!ExchangeSpec

(* The client is told the answers in the order of its commands             *)
(* (handle_message, called by the recv loop of main).                      *)
ToldInOrder == Talk!AnswersInOrder

(* Whoever types a command reads an answer to that command, unless the     *)
(* connection ends first or the server has failed to read or to send       *)
(* something (handle_message, the recv loop, and the way back).            *)
CommandsAreAnswered ==
  \A i \in 1..MaxSaid :
    i \in DOMAIN said /\ said[i].slashes > 0
      ~> IsAnswered(i) \/ Disturbed \/ typing # "typing" \/ sock # "open"

(* The client's receiving thread ends when the server disconnects it, for  *)
(* whatever reason: /quit, a kick or the heartbeat (disconnect_client, the *)
(* clean-up, recv_thread_func).                                            *)
DisconnectedStopsReceiving == sock # "open" ~> recving = "returned"

(* A client that has closed its socket ends as soon as anything more comes *)
(* from the server, were it only that it closes the connection too (close  *)
(* and join in the client's main, against a recv still going on).          *)
ClosingClientEnds ==
  typing = "joining" /\ (down # <<>> \/ sock = "closed") ~> typing = "exited"

(* A reset has cut off all of a frame but a part of its length.            *)
LengthCutOff == upEnd = "reset" /\ Len(upBuf) \in 1..(HeaderSize - 1)

(* The server notices that a client has ended and closes the connection,   *)
(* unless cells of a frame it has dropped are in the way, or a part of a   *)
(* length that will never be more (the peek of main's recv loop).          *)
ExitIsNoticed == typing = "exited" ~> sock = "closed" \/ lost \/ LengthCutOff
=============================================================================
