-------------------------- MODULE EventLoopProofs --------------------------
(***************************************************************************)
(* The event loop implements the session layer, and therefore has its      *)
(* invariants; and two invariants of its own, proved for any number of     *)
(* connections and descriptors and any bound on buffers and batches.       *)
(*                                                                         *)
(* NoLostEdge follows from Watched: at every point of the loop an open     *)
(* descriptor with something to read is on epoll's list, in the batch, or  *)
(* queued for removal, or its connection is torn.                          *)
(*                                                                         *)
(* NoSilentDeparture follows from Marked: a logged-in client that is       *)
(* queued for removal has been announced.  What makes that inductive is    *)
(* that a queued descriptor whose client has NOT logged in cannot log in   *)
(* before the sweep, because its event is no longer in the batch; without  *)
(* that a client accepted on a number that was queued by mistake           *)
(* (NoInnocentClose) could log in and then vanish silently.                *)
(***************************************************************************)
EXTENDS EventLoop, SessionsProofs

-----------------------------------------------------------------------------
(* The loop implements the session layer.                                  *)

(* A step of the loop, of a peer or of the outside is a step of the        *)
(* session layer, or changes nothing there.                                *)
LEMMA StepRefines == TypeOK /\ [Next]_vars => [SessionNext]_sessionVars
<1> SUFFICES ASSUME TypeOK, [Next]_vars
             PROVE  [SessionNext]_sessionVars
  OBVIOUS
<1>1. CASE LoopStep
  <2>1. CASE EpollWait
    BY <2>1 DEF EpollWait
  <2>2. CASE Timeout
    <3>1. {f \in DOMAIN clients : clients[f].stale} \in SUBSET Fds
      BY DEF TypeOK, SessionTypeOK, IsMap
    <3> QED
      BY <2>2, <3>1 DEF Timeout, SessionNext
  <2>3. CASE SweepQueue
    BY <2>3 DEF SweepQueue, SessionNext
  <2>4. CASE AcceptOne
    <3>1. Head(backlog) \in Conns
      BY <2>4 DEF AcceptOne, TypeOK, KernelTypeOK
    <3> QED
      BY <2>4, <3>1 DEF AcceptOne, SessionNext
  <2>5. CASE AcceptFails
    BY <2>5 DEF AcceptFails
  <2>6. ASSUME NEW f \in Fds, RecvStep(f)
        PROVE  [SessionNext]_sessionVars
    <3>1. CASE ReadFrame(f)
      BY <3>1 DEF ReadFrame, SessionNext
    <3>2. CASE ReadPartial(f)
      BY <3>2 DEF ReadPartial
    <3>3. CASE ReadDrained(f)
      BY <3>3 DEF ReadDrained
    <3>4. CASE ReadClosed(f)
      BY <3>4, {f} \in SUBSET Fds DEF ReadClosed, SessionNext
    <3> QED
      BY <2>6, <3>1, <3>2, <3>3, <3>4 DEF RecvStep
  <2>7. CASE BatchDone
    BY <2>7 DEF BatchDone
  <2> QED
    BY <1>1, <2>1, <2>2, <2>3, <2>4, <2>5, <2>6, <2>7 DEF LoopStep
<1>2. CASE PeerStep
  BY <1>2 DEF PeerStep, Connect, PeerSend, PeerClose
<1>3. CASE OutsideStep
  BY <1>3, EventLoopAssumption DEF OutsideStep, SessionNext
<1>4. CASE Shutdown
  BY <1>4 DEF Shutdown, SessionNext
<1>5. CASE Exited \/ UNCHANGED vars
  BY <1>5 DEF Exited, vars
<1> QED
  BY <1>1, <1>2, <1>3, <1>4, <1>5 DEF Next

-----------------------------------------------------------------------------
(* Types of the kernel's and the loop's state.                             *)

(* Taking frames out of one receive buffer keeps the buffers' type.        *)
LEMMA InboxLess ==
  ASSUME inbox \in [Conns -> 0..MaxInbox], NEW c, NEW k \in 0..MaxInbox
  PROVE  [inbox EXCEPT ![c] = k] \in [Conns -> 0..MaxInbox]
OBVIOUS

(* Nothing has arrived and the loop waits when main reaches it.            *)
LEMMA KernelTypeInit == Init => KernelTypeOK
BY EventLoopAssumption DEF Init, KernelTypeOK

(* Every step of the loop, of a peer or of the outside keeps the kernel's  *)
(* and the loop's state well typed.                                        *)
LEMMA KernelTypeNext == TypeOK /\ [Next]_vars => KernelTypeOK'
<1> SUFFICES ASSUME TypeOK, [Next]_vars
             PROVE  KernelTypeOK'
  OBVIOUS
<1> USE EventLoopAssumption DEF TypeOK, KernelTypeOK, kernelVars, loopVars
<1>1. ASSUME NEW c \in Conns, Connect(c)
      PROVE  KernelTypeOK'
  BY <1>1 DEF Connect
<1>2. ASSUME NEW c \in Conns, PeerSend(c)
      PROVE  KernelTypeOK'
  <2>1. inbox[c] + 1 \in 0..MaxInbox
    BY <1>2 DEF PeerSend
  <2>2. inbox' \in [Conns -> 0..MaxInbox]
    BY <1>2, <2>1, InboxLess DEF PeerSend
  <2> QED
    BY <1>2, <2>2 DEF PeerSend, Wake
<1>3. ASSUME NEW c \in Conns, PeerClose(c)
      PROVE  KernelTypeOK'
  <2>1. inbox' \in [Conns -> 0..MaxInbox]
    BY <1>3 DEF PeerClose
  <2> QED
    BY <1>3, <2>1 DEF PeerClose, Wake
<1>4. CASE EpollWait
  BY <1>4 DEF EpollWait, Fired
<1>5. CASE Timeout
  BY <1>5 DEF Timeout
<1>6. CASE SweepQueue
  <2>1. inbox' \in [Conns -> 0..MaxInbox]
    BY <1>6 DEF SweepQueue
  <2> QED
    BY <1>6, <2>1 DEF SweepQueue
<1>7. CASE AcceptOne
  <2>1. backlog' \in Seq(Conns)
    BY <1>7 DEF AcceptOne
  <2>2. ready' \subseteq Fds \cup {Listener}
    BY <1>7 DEF AcceptOne
  <2> QED
    BY <1>7, <2>1, <2>2 DEF AcceptOne
<1>8. CASE AcceptFails
  BY <1>8 DEF AcceptFails
<1>9. ASSUME NEW f \in Fds, ReadFrame(f)
      PROVE  KernelTypeOK'
  <2>1. inbox[fdtab[f]] - 1 \in 0..MaxInbox
    <3>1. fdtab[f] \in Conns /\ inbox[fdtab[f]] > 0
      BY <1>9 DEF ReadFrame, Pending, SessionTypeOK
    <3> QED
      BY <3>1
  <2>2. inbox' \in [Conns -> 0..MaxInbox]
    BY <1>9, <2>1, InboxLess DEF ReadFrame
  <2> QED
    BY <1>9, <2>2 DEF ReadFrame
<1>10. ASSUME NEW f \in Fds, ReadPartial(f)
       PROVE  KernelTypeOK'
  <2>1. inbox' \in [Conns -> 0..MaxInbox]
    <3>1. PICK left \in {0, 1} : inbox' = [inbox EXCEPT ![fdtab[f]] = left]
      BY <1>10 DEF ReadPartial
    <3>2. left \in 0..MaxInbox
      OBVIOUS
    <3> QED
      BY <3>1, <3>2, InboxLess
  <2>2. fdtab[f] \in Conns
    BY <1>10 DEF ReadPartial, Pending, SessionTypeOK
  <2> QED
    BY <1>10, <2>1, <2>2 DEF ReadPartial, Leave
<1>11. ASSUME NEW f \in Fds, ReadDrained(f) \/ ReadClosed(f)
       PROVE  KernelTypeOK'
  BY <1>11 DEF ReadDrained, ReadClosed, Leave
<1>12. CASE BatchDone
  BY <1>12 DEF BatchDone
<1>13. CASE OutsideStep
  BY <1>13 DEF OutsideStep
<1>14. CASE Shutdown
  BY <1>14 DEF Shutdown
<1>15. CASE Exited \/ UNCHANGED vars
  BY <1>15 DEF Exited, vars
<1> QED
  BY <1>1, <1>2, <1>3, <1>4, <1>5, <1>6, <1>7, <1>8, <1>9, <1>10, <1>11,
     <1>12, <1>13, <1>14, <1>15
     DEF Next, LoopStep, PeerStep, RecvStep

-----------------------------------------------------------------------------
(* No wake-up is lost.                                                     *)

Live(f) == Pending(f) \/ AtEof(f)

(* When the loop waits, the last batch is behind it.                       *)
BatchBehind ==
  /\ phase = "wait" => batch = {}
  /\ reading \subseteq batch

(* Whatever is to be read will be looked at.                               *)
Watched ==
  \A f \in Fds : Live(f) => f \in ready \cup batch \cup to_remove \/ fdtab[f] \in torn

(* The loop waits only after BatchDone, and reads only from the batch.     *)
LEMMA BatchBehindNext == BatchBehind /\ [Next]_vars => BatchBehind'
<1> SUFFICES ASSUME BatchBehind, [Next]_vars
             PROVE  BatchBehind'
  OBVIOUS
<1> USE DEF BatchBehind, loopVars, kernelVars
<1>1. CASE PeerStep \/ OutsideStep
  BY <1>1 DEF PeerStep, OutsideStep, Connect, PeerSend, PeerClose
<1>2. CASE EpollWait \/ Timeout \/ SweepQueue
  BY <1>2 DEF EpollWait, Timeout, SweepQueue
<1>3. CASE AcceptOne \/ AcceptFails
  BY <1>3 DEF AcceptOne, AcceptFails
<1>4. ASSUME NEW f \in Fds, RecvStep(f)
      PROVE  BatchBehind'
  BY <1>4 DEF RecvStep, ReadFrame, ReadPartial, ReadDrained, ReadClosed,
              InRecvLoop, Leave
<1>5. CASE BatchDone \/ Shutdown
  BY <1>5 DEF BatchDone, Shutdown
<1>6. CASE Exited \/ UNCHANGED vars
  BY <1>6 DEF Exited, vars
<1> QED
  BY <1>1, <1>2, <1>3, <1>4, <1>5, <1>6 DEF Next, LoopStep

(* A descriptor that was live and watched stays watched if the step takes  *)
(* it off no list and its connection stays torn.                           *)
LEMMA WatchedKept ==
  ASSUME Watched, UNCHANGED fdtab, torn \subseteq torn',
         ready \cup batch \cup to_remove \subseteq ready' \cup batch' \cup to_remove',
         NEW f \in Fds, Live(f)
  PROVE  f \in ready' \cup batch' \cup to_remove' \/ fdtab'[f] \in torn'
BY DEF Watched

(* Handling a frame opens and closes nothing and unqueues nothing.         *)
LEMMA HandlingKeeps ==
  ASSUME NEW f, handle_message(f)
  PROVE  UNCHANGED fdtab /\ to_remove \subseteq to_remove' /\ UNCHANGED closed
BY DEF handle_message, Chat, Quit, Register, Login, Kick, disconnect_client, history

(* An arrival puts a descriptor on the ready list, epoll_wait moves it to  *)
(* the batch, and the recv loop leaves it only when there is nothing left, *)
(* when it is queued for removal, or torn.                                 *)
LEMMA WatchedNext ==
  ASSUME SInv, TypeOK, BatchBehind, Watched, [Next]_vars
  PROVE  Watched'
<1> USE DEF loopVars, kernelVars, Live, Pending, AtEof, WouldBlock
<1> SUFFICES ASSUME NEW f \in Fds, Live(f)'
             PROVE  f \in ready' \cup batch' \cup to_remove' \/ fdtab'[f] \in torn'
  BY DEF Watched
<1> DEFINE Goal == f \in ready' \cup batch' \cup to_remove' \/ fdtab'[f] \in torn'
<1>0. fdtab \in [Fds -> Conns \cup {NoConn}] /\ Listener \notin Fds
  BY EventLoopAssumption DEF TypeOK, SessionTypeOK
<1> HIDE DEF Goal
<1>1. ASSUME NEW c \in Conns, Connect(c)
      PROVE  Goal
  BY <1>1 DEF Goal, Connect, Watched, sessionVars
<1>2. ASSUME NEW c \in Conns, PeerSend(c) \/ PeerClose(c)
      PROVE  Goal
  <2>1. CASE fdtab[f] = c
    BY <1>2, <2>1 DEF Goal, PeerSend, PeerClose, Wake
  <2>2. CASE fdtab[f] # c
    <3>1. UNCHANGED <<fdtab, torn, batch, to_remove>> /\ ready \subseteq ready'
      BY <1>2 DEF PeerSend, PeerClose, Wake, sessionVars
    <3>2. Live(f)
      BY <1>2, <2>2, <3>1, <1>0 DEF PeerSend, PeerClose, TypeOK, KernelTypeOK
    <3> QED
      BY <3>1, <3>2 DEF Goal, Watched
  <2> QED
    BY <2>1, <2>2
<1>3. CASE EpollWait
  <2>1. Live(f) /\ batch = {} /\ fdtab' = fdtab /\ to_remove' = to_remove /\ torn' = torn
    BY <1>3 DEF EpollWait, sessionVars, BatchBehind
  <2>2. f \in ready => f \in Fired
    BY <1>0, <2>1 DEF Fired
  <2>3. f \in Fired => f \in ready' \cup batch'
    BY <1>3 DEF EpollWait
  <2> QED
    BY <2>1, <2>2, <2>3 DEF Goal, Watched
<1>4. CASE Timeout
  BY <1>4 DEF Timeout, Drop, disconnect_client, Goal, Watched
<1>5. CASE SweepQueue
  <2>1. f \notin to_remove /\ fdtab'[f] = fdtab[f]
    BY <1>0, <1>5 DEF SweepQueue, Sweep
  <2>2. Live(f)
    BY <1>5, <2>1, <1>0 DEF SweepQueue, TypeOK, KernelTypeOK
  <2> QED
    BY <1>5, <2>1, <2>2 DEF SweepQueue, Goal, Watched
<1>6. CASE AcceptOne
  <2>1. PICK g \in Fds : /\ Accept(Head(backlog), g)
                         /\ ready' = IF inbox[Head(backlog)] > 0 \/ Head(backlog) \in eof
                                     THEN ready \cup {g} ELSE ready
    BY <1>6 DEF AcceptOne
  <2>2. CASE f = g
    BY <1>0, <1>6, <2>1, <2>2 DEF AcceptOne, Accept, Goal
  <2>3. CASE f # g
    BY <1>0, <1>6, <2>1, <2>3 DEF AcceptOne, Accept, Goal, Watched
  <2> QED
    BY <2>2, <2>3
<1>7. CASE AcceptFails
  BY <1>0, <1>7 DEF AcceptFails, sessionVars, Goal, Watched
<1>8. ASSUME NEW g \in Fds, ReadFrame(g)
      PROVE  Goal
  <2>1. UNCHANGED <<fdtab, eof, torn, ready, batch>> /\ to_remove \subseteq to_remove'
    BY <1>8, HandlingKeeps DEF ReadFrame
  <2>2. Live(f)
    BY <1>0, <1>8, <2>1 DEF ReadFrame, TypeOK, KernelTypeOK
  <2> QED
    BY <2>1, <2>2 DEF Goal, Watched
<1>9. ASSUME NEW g \in Fds, ReadPartial(g)
      PROVE  Goal
  <2>1. CASE f = g
    BY <1>9, <2>1 DEF ReadPartial, sessionVars, Goal
  <2>2. CASE f # g
    <3>1. fdtab'[f] = fdtab[f] /\ fdtab[f] # fdtab[g]
      BY <1>0, <1>9, <2>2 DEF ReadPartial, sessionVars, SInv, Agreement, FdTableAgrees
    <3>2. Live(f)
      BY <1>0, <1>9, <3>1 DEF ReadPartial
    <3> QED
      BY <1>9, <2>2, <3>1, <3>2 DEF ReadPartial, Leave, sessionVars, Goal, Watched
  <2> QED
    BY <2>1, <2>2
<1>10. ASSUME NEW g \in Fds, ReadDrained(g)
       PROVE  Goal
  BY <1>0, <1>10 DEF ReadDrained, Leave, sessionVars, Goal, Watched
<1>11. ASSUME NEW g \in Fds, ReadClosed(g)
       PROVE  Goal
  BY <1>0, <1>11 DEF ReadClosed, Drop, disconnect_client, Leave, Goal, Watched
<1>12. CASE BatchDone
  BY <1>12 DEF BatchDone, sessionVars, Goal, Watched
<1>13. CASE OutsideStep
  BY <1>13 DEF OutsideStep, Age, SetAdmin, Goal, Watched
<1>14. CASE Shutdown
  BY <1>0, <1>14 DEF Shutdown, CloseAll, SInv, Agreement, FdTableAgrees
<1>15. CASE Exited \/ UNCHANGED vars
  BY <1>15 DEF Exited, vars, sessionVars, Goal, Watched
<1> QED
  BY <1>1, <1>2, <1>3, <1>4, <1>5, <1>6, <1>7, <1>8, <1>9, <1>10, <1>11,
     <1>12, <1>13, <1>14, <1>15
     DEF Next, LoopStep, PeerStep, RecvStep, Goal

-----------------------------------------------------------------------------
(* No client that had logged in vanishes silently.                         *)

LoggedInAt(f) == f \in DOMAIN clients /\ clients[f].nick # NoNick

(* A logged-in client that is queued has been announced, and no other      *)
(* queued descriptor can still be read from before the sweep.              *)
Marked ==
  \A f \in to_remove :
    /\ LoggedInAt(f) => fdtab[f] \in farewell
    /\ phase = "events" /\ f \in batch => LoggedInAt(f)

(* What disconnect_client queues is announced if it is logged in.          *)
LEMMA DisconnectMarks ==
  ASSUME SInv, Marked, SameSessions, NEW S, S \subseteq Fds, disconnect_client(S)
  PROVE  \A f \in to_remove' : LoggedInAt(f)' => fdtab'[f] \in farewell'
<1> SUFFICES ASSUME NEW f \in to_remove', LoggedInAt(f)'
             PROVE  fdtab'[f] \in farewell'
  OBVIOUS
<1>1. LoggedInAt(f) /\ fdtab'[f] = fdtab[f]
  BY DEF LoggedInAt, SameSessions
<1>2. fdtab[f] # NoConn
  BY <1>1 DEF LoggedInAt, SInv, Agreement, FdTableAgrees
<1>3. CASE f \in S
  BY <1>1, <1>2, <1>3 DEF LoggedInAt, disconnect_client, Occupants, get_username
<1>4. CASE f \in to_remove
  BY <1>1, <1>4 DEF Marked, disconnect_client
<1> QED
  BY <1>3, <1>4 DEF disconnect_client

(* A frame of a client in the batch keeps Marked: a client that is queued  *)
(* and not logged in is not in the batch.                                  *)
LEMMA HandlingMarks ==
  ASSUME SInv, Marked, phase = "events", NEW g \in Fds, g \in batch,
         handle_message(g), UNCHANGED <<phase, batch>>
  PROVE  Marked'
<1> USE DEF SInv, history
<1>1. ASSUME SameSessions, UNCHANGED <<to_remove, farewell>>
      PROVE  Marked'
  BY <1>1 DEF Marked, SameSessions, LoggedInAt
<1>2. ASSUME SameSessions, NEW t \in Fds, disconnect_client({t}), LoggedInAt(t)
      PROVE  Marked'
  <2>1. \A f \in to_remove' : LoggedInAt(f)' => fdtab'[f] \in farewell'
    BY <1>2, DisconnectMarks, {t} \subseteq Fds
  <2>2. ASSUME NEW f \in to_remove', f \in batch
        PROVE  LoggedInAt(f)'
    BY <1>2, <2>2 DEF Marked, disconnect_client, SameSessions, LoggedInAt
  <2> QED
    BY <2>1, <2>2 DEF Marked
<1>3. CASE Chat(g)
  BY <1>1, <1>3, QuietSteps DEF Chat
<1>4. CASE Quit(g)
  <2>1. SameSessions
    BY <1>4, QuietSteps
  <2> QED
    BY <1>2, <1>4, <2>1 DEF Quit, LoggedInAt
<1>5. ASSUME NEW n \in Nicks, Register(g, n)
      PROVE  Marked'
  <2>1. SameSessions
    BY <1>5, QuietSteps
  <2> QED
    BY <1>1, <1>5, <2>1 DEF Register
<1>6. ASSUME NEW n \in Nicks, Login(g, n)
      PROVE  Marked'
  <2>1. g \notin to_remove
    BY <1>6 DEF Login, Marked, LoggedInAt
  <2>2. \A f \in DOMAIN clients \ {g} : clients'[f].nick = clients[f].nick
    <3>1. g \in DOMAIN clients /\ accounts[Lower[n]] \in Account
      BY <1>6 DEF Login, SessionTypeOK, IsMap
    <3>2. clients' = LoggedIn(g, accounts[Lower[n]], cache')
      BY <1>6 DEF Login, LoggedIn
    <3> QED
      BY <3>1, <3>2, LoginWrites
  <2>3. DOMAIN clients' = DOMAIN clients
    BY <1>6 DEF Login, set_username, Heard
  <2> QED
    BY <1>6, <2>1, <2>2, <2>3 DEF Login, Marked, LoggedInAt
<1>7. ASSUME NEW n \in Nicks, Kick(g, n)
      PROVE  Marked'
  <2>1. SameSessions
    BY <1>7, QuietSteps
  <2>2. PICK t \in get_fd_by_nickname(n) : disconnect_client({t})
    BY <1>7 DEF Kick
  <2>3. t \in Fds /\ LoggedInAt(t)
    BY <2>2 DEF get_fd_by_nickname, LoggedInAt, SessionTypeOK, IsMap
  <2> QED
    BY <1>2, <2>1, <2>2, <2>3
<1> QED
  BY <1>3, <1>4, <1>5, <1>6, <1>7 DEF handle_message

(* The sweep empties the queue before a batch is handled, and in the batch *)
(* each way of queueing a descriptor either announces its client or is the *)
(* last thing that is done with its event.                                 *)
LEMMA MarkedNext ==
  ASSUME SInv, TypeOK, Marked, [Next]_vars
  PROVE  Marked'
<1> USE DEF loopVars, kernelVars
<1>1. ASSUME UNCHANGED sessionVars,
             phase' = "events" => phase = "events" /\ batch' \subseteq batch
      PROVE  Marked'
  BY <1>1 DEF Marked, LoggedInAt, sessionVars
<1>2. CASE PeerStep
  BY <1>1, <1>2 DEF PeerStep, Connect, PeerSend, PeerClose
<1>3. CASE EpollWait \/ AcceptFails \/ BatchDone \/ Exited \/ UNCHANGED vars
  BY <1>1, <1>3 DEF EpollWait, AcceptFails, BatchDone, Exited, vars
<1>4. ASSUME NEW g \in Fds, ReadPartial(g) \/ ReadDrained(g)
      PROVE  Marked'
  BY <1>1, <1>4 DEF ReadPartial, ReadDrained, Leave
<1>5. CASE SweepQueue \/ Shutdown
  BY <1>5 DEF SweepQueue, Sweep, Shutdown, CloseAll, Marked
<1>6. CASE Timeout
  <2> DEFINE S == {f \in DOMAIN clients : clients[f].stale}
  <2>1. S \in SUBSET Fds /\ Drop(S) /\ phase' = "sweep"
    BY <1>6 DEF Timeout, SInv, SessionTypeOK, IsMap
  <2>2. SameSessions
    BY <2>1, QuietSteps DEF SInv
  <2> HIDE DEF S
  <2> QED
    BY <2>1, <2>2, DisconnectMarks DEF Marked, Drop
<1>7. CASE AcceptOne
  <2>1. PICK g \in Fds : Accept(Head(backlog), g)
    BY <1>7 DEF AcceptOne
  <2>2. g \notin DOMAIN clients /\ clients' = Emplace(clients, g, NewClient)
    BY <2>1 DEF Accept, SInv, Agreement, FdTableAgrees
  <2>3. /\ DOMAIN clients' = DOMAIN clients \cup {g} /\ clients'[g] = NewClient
        /\ \A f \in DOMAIN clients : clients'[f] = clients[f]
    BY <2>2 DEF Emplace
  <2>4. ~LoggedInAt(g)'
    BY <2>3 DEF LoggedInAt, NewClient
  <2>5. \A f \in Fds \ {g} : LoggedInAt(f)' <=> LoggedInAt(f)
    BY <2>3 DEF LoggedInAt
  <2>6. \A f \in Fds \ {g} : fdtab'[f] = fdtab[f]
    BY <2>1 DEF Accept, SInv, SessionTypeOK
  <2>7. UNCHANGED <<to_remove, farewell, phase>> /\ batch' \subseteq batch /\ to_remove \subseteq Fds
    BY <1>7, <2>1 DEF AcceptOne, Accept, history, SInv, SessionTypeOK
  <2>8. ~LoggedInAt(g)
    BY <2>2 DEF LoggedInAt
  <2> QED
    BY <2>4, <2>5, <2>6, <2>7, <2>8 DEF Marked
<1>8. ASSUME NEW g \in Fds, ReadFrame(g)
      PROVE  Marked'
  BY <1>8, HandlingMarks DEF ReadFrame, InRecvLoop
<1>9. ASSUME NEW g \in Fds, ReadClosed(g)
      PROVE  Marked'
  <2>1. Drop({g}) /\ {g} \in SUBSET Fds
    BY <1>9 DEF ReadClosed
  <2>2. SameSessions
    BY <2>1, QuietSteps DEF SInv
  <2>3. \A f \in to_remove' : LoggedInAt(f)' => fdtab'[f] \in farewell'
    BY <2>1, <2>2, DisconnectMarks DEF Drop
  <2>4. ASSUME NEW f \in to_remove', phase' = "events", f \in batch'
        PROVE  LoggedInAt(f)'
    BY <1>9, <2>1, <2>2, <2>4
       DEF ReadClosed, Leave, Drop, disconnect_client, Marked, SameSessions, LoggedInAt
  <2> QED
    BY <2>3, <2>4 DEF Marked
<1>10. CASE OutsideStep
  <2>1. SameSessions
    BY <1>10, QuietSteps, EventLoopAssumption DEF OutsideStep, SInv
  <2>2. UNCHANGED <<to_remove, farewell, phase, batch>>
    BY <1>10 DEF OutsideStep, Age, SetAdmin, history
  <2> QED
    BY <2>1, <2>2 DEF Marked, SameSessions, LoggedInAt
<1> QED
  BY <1>2, <1>3, <1>4, <1>5, <1>6, <1>7, <1>8, <1>9, <1>10
     DEF Next, LoopStep, RecvStep

(* A connection is closed by the sweep only, which by Marked closes nobody *)
(* who had logged in and was not announced.                                *)
LEMMA ToldNext ==
  ASSUME SInv, TypeOK, Marked, NoSilentDeparture, [Next]_vars
  PROVE  NoSilentDeparture'
<1> USE DEF loopVars, kernelVars, SInv
<1>1. ASSUME UNCHANGED <<login, closed>>, farewell \subseteq farewell',
             phase' # "down" => phase # "down"
      PROVE  NoSilentDeparture'
  BY <1>1 DEF NoSilentDeparture
<1>2. CASE PeerStep \/ OutsideStep
  BY <1>1, <1>2 DEF PeerStep, Connect, PeerSend, PeerClose, sessionVars,
                    OutsideStep, Age, SetAdmin, history
<1>3. CASE EpollWait \/ AcceptFails \/ BatchDone \/ Exited \/ UNCHANGED vars
  BY <1>1, <1>3 DEF EpollWait, AcceptFails, BatchDone, Exited, vars, sessionVars
<1>4. CASE Timeout
  BY <1>1, <1>4 DEF Timeout, Drop, disconnect_client
<1>5. CASE AcceptOne
  BY <1>1, <1>5 DEF AcceptOne, Accept, history
<1>6. ASSUME NEW f \in Fds, ReadPartial(f) \/ ReadDrained(f) \/ ReadClosed(f)
      PROVE  NoSilentDeparture'
  BY <1>1, <1>6 DEF ReadPartial, ReadDrained, ReadClosed, Drop,
                    disconnect_client, sessionVars
<1>7. ASSUME NEW f \in Fds, ReadFrame(f)
      PROVE  NoSilentDeparture'
  <2>1. handle_message(f) /\ phase' = phase
    BY <1>7 DEF ReadFrame
  <2>2. ASSUME NEW n \in Nicks, Login(f, n)
        PROVE  NoSilentDeparture'
    <3>1. fdtab[f] \notin closed
      BY <2>2 DEF Login, Agreement, FdTableAgrees
    <3> QED
      BY <2>1, <2>2, <3>1 DEF Login, NoSilentDeparture, SessionTypeOK
  <2>3. CASE Chat(f) \/ Quit(f) \/ \E n \in Nicks : Register(f, n) \/ Kick(f, n)
    BY <1>1, <2>1, <2>3 DEF Chat, Quit, Register, Kick, disconnect_client, history
  <2> QED
    BY <2>1, <2>2, <2>3 DEF handle_message
<1>8. CASE SweepQueue
  <2>1. UNCHANGED <<login, farewell>> /\ closed' = closed \cup Occupants(to_remove)
    BY <1>8 DEF SweepQueue, Sweep
  <2>2. ASSUME NEW c \in Occupants(to_remove), login[c].nick # NoNick
        PROVE  c \in farewell
    <3>1. PICK f \in to_remove : fdtab[f] = c /\ c # NoConn
      BY DEF Occupants
    <3>2. f \in DOMAIN clients
      BY <3>1 DEF Agreement, FdTableAgrees, SessionTypeOK
    <3>3. LoggedInAt(f)
      BY <2>2, <3>1, <3>2 DEF Agreement, SessionOfItsConnection, LoggedInAt
    <3> QED
      BY <3>1, <3>3 DEF Marked
  <2> QED
    BY <1>8, <2>1, <2>2 DEF NoSilentDeparture, SweepQueue
<1>9. CASE Shutdown
  BY <1>9 DEF Shutdown, NoSilentDeparture
<1> QED
  BY <1>2, <1>3, <1>4, <1>5, <1>6, <1>7, <1>8, <1>9 DEF Next, LoopStep, RecvStep

-----------------------------------------------------------------------------
(* Theorems.                                                               *)

LoopInv ==
  /\ SInv
  /\ KernelTypeOK
  /\ BatchBehind
  /\ Watched
  /\ Marked
  /\ NoSilentDeparture

(* The inductive invariant of the event loop.                              *)
THEOREM LoopInvariant == Spec => []LoopInv
<1>1. Init => LoopInv
  <2> SUFFICES ASSUME Init
               PROVE  LoopInv
    OBVIOUS
  <2>1. SInv /\ KernelTypeOK
    BY TypeInit, AgreementInit, KernelTypeInit DEF Init, SInv
  <2>2. BatchBehind /\ Watched /\ Marked /\ NoSilentDeparture
    BY DEF Init, SessionInit, BatchBehind, Watched, Live, Pending, AtEof,
           Marked, NoSilentDeparture
  <2> QED
    BY <2>1, <2>2 DEF LoopInv
<1>2. LoopInv /\ [Next]_vars => LoopInv'
  <2> SUFFICES ASSUME LoopInv, [Next]_vars
               PROVE  LoopInv'
    OBVIOUS
  <2>1. TypeOK
    BY DEF LoopInv, SInv, TypeOK
  <2>2. SInv'
    BY <2>1, StepRefines, TypeNext, AgreementNext DEF LoopInv, SInv
  <2>3. KernelTypeOK'
    BY <2>1, KernelTypeNext
  <2>4. BatchBehind'
    BY BatchBehindNext DEF LoopInv
  <2>5. Watched'
    BY <2>1, WatchedNext DEF LoopInv
  <2>6. Marked'
    BY <2>1, MarkedNext DEF LoopInv
  <2>7. NoSilentDeparture'
    BY <2>1, ToldNext DEF LoopInv
  <2> QED
    BY <2>2, <2>3, <2>4, <2>5, <2>6, <2>7 DEF LoopInv
<1> QED
  BY <1>1, <1>2, PTL DEF Spec

(* The kernel's, the loop's and the sessions' state is well typed.         *)
THEOREM LoopTyped == Spec => []TypeOK
<1>1. LoopInv => TypeOK
  BY DEF LoopInv, SInv, TypeOK
<1> QED
  BY <1>1, LoopInvariant, PTL

(* The event loop's steps are written with those of Sessions, so it is an  *)
(* instance of the session layer.                                          *)
LEMMA LoopImplementsSessions == Spec => SessionSpec
<1>1. Init => SessionInit
  BY DEF Init
<1>2. TypeOK /\ [Next]_vars => [SessionNext]_sessionVars
  BY StepRefines
<1> QED
  BY <1>1, <1>2, LoopTyped, PTL DEF Spec, SessionSpec

(* Hence the sessions of the running server keep the invariants of the     *)
(* session layer.                                                          *)
THEOREM LoopSessionsAreSound ==
  Spec => [](FdTableAgrees /\ SessionOfItsConnection /\ AdminAsGranted /\ UniqueNicknames)
BY LoopImplementsSessions, DescriptorsAgree, SessionsAreOwn, NicknamesAreUnique, PTL

(* The loop never blocks with something left to read that no event will    *)
(* announce, except on a connection whose last frame came in part.         *)
THEOREM NoEdgeIsLost == Spec => []NoLostEdge
<1>1. LoopInv => NoLostEdge
  BY DEF LoopInv, BatchBehind, Watched, Live, NoLostEdge
<1> QED
  BY <1>1, LoopInvariant, PTL

(* Whoever had logged in and is closed by the running server has been      *)
(* announced to the others.                                                *)
THEOREM DeparturesAreAnnounced == Spec => []NoSilentDeparture
<1>1. LoopInv => NoSilentDeparture
  BY DEF LoopInv
<1> QED
  BY <1>1, LoopInvariant, PTL
============================================================================
