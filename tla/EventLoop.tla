----------------------------- MODULE EventLoop -----------------------------
(***************************************************************************)
(* The reactor in main: one thread that waits on edge-triggered epoll,     *)
(* sweeps the descriptors queued in to_remove, and then works through the  *)
(* batch of events epoll_wait returned BEFORE the sweep.  The state of the *)
(* sessions and the handlers come from module Sessions; this module adds   *)
(* the kernel (accept queue, receive buffers, ready list), the peers, and  *)
(* the loop that decides when each handler runs.                           *)
(*                                                                         *)
(* Edge-triggered: a descriptor enters ready when something arrives for it *)
(* and leaves ready when epoll_wait reports it, whether or not the handler *)
(* then takes everything there is to take.                                 *)
(*                                                                         *)
(* Abstracted: a receive buffer is the number of frames in it; what a      *)
(* frame says is chosen when it is read.  Sending is not modelled here:    *)
(* send_message_with_length gives up on any error and changes no state.    *)
(***************************************************************************)
EXTENDS Sessions, Sequences, FiniteSets

CONSTANTS
  Listener,   \* server_fd
  MaxInbox,   \* frames a receive buffer holds
  MaxEvents,  \* MAX_EVENTS, the most events one epoll_wait returns
  Edited      \* lower-case names whose row in the table users is edited by hand

ASSUME EventLoopAssumption ==
  /\ Listener \notin Fds
  /\ MaxInbox \in Nat \ {0}
  /\ MaxEvents \in Nat \ {0}
  /\ Edited \subseteq Folded

VARIABLES
  backlog,  \* kernel: connections waiting in the accept queue
  inbox,    \* kernel: frames unread in the receive buffer of a connection
  eof,      \* connections the peer has closed
  torn,     \* history: connections whose recv loop left on a partial frame
  ready,    \* kernel: epoll's ready list
  phase,    \* what the loop does next: "wait", "sweep", "events"; or "down"
  batch,    \* events[0..nfds-1] still to be handled
  reading   \* the descriptor inside its recv loop, if any

kernelVars == <<backlog, inbox, eof, ready>>
loopVars == <<phase, batch, reading>>
vars == <<sessionVars, kernelVars, loopVars, torn>>

Init ==
  /\ SessionInit
  /\ backlog = <<>>
  /\ inbox = [c \in Conns |-> 0]
  /\ eof = {}
  /\ torn = {}
  /\ ready = {}
  /\ phase = "wait"
  /\ batch = {}
  /\ reading = {}

Queued == {backlog[i] : i \in DOMAIN backlog}
Open(c) == \E f \in Fds : fdtab[f] = c

(* An arrival for c puts its descriptor, if it has one, on the ready list. *)
Wake(c) == ready' = ready \cup {f \in Fds : fdtab[f] = c}

(* What recv finds on descriptor f.                                        *)
Pending(f)  == fdtab[f] # NoConn /\ inbox[fdtab[f]] > 0
AtEof(f)    == fdtab[f] # NoConn /\ inbox[fdtab[f]] = 0 /\ fdtab[f] \in eof
WouldBlock(f) == fdtab[f] # NoConn /\ inbox[fdtab[f]] = 0 /\ fdtab[f] \notin eof

(* epoll_wait checks every descriptor on the list again before it reports. *)
Fired == {f \in ready : IF f = Listener THEN backlog # <<>>
                                        ELSE Pending(f) \/ AtEof(f)}

-----------------------------------------------------------------------------
(* The peers.                                                              *)

Connect(c) ==
  /\ phase # "down"
  /\ c \notin Queued \cup closed
  /\ ~Open(c)
  /\ backlog' = Append(backlog, c)
  /\ ready' = ready \cup {Listener}
  /\ UNCHANGED <<sessionVars, inbox, eof, torn, loopVars>>

PeerSend(c) ==
  /\ phase # "down"
  /\ c \in Queued \/ Open(c)
  /\ c \notin eof
  /\ inbox[c] < MaxInbox
  /\ inbox' = [inbox EXCEPT ![c] = @ + 1]
  /\ Wake(c)
  /\ UNCHANGED <<sessionVars, backlog, eof, torn, loopVars>>

(* The peer closes; a reset also discards what the server has not read.    *)
PeerClose(c) ==
  /\ phase # "down"
  /\ c \in Queued \/ Open(c)
  /\ c \notin eof
  /\ eof' = eof \cup {c}
  /\ \E kept \in {0, inbox[c]} : inbox' = [inbox EXCEPT ![c] = kept]
  /\ Wake(c)
  /\ UNCHANGED <<sessionVars, backlog, torn, loopVars>>

-----------------------------------------------------------------------------
(* The loop.                                                               *)

(* epoll_wait returns events: all that fired, or MAX_EVENTS of them.       *)
EpollWait ==
  /\ phase = "wait"
  /\ \E b \in SUBSET Fired :
       /\ b # {}
       /\ Cardinality(b) <= MaxEvents
       /\ b = Fired \/ Cardinality(b) = MaxEvents
       /\ batch' = b
       /\ ready' = Fired \ b
  /\ phase' = "sweep"
  /\ UNCHANGED <<sessionVars, backlog, inbox, eof, torn, reading>>

(* epoll_wait times out, nfds is 0: the only occasion for the heartbeat,   *)
(* which disconnects every client that has been silent too long.           *)
Timeout ==
  /\ phase = "wait"
  /\ Fired = {}
  /\ Drop({f \in DOMAIN clients : clients[f].stale})
  /\ phase' = "sweep"
  /\ UNCHANGED <<kernelVars, torn, batch, reading>>

(* Mutant: the clean-up runs only when epoll_wait returned nothing.        *)
SweepQueue_WhenIdle ==
  /\ phase = "sweep"
  /\ IF batch = {}
     THEN /\ Sweep
          /\ inbox' = [c \in Conns |-> IF c \in closed' THEN 0 ELSE inbox[c]]
          /\ ready' = ready \ to_remove
     ELSE UNCHANGED <<sessionVars, inbox, ready>>
  /\ phase' = "events"
  /\ UNCHANGED <<backlog, eof, torn, batch, reading>>

(* The clean-up.  Closing a descriptor takes it out of epoll, but not out  *)
(* of the batch that was fetched before.                                   *)
SweepQueue ==
  /\ phase = "sweep"
  /\ Sweep
  /\ inbox' = [c \in Conns |-> IF c \in closed' THEN 0 ELSE inbox[c]]
  /\ ready' = ready \ to_remove
  /\ phase' = "events"
  /\ UNCHANGED <<backlog, eof, torn, batch, reading>>

(* The event on server_fd: ONE accept, which returns the lowest unused     *)
(* number.  Registering the new descriptor reports at once what has        *)
(* already arrived for it.                                                 *)
AcceptOne ==
  /\ phase = "events" /\ reading = {}
  /\ Listener \in batch
  /\ backlog # <<>>
  /\ \E f \in Fds :
       /\ \A g \in Fds : fdtab[g] = NoConn => f <= g
       /\ Accept(Head(backlog), f)
       /\ ready' = IF inbox[Head(backlog)] > 0 \/ Head(backlog) \in eof
                   THEN ready \cup {f} ELSE ready
  /\ backlog' = Tail(backlog)
  /\ batch' = batch \ {Listener}
  /\ UNCHANGED <<inbox, eof, torn, phase, reading>>

(* Mutant: server_fd is disconnected like a client whose recv failed.      *)
AcceptFails_Disconnects ==
  /\ phase = "events" /\ reading = {}
  /\ Listener \in batch
  /\ \A f \in Fds : fdtab[f] # NoConn
  /\ to_remove' = to_remove \cup {Listener}
  /\ batch' = batch \ {Listener}
  /\ UNCHANGED <<fdtab, clients, accounts, cache, history>>
  /\ UNCHANGED <<kernelVars, torn, phase, reading>>

(* accept fails: the process has no descriptor left.                       *)
AcceptFails ==
  /\ phase = "events" /\ reading = {}
  /\ Listener \in batch
  /\ \A f \in Fds : fdtab[f] # NoConn
  /\ batch' = batch \ {Listener}
  /\ UNCHANGED <<sessionVars, kernelVars, torn, phase, reading>>

(* The recv loop of a client descriptor runs until one of the Leave cases. *)
InRecvLoop(f) == phase = "events" /\ f \in batch /\ reading \subseteq {f}
Leave(f) == batch' = batch \ {f} /\ reading' = {}

(* Mutant: one frame per event instead of reading until EAGAIN.            *)
ReadFrame_Once(f) ==
  /\ InRecvLoop(f)
  /\ Pending(f)
  /\ handle_message(f)
  /\ inbox' = [inbox EXCEPT ![fdtab[f]] = @ - 1]
  /\ Leave(f)
  /\ UNCHANGED <<backlog, eof, torn, ready, phase>>

(* A complete frame: handle it and go on reading.                          *)
ReadFrame(f) ==
  /\ InRecvLoop(f)
  /\ Pending(f)
  /\ handle_message(f)
  /\ inbox' = [inbox EXCEPT ![fdtab[f]] = @ - 1]
  /\ reading' = {f}
  /\ UNCHANGED <<backlog, eof, torn, ready, phase, batch>>

(* The last frame has arrived in part.  With the length complete its bytes *)
(* are taken and lost; with the length incomplete they stay.  Either way   *)
(* the loop leaves without having seen EAGAIN or end of file.              *)
ReadPartial(f) ==
  /\ InRecvLoop(f)
  /\ Pending(f) /\ inbox[fdtab[f]] = 1
  /\ \E left \in {0, 1} : inbox' = [inbox EXCEPT ![fdtab[f]] = left]
  /\ torn' = torn \cup {fdtab[f]}
  /\ Leave(f)
  /\ UNCHANGED <<sessionVars, backlog, eof, ready, phase>>

(* EAGAIN: everything has been read.                                       *)
ReadDrained(f) ==
  /\ InRecvLoop(f)
  /\ WouldBlock(f)
  /\ Leave(f)
  /\ UNCHANGED <<sessionVars, kernelVars, torn, phase>>

(* Mutant: end of file ends the recv loop like EAGAIN.                     *)
ReadClosed_Ignored(f) ==
  /\ InRecvLoop(f)
  /\ \/ AtEof(f) /\ UNCHANGED sessionVars
     \/ fdtab[f] = NoConn /\ Drop({f})
  /\ Leave(f)
  /\ UNCHANGED <<kernelVars, torn, phase>>

(* Mutant: end of file removes the client without disconnect_client.       *)
ReadClosed_Silent(f) ==
  /\ InRecvLoop(f)
  /\ AtEof(f) \/ fdtab[f] = NoConn
  /\ to_remove' = to_remove \cup {f}
  /\ UNCHANGED <<fdtab, clients, accounts, cache, history>>
  /\ Leave(f)
  /\ UNCHANGED <<kernelVars, torn, phase>>

(* End of file, or EBADF: the number was closed by the sweep after the     *)
(* event was fetched.                                                      *)
ReadClosed(f) ==
  /\ InRecvLoop(f)
  /\ AtEof(f) \/ fdtab[f] = NoConn
  /\ Drop({f})
  /\ Leave(f)
  /\ UNCHANGED <<kernelVars, torn, phase>>

BatchDone ==
  /\ phase = "events"
  /\ batch = {}
  /\ phase' = "wait"
  /\ UNCHANGED <<sessionVars, kernelVars, torn, batch, reading>>

(* The loop ends: at its next test of running after SIGINT, or at once     *)
(* when epoll_wait fails.                                                  *)
Shutdown ==
  /\ phase = "wait"
  /\ CloseAll
  /\ backlog' = <<>>
  /\ ready' = {}
  /\ phase' = "down"
  /\ UNCHANGED <<inbox, eof, torn, batch, reading>>

(* The process has exited.                                                 *)
Exited == phase = "down" /\ UNCHANGED vars

-----------------------------------------------------------------------------
RecvStep(f) ==
  ReadFrame(f) \/ ReadPartial(f) \/ ReadDrained(f) \/ ReadClosed(f)

LoopStep ==
  \/ EpollWait \/ Timeout \/ SweepQueue
  \/ AcceptOne \/ AcceptFails
  \/ \E f \in Fds : RecvStep(f)
  \/ BatchDone

PeerStep == \E c \in Conns : Connect(c) \/ PeerSend(c) \/ PeerClose(c)

(* Time passes, or an administrator edits the table users.                 *)
OutsideStep ==
  /\ phase # "down"
  /\ \/ \E f \in Fds : Age(f)
     \/ \E l \in Edited, b \in BOOLEAN : SetAdmin(l, b)
  /\ UNCHANGED <<kernelVars, loopVars, torn>>

Next == LoopStep \/ PeerStep \/ OutsideStep \/ Shutdown \/ Exited

Spec == Init /\ [][Next]_vars

(* The loop's thread keeps running, and no peer fills its receive buffer   *)
(* faster than the loop empties it for ever: a recv loop that finds its    *)
(* buffer empty again and again leaves some time.                          *)
Fairness ==
  /\ WF_vars(LoopStep)
  /\ \A f \in Fds : SF_vars(ReadDrained(f)) /\ SF_vars(ReadClosed(f))

FairSpec == Spec /\ Fairness

-----------------------------------------------------------------------------
(* Properties.                                                             *)

(* The types of the kernel's and the loop's state.                         *)
KernelTypeOK ==
  /\ backlog \in Seq(Conns)
  /\ inbox \in [Conns -> 0..MaxInbox]
  /\ eof \subseteq Conns
  /\ torn \subseteq Conns
  /\ ready \subseteq Fds \cup {Listener}
  /\ phase \in {"wait", "sweep", "events", "down"}
  /\ batch \subseteq Fds \cup {Listener}
  /\ reading \subseteq Fds

(* The types of the whole state (main).                                    *)
TypeOK == SessionTypeOK /\ KernelTypeOK

(* No wake-up is lost for a client: when the loop is about to block, every *)
(* open descriptor with something to read is on epoll's list, or already   *)
(* queued for removal - unless its recv loop once left on a partial frame  *)
(* (the while (true) around recv in main, under EPOLLET).                  *)
NoLostEdge ==
  phase = "wait" =>
    \A f \in Fds : Pending(f) \/ AtEof(f) =>
      f \in ready \cup to_remove \/ fdtab[f] \in torn

(* A client that had logged in is never closed by the running server       *)
(* without its departure having been broadcast: disconnect_client reads    *)
(* the name before any sweep erases it, on every path that leads there.    *)
NoSilentDeparture ==
  phase # "down" =>
    \A c \in closed : login[c].nick # NoNick => c \in farewell

(* Every descriptor queued in to_remove is closed and its number freed     *)
(* (the clean-up runs in every round of the loop, not only in idle ones).  *)
MarkedIsSwept ==
  \A f \in Fds : f \in to_remove ~> f \notin to_remove

(* A peer that closes after whole frames is noticed and its descriptor     *)
(* released, without waiting for the heartbeat.                            *)
ClosedPeerIsReleased ==
  \A c \in Conns : c \in eof /\ Open(c) ~> ~Open(c) \/ c \in torn

(* The descriptors the server closes are those of clients it decided to    *)
(* disconnect: quit, kicked, gone, or silent too long (README:23); not of  *)
(* a later client that was given the number of one of those.               *)
NoInnocentClose ==
  phase # "down" => closed \subseteq doomed

(* A connection in the accept queue is eventually accepted (or the server  *)
(* stops): README:17, "efficiently handles concurrent connections".        *)
BacklogIsAccepted ==
  \A c \in Conns : c \in Queued ~> c \notin Queued

(* A connection that stays silent is eventually disconnected (README:23),  *)
(* partial frames set aside.                                               *)
Silent(c) == \E f \in DOMAIN clients : fdtab[f] = c /\ clients[f].stale
SilentClientIsDropped ==
  \A c \in Conns : Silent(c) ~> ~Silent(c) \/ c \in torn
============================================================================
