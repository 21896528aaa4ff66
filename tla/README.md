# LiteChat in TLA+

Specifications, model-checking runs and machine-checked proofs for the chat
server in this repository (`src/server.cpp` and what it is linked with). Paths
below are relative to the repository; `server.cpp` is `src/server.cpp`,
headers are in `include/`.

## 1. The system

One process, and in it one thread that does everything: `main` waits on
edge-triggered epoll, reads length-prefixed frames, and calls `handle_message`
for each, which runs to its end before anything else happens. The mutexes in
`ServerContext`, `UserManager` and `GroupManager` protect against threads that
do not exist: `main` creates a pool of four workers and gives them no task. What
is concurrent is outside: peers that connect, send and close, the kernel's
queues, the clock, an administrator who edits the database, and the signal or
crash that ends the process. The hard behaviours come from *when* the one thread
looks at all this.

| Component | State | Operations | Talks to |
|---|---|---|---|
| Event loop (`main`, server.cpp:662-901) | epoll instance, `events`, `to_remove`, `running` | wait, heartbeat, clean-up, accept, recv loop, shutdown | kernel; calls `handle_message`, `disconnect_client` |
| Session layer (`ServerContext`, `handle_message`, `disconnect_client`) | `clients` (fd to nickname, rights, last activity), `to_remove` | register, login, quit, admin kick, chat, whisper, list | `UserManager`, `DatabaseManager`, `GroupManager` |
| `UserManager` | cache `registered_users_` | `add_user_to_memory`, `get_user`, Argon2 | session layer, groups |
| `DatabaseManager` | MySQL table `users` | `register_user`, `get_user_data` | session layer |
| `GroupManager` | `groups`: owner, members, banned, password hash | create, join, send, leave, groupkick, groupunban, transfer, list | session layer (who is online), file |
| Group file | `groups_data.json` | load at start, save at orderly stop | `GroupManager` |
| Command dispatch and Lua | command tables, Lua functions | look a word up, check rights, run it | all of the above |
| Framing | bytes in socket buffers | `recv` loop, `send_message_with_length` | event loop, client program |
| Client program (`client.cpp`) | one socket, one receiving thread | read a line and send it; receive and print | server |
| Thread pool | task queue, four workers, `stop` | `enqueue`, `worker_loop`, destructor | nobody gives it a task |
| Logger, `.env`, json, Lua library | none that matters here | | |

What makes each part correct, and what could break it:

- **Event loop.** No wake-up of a client is lost although epoll reports each
  arrival once; every descriptor queued for removal is released; a batch of
  events fetched *before* the clean-up may name descriptors the clean-up closes
  and `accept` gives out again; departures are announced; silent clients go.
- **Sessions.** A session belongs to the connection that logged in, although
  descriptor numbers are reused; it has the rights the database gave it,
  although the cache remembers older ones under differently spelled keys; no two
  clients have one name in two spellings.
- **Groups.** An owner is a member; a banned user is not; every change is
  announced to those it concerns, and messages stay inside the group they are
  sent in, although users are in several; a group ends only
  with its owner, although three places in the code erase groups.
- **Sessions and groups.** `GroupManager` knows names, the network knows
  descriptors, and each command translates twice. A member may have left, be
  queued for removal or have come back on another number; what is sent to a name
  must still reach the connection that logged in with it, and nobody else.
- **Group file.** What was saved comes back; a kill costs no more than the
  current run.
- **Framing.** TCP cuts frames where it likes, the server peeks at a length
  before it takes the frame and does not keep a part of one, and its sends may
  stop half-way: what is handled and what is printed must be what was sent, or
  else the model must say which step spoilt it.
- **Commands.** Whoever types one is told something.
- **Client program.** Its two threads share a socket; it must end when the
  server disconnects it, and when its own main thread closes the socket.
- **Thread pool.** Every task runs once, no wake-up is lost between a worker's
  look at the queue and its wait, and the destructor returns.

## 2. The modules

| Module | Models | Extends |
|---|---|---|
| `PartialMaps` | `std::unordered_map` as the code uses it: `emplace` and `erase` | |
| `Sessions` | the session layer, the user cache, the user table, and the descriptor numbers under them | `PartialMaps` |
| `EventLoop` | kernel, peers and the loop, calling the actions of `Sessions` | `Sessions` |
| `GroupRoles` | abstract: one role per user and group, one owner per group | |
| `Groups` | `GroupManager` | `PartialMaps`, `GroupRoles` as a refinement |
| `GroupStore` | `GroupManager` across starts, stops and kills | `Groups` |
| `ChatServer` | the session layer and `GroupManager` in one server, and whom `/w` and group messages reach | `Sessions`, `Groups` as an instance and a refinement |
| `Commands` | the command tables, the rights, the Lua functions: how often a message is answered | |
| `Exchange` | abstract: lines are handled one after the other, answered together, and printed | `Commands` |
| `Conversation` | the client program and the server at the two ends of one connection | `Commands`, `Exchange` as a refinement |
| `TaskQueue` | abstract: tasks start in order, run once, and the queue closes empty | |
| `ThreadPool` | the class `ThreadPool` | `TaskQueue` as a refinement |
| `MC*` | small instances for TLC | |
| `*Proofs` | TLAPS theorems | the module they are named for; `GroupsProofs` also `GroupStore`, `ChatServerProofs` also `SessionsProofs` |

**`Sessions`** has one action per thing that can happen to a session: `Accept`,
`Register`, `Login`, `Quit`, `Kick`, `Chat` (any frame that changes no session),
`Drop` (`disconnect_client` called by the loop), `Sweep` (the clean-up),
`CloseAll`, and from outside `Age` and `SetAdmin`. It leaves open when they
happen. `fdtab` is the kernel's descriptor table; a connection (`Conns`) has an
identity of its own, so a reused number is visible. `login`, `doomed`,
`farewell` and `closed` are history: no guard of the server's actions depends on
them (`Accept` uses `closed` only so that a connection is not accepted twice).
`to_remove` is a vector in the code and a set here: the second time a number
comes up in one clean-up, `epoll_ctl`, `erase` and `close` find nothing.

**`EventLoop`** adds the accept queue, the receive buffers, epoll's ready list,
and the loop: `EpollWait` or `Timeout`, then `SweepQueue`, then the batch in any
order (`AcceptOne`, `AcceptFails`, and the recv loop `ReadFrame`, `ReadPartial`,
`ReadDrained`, `ReadClosed`), then `BatchDone`. `reading` is the descriptor
whose recv loop is running; peers act between two of its `recv` calls. A
descriptor leaves `ready` when it is reported, not when it has been read:
that is EPOLLET. `AcceptOne` gives out the lowest free number, as the kernel
does. A peer that closes may also discard what it sent (a reset).

**`Groups`** folds caller, group and target to lower case as each handler does.
`told` is the set of notices the last step sent, each with the group it is about
and the name it is for. `OnlyReplies`
stands for every early return, and for whatever else the server does that is not
about groups. `GoesOffline` takes a set of users, because one clean-up erases
several clients. The branches that erase a group emptied by a kick
or by a member who leaves are in the model (`KeepUnlessEmpty`); that they are
never taken is a theorem.

**`GroupStore`** has the truncation and the writing of the file as two steps,
with a kill possible in between; `Serialized` is `from_json` after `to_json`.
`dump` goes through the names of groups, owners, members and banned users alike, so
any of them may be what cannot be encoded (`Encodable`).

**`ChatServer`** adds to `Sessions` what a frame does that changes no session:
`GroupCommand` and `Whisper` are two of the things `Chat` stands for, and every
other step of `Sessions` is `SessionStep`. There is no variable for who is online:
`Online` is read off `clients`, as `get_fd_by_nickname` does, and with it the module
is an instance of `Groups`. A group command gets the name that `get_username` finds
for the sender's descriptor; each notice in `told` is sent to the descriptor
`get_fd_by_nickname` finds for its name, which `mail` records for the last step. `/w` compares
its target with the sender's name as typed and looks it up folded. The server
starts with an empty group file; restarts are in `GroupStore`.

**`Commands`** has no state: `Outcomes(rights, m)` is the set of things
`handle_message` may make of message `m`, each a number of frames for its sender
and an effect on his session. How many frames follows from the handlers: `/quit`
sends its answer itself, `/send` answers nothing because the sender, a member,
receives the message; whoever kicks, unbans or transfers is a member and hears
the announcement as well as the reply, and an administrator who uses `/kick` gets
the broadcast of the departure and the reply. The Lua branch is the calling convention:
three arguments are passed to functions of two parameters.

**`Conversation`** looks at one connection cell by cell; `<<i, k>>` is cell `k` of
frame `i`, so that a receiver that has lost the beginning of frames is seen to
print or handle what never was sent (0 in the histories `printed` and `handled`,
which end there). The rest of the server is what it does to this connection:
frames of others (`Others`) and `disconnect_client` called for a kick or by the
heartbeat (`Expel`). Some decisions:

- The peek and the second `recv` are one step: the loop does nothing in between,
  and what arrives between them may as well have arrived before the peek.
- `send_message_with_length` blocks the loop, so no other step of the server is
  enabled while `outbox` is not empty; the client and the network go on.
- `close` in one thread does not end a `recv` in another, and the socket is not
  released before that call returns. So `CloseSocket` finds the receiving thread
  in a call (`"last"`) or between two calls, of which the next fails.
- A connection closed with unread data is reset, on either side. If it was the
  server, what was on its way to the client may be lost (`Reset`). If it was the
  client, what was on its way to the server is lost, too, and what the server has in
  its buffer stays there (`ArriveReset`); the client may also close in time, and its
  FIN then comes behind everything it sent (`ArriveFin`).
- After a reset, sends fail, and frames of others come to nothing.

**`Exchange`** is what the two programs promise each other while their connection
is `Intact`: nothing dropped or given up, the server's descriptor open, the
client's socket not released. A line is handled in one step, all its answers go
to the back of what the client is told, and the client prints from the front; no
cells, no buffers, no partial sends. In the mapping `told` is what `Conversation`
has sent or begun to send, followed by what is still in the outbox
(`told \o NotBegun`). A step that spoils the connection is `Break`, after which
`Exchange` promises nothing.

**`ThreadPool`** has one step per critical section, but two for a worker that
finds nothing: the predicate is evaluated, then `wait` releases the mutex and
blocks. Between them the mutex is held, which is what the mutex in the destructor
and in `enqueue` is for. Each submission of a function is a task of its own;
running tasks may submit others.

## 3. The runs

| Run | Question | Instance | Distinct states |
|---|---|---|---|
| `chatserver` | do names, rights and descriptors stay together in any order of steps, do whispers and group messages find their readers, and is `Groups` implemented on top of sessions that come and go? | 3 connections, 2 numbers, 2 names in 3 spellings, one user's rights edited, 1 public group in two spellings | 176 283 |
| `eventloop` | are wake-ups kept and departures announced? | 3 connections, 2 numbers, 1 user, 1 frame per buffer, 2 events per wait | 1 078 601 |
| `eventloop_live` | is what is queued released, is a peer's close noticed? | 2 connections, 1 number | 78 350 |
| `groups` | do the rules of groups hold, and are the role changes implemented? | 3 users, one in two spellings, 2 groups in 3 spellings, 1 password | 20 150 |
| `groupstore` | do groups survive stops and kills? | 2 users, 2 groups, one with an unencodable name, the other private or public, failing disk | 1 526 476 |
| `threadpool` | does every task run, does the destructor end, is `TaskQueue` implemented? | 4 workers as in `main`, 4 tasks, one of which submits another | 52 592 |
| `conversation` | is what was sent handled and printed, whole and in order, and is `Exchange` implemented? | 2 lines typed, 1 frame of others, lengths of 2 cells, room for 5 cells | 955 541 |
| `conversation_live` | are commands answered, does the client end, does the server notice? | the same, others silent | 212 414 |
| `innocent_close`, `backlog`, `heartbeat`, `safe_stop` | the documented behaviours that fail, section 5 | as above | |

Bounds, and why they are enough. Two descriptor numbers with three connections
let a number be reused while another client is present, and let a stale event, a
new client and a second clean-up meet in one batch. One frame per buffer is
enough to tell an empty buffer from one that is not, and `PeerSend` can fill it
again between two reads, so a recv loop handles any number of frames. Two events
per wait make a batch of a client and the listening socket; with both clients
ready as well, some events do not fit (`MAX_EVENTS` is reached). Three users
give a group an owner, an heir and a bystander. Users who exist in two spellings
are what the case folding is about. Four workers and four tasks let a worker be
overtaken on its way to a task it was notified of, and let a task be submitted
while the destructor waits. In `conversation` a length of two cells can arrive
in two parts; a misread length may announce one cell more than a true one can;
five cells hold one frame and part of the next, so that a send stops half-way
and later sends find no room; two lines are enough for a login followed by
`/quit` or by the client's own `quit`, for a frame that follows a dropped one, and
for an empty line before or after another; one of the lines that may be typed is a
Lua command. `conversation_live` leaves out the
frames of others (`MaxTold` is 0), which none of its properties is about.
`chatserver` checks the properties of `Sessions` as well, of which it takes every
step. Its three connections let a user leave and come back on another number
while the other is present, and the group is named like a user. Its `CONSTRAINT`
leaves out idle clients, since no step of `ChatServer` asks who is idle (`eventloop`
and `eventloop_live` have them), and edits of more than one user's rights: those of
`bob`, who registers in lower case, so that the cache finds him, and who may log in,
be edited, and log in again. Its group
is public because a second spelling matters here and a password does not (`groups`
has one), and it is one group, because `groups` has two for messages to leak between.
In `groupstore` the group whose name cannot be encoded is public (`OnlyGoIsPrivate`).
The proofs
remove the bounds for the safety properties.

Symmetry is used for connections only, in runs without liveness properties: no
operator of the specifications distinguishes one connection from another.
Deadlock is checked in every run. After their ends `EventLoop` stutters in
`Exited`, `Conversation` in `Over` and `ThreadPool` in `Destroyed`; the other
specifications always have a next step.

Fairness (`FairSpec`). Weak fairness of `LoopStep`: the loop's thread is the
only one and never waits for anything but `epoll_wait`, which has a timeout.
Strong fairness of `ReadDrained` and `ReadClosed`: a recv loop that again and
again finds its buffer empty leaves at some point, that is, no peer refills its
buffer for ever exactly between two `recv` calls. The code does not enforce
this (the `while (true)` at server.cpp:811 has no bound), so the liveness
properties hold for peers that pause. No fairness is assumed of peers, of the
clock or of `EpollWait` against `Timeout`.

`PoolFairness`: each worker and the owner are scheduled, and a task ends. Nobody
has to submit a task or to destroy the pool, and no thread counts on a spurious
wake-up. Weak fairness is enough although the mutex is not always free: a worker
keeps it for more than one step only if it found nothing to take and no stop.
`Fairness` of `Conversation`: the two threads of
the client and the server's loop are scheduled, and bytes and the FIN arrive.
Nobody has to type or to leave, others need not send, and no administrator and
no heartbeat has to come.

## 4. The properties

| Property | Says | Checked | Proved |
|---|---|---|---|
| `TypeOK`, `ChatTypeOK`, `GroupsTypeOK`, `StoreTypeOK` | types; keys and stored names are in lower case | yes (`SessionTypeOK` as a part of the first two) | `SessionsTyped`, `LoopTyped`, `ChatTyped`, `GroupsTyped`, `StoreTyped` |
| `FdTableAgrees` | keys of `clients` are the open descriptors | yes | `DescriptorsAgree` |
| `SessionOfItsConnection` | no session passes to another connection | yes | `SessionsAreOwn` |
| `AdminAsGranted` | rights are those of the login, not of the cache | yes | `RightsAreAsGranted` |
| `UniqueNicknames` | one client per name in any spelling | yes | `NicknamesAreUnique` |
| `NoLostEdge` | no readable client is forgotten when the loop blocks | yes | `NoEdgeIsLost` |
| `NoSilentDeparture` | who had logged in and is closed was announced | yes | `DeparturesAreAnnounced` |
| `MarkedIsSwept`, `ClosedPeerIsReleased` | liveness | yes | out of reach |
| `OwnerIsMember`, `BannedAreOut` | rules of a group | yes | `OwnersAreMembers`, `BannedStayOut` |
| `EndsWithItsOwner` | a group ends only with its owner alone in it | yes | `GroupsEndWithOwners` |
| `ChangesAreAnnounced` | changes reach the members and the one thrown out | yes | `GroupsAnnounce` |
| `MessagesStayInside` | what is sent on behalf of a group reaches members of this group only | yes | `GroupsKeepMessages` |
| `ImplementsRoles` | `Groups` implements `GroupRoles` | yes | `GroupsImplementRoles` |
| `OrderlyStopKeepsGroups` | a save that succeeds brings the same groups back | yes | `OrderlyStopsKeepGroups` |
| `KillLosesThisRunOnly` | a kill of the running server costs this run's changes | yes | `KillsLoseOneRun` |
| `RestoredGroupsAreSound` | the rules of groups hold after any restart | yes | `RestoredGroupsStaySound` |
| `MailReachesItsReaders` | what is sent to a name goes to the connection that logged in with it, still open, and no other has that name | yes | `MailReachesReaders` |
| `MembersHaveAccounts` | owners, members and banned users are accounts | yes | `GroupsNameAccounts` |
| `GroupMailStaysInside` | the frames of a group command go from a member's connection to connections of members of this very group | yes | `GroupMailIsInside` |
| `ImplementsGroups` | sessions and `GroupManager` together implement `Groups` | yes | `ChatServerImplementsGroups` |
| `PoolTypeOK` | types; a worker is in its loop until it returns | no | `PoolTyped` |
| `NoLostWakeUp` | a queued task has a worker or a notification on its way; nobody waits once stop is announced | yes | `NoWakeUpIsLost` |
| `ImplementsTaskQueue` | `ThreadPool` implements `TaskQueue` | yes | `PoolImplementsTaskQueue` |
| `EveryTaskRuns`, `DestructorEnds` | liveness | yes | out of reach |
| `ConversationTypeOK` | types and bounds | yes | `ConversationTyped` |
| `HandledInOrder` | the server handles what was sent, once and in order, unless it dropped part of a frame | yes | `FramesAreHandledInOrder` |
| `PrintedInOrder` | the client prints what was sent, once and in order, unless the server gave a frame up half-way | yes | `FramesArePrintedInOrder` |
| `QuietMeansAnswered` | with nothing on its way, every line has been handled and every command has an answer that was printed | yes | `RestMeansAnswered` |
| `ToldInOrder` | answers stand in the order of their commands, and none is missing | yes | `AnswersAreToldInOrder` |
| `ImplementsExchange` | `Conversation` implements `Exchange` | yes | `ConversationImplementsExchange` |
| `CommandsAreAnswered` | a command is answered, and the answer is printed | yes | that none is missing: `ToldInOrder` |
| `DisconnectedStopsReceiving` | the client notices that it was disconnected | yes | out of reach |
| `ClosingClientEnds` | a client that has closed its socket ends when anything more comes | yes | out of reach |
| `ExitIsNoticed` | the server closes the connection of a client that has ended, partial frames and lengths cut off by a reset apart | yes | out of reach |

`NoLostEdge` and `ClosedPeerIsReleased` except connections in `torn`, whose recv
loop once left on a frame that had arrived in part (server.cpp:827 and 848):
there the wake-up can be lost, and that is what the code does. In the same way
`HandledInOrder`, `PrintedInOrder`, `CommandsAreAnswered`, `ExitIsNoticed` and the
properties about an `Intact` connection except connections on which the server has
dropped part of a frame (`lost`) or given up sending one (`unsent`). Nothing else
may disturb them: not the way bytes arrive, not sends that take only part, not
frames of others in between, not an empty line.

`ExitIsNoticed` has one exception more (`LengthCutOff`). A client that closes with
something unread resets the connection. If only a part of a length had arrived by
then, this part stays in front of the error; the peek finds it, the loop leaves,
and no further event comes. Such a connection is left to the heartbeat.

## 5. Where code and documentation disagree

- **An innocent client is closed** (`innocent_close`). The clean-up closes
  descriptor *f*, whose event is already in the batch. `recv` on *f* fails, *f* is
  queued once more, `accept` gives *f* to a new client, and the next clean-up
  closes it. The new client stays registered for one round and is then gone.
- **A connection waits for ever** (`backlog`). One `accept` per event of an
  edge-triggered listening socket.
- **Silent clients stay** (`heartbeat`). The heartbeat needs a second without
  events from anybody. (Its limit is also 300 s and not the 60 s of README.md:23.)
- **A safe stop can lose all groups** (`safe_stop`). The file is truncated before
  `dump` is called, and `dump` throws on a name that is not valid UTF-8.

Seen while modelling, without a run of their own, because one line of the code
shows them:

- **No password opens a private group.** The arguments of `verify_password` are
  swapped in `handle_join_group` (`CanJoin`).
- **Offered commands are unknown.** `README.md` (:29, :41, :50) and `/help` offer
  `/whoami`, `/hello` and `/roll`. `whoami` is registered without its slash, so that
  `/whoami` is unknown and `whoami` is chat (`UserCommands`). `execute_command` passes
  nickname, rights and words to the Lua functions, which declare nickname and words:
  `/roll` always fails, `/hello` fails after it has broadcast its greeting to
  everybody, and both are then answered "unknown command" (`Script`, `Lua`,
  `Dispatch`).
- **A user whispers to himself.** `/w` refuses the sender's own name only in the
  spelling it has in the session; any other spelling finds him (`Whisper`).
- **Capital letters.** `/LOGIN` works, `/QUIT` does not: only the part of
  `handle_message` before the login folds the word (`Anonymous`, `Dispatch`).
- **A client that says `quit`** closes its socket while its receiving thread is in
  `recv` on it, and joins the thread. If nothing more comes from the server, that
  is for ever, or until the heartbeat: the word is chat for the server, and is
  not answered when its sender is logged in. `ClosingClientEnds` therefore starts
  from something more coming.
- **A dropped part of a frame** is not only lost: what follows is read as a
  length, and a peer that closes while bytes of a misread frame are left
  is not noticed; nor is one whose reset leaves part of a length (`ExitIsNoticed`).

## 6. The proofs

All theorems are proved by TLAPS without further assumptions than the `ASSUME`s
of the modules: `Lower` is idempotent, the special values are not among the
ordinary ones, the initial user table is keyed by lower-case names, a group's name
in lower case is a name that can be typed as well. Each is evaluated by TLC in the runs.

- `SessionsProofs`. The inductive invariant `SInv` is the conjunction of the
  checked invariants and `GrantsAreOfAccepted`: a connection that was never
  accepted has logged in nowhere. Without the latter an accept could start with
  a name. Most actions are instances of one lemma, that a step which changes no
  name, right or descriptor (`SameSessions`) keeps it.
- `EventLoopProofs`. Each step of the loop is a step of `Sessions` or changes
  nothing there (`StepRefines`), because that is how the module is written; so the
  session invariants hold for the running server. `NoLostEdge` needs `Watched`:
  at *every* point of the loop whatever is readable is on epoll's list, in the
  batch or queued. `NoSilentDeparture` needs `Marked`: a queued client that is
  logged in has been announced, and a queued descriptor that can still be read
  from in this batch is logged in. The second half is the point: a client accepted
  on a wrongly queued number (section 5) does not get to log in before it is
  closed, because its events are not in the batch.
- `GroupsProofs`. `StepKinds` reduces every command to one of nine changes of one
  group; the dead erasures drop out there, because the owner is still inside.
  Invariants, action properties and the refinement are then read off the changes.
  `RoleMap` is the refinement mapping: the role a user has by owner, ban list and
  member set, in this order.
- `GroupRolesProofs`. The abstract specification keeps one owner per existing
  group (`OneOwner`); with `GroupsImplementRoles` that is a fact about
  `GroupManager`.
- `GroupStore`, also in `GroupsProofs`. The inductive invariant says, for each phase, what the file
  is worth: while the server runs it still loads to `initial`; after an orderly
  stop it loads to `final`; and whatever it loads to obeys the rules of groups.
  Steps of `Groups` keep what they are known to keep.
- `ChatServerProofs`. Every step is written as one of `Sessions`; that it is also one
  of `Groups` or a stutter has to be proved (`ChatServerImplementsGroups`). For that
  one has to know what a step of the session layer does to `Online`: nothing, or one name
  comes in with a login, or names go with a clean-up (`OnlineSteps`). That a name
  does not come in with an accept or go with a second login is the session
  invariant. `GroupsProofs` is then instantiated, so that all its theorems hold in
  the composed server (`ChatGroupsAreSound`, `ChatKeepsGroupPromises`). The inductive
  invariant `ChatInv` is that of both components, and that accounts stay keyed by
  lower-case names and that whoever is logged in has one: without the latter
  `MembersHaveAccounts` fails at `/create`. `MailReachesReaders` rests on one lemma
  about `get_fd_by_nickname` (`FoundIsTheReader`): the session it finds under a name
  is its connection's own, and the only one of that name.
- `ThreadPoolProofs`. The inductive invariant has two halves. One is about
  control: who holds the mutex, that a worker between its look at the queue and
  its wait holds it and saw an empty queue and no stop, and the two halves of
  `NoLostWakeUp`. The other is about tasks: each is in at most one of the queue,
  the workers' hands and `done`. The refinement needs the second for `Submit` and
  `Finish`, and the first for `Close`: who has returned has seen stop and an
  empty queue, and a worker that still runs a task looks at the queue again.
- `ConversationProofs`. The cells the server has not handled yet are one stream,
  `upBuf \o upNet`, and those the client has not printed yet another,
  `part \o down`. The inductive invariant `ConvInv` says of each that it begins
  with the first cell of the next frame, ends with the last cell that was sent,
  unless a reset has cut the end off,
  and that each cell in it is followed by the rest of its frame and the first cell
  of the next one (`Linked`). Saying it of each cell, rather than that the stream
  is a concatenation of frames, needs no recursion: a step of the network moves
  cells from one half of a stream to the other and leaves it as it is
  (`Regrouped`); `TypeLine` and `SendSome` add cells at the back
  (`LinkedExtended`); `TakeFrame` and `RecvSome` take the frame in front, which
  they read for what it is (`FrontFrame`). What the receivers then do with it is
  `HandledInOrder` and `PrintedInOrder`. Two more conjuncts are about answers:
  the frame in front of the outbox is the last of `told` once it has been begun
  (`BegunInv`), and every command handled is in `told` or in the outbox
  (`AnswerInv`), by cases over the branches of `handle_message`. `RestMeansAnswered` reads the invariant when both streams
  are empty. The refinement uses it before and after a step (`ExchangeSteps`): a
  frame that is handled can only be number `Len(handled) + 1`, and sending moves
  an answer from one half of `told \o NotBegun` to the other. `ToldInOrder` is
  then proved about the steps of `Exchange`.

  The invariant drops its claims where the code does: about the way to the server
  once part of a frame was dropped, about the way to the client once a frame was
  given up half-way, and about the end of that stream once either side has closed.

Model-checked only: all liveness (the prover has no rules for fairness here). So
that an answer *comes* is checked on the instance (`CommandsAreAnswered`), that
none is missing or out of order is proved.

## 7. Not modelled

- Wording, logging, `Logger`, the parsing of `.env`, SQL and its errors, Argon2
  beyond what a hash verifies.
- Failures of set-up calls before the loop (socket, bind, database, Lua), which
  end the program. (The `break` on an error of `epoll_wait` has the effect of
  `Shutdown`, and `connect` failing in the client ends it before `Init`.)
- Code that nothing calls: `load_users`, `save_users`, `remove_client`, and
  `shutdown_requested`, which nothing sets. `kick_user_by_nickname` and
  `lua_cmd_kick` are reachable only from a Lua function that the dispatcher never
  picks, because `/kick` is found in the C++ table first.
- Vendored code. `json.hpp` and the Lua headers are nine tenths of the
  lines under `include/` and `src/`; what is used of them is in the models by its
  effect (`dump` throws on text that is not UTF-8, a torn file does not parse, a
  Lua error makes `pcall` fail).
- Memory exhaustion: the buffer for a misread length is assumed to be allocated.

## 8. Plan

Done, in this order: `Sessions`, `EventLoop` on top of it, `Groups` with its
abstraction, `GroupStore`, `ThreadPool` with its abstraction, `Commands`,
`Conversation` with its abstraction, `ChatServer` on top of `Sessions` and `Groups`,
and the proofs of all of them.

What would come next:

1. `Conversation` for two clients, with the server's blocked sends to one delaying
   the other. The instance would have to be much smaller than the present one.
2. `EventLoop` with the cells of `Conversation` in place of whole frames, as a
   refinement of both.

## 9. Running it

`tlc -config MCChatServer.cfg MCChatServer` and so on for each `.cfg`; the violation
runs end with a counterexample. `tlapm SessionsProofs.tla`, and likewise
for the other modules whose names end in `Proofs` (`ConversationProofs` takes some
minutes). `groups`, `groupstore`, `chatserver` and `conversation_live` take up to a
minute, the rest seconds. Operators whose comment
begins with "Mutant" are faulty variants of the definition that follows them;
each property is known to fail when its variant takes the definition's place.
