------------------------------ MODULE Sessions ------------------------------
(***************************************************************************)
(* The session layer of the server: struct ServerContext (the map clients, *)
(* the list to_remove), the branches of handle_message that change it, the *)
(* in-memory user cache of UserManager and the table users behind          *)
(* DatabaseManager.                                                        *)
(*                                                                         *)
(* Every handler runs on the one thread of the event loop, so a handler is *)
(* one atomic action.  When it runs is left open here (any frame, any end  *)
(* of file, any sweep may come next): module EventLoop adds the kernel and *)
(* the loop that decide it, and implements this specification.             *)
(*                                                                         *)
(* Abstracted: the text of messages and where they are sent, passwords (a  *)
(* wrong password is one of the inputs of Chat, which changes no session), *)
(* and clock values (stale stands for "last_activity is more than          *)
(* HEARTBEAT_TIMEOUT seconds ago").                                        *)
(***************************************************************************)
EXTENDS Naturals, PartialMaps

CONSTANTS
  Fds,             \* descriptor numbers the process may get for clients
  Conns,           \* the TCP connections of a run, each its own identity
  NoConn,          \* the occupant of a descriptor number that is not open
  Nicks,           \* spellings of user names
  NoNick,          \* the empty string: the client has not logged in
  Lower,           \* to_lower_nickname, as a function on spellings
  InitialAccounts  \* rows of the table users when the server starts

(* Names as they are used for look-up.                                     *)
Folded == {Lower[n] : n \in Nicks}

Account == [name : Nicks, admin : BOOLEAN]
Client  == [nick : Nicks \cup {NoNick}, admin : BOOLEAN, stale : BOOLEAN]
Grant   == [nick : Nicks \cup {NoNick}, admin : BOOLEAN]

ASSUME SessionsAssumption ==
  /\ Fds \subseteq Nat
  /\ NoConn \notin Conns
  /\ NoNick \notin Nicks
  /\ Lower \in [Nicks -> Nicks]
  /\ \A n \in Nicks : Lower[Lower[n]] = Lower[n]
  /\ IsMap(InitialAccounts, Folded, Account)
  /\ \A l \in DOMAIN InitialAccounts : Lower[InitialAccounts[l].name] = l

VARIABLES
  fdtab,      \* kernel: the connection behind each descriptor number
  clients,    \* ServerContext::clients, keyed by descriptor
  to_remove,  \* ServerContext::to_remove, as a set: a second DEL, erase and
              \* close of a number in the same sweep finds nothing left to do
  accounts,   \* table users, keyed by username_lower
  cache,      \* UserManager::registered_users_: lower name -> is_admin
  \* History, never read by a guard:
  login,      \* what the database said when the connection logged in
  doomed,     \* connections disconnect_client was called for
  farewell,   \* connections whose departure was broadcast
  closed      \* connections the server has closed

sessionVars == <<fdtab, clients, to_remove, accounts, cache,
                 login, doomed, farewell, closed>>
history == <<login, doomed, farewell, closed>>

NoGrant == [nick |-> NoNick, admin |-> FALSE]

(* Client's constructor: no nickname, no rights, active just now.          *)
NewClient == [nick |-> NoNick, admin |-> FALSE, stale |-> FALSE]

SessionInit ==
  /\ fdtab = [f \in Fds |-> NoConn]
  /\ clients = EmptyMap
  /\ to_remove = {}
  /\ accounts = InitialAccounts
  /\ cache = EmptyMap
  /\ login = [c \in Conns |-> NoGrant]
  /\ doomed = {}
  /\ farewell = {}
  /\ closed = {}

-----------------------------------------------------------------------------
(* Lookups of ServerContext.                                               *)

get_username(f) == IF f \in DOMAIN clients THEN clients[f].nick ELSE NoNick

(* The descriptors the search may return; empty stands for -1.             *)
get_fd_by_nickname(n) ==
  {f \in DOMAIN clients : /\ clients[f].nick # NoNick
                          /\ Lower[clients[f].nick] = Lower[n]}

(* The connections behind the descriptors of S.                            *)
Occupants(S) == {fdtab[f] : f \in S} \ {NoConn}

(* clients after a complete frame from f: the loop refreshes               *)
(* last_activity before it calls handle_message.                           *)
Heard(f) == [clients EXCEPT ![f].stale = FALSE]

(* set_username: the flag comes from the cache, looked up under the name   *)
(* as stored while the keys are in lower case.                             *)
set_username(cl, f, n, users) ==
  [cl EXCEPT ![f].nick = n, ![f].admin = (n \in DOMAIN users) /\ users[n]]

(* Mutant: the key is the name as registered.                              *)
add_user_to_memory_Raw(a) == Emplace(cache, a.name, a.admin)

(* A user who is in the cache already stays there as he is.                *)
add_user_to_memory(a) == Emplace(cache, Lower[a.name], a.admin)

(* disconnect_client for each descriptor of S: the departure of a client   *)
(* that has a name is broadcast, the entry stays in clients, and the       *)
(* descriptor is queued for the next sweep.                                *)
disconnect_client(S) ==
  /\ to_remove' = to_remove \cup S
  /\ doomed' = doomed \cup Occupants(S)
  /\ farewell' = farewell \cup Occupants({f \in S : get_username(f) # NoNick})

-----------------------------------------------------------------------------
(* Handlers.                                                               *)

(* accept gave connection c the unused number f, and emplace adds an entry *)
(* for it.                                                                 *)
Accept(c, f) ==
  /\ fdtab[f] = NoConn
  /\ c \notin closed
  /\ \A g \in Fds : fdtab[g] # c
  /\ fdtab' = [fdtab EXCEPT ![f] = c]
  /\ clients' = Emplace(clients, f, NewClient)
  /\ UNCHANGED <<to_remove, accounts, cache, history>>

(* /register of a name that is free in any spelling, hashing and insertion *)
(* succeeding.                                                             *)
Register(f, n) ==
  /\ f \in DOMAIN clients
  /\ clients[f].nick = NoNick
  /\ Lower[n] \notin DOMAIN accounts
  /\ accounts' = Emplace(accounts, Lower[n], [name |-> n, admin |-> FALSE])
  /\ clients' = Heard(f)
  /\ UNCHANGED <<fdtab, to_remove, cache, history>>

(* Mutant: the flag set_username derives from the cache is kept.           *)
Login_CachedAdmin(f, n) ==
  /\ f \in DOMAIN clients
  /\ clients[f].nick = NoNick
  /\ Lower[n] \in DOMAIN accounts
  /\ LET a == accounts[Lower[n]]
     IN  /\ get_fd_by_nickname(a.name) = {}
         /\ cache' = add_user_to_memory(a)
         /\ clients' = set_username(Heard(f), f, a.name, cache')
         /\ login' = [login EXCEPT ![fdtab[f]] =
                        [nick |-> a.name, admin |-> a.admin]]
  /\ UNCHANGED <<fdtab, to_remove, accounts, doomed, farewell, closed>>

(* Mutant: the "already logged in" test compares the name as typed.        *)
Login_ExactSpelling(f, n) ==
  /\ f \in DOMAIN clients
  /\ clients[f].nick = NoNick
  /\ Lower[n] \in DOMAIN accounts
  /\ LET a == accounts[Lower[n]]
     IN  /\ \A g \in DOMAIN clients : clients[g].nick # n
         /\ cache' = add_user_to_memory(a)
         /\ clients' = [set_username(Heard(f), f, a.name, cache')
                          EXCEPT ![f].admin = a.admin]
         /\ login' = [login EXCEPT ![fdtab[f]] =
                        [nick |-> a.name, admin |-> a.admin]]
  /\ UNCHANGED <<fdtab, to_remove, accounts, doomed, farewell, closed>>

(* Mutant: a client that is logged in may log in as somebody else.         *)
Login_Again(f, n) ==
  /\ f \in DOMAIN clients
  /\ Lower[n] \in DOMAIN accounts
  /\ LET a == accounts[Lower[n]]
     IN  /\ get_fd_by_nickname(a.name) = {}
         /\ cache' = add_user_to_memory(a)
         /\ clients' = [set_username(Heard(f), f, a.name, cache')
                          EXCEPT ![f].admin = a.admin]
         /\ login' = [login EXCEPT ![fdtab[f]] =
                        [nick |-> a.name, admin |-> a.admin]]
  /\ UNCHANGED <<fdtab, to_remove, accounts, doomed, farewell, closed>>

(* /login with the right password, by a user who is not logged in.  The    *)
(* account is added to the cache unless it is there already, set_username  *)
(* derives a flag from the cache, and the flag read from the database      *)
(* then replaces it.                                                       *)
Login(f, n) ==
  /\ f \in DOMAIN clients
  /\ clients[f].nick = NoNick
  /\ Lower[n] \in DOMAIN accounts
  /\ LET a == accounts[Lower[n]]
     IN  /\ get_fd_by_nickname(a.name) = {}
         /\ cache' = add_user_to_memory(a)
         /\ clients' = [set_username(Heard(f), f, a.name, cache')
                          EXCEPT ![f].admin = a.admin]
         /\ login' = [login EXCEPT ![fdtab[f]] =
                        [nick |-> a.name, admin |-> a.admin]]
  /\ UNCHANGED <<fdtab, to_remove, accounts, doomed, farewell, closed>>

(* Any frame that changes no session: a chat line, a refused or unknown    *)
(* command, a command of another component.                                *)
Chat(f) ==
  /\ f \in DOMAIN clients
  /\ clients' = Heard(f)
  /\ UNCHANGED <<fdtab, to_remove, accounts, cache, history>>

(* /quit.                                                                  *)
Quit(f) ==
  /\ f \in DOMAIN clients
  /\ clients[f].nick # NoNick
  /\ clients' = Heard(f)
  /\ disconnect_client({f})
  /\ UNCHANGED <<fdtab, accounts, cache, login, closed>>

(* The administrator's /kick of a user who is online.                      *)
Kick(f, n) ==
  /\ f \in DOMAIN clients
  /\ clients[f].nick # NoNick
  /\ clients[f].admin
  /\ clients' = Heard(f)
  /\ \E target \in get_fd_by_nickname(n) : disconnect_client({target})
  /\ UNCHANGED <<fdtab, accounts, cache, login, closed>>

(* disconnect_client called by the loop, not by a command: end of file, a  *)
(* failing recv, or the heartbeat.                                         *)
Drop(S) ==
  /\ disconnect_client(S)
  /\ UNCHANGED <<fdtab, clients, accounts, cache, login, closed>>

(* Mutant: the descriptors are closed but their entries stay in clients.   *)
Sweep_KeepsEntries ==
  /\ fdtab' = [f \in Fds |-> IF f \in to_remove THEN NoConn ELSE fdtab[f]]
  /\ closed' = closed \cup Occupants(to_remove)
  /\ to_remove' = {}
  /\ UNCHANGED <<clients, accounts, cache, login, doomed, farewell>>

(* The clean-up of the loop: for every queued number, leave epoll, erase   *)
(* the entry, close; then clear the queue.                                 *)
Sweep ==
  /\ clients' = Without(clients, to_remove)
  /\ fdtab' = [f \in Fds |-> IF f \in to_remove THEN NoConn ELSE fdtab[f]]
  /\ closed' = closed \cup Occupants(to_remove)
  /\ to_remove' = {}
  /\ UNCHANGED <<accounts, cache, login, doomed, farewell>>

(* The end of main: every client is closed and the process exits.          *)
CloseAll ==
  /\ fdtab' = [f \in Fds |-> IF f \in DOMAIN clients THEN NoConn ELSE fdtab[f]]
  /\ closed' = closed \cup Occupants(DOMAIN clients)
  /\ clients' = EmptyMap
  /\ to_remove' = {}
  /\ UNCHANGED <<accounts, cache, login, doomed, farewell>>

(* HEARTBEAT_TIMEOUT seconds pass without a complete frame from f.         *)
Age(f) ==
  /\ f \in DOMAIN clients
  /\ clients' = [clients EXCEPT ![f].stale = TRUE]
  /\ UNCHANGED <<fdtab, to_remove, accounts, cache, history>>

(* The program never writes the column is_admin: it is set in the database *)
(* by hand, also while the server runs.                                    *)
SetAdmin(l, b) ==
  /\ l \in DOMAIN accounts
  /\ accounts' = [accounts EXCEPT ![l].admin = b]
  /\ UNCHANGED <<fdtab, clients, to_remove, cache, history>>

(* What a complete frame from f may do to the sessions.                    *)
handle_message(f) ==
  \/ Chat(f)
  \/ Quit(f)
  \/ \E n \in Nicks : Register(f, n) \/ Login(f, n) \/ Kick(f, n)

SessionNext ==
  \/ \E c \in Conns, f \in Fds : Accept(c, f)
  \/ \E f \in Fds : handle_message(f) \/ Age(f)
  \/ \E S \in SUBSET Fds : Drop(S)
  \/ Sweep
  \/ CloseAll
  \/ \E l \in Folded, b \in BOOLEAN : SetAdmin(l, b)

SessionSpec == SessionInit /\ [][SessionNext]_sessionVars

-----------------------------------------------------------------------------
(* Properties.                                                             *)

(* The types of the session state (ServerContext, UserManager, users); in  *)
(* particular the cache and the table are keyed by lower-case names.       *)
SessionTypeOK ==
  /\ fdtab \in [Fds -> Conns \cup {NoConn}]
  /\ IsMap(clients, Fds, Client)
  /\ to_remove \subseteq Fds
  /\ IsMap(accounts, Folded, Account)
  /\ IsMap(cache, Folded, BOOLEAN)
  /\ login \in [Conns -> Grant]
  /\ doomed \subseteq Conns
  /\ farewell \subseteq Conns
  /\ closed \subseteq Conns

(* The keys of clients are exactly the open client descriptors, no two of  *)
(* which are the same connection, and none of which the loop has closed.   *)
FdTableAgrees ==
  /\ DOMAIN clients = {f \in Fds : fdtab[f] # NoConn}
  /\ \A f, g \in DOMAIN clients : fdtab[f] = fdtab[g] => f = g
  /\ \A f \in DOMAIN clients : fdtab[f] \notin closed

(* A connection acts under the name it logged in with itself: however      *)
(* descriptor numbers are reused, no session passes from one connection to *)
(* the next one on the same number (clients in main's accept and clean-up).*)
SessionOfItsConnection ==
  \A f \in DOMAIN clients :
    fdtab[f] # NoConn => clients[f].nick = login[fdtab[f]].nick

(* A session has exactly the rights the database gave when it logged in,   *)
(* whatever the user cache remembers from earlier logins and however the   *)
(* name is spelled (handle_message's /login branch, set_username).         *)
AdminAsGranted ==
  \A f \in DOMAIN clients : clients[f].admin = login[fdtab[f]].admin

(* No two clients hold the same nickname in any spelling: README, "unique  *)
(* nickname, conflicts are detected".                                      *)
UniqueNicknames ==
  \A f, g \in DOMAIN clients :
    /\ clients[f].nick # NoNick
    /\ clients[g].nick # NoNick
    /\ Lower[clients[f].nick] = Lower[clients[g].nick]
    => f = g
=============================================================================
