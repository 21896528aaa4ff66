--------------------------- MODULE SessionsProofs ---------------------------
(***************************************************************************)
(* The invariants of module Sessions, proved for any number of connections,*)
(* descriptor numbers and names.                                           *)
(*                                                                         *)
(* The argument: SInv is inductive.  It adds to the checked invariants     *)
(* that a connection the server has never accepted holds no grant, without *)
(* which a new connection could start with somebody's name.  Most steps    *)
(* leave names, rights and descriptors as they are (SameSessions); the     *)
(* ones that do not, Accept, Login, Sweep and CloseAll, are proved singly. *)
(***************************************************************************)
EXTENDS Sessions, PartialMapsProofs

(* Only connections that are or were clients have logged in.               *)
GrantsAreOfAccepted ==
  \A c \in Conns :
    login[c] = NoGrant \/ c \in closed \/ \E f \in Fds : fdtab[f] = c

(* What the sessions of the open clients rest on.                          *)
Agreement ==
  /\ FdTableAgrees
  /\ GrantsAreOfAccepted
  /\ SessionOfItsConnection
  /\ AdminAsGranted
  /\ UniqueNicknames

SInv == SessionTypeOK /\ Agreement

(* A step that leaves everybody's name, rights and descriptor alone.       *)
SameSessions ==
  /\ UNCHANGED <<fdtab, login, closed>>
  /\ DOMAIN clients' = DOMAIN clients
  /\ \A g \in DOMAIN clients : /\ clients'[g].nick = clients[g].nick
                               /\ clients'[g].admin = clients[g].admin

-----------------------------------------------------------------------------
(* Lemmas about the operators.                                             *)

(* to_lower_nickname maps names to names and is idempotent.                *)
LEMMA LowerFacts ==
  /\ \A n \in Nicks : Lower[n] \in Folded /\ Lower[n] \in Nicks
  /\ Folded \subseteq Nicks
  /\ NoNick \notin Nicks
  /\ NoConn \notin Conns
BY SessionsAssumption DEF Folded

(* An accepted client's fresh entry has the type of an entry.              *)
LEMMA NewClientType == NewClient \in Client /\ NoGrant \in Grant
BY DEF NewClient, Client, NoGrant, Grant

(* Only connections occupy descriptors.                                    *)
LEMMA OccupantsType ==
  ASSUME SessionTypeOK, NEW S, S \subseteq Fds
  PROVE  Occupants(S) \subseteq Conns
BY DEF Occupants, SessionTypeOK

(* A nickname is only ever found at a client's descriptor.                 *)
LEMMA FoundAreClients ==
  ASSUME NEW n
  PROVE  get_fd_by_nickname(n) \subseteq DOMAIN clients
BY DEF get_fd_by_nickname

(* Refreshing last_activity changes neither names nor rights.              *)
LEMMA HeardKeeps ==
  ASSUME SessionTypeOK, NEW f \in DOMAIN clients
  PROVE  /\ IsMap(Heard(f), Fds, Client)
         /\ DOMAIN Heard(f) = DOMAIN clients
         /\ \A g \in DOMAIN clients : /\ Heard(f)[g].nick = clients[g].nick
                                      /\ Heard(f)[g].admin = clients[g].admin
<1>1. clients[f] \in Client /\ IsMap(clients, Fds, Client)
  BY DEF SessionTypeOK, IsMap
<1>2. [clients[f] EXCEPT !.stale = FALSE] \in Client
  BY <1>1 DEF Client
<1>3. Heard(f) = [clients EXCEPT ![f] = [clients[f] EXCEPT !.stale = FALSE]]
  BY <1>1 DEF Heard
<1>4. IsMap(Heard(f), Fds, Client) /\ DOMAIN Heard(f) = DOMAIN clients
  BY <1>1, <1>2, <1>3 DEF IsMap
<1>5. ASSUME NEW g \in DOMAIN clients
      PROVE  Heard(f)[g].nick = clients[g].nick /\ Heard(f)[g].admin = clients[g].admin
  <2>1. CASE g = f
    BY <1>1, <1>3, <2>1 DEF Client, IsMap
  <2>2. CASE g # f
    BY <1>1, <1>3, <2>2 DEF IsMap
  <2> QED
    BY <2>1, <2>2
<1> QED
  BY <1>4, <1>5

(* clients after a login on f with account a, the cache being users.       *)
LoggedIn(f, a, users) ==
  [set_username(Heard(f), f, a.name, users) EXCEPT ![f].admin = a.admin]

(* After a login the session has the account's name and the rights read    *)
(* from the database, and every other session is as before.                *)
LEMMA LoginWrites ==
  ASSUME SessionTypeOK, NEW f \in DOMAIN clients, NEW a \in Account, NEW users
  PROVE  LET cl == LoggedIn(f, a, users)
         IN  /\ IsMap(cl, Fds, Client)
             /\ DOMAIN cl = DOMAIN clients
             /\ cl[f].nick = a.name /\ cl[f].admin = a.admin
             /\ \A g \in DOMAIN clients \ {f} : /\ cl[g].nick = clients[g].nick
                                                /\ cl[g].admin = clients[g].admin
<1> DEFINE cl == LoggedIn(f, a, users)
           h == Heard(f)
           e == [h[f] EXCEPT !.nick = a.name, !.admin = a.admin]
<1>1. /\ IsMap(h, Fds, Client) /\ DOMAIN h = DOMAIN clients
      /\ \A g \in DOMAIN clients : /\ h[g].nick = clients[g].nick
                                   /\ h[g].admin = clients[g].admin
  BY HeardKeeps
<1>2. h[f] \in Client /\ a.name \in Nicks /\ a.admin \in BOOLEAN
  BY <1>1 DEF IsMap, Account
<1>3. e \in Client /\ e.nick = a.name /\ e.admin = a.admin
  BY <1>2 DEF Client
<1>4. cl = [h EXCEPT ![f] = e]
  BY <1>1, <1>2 DEF LoggedIn, set_username, Client, IsMap
<1>5. /\ IsMap(cl, Fds, Client) /\ DOMAIN cl = DOMAIN clients /\ cl[f] = e
      /\ \A g \in DOMAIN clients : g # f => cl[g] = h[g]
  <2> HIDE DEF h, e, cl
  <2> QED
    BY <1>1, <1>3, <1>4 DEF IsMap
<1> HIDE DEF h, e, cl
<1> QED
  BY <1>1, <1>3, <1>5 DEF cl

(* disconnect_client marks descriptors and blames connections.             *)
LEMMA DisconnectType ==
  ASSUME SessionTypeOK, NEW S, S \subseteq Fds, disconnect_client(S)
  PROVE  /\ to_remove' \subseteq Fds
         /\ doomed' \subseteq Conns
         /\ farewell' \subseteq Conns
<1>1. Occupants(S) \subseteq Conns
  BY OccupantsType
<1>2. Occupants({f \in S : get_username(f) # NoNick}) \subseteq Conns
  BY OccupantsType, {f \in S : get_username(f) # NoNick} \subseteq Fds
<1> QED
  BY <1>1, <1>2 DEF disconnect_client, SessionTypeOK

-----------------------------------------------------------------------------
(* The type invariant.                                                     *)

(* It holds at start-up.                                                   *)
LEMMA TypeInit == SessionInit => SessionTypeOK
BY EmptyIsMap, NewClientType, SessionsAssumption DEF SessionInit, SessionTypeOK

(* Every handler and every step of the loop preserves it.                  *)
LEMMA TypeNext == SessionTypeOK /\ [SessionNext]_sessionVars => SessionTypeOK'
<1> SUFFICES ASSUME SessionTypeOK, [SessionNext]_sessionVars
             PROVE  SessionTypeOK'
  OBVIOUS
<1> USE DEF SessionTypeOK, history
<1>1. ASSUME NEW c \in Conns, NEW f \in Fds, Accept(c, f)
      PROVE  SessionTypeOK'
  <2>1. IsMap(Emplace(clients, f, NewClient), Fds, Client)
    BY NewClientType, EmplaceIsMap
  <2> QED
    BY <1>1, <2>1 DEF Accept
<1>2. ASSUME NEW f \in Fds, NEW n \in Nicks, Register(f, n)
      PROVE  SessionTypeOK'
  <2>1. [name |-> n, admin |-> FALSE] \in Account /\ Lower[n] \in Folded
    BY LowerFacts DEF Account
  <2>2. IsMap(Emplace(accounts, Lower[n], [name |-> n, admin |-> FALSE]), Folded, Account)
    BY <2>1, EmplaceIsMap
  <2>3. IsMap(Heard(f), Fds, Client)
    BY <1>2, HeardKeeps DEF Register
  <2> QED
    BY <1>2, <2>2, <2>3 DEF Register
<1>3. ASSUME NEW f \in Fds, NEW n \in Nicks, Login(f, n)
      PROVE  SessionTypeOK'
  <2> DEFINE a == accounts[Lower[n]]
  <2>1. f \in DOMAIN clients /\ a \in Account
    BY <1>3 DEF Login, IsMap
  <2>2. a.name \in Nicks /\ a.admin \in BOOLEAN
    BY <2>1 DEF Account
  <2>3. IsMap(cache', Folded, BOOLEAN)
    <3> DEFINE k == Lower[a.name]
               v == a.admin
    <3>1. cache' = Emplace(cache, k, v)
      BY <1>3 DEF Login, add_user_to_memory
    <3>2. k \in Folded /\ v \in BOOLEAN /\ IsMap(cache, Folded, BOOLEAN)
      BY <2>2, LowerFacts
    <3> HIDE DEF k, v
    <3>3. IsMap(Emplace(cache, k, v), Folded, BOOLEAN)
      BY <3>2, EmplaceIsMap, Zenon
    <3> QED
      BY <3>1, <3>3
  <2>4. IsMap(clients', Fds, Client)
    <3>1. clients' = LoggedIn(f, a, cache')
      BY <1>3 DEF Login, LoggedIn
    <3> HIDE DEF a
    <3> QED
      BY <2>1, <3>1, LoginWrites
  <2>5. login' \in [Conns -> Grant]
    BY <1>3, <2>2 DEF Login, Grant
  <2> QED
    BY <1>3, <2>3, <2>4, <2>5 DEF Login
<1>4. ASSUME NEW f \in Fds, Chat(f)
      PROVE  SessionTypeOK'
  BY <1>4, HeardKeeps DEF Chat
<1>5. ASSUME NEW f \in Fds, Quit(f)
      PROVE  SessionTypeOK'
  <2>1. disconnect_client({f}) /\ IsMap(clients', Fds, Client)
    BY <1>5, HeardKeeps DEF Quit
  <2> QED
    BY <1>5, <2>1, DisconnectType DEF Quit
<1>6. ASSUME NEW f \in Fds, NEW n \in Nicks, Kick(f, n)
      PROVE  SessionTypeOK'
  <2>1. IsMap(clients', Fds, Client)
    BY <1>6, HeardKeeps DEF Kick
  <2>2. PICK target \in get_fd_by_nickname(n) : disconnect_client({target})
    BY <1>6 DEF Kick
  <2>3. {target} \subseteq Fds
    BY FoundAreClients DEF IsMap
  <2> QED
    BY <1>6, <2>1, <2>2, <2>3, DisconnectType DEF Kick
<1>7. ASSUME NEW S \in SUBSET Fds, Drop(S)
      PROVE  SessionTypeOK'
  BY <1>7, DisconnectType DEF Drop
<1>8. CASE Sweep
  <2>1. IsMap(clients', Fds, Client)
    BY <1>8, WithoutIsMap DEF Sweep
  <2>2. closed' \subseteq Conns
    BY <1>8, OccupantsType DEF Sweep
  <2> QED
    BY <1>8, <2>1, <2>2 DEF Sweep
<1>9. CASE CloseAll
  <2>1. closed' \subseteq Conns
    BY <1>9, OccupantsType DEF CloseAll, IsMap
  <2> QED
    BY <1>9, <2>1, EmptyIsMap DEF CloseAll
<1>10. ASSUME NEW f \in Fds, Age(f)
       PROVE  SessionTypeOK'
  <2>1. clients[f] \in Client /\ f \in DOMAIN clients
    BY <1>10 DEF Age, IsMap
  <2>2. [clients[f] EXCEPT !.stale = TRUE] \in Client
    BY <2>1 DEF Client
  <2>3. clients' = [clients EXCEPT ![f] = [clients[f] EXCEPT !.stale = TRUE]]
    BY <1>10, <2>1 DEF Age
  <2>4. IsMap(clients', Fds, Client)
    BY <2>1, <2>2, <2>3 DEF IsMap
  <2> QED
    BY <1>10, <2>4 DEF Age
<1>11. ASSUME NEW l \in Folded, NEW b \in BOOLEAN, SetAdmin(l, b)
       PROVE  SessionTypeOK'
  <2>1. accounts[l] \in Account /\ l \in DOMAIN accounts
    BY <1>11 DEF SetAdmin, IsMap
  <2>2. [accounts[l] EXCEPT !.admin = b] \in Account
    BY <2>1 DEF Account
  <2>3. accounts' = [accounts EXCEPT ![l] = [accounts[l] EXCEPT !.admin = b]]
    BY <1>11, <2>1 DEF SetAdmin
  <2>4. IsMap(accounts', Folded, Account)
    BY <2>1, <2>2, <2>3 DEF IsMap
  <2> QED
    BY <1>11, <2>4 DEF SetAdmin
<1>12. CASE UNCHANGED sessionVars
  BY <1>12 DEF sessionVars
<1> QED
  BY <1>1, <1>2, <1>3, <1>4, <1>5, <1>6, <1>7, <1>8, <1>9, <1>10, <1>11, <1>12
     DEF SessionNext, handle_message

-----------------------------------------------------------------------------
(* Agreement.                                                              *)

(* It holds at start-up.                                                   *)
LEMMA AgreementInit == SessionInit => Agreement
BY EmptyIsMap DEF SessionInit, Agreement, FdTableAgrees, GrantsAreOfAccepted,
   SessionOfItsConnection, AdminAsGranted, UniqueNicknames, NoGrant

(* It says nothing of what SameSessions leaves open.                       *)
LEMMA SameSessionsAgree ==
  ASSUME Agreement, SameSessions
  PROVE  Agreement'
<1> USE DEF Agreement, SameSessions
<1>1. FdTableAgrees'
  BY DEF FdTableAgrees
<1>2. GrantsAreOfAccepted'
  BY DEF GrantsAreOfAccepted
<1>3. SessionOfItsConnection'
  BY DEF SessionOfItsConnection
<1>4. AdminAsGranted'
  BY DEF AdminAsGranted
<1>5. UniqueNicknames'
  BY DEF UniqueNicknames
<1> QED
  BY <1>1, <1>2, <1>3, <1>4, <1>5

(* Frames other than a login, disconnections, the clock and the database   *)
(* editor change no name, no right and no descriptor.                      *)
LEMMA QuietSteps ==
  ASSUME SessionTypeOK,
         \/ \E f \in Fds : Chat(f) \/ Quit(f) \/ Age(f)
         \/ \E f \in Fds, n \in Nicks : Register(f, n) \/ Kick(f, n)
         \/ \E S \in SUBSET Fds : Drop(S)
         \/ \E l \in Folded, b \in BOOLEAN : SetAdmin(l, b)
  PROVE  SameSessions
<1> USE DEF history
<1>1. ASSUME NEW f \in DOMAIN clients, clients' = Heard(f),
             UNCHANGED <<fdtab, login, closed>>
      PROVE  SameSessions
  BY <1>1, HeardKeeps DEF SameSessions
<1>2. ASSUME NEW f \in Fds, Age(f)
      PROVE  SameSessions
  BY <1>2 DEF Age, SameSessions, SessionTypeOK, IsMap, Client
<1>3. ASSUME UNCHANGED <<clients, fdtab, login, closed>>
      PROVE  SameSessions
  BY <1>3 DEF SameSessions
<1>4. ASSUME NEW f \in Fds, Chat(f) \/ Quit(f)
      PROVE  SameSessions
  BY <1>1, <1>4 DEF Chat, Quit
<1>5. ASSUME NEW f \in Fds, NEW n \in Nicks, Register(f, n) \/ Kick(f, n)
      PROVE  SameSessions
  BY <1>1, <1>5 DEF Register, Kick
<1>6. ASSUME NEW S \in SUBSET Fds, Drop(S)
      PROVE  SameSessions
  BY <1>3, <1>6 DEF Drop
<1>7. ASSUME NEW l \in Folded, NEW b \in BOOLEAN, SetAdmin(l, b)
      PROVE  SameSessions
  BY <1>3, <1>7 DEF SetAdmin
<1> QED
  BY <1>2, <1>4, <1>5, <1>6, <1>7

(* A new connection starts without name and rights, on a number of its own,*)
(* and has no grant from before.                                           *)
LEMMA AcceptAgrees ==
  ASSUME SInv, NEW c \in Conns, NEW f \in Fds, Accept(c, f)
  PROVE  Agreement'
<1> USE DEF SInv, Agreement
<1>1. /\ f \notin DOMAIN clients
      /\ DOMAIN clients' = DOMAIN clients \cup {f}
      /\ clients'[f] = NewClient
      /\ \A g \in DOMAIN clients : clients'[g] = clients[g]
  <2>1. f \notin DOMAIN clients /\ clients' = Emplace(clients, f, NewClient)
    BY DEF Accept, FdTableAgrees
  <2> QED
    BY <2>1 DEF Emplace
<1>2. /\ fdtab' = [fdtab EXCEPT ![f] = c]
      /\ UNCHANGED <<login, closed>>
      /\ c \notin closed /\ fdtab[f] = NoConn /\ NoConn \notin Conns
      /\ \A g \in Fds : fdtab[g] # c
      /\ fdtab \in [Fds -> Conns \cup {NoConn}] /\ DOMAIN clients \subseteq Fds
  BY LowerFacts DEF Accept, SessionTypeOK, IsMap, history
<1>3. FdTableAgrees'
  BY <1>1, <1>2 DEF FdTableAgrees
<1>4. GrantsAreOfAccepted'
  BY <1>2 DEF GrantsAreOfAccepted
<1>5. login[c] = NoGrant
  BY <1>2 DEF GrantsAreOfAccepted
<1>6. SessionOfItsConnection'
  BY <1>1, <1>2, <1>5 DEF SessionOfItsConnection, NewClient, NoGrant
<1>7. AdminAsGranted'
  <2>1. clients'[f].admin = login'[fdtab'[f]].admin
    <3>1. NewClient.admin = FALSE /\ NoGrant.admin = FALSE
      BY Zenon DEF NewClient, NoGrant
    <3>2. clients'[f] = NewClient /\ login'[fdtab'[f]] = NoGrant
      BY <1>1, <1>2, <1>5
    <3> QED
      BY <3>1, <3>2, Zenon
  <2>2. ASSUME NEW g \in DOMAIN clients
        PROVE  clients'[g].admin = login'[fdtab'[g]].admin
    BY <1>1, <1>2 DEF AdminAsGranted
  <2> QED
    BY <1>1, <2>1, <2>2 DEF AdminAsGranted
<1>8. UniqueNicknames'
  BY <1>1 DEF UniqueNicknames, NewClient
<1> QED
  BY <1>3, <1>4, <1>6, <1>7, <1>8

(* A login writes the account's name and rights into one session that had  *)
(* none, and no other session has that name in any spelling.               *)
LEMMA LoginAgrees ==
  ASSUME SInv, NEW f \in Fds, NEW n \in Nicks, Login(f, n)
  PROVE  Agreement'
<1> DEFINE a == accounts[Lower[n]]
           grant == [nick |-> a.name, admin |-> a.admin]
<1>1. f \in DOMAIN clients /\ a \in Account /\ SessionTypeOK
  BY DEF Login, SInv, SessionTypeOK, IsMap
<1>2. /\ clients' = [set_username(Heard(f), f, a.name, cache') EXCEPT ![f].admin = a.admin]
      /\ login' = [login EXCEPT ![fdtab[f]] = grant]
      /\ get_fd_by_nickname(a.name) = {}
      /\ UNCHANGED <<fdtab, closed>>
  BY DEF Login
<1>3. /\ IsMap(clients', Fds, Client)
      /\ DOMAIN clients' = DOMAIN clients
      /\ clients'[f].nick = a.name /\ clients'[f].admin = a.admin
      /\ \A g \in DOMAIN clients \ {f} : /\ clients'[g].nick = clients[g].nick
                                         /\ clients'[g].admin = clients[g].admin
  <2> HIDE DEF a
  <2>1. clients' = LoggedIn(f, a, cache')
    BY <1>2 DEF LoggedIn
  <2> QED
    BY <1>1, <2>1, LoginWrites
<1>4. fdtab[f] \in Conns /\ login \in [Conns -> Grant]
  BY <1>1 DEF SInv, Agreement, FdTableAgrees, SessionTypeOK
<1>5. login'[fdtab'[f]] = grant
  BY <1>2, <1>4
<1>6. \A g \in DOMAIN clients \ {f} : login'[fdtab'[g]] = login[fdtab[g]]
  BY <1>1, <1>2, <1>4 DEF SInv, Agreement, FdTableAgrees
<1> HIDE DEF a
<1>7. FdTableAgrees'
  BY <1>2, <1>3 DEF SInv, Agreement, FdTableAgrees
<1>8. GrantsAreOfAccepted'
  BY <1>1, <1>2, <1>4 DEF SInv, Agreement, GrantsAreOfAccepted
<1>9. SessionOfItsConnection'
  <2>1. clients'[f].nick = login'[fdtab'[f]].nick
    BY <1>3, <1>5
  <2>2. ASSUME NEW g \in DOMAIN clients \ {f}, fdtab'[g] # NoConn
        PROVE  clients'[g].nick = login'[fdtab'[g]].nick
    <3>1. clients[g].nick = login[fdtab[g]].nick
      BY <1>2, <2>2 DEF SInv, Agreement, SessionOfItsConnection
    <3> QED
      BY <1>3, <1>6, <3>1
  <2> QED
    BY <1>3, <2>1, <2>2 DEF SessionOfItsConnection
<1>10. AdminAsGranted'
  <2>1. clients'[f].admin = login'[fdtab'[f]].admin
    BY <1>3, <1>5
  <2>2. ASSUME NEW g \in DOMAIN clients \ {f}
        PROVE  clients'[g].admin = login'[fdtab'[g]].admin
    BY <1>3, <1>6 DEF SInv, Agreement, AdminAsGranted
  <2> QED
    BY <1>3, <2>1, <2>2 DEF AdminAsGranted
<1>11. UniqueNicknames'
  BY <1>2, <1>3 DEF SInv, Agreement, UniqueNicknames, get_fd_by_nickname
<1> QED
  BY <1>7, <1>8, <1>9, <1>10, <1>11 DEF Agreement

(* Closing some of the clients takes their entries and numbers together,   *)
(* so the sessions that stay are the ones there were.                      *)
LEMMA ClosingAgrees ==
  ASSUME SInv, NEW S, S \subseteq Fds,
         clients' = Without(clients, S),
         fdtab' = [f \in Fds |-> IF f \in S THEN NoConn ELSE fdtab[f]],
         closed' = closed \cup Occupants(S),
         UNCHANGED login
  PROVE  Agreement'
<1> USE DEF SInv, Agreement
<1>1. /\ DOMAIN clients' = DOMAIN clients \ S
      /\ \A g \in DOMAIN clients' : clients'[g] = clients[g] /\ fdtab'[g] = fdtab[g]
  BY DEF Without, SessionTypeOK, IsMap
<1>2. FdTableAgrees'
  BY <1>1 DEF FdTableAgrees, Occupants
<1>3. GrantsAreOfAccepted'
  BY LowerFacts DEF GrantsAreOfAccepted, Occupants
<1>4. SessionOfItsConnection'
  BY <1>1 DEF SessionOfItsConnection
<1>5. AdminAsGranted'
  BY <1>1 DEF AdminAsGranted
<1>6. UniqueNicknames'
  BY <1>1 DEF UniqueNicknames
<1> QED
  BY <1>2, <1>3, <1>4, <1>5, <1>6

(* Every step preserves the agreement.                                     *)
LEMMA AgreementNext == SInv /\ [SessionNext]_sessionVars => Agreement'
<1> SUFFICES ASSUME SInv, [SessionNext]_sessionVars
             PROVE  Agreement'
  OBVIOUS
<1>1. ASSUME NEW c \in Conns, NEW f \in Fds, Accept(c, f)
      PROVE  Agreement'
  BY <1>1, AcceptAgrees
<1>2. ASSUME NEW f \in Fds, NEW n \in Nicks, Login(f, n)
      PROVE  Agreement'
  BY <1>2, LoginAgrees
<1>3. CASE Sweep
  BY <1>3, ClosingAgrees DEF Sweep, SInv, SessionTypeOK
<1>4. CASE CloseAll
  <2>1. clients' = Without(clients, DOMAIN clients)
    BY <1>4 DEF CloseAll, Without, EmptyMap
  <2>2. DOMAIN clients \subseteq Fds
    BY DEF SInv, SessionTypeOK, IsMap
  <2> QED
    BY <1>4, <2>1, <2>2, ClosingAgrees DEF CloseAll
<1>5. CASE SameSessions
  BY <1>5, SameSessionsAgree DEF SInv
<1>6. CASE UNCHANGED sessionVars
  BY <1>5, <1>6 DEF sessionVars, SameSessions
<1> QED
  BY <1>1, <1>2, <1>3, <1>4, <1>5, <1>6, QuietSteps
     DEF SessionNext, handle_message, SInv

-----------------------------------------------------------------------------
(* Theorems.                                                               *)

(* SInv holds in every reachable state of the session layer.               *)
THEOREM SessionInvariant == SessionSpec => []SInv
<1>1. SessionInit => SInv
  BY TypeInit, AgreementInit DEF SInv
<1>2. SInv /\ [SessionNext]_sessionVars => SInv'
  BY TypeNext, AgreementNext DEF SInv
<1> QED
  BY <1>1, <1>2, PTL DEF SessionSpec

(* The session state of ServerContext and UserManager is well typed.       *)
THEOREM SessionsTyped == SessionSpec => []SessionTypeOK
<1>1. SInv => SessionTypeOK
  BY DEF SInv
<1> QED
  BY <1>1, SessionInvariant, PTL

(* The entries of clients and the open descriptors agree, always.          *)
THEOREM DescriptorsAgree == SessionSpec => []FdTableAgrees
<1>1. SInv => FdTableAgrees
  BY DEF SInv, Agreement
<1> QED
  BY <1>1, SessionInvariant, PTL

(* No connection ever acts under a name, or with rights, that the database *)
(* did not give to that very connection, however numbers are reused.       *)
THEOREM SessionsAreOwn ==
  SessionSpec => [](SessionOfItsConnection /\ AdminAsGranted)
<1>1. SInv => SessionOfItsConnection /\ AdminAsGranted
  BY DEF SInv, Agreement
<1> QED
  BY <1>1, SessionInvariant, PTL

(* A session has the rights its own login was given, not those the user    *)
(* cache remembers from an earlier one (set_username, /login).             *)
THEOREM RightsAreAsGranted == SessionSpec => []AdminAsGranted
<1>1. SInv => AdminAsGranted
  BY DEF SInv, Agreement
<1> QED
  BY <1>1, SessionInvariant, PTL

(* A nickname, in any spelling, is never held by two clients at once.      *)
THEOREM NicknamesAreUnique == SessionSpec => []UniqueNicknames
<1>1. SInv => UniqueNicknames
  BY DEF SInv, Agreement
<1> QED
  BY <1>1, SessionInvariant, PTL
=============================================================================
