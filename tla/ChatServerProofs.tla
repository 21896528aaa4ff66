-------------------------- MODULE ChatServerProofs --------------------------
(***************************************************************************)
(* Sessions and groups in one server, for any number of connections,       *)
(* descriptors, users and groups.                                          *)
(*                                                                         *)
(* The argument: every step of the composition is a step of Sessions or    *)
(* changes no session, and it is a step of Groups or changes no group and  *)
(* nobody who is online: a clean-up takes a set of users offline at once,  *)
(* and that is all it does because no two clients have one name.  So both  *)
(* components' invariants hold.  What relates them rests on two more facts *)
(* that are part of the inductive invariant: whoever is logged in has an   *)
(* account, and accounts are keyed by their folded names.                  *)
(***************************************************************************)
EXTENDS ChatServer, SessionsProofs

(* The theorems about GroupManager.  Its file plays no part here, so its   *)
(* constants and variables may stand for anything.                         *)
GP == INSTANCE GroupsProofs
  WITH Spellings <- Nicks, Users <- Nicks, online <- Online,
       Unencodable <- {}, DiskFails <- FALSE, file <- EmptyMap, phase <- EmptyMap,
       initial <- EmptyMap, final <- EmptyMap, stop <- EmptyMap

(* Every account is stored under its folded name.                          *)
AccountsAreKeyed ==
  \A l \in DOMAIN accounts : Lower[accounts[l].name] = l

(* Whoever is logged in has an account.                                    *)
LoggedInHaveAccounts ==
  \A u \in Online : Lower[u] \in DOMAIN accounts

ChatInv ==
  /\ SInv
  /\ GP!GroupsInv
  /\ AccountsAreKeyed
  /\ LoggedInHaveAccounts
  /\ MembersHaveAccounts
  /\ mail \subseteq Mail
  /\ MailReachesItsReaders

-----------------------------------------------------------------------------
(* The two components.                                                     *)

(* What Groups assumes of its constants, its clients here provide.         *)
LEMMA AssumptionsHold == GP!GroupsAssumption /\ GP!GroupStoreAssumption
BY SessionsAssumption, ChatServerAssumption
   DEF GP!GroupsAssumption, GP!GroupStoreAssumption

(* Both instances of Groups are the same.                                  *)
LEMMA OneGroups ==
  /\ GM!GroupsNext <=> GP!GroupsNext
  /\ GM!GroupsTypeOK <=> GP!GroupsTypeOK
  /\ GM!GroupsInit <=> GP!GroupsInit
BY DEF GM!GroupsInit, GP!GroupsInit, GM!GroupsTypeOK, GP!GroupsTypeOK,
  GM!Group, GP!Group, GM!Notice, GP!Notice, GM!Hashes, GP!Hashes, GM!Encoded, GP!Encoded, GM!Folded, GP!Folded,
  GM!GroupsNext, GP!GroupsNext, GM!OnlyReplies, GP!OnlyReplies,
  GM!GoesOffline, GP!GoesOffline, GM!ComesOnline, GP!ComesOnline,
  GM!handle_create_group, GP!handle_create_group, GM!handle_join_group, GP!handle_join_group,
  GM!handle_send_message, GP!handle_send_message, GM!handle_group_leave, GP!handle_group_leave,
  GM!handle_group_kick, GP!handle_group_kick, GM!handle_group_unban, GP!handle_group_unban,
  GM!handle_group_transfer, GP!handle_group_transfer,
  GM!CanCreate, GP!CanCreate, GM!CanJoin, GP!CanJoin, GM!Member, GP!Member,
  GM!Owner, GP!Owner, GM!Tell, GP!Tell, GM!verify_password, GP!verify_password,
  GM!KeepUnlessEmpty, GP!KeepUnlessEmpty, GM!OwnerHandsOver, GP!OwnerHandsOver,
  GM!OwnerDissolves, GP!OwnerDissolves, GM!MemberLeaves, GP!MemberLeaves,
  GM!Emplace, GP!Emplace, GM!Without, GP!Without, GM!EmptyMap, GP!EmptyMap, GM!IsMap, GP!IsMap

(* Folding a folded name changes nothing.                                  *)
LEMMA FoldedTwice == \A n \in Folded : Lower[n] = n /\ n \in Nicks
BY SessionsAssumption DEF Folded

-----------------------------------------------------------------------------
(* Every step as the session layer sees it.                                *)

(* A group command and a whisper are frames that change no session.        *)
LEMMA ChatStepsAreSessionSteps == [ChatNext]_chatVars => [SessionNext]_sessionVars
<1>1. ASSUME NEW f \in Fds, GroupCommand(f)
      PROVE  SessionNext
  BY <1>1 DEF GroupCommand, SessionNext, handle_message
<1>2. ASSUME NEW f \in Fds, NEW n \in Nicks, Whisper(f, n)
      PROVE  SessionNext
  BY <1>2 DEF Whisper, SessionNext, handle_message
<1> QED
  BY <1>1, <1>2 DEF ChatNext, SessionStep, chatVars

(* The composition's steps are written with those of Sessions, so the      *)
(* session layer's theorems hold in it.                                    *)
LEMMA ChatServerImplementsSessions == ChatSpec => SessionSpec
<1>1. ChatInit => SessionInit
  BY DEF ChatInit
<1> QED
  BY <1>1, ChatStepsAreSessionSteps, PTL DEF ChatSpec, SessionSpec

(* A client is online exactly under the name in his entry.                 *)
LEMMA OnlineNames ==
  ASSUME SessionTypeOK
  PROVE  /\ Online \subseteq Nicks
         /\ \A f \in DOMAIN clients :
              clients[f].nick = NoNick \/ clients[f].nick \in Online
BY DEF Online, SessionTypeOK, IsMap, Client

(* Steps that change no name change nobody's presence.                     *)
LEMMA SameNamesSameOnline ==
  ASSUME SameSessions
  PROVE  UNCHANGED Online
BY DEF SameSessions, Online

(* Closing clients takes their names offline and nobody else's, because a  *)
(* name is never shared.                                                   *)
LEMMA ClosingTakesOffline ==
  ASSUME SInv, NEW S, clients' = Without(clients, S)
  PROVE  \E T \in SUBSET Online : Online' = Online \ T
<1> DEFINE T == {clients[f].nick : f \in DOMAIN clients \cap S} \ {NoNick}
<1>1. /\ DOMAIN clients' = DOMAIN clients \ S
      /\ \A f \in DOMAIN clients' : clients'[f] = clients[f]
  BY DEF Without
<1>2. T \in SUBSET Online
  BY DEF Online
<1>3. ASSUME NEW f \in DOMAIN clients \ S, NEW g \in DOMAIN clients \cap S,
             clients[f].nick = clients[g].nick
      PROVE  clients[f].nick = NoNick
  BY <1>3 DEF SInv, Agreement, UniqueNicknames
<1>4. Online' = {clients[f].nick : f \in DOMAIN clients \ S} \ {NoNick}
  BY <1>1 DEF Online
<1>5. Online' = Online \ T
  BY <1>3, <1>4 DEF Online
<1> QED
  BY <1>2, <1>5

(* What a step of the session layer does to the set of users online.       *)
LEMMA OnlineSteps ==
  ASSUME SInv, [SessionNext]_sessionVars
  PROVE  \/ UNCHANGED Online
         \/ \E u \in Nicks \ Online : Online' = Online \cup {u}
         \/ \E T \in SUBSET Online : Online' = Online \ T
<1> DEFINE Goal == \/ UNCHANGED Online
                   \/ \E u \in Nicks \ Online : Online' = Online \cup {u}
                   \/ \E T \in SUBSET Online : Online' = Online \ T
<1>1. ASSUME NEW c \in Conns, NEW f \in Fds, Accept(c, f)
      PROVE  Goal
  <2>1. /\ f \notin DOMAIN clients
        /\ DOMAIN clients' = DOMAIN clients \cup {f}
        /\ clients'[f].nick = NoNick
        /\ \A g \in DOMAIN clients : clients'[g] = clients[g]
    <3>1. f \notin DOMAIN clients /\ clients' = Emplace(clients, f, NewClient)
      BY <1>1 DEF Accept, SInv, Agreement, FdTableAgrees
    <3> QED
      BY <3>1 DEF Emplace, NewClient
  <2> QED
    BY <2>1 DEF Online
<1>2. ASSUME NEW f \in Fds, NEW n \in Nicks, Login(f, n)
      PROVE  Goal
  <2> DEFINE a == accounts[Lower[n]]
  <2>1. f \in DOMAIN clients /\ a \in Account /\ clients[f].nick = NoNick
    BY <1>2 DEF Login, SInv, SessionTypeOK, IsMap
  <2>2. a.name \in Nicks /\ a.name # NoNick
    BY <2>1, LowerFacts DEF Account
  <2>3. /\ DOMAIN clients' = DOMAIN clients
        /\ clients'[f].nick = a.name
        /\ \A g \in DOMAIN clients \ {f} : clients'[g].nick = clients[g].nick
    <3>1. clients' = LoggedIn(f, a, cache')
      BY <1>2 DEF Login, LoggedIn
    <3> HIDE DEF a
    <3> QED
      BY <2>1, <3>1, LoginWrites DEF SInv
  <2>4. a.name \notin Online
    <3>1. get_fd_by_nickname(a.name) = {}
      BY <1>2 DEF Login
    <3> HIDE DEF a
    <3> QED
      BY <3>1, <2>2 DEF get_fd_by_nickname, Online
  <2> HIDE DEF a
  <2>5. Online' = Online \cup {a.name}
    BY <2>1, <2>2, <2>3 DEF Online
  <2> QED
    BY <2>2, <2>4, <2>5
<1>3. CASE Sweep
  BY <1>3, ClosingTakesOffline DEF Sweep
<1>4. CASE CloseAll
  <2>1. clients' = Without(clients, DOMAIN clients)
    BY <1>4 DEF CloseAll, Without, EmptyMap
  <2> QED
    BY <2>1, ClosingTakesOffline
<1>5. CASE SameSessions
  BY <1>5, SameNamesSameOnline
<1>6. CASE UNCHANGED sessionVars
  BY <1>6 DEF sessionVars, Online
<1> QED
  BY <1>1, <1>2, <1>3, <1>4, <1>5, <1>6, QuietSteps
     DEF SessionNext, handle_message, SInv

-----------------------------------------------------------------------------
(* Every step as GroupManager sees it.                                     *)

(* Commands change nobody's presence, and their sender is online.          *)
LEMMA Commanding ==
  ASSUME SessionTypeOK, NEW f \in Fds, get_username(f) # NoNick, Chat(f)
  PROVE  /\ SameSessions
         /\ UNCHANGED <<Online, accounts>>
         /\ f \in DOMAIN clients
         /\ get_username(f) = clients[f].nick
         /\ get_username(f) \in Online
         /\ get_username(f) \in Nicks
<1>1. SameSessions
  BY QuietSteps
<1>2. UNCHANGED Online
  BY <1>1, SameNamesSameOnline
<1>3. f \in DOMAIN clients /\ UNCHANGED accounts
  BY DEF Chat
<1> QED
  BY <1>1, <1>2, <1>3, OnlineNames DEF get_username

(* What happens to sessions is a login, a clean-up or nothing for the      *)
(* groups, and their commands are GroupManager's handlers.                 *)
LEMMA ChatStepsAreGroupSteps ==
  SInv /\ [ChatNext]_chatVars => [GM!GroupsNext]_(GM!groupVars)
<1> SUFFICES ASSUME SInv, [ChatNext]_chatVars
             PROVE  [GM!GroupsNext]_(GM!groupVars)
  OBVIOUS
<1>1. CASE SessionStep
  <2>1. /\ told' = {} /\ UNCHANGED groups
        /\ [SessionNext]_sessionVars
    BY <1>1 DEF SessionStep
  <2>2. CASE UNCHANGED Online
    BY <2>1, <2>2 DEF GM!OnlyReplies, GM!GroupsNext
  <2>3. ASSUME NEW u \in Nicks \ Online, Online' = Online \cup {u}
        PROVE  GM!GroupsNext
    <3>1. GM!ComesOnline(u)
      BY <2>1, <2>3 DEF GM!ComesOnline
    <3> QED
      BY <3>1 DEF GM!GroupsNext
  <2>4. ASSUME NEW T \in SUBSET Online, Online' = Online \ T
        PROVE  GM!GroupsNext
    <3>1. CASE T = {}
      BY <2>1, <2>4, <3>1 DEF GM!OnlyReplies, GM!GroupsNext
    <3>2. CASE T # {}
      <4>1. T \in SUBSET Nicks
        BY OnlineNames DEF SInv
      <4>2. GM!GoesOffline(T)
        BY <2>1, <2>4, <3>2 DEF GM!GoesOffline
      <4> QED
        BY <4>1, <4>2 DEF GM!GroupsNext
    <3> QED
      BY <3>1, <3>2
  <2> QED
    BY <2>1, <2>2, <2>3, <2>4, OnlineSteps
<1>2. ASSUME NEW f \in Fds, GroupCommand(f)
      PROVE  GM!GroupsNext
  <2>1. get_username(f) \in Nicks
    BY <1>2, Commanding DEF GroupCommand, SInv
  <2>2. GroupHandler(get_username(f))
    BY <1>2 DEF GroupCommand
  <2> QED
    BY <2>1, <2>2 DEF GroupHandler, GM!GroupsNext
<1>3. ASSUME NEW f \in Fds, NEW n \in Nicks, Whisper(f, n)
      PROVE  GM!GroupsNext
  <2>1. UNCHANGED <<groups, Online>> /\ told' = {}
    BY <1>3, Commanding DEF Whisper, SInv
  <2> QED
    BY <2>1 DEF GM!OnlyReplies, GM!GroupsNext
<1>4. CASE UNCHANGED chatVars
  BY <1>4 DEF chatVars, sessionVars, GM!groupVars, Online
<1> QED
  BY <1>1, <1>2, <1>3, <1>4 DEF ChatNext

(* Nobody is online at start-up.                                           *)
LEMMA ChatInitIsGroupsInit == ChatInit => GM!GroupsInit
BY EmptyIsMap DEF ChatInit, SessionInit, GM!GroupsInit, Online, GM!EmptyMap, EmptyMap

(* The composition implements Groups (ImplementsGroups): GroupManager,     *)
(* called by sessions that come and go on reused descriptors, is the       *)
(* component that module Groups specifies.                                 *)
THEOREM ChatServerImplementsGroups == ChatSpec => ImplementsGroups
<1>1. ChatSpec => []SInv
  BY ChatServerImplementsSessions, SessionInvariant
<1> QED
  BY <1>1, ChatInitIsGroupsInit, ChatStepsAreGroupSteps, PTL
     DEF ChatSpec, ImplementsGroups, GM!GroupsSpec

(* GroupManager's own invariant, with what is online here.                 *)
LEMMA ChatGroupsInvariant == ChatSpec => []GP!GroupsInv
<1>1. GM!GroupsInit => GP!GroupsInv
  BY OneGroups, GP!GroupsInvInit, AssumptionsHold
<1>2. GP!GroupsInv /\ [GM!GroupsNext]_(GM!groupVars) => GP!GroupsInv'
  BY OneGroups, GP!GroupsInvNext, AssumptionsHold DEF GM!groupVars, GP!groupVars
<1> QED
  BY <1>1, <1>2, ChatServerImplementsGroups, PTL DEF ImplementsGroups, GM!GroupsSpec

(* Owners are members and banned users stay out, in the composed server.   *)
THEOREM ChatGroupsAreSound == ChatSpec => [](GM!OwnerIsMember /\ GM!BannedAreOut)
<1>1. GP!GroupsInv => GM!OwnerIsMember /\ GM!BannedAreOut
  BY DEF GP!GroupsInv, GP!OwnerIsMember, GP!BannedAreOut, GM!OwnerIsMember, GM!BannedAreOut
<1> QED
  BY <1>1, ChatGroupsInvariant, PTL

(* What GroupManager promises of its steps holds in the composed server:   *)
(* who is told of a change, who hears a message, how a group ends.         *)
THEOREM ChatKeepsGroupPromises ==
  ChatSpec => GM!ChangesAreAnnounced /\ GM!MessagesStayInside /\ GM!EndsWithItsOwner
<1>1. ChatSpec => GP!GroupsSpec
  <2>1. (GM!GroupsInit => GP!GroupsInit)
        /\ ([GM!GroupsNext]_(GM!groupVars) => [GP!GroupsNext]_(GP!groupVars))
    BY OneGroups DEF GM!groupVars, GP!groupVars
  <2> QED
    BY <2>1, ChatServerImplementsGroups, PTL
       DEF ImplementsGroups, GM!GroupsSpec, GP!GroupsSpec
<1>2. GP!ChangesAreAnnounced => GM!ChangesAreAnnounced
  <2> DEFINE P == \A k \in DOMAIN groups \cap DOMAIN groups' :
                    GP!Public(groups'[k], groups[k]) # GP!Public(groups[k], groups[k]) =>
                      (groups'[k].members \cup (groups'[k].banned \ groups[k].banned))
                        \cap GP!Folded(Online) \subseteq GP!Audience(told', k)
             M == \A k \in DOMAIN groups \cap DOMAIN groups' :
                    GM!Public(groups'[k], groups[k]) # GM!Public(groups[k], groups[k]) =>
                      (groups'[k].members \cup (groups'[k].banned \ groups[k].banned))
                        \cap GM!Folded(Online) \subseteq GM!Audience(told', k)
  <2>1. [P]_(GP!groupVars) => [M]_(GM!groupVars)
    BY DEF GP!Public, GM!Public, GP!Audience, GM!Audience, GP!Folded, GM!Folded, GM!groupVars, GP!groupVars
  <2> QED
    BY <2>1, PTL DEF GP!ChangesAreAnnounced, GM!ChangesAreAnnounced
<1>3. GP!MessagesStayInside => GM!MessagesStayInside
  BY PTL DEF GP!MessagesStayInside, GM!MessagesStayInside, GM!groupVars, GP!groupVars
<1>4. GP!EndsWithItsOwner => GM!EndsWithItsOwner
  BY PTL DEF GP!EndsWithItsOwner, GM!EndsWithItsOwner, GM!groupVars, GP!groupVars
<1> QED
  BY <1>1, <1>2, <1>3, <1>4, GP!GroupsAnnounce, GP!GroupsKeepMessages,
     GP!GroupsEndWithOwners, AssumptionsHold, PTL

-----------------------------------------------------------------------------
(* What a command does to the names in the groups, and whom it tells.      *)

(* Everybody whom a group names.                                           *)
Named(grp) == {grp.owner} \cup grp.members \cup grp.banned

AllNamed == UNION {Named(groups[k]) : k \in DOMAIN groups}

(* What Groups knows of a stored group, in this module's terms.            *)
LEMMA StoredGroups ==
  ASSUME GP!GroupsInv
  PROVE  /\ groups = [k \in DOMAIN groups |-> groups[k]]
         /\ \A k \in DOMAIN groups :
              /\ groups[k] = [owner         |-> groups[k].owner,
                              members       |-> groups[k].members,
                              banned        |-> groups[k].banned,
                              password_hash |-> groups[k].password_hash]
              /\ groups[k].owner \in groups[k].members
<1>1. groups \in [DOMAIN groups -> GP!Group]
  BY DEF GP!GroupsInv, GP!GroupsTypeOK, GP!IsMap
<1>2. \A k \in DOMAIN groups : groups[k].owner \in groups[k].members
  BY DEF GP!GroupsInv, GP!OwnerIsMember
<1> QED
  BY <1>1, <1>2 DEF GP!Group

(* If one group becomes grp, the names in it are old ones and grp's.       *)
LEMMA ReplacingNames ==
  ASSUME GP!GroupsInv, NEW k \in DOMAIN groups, NEW grp,
         groups' = [groups EXCEPT ![k] = grp], NEW n, Named(grp) \subseteq {n} \cup AllNamed
  PROVE  \A j \in DOMAIN groups' : Named(groups'[j]) \subseteq {n} \cup AllNamed
<1>1. /\ DOMAIN groups' = DOMAIN groups
      /\ \A j \in DOMAIN groups' : groups'[j] = IF j = k THEN grp ELSE groups[j]
  BY StoredGroups
<1>2. \A j \in DOMAIN groups : Named(groups[j]) \subseteq AllNamed
  BY DEF AllNamed
<1> QED
  BY <1>1, <1>2

(* A group that goes takes its names with it.                              *)
LEMMA RemovingNames ==
  ASSUME NEW k, groups' = Without(groups, {k}), NEW n
  PROVE  \A j \in DOMAIN groups' : Named(groups'[j]) \subseteq {n} \cup AllNamed
<1>1. \A j \in DOMAIN groups' : j \in DOMAIN groups /\ groups'[j] = groups[j]
  BY DEF Without
<1>2. \A j \in DOMAIN groups : Named(groups[j]) \subseteq AllNamed
  BY DEF AllNamed
<1> QED
  BY <1>1, <1>2

(* The step's notices are of group k, to members of it.                    *)
ToldIn(k) == \A m \in told' : m.group = k /\ m.to \in groups[k].members

(* The names a command writes into a group are its sender's or already     *)
(* written there; what it sends, it sends in a group of its sender.        *)
LEMMA CommandNames ==
  ASSUME GP!GroupsInv, NEW u \in Nicks, GroupHandler(u)
  PROVE  /\ \A k \in DOMAIN groups' : Named(groups'[k]) \subseteq {Lower[u]} \cup AllNamed
         /\ told' # {} => \E k \in DOMAIN groups : Lower[u] \in groups[k].members /\ ToldIn(k)
<1> DEFINE Names == \A k \in DOMAIN groups' : Named(groups'[k]) \subseteq {Lower[u]} \cup AllNamed
           Told  == told' # {} =>
                      \E k \in DOMAIN groups : Lower[u] \in groups[k].members /\ ToldIn(k)
<1>0. /\ \A k \in DOMAIN groups : Named(groups[k]) \subseteq AllNamed
      /\ \A k \in DOMAIN groups : groups[k].owner \in groups[k].members
  BY StoredGroups DEF AllNamed
<1>1. ASSUME NEW g \in GroupNames, NEW p, GM!handle_create_group(u, g, p)
      PROVE  Names /\ Told
  <2> DEFINE me == Lower[u]
             k == Lower[g]
             h == IF p = NoPassword THEN NoPassword ELSE GM!Encoded(p)
             grp == [owner |-> me, members |-> {me}, banned |-> {}, password_hash |-> h]
  <2>1. groups' = GM!Emplace(groups, k, grp) /\ told' = {}
    BY <1>1 DEF GM!handle_create_group
  <2>2. \A j \in DOMAIN groups' :
          \/ j = k /\ groups'[j] = grp
          \/ j \in DOMAIN groups /\ groups'[j] = groups[j]
    <3> HIDE DEF grp, k
    <3> QED
      BY <2>1 DEF GM!Emplace
  <2>3. Named(grp) \subseteq {me}
    BY DEF Named
  <2> HIDE DEF grp, k, me
  <2>4. \A j \in DOMAIN groups' : Named(groups'[j]) \subseteq {me} \cup AllNamed
    BY <1>0, <2>2, <2>3
  <2> QED
    BY <2>1, <2>4 DEF me
<1>2. ASSUME NEW g \in GroupNames, NEW p, GM!handle_join_group(u, g, p)
      PROVE  Names /\ Told
  <2> DEFINE k == Lower[g]
             grp == [groups[k] EXCEPT !.members = groups[k].members \cup {Lower[u]}]
  <2>1. k \in DOMAIN groups /\ told' = {}
    BY <1>2 DEF GM!handle_join_group, GM!CanJoin
  <2>2. groups' = [groups EXCEPT ![k] = grp]
    BY <1>2, <2>1, StoredGroups DEF GM!handle_join_group
  <2>3. Named(grp) \subseteq {Lower[u]} \cup Named(groups[k])
    BY <2>1, StoredGroups DEF Named
  <2> HIDE DEF grp, k
  <2> QED
    BY <1>0, <2>1, <2>2, <2>3, ReplacingNames
<1>3. ASSUME NEW g \in GroupNames, GM!handle_send_message(u, g)
      PROVE  Names /\ Told
  BY <1>0, <1>3 DEF GM!handle_send_message, GM!Member, GM!Tell, ToldIn
<1>4. ASSUME NEW g \in GroupNames, GM!handle_group_leave(u, g)
      PROVE  Names /\ Told
  <2> DEFINE k == Lower[g]
             me == Lower[u]
  <2>0. k \in DOMAIN groups /\ me \in groups[k].members
    BY <1>4 DEF GM!handle_group_leave, GM!Member
  <2>1. Told
    <3>1. ToldIn(k)
      BY <1>4 DEF GM!handle_group_leave, GM!OwnerHandsOver, GM!OwnerDissolves,
                  GM!MemberLeaves, GM!Tell, ToldIn
    <3> QED
      BY <2>0, <3>1
  <2>2. CASE GM!OwnerHandsOver(k, me)
    <3>1. PICK heir \in groups[k].members \ {me} :
            groups' = [groups EXCEPT ![k].owner = heir, ![k].members = @ \ {me}]
      BY <2>2 DEF GM!OwnerHandsOver
    <3> DEFINE grp == [groups[k] EXCEPT !.owner = heir, !.members = groups[k].members \ {me}]
    <3>2. groups' = [groups EXCEPT ![k] = grp]
      BY <2>0, <3>1, StoredGroups
    <3>3. Named(grp) \subseteq Named(groups[k])
      BY <2>0, StoredGroups DEF Named
    <3> HIDE DEF grp, k, me
    <3> QED
      BY <1>0, <2>0, <2>1, <3>2, <3>3, ReplacingNames
  <2>3. CASE groups' = GM!Without(groups, {k})
    BY <2>1, <2>3, RemovingNames DEF Without, GM!Without
  <2>4. CASE GM!MemberLeaves(k, me)
    <3> DEFINE grp == [groups[k] EXCEPT !.members = groups[k].members \ {me}]
    <3>1. CASE groups' = [groups EXCEPT ![k] = grp]
      <4>1. Named(grp) \subseteq Named(groups[k])
        BY <2>0, StoredGroups DEF Named
      <4> HIDE DEF grp, k, me
      <4> QED
        BY <1>0, <2>0, <2>1, <3>1, <4>1, ReplacingNames
    <3> QED
      BY <2>3, <2>4, <3>1 DEF GM!MemberLeaves, GM!KeepUnlessEmpty
  <2> QED
    BY <1>4, <2>2, <2>3, <2>4 DEF GM!handle_group_leave, GM!OwnerDissolves
<1>5. ASSUME NEW g \in GroupNames, NEW n \in Nicks, GM!handle_group_kick(u, g, n)
      PROVE  Names /\ Told
  <2> DEFINE k == Lower[g]
             victim == Lower[n]
             grp == [groups[k] EXCEPT !.members = groups[k].members \ {victim},
                                      !.banned = groups[k].banned \cup {victim}]
  <2>1. /\ k \in DOMAIN groups /\ groups[k].owner = Lower[u]
        /\ victim \in groups[k].members
        /\ ToldIn(k)
    BY <1>5 DEF GM!handle_group_kick, GM!Owner, GM!Tell, ToldIn
  <2>2. Told
    BY <1>0, <2>1
  <2>3. CASE groups' = GM!Without(groups, {k})
    BY <2>2, <2>3, RemovingNames DEF Without, GM!Without
  <2>4. CASE groups' = [groups EXCEPT ![k] = grp]
    <3>1. Named(grp) \subseteq Named(groups[k])
      BY <2>1, StoredGroups DEF Named
    <3> HIDE DEF grp, k, victim
    <3> QED
      BY <1>0, <2>1, <2>2, <2>4, <3>1, ReplacingNames
  <2> QED
    BY <1>5, <2>3, <2>4 DEF GM!handle_group_kick, GM!KeepUnlessEmpty
<1>6. ASSUME NEW g \in GroupNames, NEW n \in Nicks, GM!handle_group_unban(u, g, n)
      PROVE  Names /\ Told
  <2> DEFINE k == Lower[g]
             grp == [groups[k] EXCEPT !.banned = groups[k].banned \ {Lower[n]}]
  <2>1. /\ k \in DOMAIN groups /\ groups[k].owner = Lower[u]
        /\ ToldIn(k)
    BY <1>6 DEF GM!handle_group_unban, GM!Owner, GM!Tell, ToldIn
  <2>2. groups' = [groups EXCEPT ![k] = grp]
    BY <1>6, <2>1, StoredGroups DEF GM!handle_group_unban
  <2>3. Named(grp) \subseteq Named(groups[k])
    BY <2>1, StoredGroups DEF Named
  <2> HIDE DEF grp, k
  <2> QED
    BY <1>0, <2>1, <2>2, <2>3, ReplacingNames
<1>7. ASSUME NEW g \in GroupNames, NEW n \in Nicks, GM!handle_group_transfer(u, g, n)
      PROVE  Names /\ Told
  <2> DEFINE k == Lower[g]
             grp == [groups[k] EXCEPT !.owner = Lower[n]]
  <2>1. /\ k \in DOMAIN groups /\ groups[k].owner = Lower[u]
        /\ Lower[n] \in groups[k].members
        /\ ToldIn(k)
    BY <1>7 DEF GM!handle_group_transfer, GM!Owner, GM!Tell, ToldIn
  <2>2. groups' = [groups EXCEPT ![k] = grp]
    BY <1>7, <2>1, StoredGroups DEF GM!handle_group_transfer
  <2>3. Named(grp) \subseteq Named(groups[k])
    BY <2>1, StoredGroups DEF Named
  <2> HIDE DEF grp, k
  <2> QED
    BY <1>0, <2>1, <2>2, <2>3, ReplacingNames
<1> QED
  BY <1>1, <1>2, <1>3, <1>4, <1>5, <1>6, <1>7 DEF GroupHandler

-----------------------------------------------------------------------------
(* The invariant that relates the components.                              *)

(* It holds at start-up.                                                   *)
LEMMA ChatInvInit == ChatInit => ChatInv
<1> SUFFICES ASSUME ChatInit PROVE ChatInv
  OBVIOUS
<1>1. SInv
  BY TypeInit, AgreementInit DEF ChatInit, SInv
<1>2. GP!GroupsInv
  BY ChatInitIsGroupsInit, OneGroups, GP!GroupsInvInit, AssumptionsHold
<1>3. AccountsAreKeyed
  BY SessionsAssumption DEF ChatInit, SessionInit, AccountsAreKeyed
<1>4. LoggedInHaveAccounts /\ MembersHaveAccounts
  BY EmptyIsMap DEF ChatInit, SessionInit, LoggedInHaveAccounts, Online, MembersHaveAccounts
<1>5. mail \subseteq Mail /\ MailReachesItsReaders
  BY DEF ChatInit, MailReachesItsReaders
<1> QED
  BY <1>1, <1>2, <1>3, <1>4, <1>5 DEF ChatInv

(* Accounts are never removed or renamed.                                  *)
LEMMA AccountsStay ==
  ASSUME SInv, AccountsAreKeyed, [SessionNext]_sessionVars
  PROVE  DOMAIN accounts \subseteq DOMAIN accounts' /\ AccountsAreKeyed'
<1> DEFINE Goal == DOMAIN accounts \subseteq DOMAIN accounts' /\ AccountsAreKeyed'
<1>1. ASSUME UNCHANGED accounts
      PROVE  Goal
  BY <1>1 DEF AccountsAreKeyed
<1>2. ASSUME NEW f \in Fds, NEW n \in Nicks, Register(f, n)
      PROVE  Goal
  <2> DEFINE a == [name |-> n, admin |-> FALSE]
  <2>1. accounts' = Emplace(accounts, Lower[n], a) /\ a.name = n
    BY <1>2 DEF Register
  <2> HIDE DEF a
  <2> QED
    BY <2>1 DEF Emplace, AccountsAreKeyed
<1>3. ASSUME NEW l \in Folded, NEW b \in BOOLEAN, SetAdmin(l, b)
      PROVE  Goal
  <2>1. accounts' = [accounts EXCEPT ![l].admin = b] /\ l \in DOMAIN accounts
    BY <1>3 DEF SetAdmin
  <2>2. \A k \in DOMAIN accounts : accounts[k] \in Account
    BY DEF SInv, SessionTypeOK, IsMap
  <2>3. \A k \in DOMAIN accounts : accounts'[k].name = accounts[k].name
    BY <2>1, <2>2 DEF Account
  <2> QED
    BY <2>1, <2>3 DEF AccountsAreKeyed
<1> QED
  BY <1>1, <1>2, <1>3
     DEF SessionNext, sessionVars, handle_message, Accept, Chat, Quit, Kick, Login, Age,
         Drop, disconnect_client, Sweep, CloseAll, history

(* Whoever logs in has an account, and keeps it.                           *)
LEMMA LoggedInStays ==
  ASSUME SInv, AccountsAreKeyed, LoggedInHaveAccounts, [SessionNext]_sessionVars
  PROVE  LoggedInHaveAccounts'
<1>1. DOMAIN accounts \subseteq DOMAIN accounts'
  BY AccountsStay
<1>2. ASSUME \A u \in Online' : u \in Online
      PROVE  LoggedInHaveAccounts'
  BY <1>1, <1>2 DEF LoggedInHaveAccounts
<1>3. ASSUME NEW f \in Fds, NEW n \in Nicks, Login(f, n)
      PROVE  LoggedInHaveAccounts'
  <2> DEFINE a == accounts[Lower[n]]
  <2>1. f \in DOMAIN clients /\ a \in Account /\ Lower[n] \in DOMAIN accounts
    BY <1>3 DEF Login, SInv, SessionTypeOK, IsMap
  <2>2. Lower[a.name] \in DOMAIN accounts
    BY <2>1 DEF AccountsAreKeyed
  <2>3. /\ DOMAIN clients' = DOMAIN clients
        /\ clients'[f].nick = a.name
        /\ \A g \in DOMAIN clients \ {f} : clients'[g].nick = clients[g].nick
    <3>1. clients' = LoggedIn(f, a, cache')
      BY <1>3 DEF Login, LoggedIn
    <3> HIDE DEF a
    <3> QED
      BY <2>1, <3>1, LoginWrites DEF SInv
  <2> HIDE DEF a
  <2> QED
    BY <1>1, <2>2, <2>3 DEF LoggedInHaveAccounts, Online
<1>4. ASSUME NEW S, clients' = Without(clients, S)
      PROVE  LoggedInHaveAccounts'
  BY <1>2, <1>4, ClosingTakesOffline
<1>5. CASE Sweep
  BY <1>4, <1>5 DEF Sweep
<1>6. CASE CloseAll
  <2>1. clients' = Without(clients, DOMAIN clients)
    BY <1>6 DEF CloseAll, Without, EmptyMap
  <2> QED
    BY <1>4, <2>1
<1>7. CASE SameSessions
  BY <1>2, <1>7, SameNamesSameOnline
<1>8. ASSUME NEW c \in Conns, NEW f \in Fds, Accept(c, f)
      PROVE  LoggedInHaveAccounts'
  <2>1. clients' = Emplace(clients, f, NewClient)
    BY <1>8 DEF Accept
  <2>2. Online' \subseteq Online
    BY <2>1 DEF Emplace, NewClient, Online
  <2> QED
    BY <1>2, <2>2
<1>9. CASE UNCHANGED sessionVars
  BY <1>2, <1>9 DEF sessionVars, Online
<1> QED
  BY <1>3, <1>5, <1>6, <1>7, <1>8, <1>9, QuietSteps
     DEF SessionNext, handle_message, SInv

(* MembersHaveAccounts is about the names in the groups.                   *)
LEMMA MembersAreNamed == MembersHaveAccounts <=> AllNamed \subseteq DOMAIN accounts
BY DEF MembersHaveAccounts, AllNamed, Named

(* A command writes the name of a user who is online, or a name that is in *)
(* a group already.                                                        *)
LEMMA MembersStay ==
  ASSUME ChatInv, [ChatNext]_chatVars
  PROVE  MembersHaveAccounts'
<1>1. DOMAIN accounts \subseteq DOMAIN accounts'
  BY ChatStepsAreSessionSteps, AccountsStay DEF ChatInv
<1>2. AllNamed \subseteq DOMAIN accounts
  BY MembersAreNamed DEF ChatInv
<1>3. ASSUME UNCHANGED groups
      PROVE  MembersHaveAccounts'
  BY <1>1, <1>3 DEF ChatInv, MembersHaveAccounts
<1>4. ASSUME NEW f \in Fds, GroupCommand(f)
      PROVE  MembersHaveAccounts'
  <2> DEFINE u == get_username(f)
  <2>1. u \in Online /\ u \in Nicks /\ GroupHandler(u)
    BY <1>4, Commanding DEF GroupCommand, ChatInv, SInv
  <2>2. Lower[u] \in DOMAIN accounts
    BY <2>1 DEF ChatInv, LoggedInHaveAccounts
  <2> HIDE DEF u
  <2>3. \A k \in DOMAIN groups' : Named(groups'[k]) \subseteq {Lower[u]} \cup AllNamed
    BY <2>1, CommandNames DEF ChatInv
  <2>4. \A k \in DOMAIN groups' : Named(groups'[k]) \subseteq DOMAIN accounts'
    BY <1>1, <1>2, <2>2, <2>3
  <2> QED
    BY <2>4 DEF MembersHaveAccounts, Named
<1> QED
  BY <1>3, <1>4 DEF ChatNext, SessionStep, Whisper, chatVars

-----------------------------------------------------------------------------
(* Mail.                                                                   *)

(* The descriptor found for a name is the only one whose connection logged *)
(* in under it, and it is open.                                            *)
LEMMA FoundIsTheReader ==
  ASSUME SInv, NEW n, NEW f \in get_fd_by_nickname(n)
  PROVE  f \in Fds /\ Readers({Lower[n]}) = {f} /\ fdtab[f] \notin closed
<1>1. /\ f \in DOMAIN clients
      /\ clients[f].nick # NoNick
      /\ Lower[clients[f].nick] = Lower[n]
  BY DEF get_fd_by_nickname
<1>2. f \in Fds /\ fdtab[f] # NoConn /\ fdtab[f] \notin closed
  BY <1>1 DEF SInv, Agreement, FdTableAgrees
<1>3. f \in Readers({Lower[n]})
  BY <1>1, <1>2 DEF SInv, Agreement, SessionOfItsConnection, Readers
<1>4. ASSUME NEW g \in Readers({Lower[n]})
      PROVE  g = f
  <2>1. /\ g \in DOMAIN clients
        /\ clients[g].nick # NoNick
        /\ Lower[clients[g].nick] = Lower[n]
    BY <1>4 DEF SInv, Agreement, FdTableAgrees, SessionOfItsConnection, Readers
  <2> QED
    BY <1>1, <2>1 DEF SInv, Agreement, UniqueNicknames
<1> QED
  BY <1>2, <1>3, <1>4

(* What a step sends by name goes to the reader of that name.              *)
LEMMA MailStays ==
  ASSUME ChatInv, [ChatNext]_chatVars
  PROVE  mail' \subseteq Mail /\ MailReachesItsReaders'
<1>1. CASE mail' = {}
  BY <1>1 DEF MailReachesItsReaders
<1>2. ASSUME NEW f \in Fds, GroupCommand(f)
      PROVE  mail' \subseteq Mail /\ MailReachesItsReaders'
  <2>1. /\ Chat(f) /\ SInv
        /\ \A n \in told' : n.to \in Folded
    <3>1. GP!GroupsInv'
      BY ChatStepsAreGroupSteps, OneGroups, GP!GroupsInvNext, AssumptionsHold
         DEF ChatInv, GM!groupVars, GP!groupVars
    <3> QED
      BY <1>2, <3>1 DEF GroupCommand, ChatInv, GP!GroupsInv, GP!GroupsTypeOK, GP!Notice,
                           GP!Folded, Folded
  <2>2. PICK fd \in [told' -> Fds] :
          /\ \A n \in told' : fd[n] \in get_fd_by_nickname(n.to)
          /\ mail' = {[from |-> f, name |-> n.to, to |-> fd[n]] : n \in told'}
    BY <1>2 DEF GroupCommand, Deliver
  <2>3. ASSUME NEW m \in mail'
        PROVE  m \in Mail /\ Readers({m.name})' = {m.to} /\ fdtab'[m.to] \notin closed'
    <3>1. PICK n \in told' : m = [from |-> f, name |-> n.to, to |-> fd[n]]
      BY <2>2
    <3>2. m \in Mail /\ m.name = n.to /\ m.to = fd[n]
      BY <2>1, <3>1 DEF Mail
    <3>3. Lower[n.to] = n.to
      BY <2>1, FoldedTwice
    <3>4. Readers({n.to}) = {fd[n]} /\ fdtab[fd[n]] \notin closed
      BY <2>1, <2>2, <3>3, FoundIsTheReader
    <3>5. Readers({n.to})' = Readers({n.to}) /\ UNCHANGED <<fdtab, closed>>
      BY <2>1 DEF Chat, history, Readers
    <3> QED
      BY <3>2, <3>4, <3>5
  <2> QED
    BY <2>3 DEF MailReachesItsReaders
<1>3. ASSUME NEW f \in Fds, NEW n \in Nicks, Whisper(f, n)
      PROVE  mail' \subseteq Mail /\ MailReachesItsReaders'
  <2>1. PICK target \in get_fd_by_nickname(n) :
          mail' = {[from |-> f, name |-> Lower[n], to |-> target]}
    BY <1>3 DEF Whisper
  <2> DEFINE m == [from |-> f, name |-> Lower[n], to |-> target]
  <2>2. target \in Fds /\ Readers({Lower[n]}) = {target} /\ fdtab[target] \notin closed
    BY FoundIsTheReader DEF ChatInv
  <2>3. Readers({Lower[n]})' = Readers({Lower[n]}) /\ UNCHANGED <<fdtab, closed>>
    BY <1>3 DEF Whisper, Chat, history, Readers
  <2>4. m \in Mail /\ m.name = Lower[n] /\ m.to = target
    BY <2>2, LowerFacts DEF Mail
  <2> HIDE DEF m
  <2>5. mail' = {m}
    BY <2>1 DEF m
  <2> QED
    BY <2>2, <2>3, <2>4, <2>5 DEF MailReachesItsReaders
<1>4. CASE UNCHANGED chatVars
  BY <1>4 DEF chatVars, sessionVars, ChatInv, MailReachesItsReaders, Readers
<1> QED
  BY <1>1, <1>2, <1>3, <1>4 DEF ChatNext, SessionStep

(* Every step of the composed server keeps the invariant.                  *)
LEMMA ChatInvNext == ChatInv /\ [ChatNext]_chatVars => ChatInv'
<1> SUFFICES ASSUME ChatInv, [ChatNext]_chatVars
             PROVE  ChatInv'
  OBVIOUS
<1>1. SInv'
  BY ChatStepsAreSessionSteps, TypeNext, AgreementNext DEF ChatInv, SInv
<1>2. GP!GroupsInv'
  BY ChatStepsAreGroupSteps, OneGroups, GP!GroupsInvNext, AssumptionsHold
     DEF ChatInv, GM!groupVars, GP!groupVars
<1>3. AccountsAreKeyed' /\ LoggedInHaveAccounts'
  BY ChatStepsAreSessionSteps, AccountsStay, LoggedInStays DEF ChatInv
<1> QED
  BY <1>1, <1>2, <1>3, MembersStay, MailStays DEF ChatInv

-----------------------------------------------------------------------------
(* Theorems.                                                               *)

(* ChatInv holds in every reachable state of the composed server.          *)
THEOREM ChatInvariant == ChatSpec => []ChatInv
BY ChatInvInit, ChatInvNext, PTL DEF ChatSpec

(* The composition's state is well typed (ChatTypeOK).                     *)
THEOREM ChatTyped == ChatSpec => []ChatTypeOK
<1>1. ChatInv => ChatTypeOK
  BY OneGroups DEF ChatInv, SInv, GP!GroupsInv, ChatTypeOK
<1> QED
  BY <1>1, ChatInvariant, PTL

(* A whisper or a group message to a name is sent to the one connection    *)
(* that logged in with it, whatever numbers have been reused and whoever   *)
(* is waiting to be swept (MailReachesItsReaders).                         *)
THEOREM MailReachesReaders == ChatSpec => []MailReachesItsReaders
<1>1. ChatInv => MailReachesItsReaders
  BY DEF ChatInv
<1> QED
  BY <1>1, ChatInvariant, PTL

(* No group ever names somebody without an account (MembersHaveAccounts).  *)
THEOREM GroupsNameAccounts == ChatSpec => []MembersHaveAccounts
<1>1. ChatInv => MembersHaveAccounts
  BY DEF ChatInv
<1> QED
  BY <1>1, ChatInvariant, PTL

(* The frames of a command of a group go from a member's connection to     *)
(* connections of members.                                                 *)
LEMMA GroupMailStep ==
  ASSUME ChatInv, ChatInv', ChatNext, NEW n \in told'
  PROVE  /\ n.group \in DOMAIN groups
         /\ \A m \in mail' : {m.from, m.to} \subseteq Readers(groups[n.group].members)
<1>1. ASSUME NEW f \in Fds, GroupCommand(f)
      PROVE  \E k \in DOMAIN groups :
               /\ n.group = k
               /\ \A m \in mail' : {m.from, m.to} \subseteq Readers(groups[k].members)
  <2> DEFINE u == get_username(f)
  <2>1. /\ Chat(f) /\ GroupHandler(u) /\ u \in Nicks
        /\ f \in DOMAIN clients /\ u = clients[f].nick /\ u # NoNick
    BY <1>1, Commanding DEF GroupCommand, ChatInv, SInv
  <2>2. PICK k \in DOMAIN groups : Lower[u] \in groups[k].members /\ ToldIn(k)
    <3> HIDE DEF u
    <3> QED
      BY <2>1, CommandNames DEF ChatInv
  <2>3. f \in Readers(groups[k].members)
    <3>1. fdtab[f] # NoConn /\ login[fdtab[f]].nick = clients[f].nick
      BY <2>1 DEF ChatInv, SInv, Agreement, FdTableAgrees, SessionOfItsConnection
    <3> QED
      BY <2>1, <2>2, <3>1 DEF Readers
  <2>4. ASSUME NEW m \in mail'
        PROVE  m.from = f /\ m.to \in Readers(groups[k].members)
    <3>1. PICK fd \in [told' -> Fds] :
            mail' = {[from |-> f, name |-> t.to, to |-> fd[t]] : t \in told'}
      BY <1>1 DEF GroupCommand, Deliver
    <3>2. m.from = f /\ m.name \in groups[k].members
      BY <2>2, <3>1 DEF ToldIn
    <3>3. Readers({m.name})' = {m.to}
      BY DEF ChatInv, MailReachesItsReaders
    <3>4. Readers({m.name})' = Readers({m.name})
      BY <2>1 DEF Chat, history, Readers
    <3>5. Readers({m.name}) \subseteq Readers(groups[k].members)
      BY <3>2 DEF Readers
    <3> QED
      BY <3>2, <3>3, <3>4, <3>5
  <2>5. n.group = k
    BY <2>2 DEF ToldIn
  <2> QED
    BY <2>3, <2>4, <2>5
<1> QED
  BY <1>1 DEF ChatNext, SessionStep, Whisper

(* The isolation of each group from the others, said of connections        *)
(* (GroupMailStaysInside).                                                 *)
THEOREM GroupMailIsInside == ChatSpec => GroupMailStaysInside
<1>1. ChatInv /\ ChatInv' /\ [ChatNext]_chatVars =>
        [\A n \in told' :
           /\ n.group \in DOMAIN groups
           /\ \A m \in mail' : {m.from, m.to} \subseteq Readers(groups[n.group].members)]_chatVars
  BY GroupMailStep
<1> QED
  BY <1>1, ChatInvariant, PTL DEF ChatSpec, GroupMailStaysInside
=============================================================================
