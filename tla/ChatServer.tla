----------------------------- MODULE ChatServer -----------------------------
(***************************************************************************)
(* The session layer and GroupManager in one server.  GroupManager knows   *)
(* its members by folded names only; ServerContext knows connections by    *)
(* descriptors.  They meet in two calls: a command reaches GroupManager    *)
(* with the nickname the sender's descriptor is logged in under, and what  *)
(* it has to say to a member goes to the descriptor that                   *)
(* get_fd_by_nickname finds for his name at that moment.  /w takes the     *)
(* second way too.                                                         *)
(*                                                                         *)
(* The users online are no variable here: they are read off clients.  With *)
(* that reading the composition implements Groups, and by definition it    *)
(* implements Sessions.                                                    *)
(*                                                                         *)
(* Abstracted: frames to everybody (chat lines, departures) and replies to *)
(* the sender; mail holds what was sent to somebody by name.               *)
(***************************************************************************)
EXTENDS Sessions

CONSTANTS
  GroupNames,  \* spellings of group names, words like any name
  Passwords,   \* what may be typed as a group's password
  NoPassword   \* no password typed

ASSUME ChatServerAssumption ==
  /\ GroupNames \subseteq Nicks
  /\ \A g \in GroupNames : Lower[g] \in GroupNames
  /\ NoPassword \notin Passwords

VARIABLES
  groups,  \* GroupManager::groups
  told,    \* the notices GroupManager sent in the last step
  mail     \* the frames the last step sent to somebody by name: on whose
           \* descriptor the command came, for which name, to which descriptor

chatVars == <<sessionVars, groups, told, mail>>

(* The names of the clients that are logged in.                            *)
Online == {clients[f].nick : f \in DOMAIN clients} \ {NoNick}

GM == INSTANCE Groups WITH Spellings <- Nicks, Users <- Nicks, online <- Online

ChatInit ==
  /\ SessionInit
  /\ groups = EmptyMap
  /\ told = {}
  /\ mail = {}

-----------------------------------------------------------------------------
(* Every notice of told' is sent, to the descriptor the search finds.      *)
Deliver(f) ==
  \E fd \in [told' -> Fds] :
    /\ \A n \in told' : fd[n] \in get_fd_by_nickname(n.to)
    /\ mail' = {[from |-> f, name |-> n.to, to |-> fd[n]] : n \in told'}

(* A command of GroupManager from user u.                                  *)
GroupHandler(u) ==
  \E g \in GroupNames :
    \/ \E p \in Passwords \cup {NoPassword} :
         GM!handle_create_group(u, g, p) \/ GM!handle_join_group(u, g, p)
    \/ GM!handle_send_message(u, g)
    \/ GM!handle_group_leave(u, g)
    \/ \E n \in Nicks :
         \/ GM!handle_group_kick(u, g, n)
         \/ GM!handle_group_unban(u, g, n)
         \/ GM!handle_group_transfer(u, g, n)

(* A frame with a group command: the handler gets the name that            *)
(* get_username finds for the descriptor.                                  *)
GroupCommand(f) ==
  /\ get_username(f) # NoNick
  /\ Chat(f)
  /\ GroupHandler(get_username(f))
  /\ Deliver(f)

(* /w: the target is compared with the sender as typed, and looked up      *)
(* folded.                                                                 *)
Whisper(f, n) ==
  /\ get_username(f) \notin {NoNick, n}
  /\ Chat(f)
  /\ \E target \in get_fd_by_nickname(n) :
       mail' = {[from |-> f, name |-> Lower[n], to |-> target]}
  /\ told' = {}
  /\ UNCHANGED groups

(* Everything else that happens to the sessions; groups outlive them.      *)
SessionStep ==
  /\ SessionNext
  /\ told' = {}
  /\ mail' = {}
  /\ UNCHANGED groups

ChatNext ==
  \/ SessionStep
  \/ \E f \in Fds : GroupCommand(f) \/ \E n \in Nicks : Whisper(f, n)

ChatSpec == ChatInit /\ [][ChatNext]_chatVars

-----------------------------------------------------------------------------
(* Properties.                                                             *)

Mail == [from : Fds, name : Folded, to : Fds]

(* Types, of the sessions, the groups and what is sent between them.       *)
ChatTypeOK == SessionTypeOK /\ GM!GroupsTypeOK /\ mail \subseteq Mail

(* The descriptors of the connections that logged in under a name of S.    *)
Readers(S) ==
  {f \in Fds : /\ fdtab[f] # NoConn
               /\ login[fdtab[f]].nick # NoNick
               /\ Lower[login[fdtab[f]].nick] \in S}

(* What is sent to a name reaches the connection that logged in with it,   *)
(* and no other connection answers to that name: numbers may be reused,    *)
(* entries wait to be swept, and the search takes the first match it meets *)
(* (get_fd_by_nickname, called from GroupManager and /w).                  *)
MailReachesItsReaders ==
  \A m \in mail : Readers({m.name}) = {m.to} /\ fdtab[m.to] \notin closed

(* Owners, members and banned users are accounts in the database, although *)
(* GroupManager takes whatever name the session layer hands it and         *)
(* whatever word is typed after /groupkick and /transfer.                  *)
MembersHaveAccounts ==
  \A k \in DOMAIN groups :
    {groups[k].owner} \cup groups[k].members \cup groups[k].banned \subseteq DOMAIN accounts

(* What a command sends on behalf of a group comes from a connection, and  *)
(* goes to connections, whose users were all in this group before it       *)
(* (README, "messages are isolated in a group").                           *)
GroupMailStaysInside ==
  [][\A n \in told' :
       /\ n.group \in DOMAIN groups
       /\ \A m \in mail' : {m.from, m.to} \subseteq Readers(groups[n.group].members)]_chatVars

(* GroupManager, called by sessions that come and go in this server, is    *)
(* the component that module Groups specifies.                             *)
ImplementsGroups == GM!GroupsSpec
=============================================================================
