------------------------------- MODULE Groups -------------------------------
(***************************************************************************)
(* class GroupManager: the groups, who owns them, who is in them, who is   *)
(* banned from them, and who hears about each change.                      *)
(*                                                                         *)
(* A handler runs to its end on the event loop's thread, so it is one      *)
(* action.  Commands carry spellings; the handlers fold caller, group and  *)
(* target to lower case before they look anything up.                      *)
(*                                                                         *)
(* Abstracted: the wording of replies and broadcasts (told records of      *)
(* which group a broadcast is, and who gets it), and Argon2 (a hash is     *)
(* told apart only by what it hashes).                                     *)
(***************************************************************************)
EXTENDS PartialMaps

CONSTANTS
  Spellings,   \* of user names, as they may be typed
  Users,       \* the spellings that are accounts in the database
  GroupNames,  \* spellings of group names
  Lower,       \* to_lower_nickname, as a function on both kinds of spelling
  Passwords,   \* what may be typed as a group's password
  NoPassword   \* no third word typed; also the empty hash of a public group

ASSUME GroupsAssumption ==
  /\ Users \subseteq Spellings
  /\ \A n \in Spellings : Lower[n] \in Spellings /\ Lower[Lower[n]] = Lower[n]
  /\ \A g \in GroupNames : Lower[g] \in GroupNames /\ Lower[Lower[g]] = Lower[g]
  /\ NoPassword \notin Passwords

Folded(S) == {Lower[n] : n \in S}

(* hash_password and verify_password: a hash verifies what it was made of. *)
Encoded(password) == [hash_of |-> password]
verify_password(password, stored_hash) == stored_hash = Encoded(password)

Hashes == {NoPassword} \cup {Encoded(p) : p \in Passwords}

Group == [owner         : Folded(Spellings),
          members       : SUBSET Folded(Spellings),
          banned        : SUBSET Folded(Spellings),
          password_hash : Hashes]

(* A frame on behalf of a group, which its text names, to one user.        *)
Notice == [group : Folded(GroupNames), to : Folded(Spellings)]

VARIABLES
  groups,  \* GroupManager::groups
  online,  \* the accounts that are logged in
  told     \* the notices the last step sent

groupVars == <<groups, online, told>>

GroupsInit ==
  /\ groups = EmptyMap
  /\ online = {}
  /\ told = {}

(* Send a notice of group k to those of S for whom get_fd_by_nickname      *)
(* finds a descriptor.                                                     *)
Tell(k, S) == told' = {[group |-> k, to |-> n] : n \in S \cap Folded(online)}

-----------------------------------------------------------------------------
(* The conditions under which the handlers act; otherwise they only reply. *)

CanCreate(u, g) == u \in online /\ Lower[g] \notin DOMAIN groups

Member(u, g) ==
  /\ u \in online
  /\ Lower[g] \in DOMAIN groups
  /\ Lower[u] \in groups[Lower[g]].members

Owner(u, g) ==
  /\ u \in online
  /\ Lower[g] \in DOMAIN groups
  /\ groups[Lower[g]].owner = Lower[u]

(* Mutant: the ban list is not consulted.                                  *)
CanJoin_Banned(u, g, p) ==
  /\ u \in online
  /\ Lower[g] \in DOMAIN groups
  /\ Lower[u] \notin groups[Lower[g]].members
  /\ groups[Lower[g]].password_hash = NoPassword

(* A private group asks for a password, and hands verify_password the      *)
(* stored hash as the password and the typed word as the hash.             *)
CanJoin(u, g, p) ==
  /\ u \in online
  /\ Lower[g] \in DOMAIN groups
  /\ Lower[u] \notin groups[Lower[g]].banned
  /\ Lower[u] \notin groups[Lower[g]].members
  /\ \/ groups[Lower[g]].password_hash = NoPassword
     \/ p # NoPassword /\ verify_password(groups[Lower[g]].password_hash, p)

-----------------------------------------------------------------------------
(* Handlers.                                                               *)

(* hash_password may fail, which is one of the replies of OnlyReplies.     *)
handle_create_group(u, g, p) ==
  /\ CanCreate(u, g)
  /\ groups' = Emplace(groups, Lower[g],
                       [owner         |-> Lower[u],
                        members       |-> {Lower[u]},
                        banned        |-> {},
                        password_hash |-> IF p = NoPassword THEN NoPassword
                                                            ELSE Encoded(p)])
  /\ told' = {}
  /\ UNCHANGED online

(* Mutant: the name is stored as typed at login.                           *)
handle_join_group_AsTyped(u, g, p) ==
  /\ CanJoin(u, g, p)
  /\ groups' = [groups EXCEPT ![Lower[g]].members = @ \cup {u}]
  /\ told' = {}
  /\ UNCHANGED online

handle_join_group(u, g, p) ==
  /\ CanJoin(u, g, p)
  /\ groups' = [groups EXCEPT ![Lower[g]].members = @ \cup {Lower[u]}]
  /\ told' = {}
  /\ UNCHANGED online

(* Mutant: a group message goes to everybody, like a public one.           *)
handle_send_message_ToAll(u, g) ==
  /\ Member(u, g)
  /\ Tell(Lower[g], Folded(online))
  /\ UNCHANGED <<groups, online>>

(* Mutant: a message goes to all the groups its sender is in.              *)
handle_send_message_AllHisGroups(u, g) ==
  /\ Member(u, g)
  /\ Tell(Lower[g], UNION {groups[k].members :
                            k \in {h \in DOMAIN groups : Lower[u] \in groups[h].members}})
  /\ UNCHANGED <<groups, online>>

handle_send_message(u, g) ==
  /\ Member(u, g)
  /\ Tell(Lower[g], groups[Lower[g]].members)
  /\ UNCHANGED <<groups, online>>

(* Group k becomes grp, unless nobody is left in it.                       *)
KeepUnlessEmpty(k, grp) ==
  groups' = IF grp.members = {} THEN Without(groups, {k})
                                ELSE [groups EXCEPT ![k] = grp]

(* Mutant: the heir is taken from all members, the leaver included.        *)
OwnerHandsOver_ToAnyone(k, me) ==
  /\ groups[k].members # {me}
  /\ \E heir \in groups[k].members :
       groups' = [groups EXCEPT ![k].owner = heir, ![k].members = @ \ {me}]
  /\ Tell(k, groups[k].members \ {me})

(* The owner leaves; some other member, in no particular order, inherits.  *)
OwnerHandsOver(k, me) ==
  /\ \E heir \in groups[k].members \ {me} :
       groups' = [groups EXCEPT ![k].owner = heir, ![k].members = @ \ {me}]
  /\ Tell(k, groups[k].members \ {me})

(* Mutant: the owner takes the group down with him.                        *)
OwnerDissolves_Always(k, me) ==
  /\ groups' = Without(groups, {k})
  /\ Tell(k, groups[k].members)

(* The owner leaves and nobody else is in the group.                       *)
OwnerDissolves(k, me) ==
  /\ groups[k].members = {me}
  /\ groups' = Without(groups, {k})
  /\ Tell(k, groups[k].members)

(* A member who is not the owner leaves.  The code provides for the group  *)
(* being empty after that, and tells the leaver too in that case.          *)
MemberLeaves(k, me) ==
  LET rest == groups[k].members \ {me}
  IN  /\ KeepUnlessEmpty(k, [groups[k] EXCEPT !.members = rest])
      /\ Tell(k, IF rest = {} THEN groups[k].members ELSE rest)

handle_group_leave(u, g) ==
  LET k == Lower[g]
      me == Lower[u]
  IN  /\ Member(u, g)
      /\ \/ groups[k].owner = me /\ (OwnerHandsOver(k, me) \/ OwnerDissolves(k, me))
         \/ groups[k].owner # me /\ MemberLeaves(k, me)
      /\ UNCHANGED online

(* The victim is told too: with the remaining members, everybody who was   *)
(* in the group before.                                                    *)
handle_group_kick(u, g, n) ==
  LET k == Lower[g]
      victim == Lower[n]
  IN  /\ Owner(u, g)
      /\ victim # Lower[u]
      /\ victim \in groups[k].members
      /\ KeepUnlessEmpty(k, [groups[k] EXCEPT !.members = @ \ {victim},
                                              !.banned = @ \cup {victim}])
      /\ Tell(k, groups[k].members)
      /\ UNCHANGED online

handle_group_unban(u, g, n) ==
  /\ Owner(u, g)
  /\ Lower[n] \in groups[Lower[g]].banned
  /\ groups' = [groups EXCEPT ![Lower[g]].banned = @ \ {Lower[n]}]
  /\ Tell(Lower[g], groups[Lower[g]].members)
  /\ UNCHANGED online

(* Mutant: the transfer is confirmed to its owner only.                    *)
handle_group_transfer_Quiet(u, g, n) ==
  /\ Owner(u, g)
  /\ Lower[n] # Lower[u]
  /\ Lower[n] \in groups[Lower[g]].members
  /\ groups' = [groups EXCEPT ![Lower[g]].owner = Lower[n]]
  /\ Tell(Lower[g], {Lower[u]})
  /\ UNCHANGED online

(* Mutant: the target of a transfer need not be in the group.              *)
handle_group_transfer_ToStranger(u, g, n) ==
  /\ Owner(u, g)
  /\ Lower[n] # Lower[u]
  /\ groups' = [groups EXCEPT ![Lower[g]].owner = Lower[n]]
  /\ Tell(Lower[g], groups[Lower[g]].members)
  /\ UNCHANGED online

handle_group_transfer(u, g, n) ==
  /\ Owner(u, g)
  /\ Lower[n] # Lower[u]
  /\ Lower[n] \in groups[Lower[g]].members
  /\ groups' = [groups EXCEPT ![Lower[g]].owner = Lower[n]]
  /\ Tell(Lower[g], groups[Lower[g]].members)
  /\ UNCHANGED online

(* Every command may also only reply: wrong number of words, a condition   *)
(* that does not hold, a password that cannot be hashed, /listgroups.  And *)
(* most of what the server does is not about groups.                       *)
OnlyReplies ==
  /\ told' = {}
  /\ UNCHANGED <<groups, online>>

(* /login.                                                                 *)
ComesOnline(u) ==
  /\ u \notin online
  /\ online' = online \cup {u}
  /\ told' = {}
  /\ UNCHANGED groups

(* A clean-up erases the entries of one or several clients;                *)
(* remove_client_from_groups only logs.                                    *)
GoesOffline(S) ==
  /\ S # {} /\ S \subseteq online
  /\ online' = online \ S
  /\ told' = {}
  /\ UNCHANGED groups

GroupsNext ==
  \/ OnlyReplies
  \/ \E S \in SUBSET Users : GoesOffline(S)
  \/ \E u \in Users :
       \/ ComesOnline(u)
       \/ \E g \in GroupNames :
            \/ \E p \in Passwords \cup {NoPassword} :
                 handle_create_group(u, g, p) \/ handle_join_group(u, g, p)
            \/ handle_send_message(u, g)
            \/ handle_group_leave(u, g)
            \/ \E n \in Spellings :
                 \/ handle_group_kick(u, g, n)
                 \/ handle_group_unban(u, g, n)
                 \/ handle_group_transfer(u, g, n)

GroupsSpec == GroupsInit /\ [][GroupsNext]_groupVars

-----------------------------------------------------------------------------
(* Properties.                                                             *)

(* Types of GroupManager's state; in particular every stored name, of a    *)
(* group, owner, member or banned user, is in lower case, which every      *)
(* lookup in the handlers relies on.                                       *)
GroupsTypeOK ==
  /\ IsMap(groups, Folded(GroupNames), Group)
  /\ online \subseteq Users
  /\ told \subseteq Notice

(* The owner of a group is one of its members, whoever left, was kicked or *)
(* took over (handle_group_leave, _kick, _transfer).                       *)
OwnerIsMember == \A k \in DOMAIN groups : groups[k].owner \in groups[k].members

(* Nobody is a member of a group that has banned him (_kick, _join, _unban)*)
BannedAreOut ==
  \A k \in DOMAIN groups : groups[k].members \cap groups[k].banned = {}

(* A group ends only when its owner leaves it as the last member: the two  *)
(* other places that erase a group, in handle_group_leave and              *)
(* handle_group_kick, never do.                                            *)
EndsWithItsOwner ==
  [][\A k \in DOMAIN groups :
       k \notin DOMAIN groups' => groups[k].members = {groups[k].owner}]_groupVars

(* What everybody in a group should know of it, apart from who has joined. *)
Public(grp, before) ==
  [owner |-> grp.owner, banned |-> grp.banned, left |-> before.members \ grp.members]

(* The users who get a notice of group k.                                  *)
Audience(notices, k) == {m.to : m \in {t \in notices : t.group = k}}

(* Whenever a group changes hands, loses a member, bans or unbans, every   *)
(* member who is online is told of it, and so is the one thrown out.       *)
ChangesAreAnnounced ==
  [][\A k \in DOMAIN groups \cap DOMAIN groups' :
       Public(groups'[k], groups[k]) # Public(groups[k], groups[k]) =>
         (groups'[k].members \cup (groups'[k].banned \ groups[k].banned))
           \cap Folded(online) \subseteq Audience(told', k)]_groupVars

(* What is sent on behalf of a group reaches nobody who was not in this    *)
(* group, in whatever other groups he and the sender may both be (README,  *)
(* "messages are isolated in a group").                                    *)
MessagesStayInside ==
  [][\A m \in told' : m.group \in DOMAIN groups /\ m.to \in groups[m.group].members]_groupVars

(* The role each user has in each group, read off the three collections.   *)
RoleIn(k, n) ==
  IF k \notin DOMAIN groups THEN "none"
  ELSE IF n = groups[k].owner THEN "owner"
  ELSE IF n \in groups[k].banned THEN "banned"
  ELSE IF n \in groups[k].members THEN "member"
  ELSE "none"

Abstract == INSTANCE GroupRoles WITH
  Names  <- Folded(GroupNames),
  People <- Folded(Spellings),
  role   <- [k \in Folded(GroupNames) |-> [n \in Folded(Spellings) |-> RoleIn(k, n)]]

(* GroupManager implements the role changes of module GroupRoles.          *)
ImplementsRoles == Abstract!RolesSpec
=============================================================================
