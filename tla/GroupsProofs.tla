---------------------------- MODULE GroupsProofs ----------------------------
(***************************************************************************)
(* The invariants of GroupManager, what a step may do to a group, and that *)
(* it implements the role changes of GroupRoles, for any number of users   *)
(* and groups; and, in the last part, that the group data survives what    *)
(* the process goes through (GroupStore).                                  *)
(*                                                                         *)
(* The argument: StepKinds reduces every command to one of nine changes,   *)
(* each of one group.  There the places that erase an emptied group in     *)
(* handle_group_leave (by a member) and handle_group_kick drop out: the    *)
(* owner is still in the group.  Everything else is read off the changes.  *)
(***************************************************************************)
EXTENDS GroupStore, PartialMapsProofs

Names == Folded(GroupNames)
People == Folded(Spellings)

GroupsInv == GroupsTypeOK /\ OwnerIsMember /\ BannedAreOut

(* Only group k changes, and becomes grp.                                  *)
Replaced(k, grp) == k \in DOMAIN groups /\ groups' = [groups EXCEPT ![k] = grp]

Founding(k, n, h) ==
  /\ k \notin DOMAIN groups
  /\ groups' = Emplace(groups, k, [owner |-> n, members |-> {n}, banned |-> {},
                                   password_hash |-> h])

Joining(k, n) ==
  /\ n \notin groups[k].members \cup groups[k].banned
  /\ Replaced(k, [groups[k] EXCEPT !.members = groups[k].members \cup {n}])

Leaving(k, n) ==
  /\ n \in groups[k].members \ {groups[k].owner}
  /\ Replaced(k, [groups[k] EXCEPT !.members = groups[k].members \ {n}])
  /\ Tell(k, groups[k].members \ {n})

HandingOver(k, n) ==
  /\ n \in groups[k].members \ {groups[k].owner}
  /\ Replaced(k, [groups[k] EXCEPT !.owner = n,
                    !.members = groups[k].members \ {groups[k].owner}])
  /\ Tell(k, groups[k].members \ {groups[k].owner})

Kicking(k, n) ==
  /\ n \in groups[k].members \ {groups[k].owner}
  /\ Replaced(k, [groups[k] EXCEPT !.members = groups[k].members \ {n},
                                   !.banned = groups[k].banned \cup {n}])
  /\ Tell(k, groups[k].members)

Unbanning(k, n) ==
  /\ n \in groups[k].banned
  /\ Replaced(k, [groups[k] EXCEPT !.banned = groups[k].banned \ {n}])
  /\ Tell(k, groups[k].members)

Transferring(k, n) ==
  /\ n \in groups[k].members \ {groups[k].owner}
  /\ Replaced(k, [groups[k] EXCEPT !.owner = n])
  /\ Tell(k, groups[k].members)

Dissolving(k) ==
  /\ k \in DOMAIN groups
  /\ groups[k].members = {groups[k].owner}
  /\ groups' = Without(groups, {k})
  /\ Tell(k, groups[k].members)

Unchanging ==
  /\ groups' = groups
  /\ told' # {} => \E k \in DOMAIN groups : Tell(k, groups[k].members)

-----------------------------------------------------------------------------
(* Every stored group is a Group, under a folded name.                     *)
LEMMA StoredGroup ==
  ASSUME GroupsInv, NEW k \in DOMAIN groups
  PROVE  /\ k \in Names
         /\ groups[k] \in Group
         /\ groups[k].owner \in groups[k].members
         /\ groups[k].members \cap groups[k].banned = {}
         /\ groups[k].members \subseteq People
         /\ groups[k].banned \subseteq People
<1>1. k \in Names /\ groups[k] \in Group
  BY DEF GroupsInv, GroupsTypeOK, IsMap, Names
<1>2. groups[k].owner \in groups[k].members
  BY DEF GroupsInv, OwnerIsMember
<1>3. groups[k].members \cap groups[k].banned = {}
  BY DEF GroupsInv, BannedAreOut
<1> QED
  BY <1>1, <1>2, <1>3 DEF Group, People

(* What is sent to some people on behalf of a group is notices to these.   *)
LEMMA TellPeople ==
  ASSUME GroupsTypeOK, NEW k \in Names, NEW S, Tell(k, S)
  PROVE  /\ told' \subseteq Notice
         /\ \A m \in told' : m.group = k /\ m.to \in S
BY GroupsAssumption DEF Tell, Folded, Names, Notice, GroupsTypeOK

(* All of them who are online get one.                                     *)
LEMMA TellReaches ==
  ASSUME NEW k, NEW S, Tell(k, S)
  PROVE  S \cap Folded(online) \subseteq Audience(told', k)
<1> SUFFICES ASSUME NEW n \in S \cap Folded(online)
             PROVE  n \in Audience(told', k)
  OBVIOUS
<1> DEFINE m == [group |-> k, to |-> n]
<1>1. m \in told' /\ m.group = k /\ m.to = n
  BY DEF Tell
<1> HIDE DEF m
<1> QED
  BY <1>1 DEF Audience

(* A group that keeps a member is kept.                                    *)
LEMMA KeptGroup ==
  ASSUME NEW k, NEW grp, KeepUnlessEmpty(k, grp), grp.members # {}
  PROVE  groups' = [groups EXCEPT ![k] = grp]
BY DEF KeepUnlessEmpty

(* What the commands do to the groups.                                     *)
LEMMA StepKinds ==
  ASSUME GroupsInv, GroupsNext
  PROVE  \/ Unchanging
         \/ \E k \in Names, n \in People, h \in Hashes : Founding(k, n, h) /\ told' = {}
         \/ \E k \in Names, n \in People : Joining(k, n) /\ told' = {}
         \/ \E k \in Names, n \in People :
              \/ Leaving(k, n) \/ HandingOver(k, n) \/ Kicking(k, n)
              \/ Unbanning(k, n) \/ Transferring(k, n)
         \/ \E k \in Names : Dissolving(k)
<1> DEFINE Goal ==
         \/ Unchanging
         \/ \E k \in Names, n \in People, h \in Hashes : Founding(k, n, h) /\ told' = {}
         \/ \E k \in Names, n \in People : Joining(k, n) /\ told' = {}
         \/ \E k \in Names, n \in People :
              \/ Leaving(k, n) \/ HandingOver(k, n) \/ Kicking(k, n)
              \/ Unbanning(k, n) \/ Transferring(k, n)
         \/ \E k \in Names : Dissolving(k)
<1> SUFFICES Goal
  OBVIOUS
<1>0. /\ \A u \in Users : u \in Spellings
      /\ \A n \in Spellings : Lower[n] \in People
      /\ \A g \in GroupNames : Lower[g] \in Names
  BY GroupsAssumption DEF People, Names, Folded
<1>1. ASSUME \/ OnlyReplies
             \/ \E u \in Users : ComesOnline(u)
             \/ \E S \in SUBSET Users : GoesOffline(S)
      PROVE  Goal
  BY <1>1 DEF OnlyReplies, ComesOnline, GoesOffline, Unchanging
<1>2. ASSUME NEW u \in Users, NEW g \in GroupNames, NEW p \in Passwords \cup {NoPassword},
             handle_create_group(u, g, p)
      PROVE  Goal
  <2> DEFINE h == IF p = NoPassword THEN NoPassword ELSE Encoded(p)
  <2>1. h \in Hashes
    BY DEF Hashes
  <2>2. Founding(Lower[g], Lower[u], h) /\ told' = {}
    BY <1>2 DEF handle_create_group, CanCreate, Founding
  <2> HIDE DEF h
  <2> QED
    BY <1>0, <2>1, <2>2
<1>3. ASSUME NEW u \in Users, NEW g \in GroupNames, NEW p \in Passwords \cup {NoPassword},
             handle_join_group(u, g, p)
      PROVE  Goal
  <2>1. Joining(Lower[g], Lower[u]) /\ told' = {}
    BY <1>3, StoredGroup DEF handle_join_group, CanJoin, Joining, Replaced, Group
  <2> QED
    BY <1>0, <2>1
<1>4. ASSUME NEW u \in Users, NEW g \in GroupNames, handle_send_message(u, g)
      PROVE  Goal
  BY <1>4 DEF handle_send_message, Member, Unchanging
<1>5. ASSUME NEW u \in Users, NEW g \in GroupNames, handle_group_leave(u, g)
      PROVE  Goal
  <2> DEFINE k == Lower[g]
             me == Lower[u]
  <2>1. k \in DOMAIN groups /\ me \in groups[k].members
    BY <1>5 DEF handle_group_leave, Member
  <2>2. groups[k] \in Group /\ groups[k].owner \in groups[k].members
        /\ groups[k].members \subseteq People
    BY <2>1, StoredGroup
  <2>3. CASE groups[k].owner = me /\ OwnerHandsOver(k, me)
    <3>1. PICK heir \in groups[k].members \ {me} :
            groups' = [groups EXCEPT ![k].owner = heir, ![k].members = @ \ {me}]
      BY <2>3 DEF OwnerHandsOver
    <3>2. HandingOver(k, heir)
      BY <2>1, <2>2, <2>3, <3>1 DEF HandingOver, Replaced, OwnerHandsOver, Group
    <3> QED
      BY <1>0, <2>2, <3>1, <3>2
  <2>4. CASE groups[k].owner = me /\ OwnerDissolves(k, me)
    BY <1>0, <2>1, <2>4 DEF OwnerDissolves, Dissolving
  <2>5. CASE groups[k].owner # me /\ MemberLeaves(k, me)
    <3>1. groups[k].members \ {me} # {}
      BY <2>2, <2>5
    <3> DEFINE grp == [groups[k] EXCEPT !.members = groups[k].members \ {me}]
    <3>2. KeepUnlessEmpty(k, grp) /\ Tell(k, groups[k].members \ {me})
      BY <2>5, <3>1 DEF MemberLeaves
    <3>3. grp.members # {}
      BY <2>2, <3>1 DEF Group
    <3>4. groups' = [groups EXCEPT ![k] = grp]
      BY <3>2, <3>3, KeptGroup
    <3>5. Leaving(k, me)
      BY <2>1, <2>5, <3>2, <3>4 DEF Leaving, Replaced
    <3> QED
      BY <1>0, <3>5
  <2> QED
    BY <1>5, <2>3, <2>4, <2>5 DEF handle_group_leave
<1>6. ASSUME NEW u \in Users, NEW g \in GroupNames, NEW n \in Spellings,
             handle_group_kick(u, g, n)
      PROVE  Goal
  <2> DEFINE k == Lower[g]
             v == Lower[n]
             grp == [groups[k] EXCEPT !.members = groups[k].members \ {v},
                                      !.banned = groups[k].banned \cup {v}]
  <2>1. /\ k \in DOMAIN groups /\ groups[k].owner # v
        /\ v \in groups[k].members /\ Tell(k, groups[k].members)
    BY <1>6 DEF handle_group_kick, Owner
  <2>2. groups[k] \in Group /\ groups[k].owner \in groups[k].members
    BY <2>1, StoredGroup
  <2>3. KeepUnlessEmpty(k, grp)
    BY <1>6, <2>2 DEF handle_group_kick, Group
  <2>4. grp.members # {}
    BY <2>1, <2>2 DEF Group
  <2>5. groups' = [groups EXCEPT ![k] = grp]
    BY <2>3, <2>4, KeptGroup
  <2>6. Kicking(k, v)
    BY <2>1, <2>5 DEF Kicking, Replaced
  <2> QED
    BY <1>0, <2>6
<1>7. ASSUME NEW u \in Users, NEW g \in GroupNames, NEW n \in Spellings,
             handle_group_unban(u, g, n)
      PROVE  Goal
  <2>1. Unbanning(Lower[g], Lower[n])
    BY <1>7, StoredGroup DEF handle_group_unban, Owner, Unbanning, Replaced, Group
  <2> QED
    BY <1>0, <2>1
<1>8. ASSUME NEW u \in Users, NEW g \in GroupNames, NEW n \in Spellings,
             handle_group_transfer(u, g, n)
      PROVE  Goal
  <2>1. Transferring(Lower[g], Lower[n])
    BY <1>8, StoredGroup DEF handle_group_transfer, Owner, Transferring, Replaced, Group
  <2> QED
    BY <1>0, <2>1
<1> QED
  BY <1>1, <1>2, <1>3, <1>4, <1>5, <1>6, <1>7, <1>8 DEF GroupsNext

-----------------------------------------------------------------------------
(* The invariant.                                                          *)

(* Nobody but a user is ever told, logged in or written into a group.      *)
LEMMA EnvironmentTypes ==
  ASSUME GroupsTypeOK, GroupsNext
  PROVE  online' \subseteq Users /\ told' \subseteq Notice
<1> DEFINE Told == told' = {} \/ \E k \in Names : \E S : Tell(k, S)
           Here == online' \subseteq Users
<1> SUFFICES Told /\ Here
  BY TellPeople
<1>0. online \subseteq Users /\ \A g \in GroupNames : Lower[g] \in Names
  BY DEF GroupsTypeOK, Names, Folded
<1>1. ASSUME \/ OnlyReplies
             \/ \E u \in Users : ComesOnline(u)
             \/ \E S \in SUBSET Users : GoesOffline(S)
      PROVE  Told /\ Here
  BY <1>0, <1>1 DEF OnlyReplies, ComesOnline, GoesOffline
<1>2. ASSUME NEW u \in Users, NEW g \in GroupNames, NEW p \in Passwords \cup {NoPassword},
             handle_create_group(u, g, p) \/ handle_join_group(u, g, p)
      PROVE  Told /\ Here
  BY <1>0, <1>2 DEF handle_create_group, handle_join_group
<1>3. ASSUME NEW u \in Users, NEW g \in GroupNames, handle_send_message(u, g)
      PROVE  Told /\ Here
  BY <1>0, <1>3 DEF handle_send_message
<1>4. ASSUME NEW u \in Users, NEW g \in GroupNames, handle_group_leave(u, g)
      PROVE  Told /\ Here
  <2>1. Here
    BY <1>0, <1>4 DEF handle_group_leave
  <2>2. \/ OwnerHandsOver(Lower[g], Lower[u]) \/ OwnerDissolves(Lower[g], Lower[u])
        \/ MemberLeaves(Lower[g], Lower[u])
    BY <1>4 DEF handle_group_leave
  <2>3. Told
    BY <1>0, <2>2 DEF OwnerHandsOver, OwnerDissolves, MemberLeaves
  <2> QED
    BY <2>1, <2>3
<1>5. ASSUME NEW u \in Users, NEW g \in GroupNames, NEW n \in Spellings,
             \/ handle_group_kick(u, g, n) \/ handle_group_unban(u, g, n)
             \/ handle_group_transfer(u, g, n)
      PROVE  Told /\ Here
  BY <1>0, <1>5 DEF handle_group_kick, handle_group_unban, handle_group_transfer
<1> QED
  BY <1>1, <1>2, <1>3, <1>4, <1>5 DEF GroupsNext

(* A sound group in place of another keeps all groups sound.               *)
LEMMA ReplacingIsSound ==
  ASSUME GroupsInv, NEW k, NEW grp \in Group, Replaced(k, grp),
         grp.owner \in grp.members, grp.members \cap grp.banned = {}
  PROVE  IsMap(groups', Names, Group) /\ OwnerIsMember' /\ BannedAreOut'
<1>1. /\ IsMap(groups', Names, Group)
      /\ DOMAIN groups' = DOMAIN groups
      /\ groups'[k] = grp
      /\ \A x \in DOMAIN groups : x # k => groups'[x] = groups[x]
  BY DEF Replaced, GroupsInv, GroupsTypeOK, IsMap, Names
<1> QED
  BY <1>1 DEF GroupsInv, OwnerIsMember, BannedAreOut

(* Each kind of change keeps the rules: the heir and the new owner are     *)
(* members, who is kicked leaves the members, who joins is not banned.     *)
LEMMA GroupsInvNext == GroupsInv /\ [GroupsNext]_groupVars => GroupsInv'
<1> SUFFICES ASSUME GroupsInv, [GroupsNext]_groupVars
             PROVE  GroupsInv'
  OBVIOUS
<1>1. CASE UNCHANGED groupVars
  BY <1>1 DEF groupVars, GroupsInv, GroupsTypeOK, OwnerIsMember, BannedAreOut
<1>2. CASE GroupsNext
  <2> DEFINE Sound == IsMap(groups', Names, Group) /\ OwnerIsMember' /\ BannedAreOut'
  <2>1. ASSUME Unchanging
        PROVE  Sound
    <3>1. groups' = groups
      BY <2>1 DEF Unchanging
    <3>2. IsMap(groups, Names, Group) /\ OwnerIsMember /\ BannedAreOut
      BY DEF GroupsInv, GroupsTypeOK, Names
    <3> QED
      BY <3>1, <3>2 DEF IsMap, OwnerIsMember, BannedAreOut
  <2>2. ASSUME NEW k \in Names, NEW n \in People, NEW h \in Hashes, Founding(k, n, h)
        PROVE  Sound
    <3> DEFINE grp == [owner |-> n, members |-> {n}, banned |-> {}, password_hash |-> h]
    <3>1. grp \in Group /\ grp.owner \in grp.members /\ grp.members \cap grp.banned = {}
      BY DEF Group, People
    <3>2. groups' = Emplace(groups, k, grp) /\ IsMap(groups, Names, Group)
      BY <2>2 DEF Founding, GroupsInv, GroupsTypeOK, Names
    <3>0. k \notin DOMAIN groups
      BY <2>2 DEF Founding
    <3> HIDE DEF grp
    <3> DEFINE gs == Emplace(groups, k, grp)
    <3>4. /\ IsMap(gs, Names, Group)
          /\ DOMAIN gs = DOMAIN groups \cup {k}
          /\ k \notin DOMAIN groups => gs[k] = grp
          /\ \A x \in DOMAIN groups : gs[x] = groups[x]
      BY <3>1, <3>2, EmplaceIsMap
    <3> HIDE DEF gs
    <3>3. /\ IsMap(groups', Names, Group)
          /\ DOMAIN groups' = DOMAIN groups \cup {k}
          /\ groups'[k] = grp
          /\ \A x \in DOMAIN groups : groups'[x] = groups[x]
      BY <3>0, <3>2, <3>4 DEF gs
    <3> QED
      BY <3>1, <3>3 DEF GroupsInv, OwnerIsMember, BannedAreOut
  <2>3. ASSUME NEW k \in Names, NEW n \in People,
               \/ Joining(k, n) \/ Leaving(k, n) \/ HandingOver(k, n)
               \/ Kicking(k, n) \/ Unbanning(k, n) \/ Transferring(k, n)
        PROVE  Sound
    <3> DEFINE old == groups[k]
    <3>1. /\ k \in DOMAIN groups
          /\ old \in Group /\ old.owner \in old.members
          /\ old.members \cap old.banned = {}
      BY <2>3, StoredGroup DEF Joining, Leaving, HandingOver, Kicking, Unbanning,
                               Transferring, Replaced
    <3>2. PICK grp \in Group : /\ Replaced(k, grp)
                               /\ grp.owner \in grp.members
                               /\ grp.members \cap grp.banned = {}
      <4>1. CASE Joining(k, n)
        <5> DEFINE new == [old EXCEPT !.members = old.members \cup {n}]
        <5>1. new \in Group /\ new.owner \in new.members /\ new.members \cap new.banned = {}
          BY <3>1, <4>1 DEF Joining, Group, People
        <5>2. Replaced(k, new)
          BY <4>1 DEF Joining
        <5> QED
          BY <5>1, <5>2
      <4>2. CASE Leaving(k, n)
        <5> DEFINE new == [old EXCEPT !.members = old.members \ {n}]
        <5>1. new \in Group /\ new.owner \in new.members /\ new.members \cap new.banned = {}
          BY <3>1, <4>2 DEF Leaving, Group, People
        <5>2. Replaced(k, new)
          BY <4>2 DEF Leaving
        <5> QED
          BY <5>1, <5>2
      <4>3. CASE HandingOver(k, n)
        <5> DEFINE new == [old EXCEPT !.owner = n, !.members = old.members \ {old.owner}]
        <5>1. new \in Group /\ new.owner \in new.members /\ new.members \cap new.banned = {}
          BY <3>1, <4>3 DEF HandingOver, Group, People
        <5>2. Replaced(k, new)
          BY <4>3 DEF HandingOver
        <5> QED
          BY <5>1, <5>2
      <4>4. CASE Kicking(k, n)
        <5> DEFINE new == [old EXCEPT !.members = old.members \ {n},
                                   !.banned = old.banned \cup {n}]
        <5>1. new \in Group /\ new.owner \in new.members /\ new.members \cap new.banned = {}
          BY <3>1, <4>4 DEF Kicking, Group, People
        <5>2. Replaced(k, new)
          BY <4>4 DEF Kicking
        <5> QED
          BY <5>1, <5>2
      <4>5. CASE Unbanning(k, n)
        <5> DEFINE new == [old EXCEPT !.banned = old.banned \ {n}]
        <5>1. new \in Group /\ new.owner \in new.members /\ new.members \cap new.banned = {}
          BY <3>1, <4>5 DEF Unbanning, Group, People
        <5>2. Replaced(k, new)
          BY <4>5 DEF Unbanning
        <5> QED
          BY <5>1, <5>2
      <4>6. CASE Transferring(k, n)
        <5> DEFINE new == [old EXCEPT !.owner = n]
        <5>1. new \in Group /\ new.owner \in new.members /\ new.members \cap new.banned = {}
          BY <3>1, <4>6 DEF Transferring, Group, People
        <5>2. Replaced(k, new)
          BY <4>6 DEF Transferring
        <5> QED
          BY <5>1, <5>2
      <4> QED
        BY <2>3, <4>1, <4>2, <4>3, <4>4, <4>5, <4>6
    <3> QED
      BY <3>2, ReplacingIsSound
  <2>4. ASSUME NEW k \in Names, Dissolving(k)
        PROVE  Sound
    <3>1. /\ IsMap(groups', Names, Group)
          /\ DOMAIN groups' = DOMAIN groups \ {k}
          /\ \A x \in DOMAIN groups \ {k} : groups'[x] = groups[x]
      <4>1. groups' = Without(groups, {k}) /\ IsMap(groups, Names, Group)
        BY <2>4 DEF Dissolving, GroupsInv, GroupsTypeOK, Names
      <4> QED
        BY <4>1 DEF IsMap, Without
    <3> QED
      BY <3>1 DEF GroupsInv, OwnerIsMember, BannedAreOut
  <2>5. Sound
    <3> HIDE DEF Sound
    <3> QED
      BY <1>2, <2>1, <2>2, <2>3, <2>4, StepKinds
  <2>6. online' \subseteq Users /\ told' \subseteq Notice
    BY <1>2, EnvironmentTypes DEF GroupsInv
  <2> QED
    BY <2>5, <2>6 DEF Sound, GroupsInv, GroupsTypeOK, Names, People
<1> QED
  BY <1>1, <1>2

(* No groups, nobody online: what the server starts with.                  *)
LEMMA GroupsInvInit == GroupsInit => GroupsInv
BY EmptyIsMap DEF GroupsInit, GroupsInv, GroupsTypeOK, OwnerIsMember, BannedAreOut

(* The invariant holds in every state of GroupManager.                     *)
THEOREM GroupsInvariant == GroupsSpec => []GroupsInv
BY GroupsInvInit, GroupsInvNext, PTL DEF GroupsSpec

(* Every name GroupManager stores is in lower case (GroupsTypeOK).         *)
THEOREM GroupsTyped == GroupsSpec => []GroupsTypeOK
<1>1. GroupsInv => GroupsTypeOK
  BY DEF GroupsInv
<1> QED
  BY <1>1, GroupsInvariant, PTL

(* A group's owner is one of its members, whoever left, was kicked or took *)
(* over.                                                                   *)
THEOREM OwnersAreMembers == GroupsSpec => []OwnerIsMember
<1>1. GroupsInv => OwnerIsMember
  BY DEF GroupsInv
<1> QED
  BY <1>1, GroupsInvariant, PTL

(* No banned user is in a group, however he spells his or the group's name.*)
THEOREM BannedStayOut == GroupsSpec => []BannedAreOut
<1>1. GroupsInv => BannedAreOut
  BY DEF GroupsInv
<1> QED
  BY <1>1, GroupsInvariant, PTL

-----------------------------------------------------------------------------
(* What a step may do to a group.                                          *)

(* Only group k changes: to owner o, members m and bans b.                 *)
Becomes(k, o, m, b) ==
  /\ k \in DOMAIN groups
  /\ DOMAIN groups' = DOMAIN groups
  /\ groups'[k].owner = o
  /\ groups'[k].members = m
  /\ groups'[k].banned = b
  /\ \A x \in DOMAIN groups : x # k => groups'[x] = groups[x]

(* The six changes of a group that is there, field by field.               *)
LEMMA FieldByField ==
  ASSUME GroupsInv, NEW k \in Names, NEW n \in People
  PROVE  LET o == groups[k].owner
             m == groups[k].members
             b == groups[k].banned
         IN  /\ Joining(k, n) => Becomes(k, o, m \cup {n}, b)
             /\ Leaving(k, n) => Becomes(k, o, m \ {n}, b)
             /\ HandingOver(k, n) => Becomes(k, n, m \ {o}, b)
             /\ Kicking(k, n) => Becomes(k, o, m \ {n}, b \cup {n})
             /\ Unbanning(k, n) => Becomes(k, o, m, b \ {n})
             /\ Transferring(k, n) => Becomes(k, n, m, b)
<1> DEFINE o == groups[k].owner
           m == groups[k].members
           b == groups[k].banned
<1>1. ASSUME NEW grp, Replaced(k, grp)
      PROVE  /\ k \in DOMAIN groups
             /\ groups[k] \in Group
             /\ DOMAIN groups' = DOMAIN groups
             /\ groups'[k] = grp
             /\ \A x \in DOMAIN groups : x # k => groups'[x] = groups[x]
  BY <1>1, StoredGroup DEF Replaced, GroupsInv, GroupsTypeOK, IsMap
<1>2. Joining(k, n) => Becomes(k, o, m \cup {n}, b)
  BY <1>1 DEF Joining, Becomes, Group
<1>3. Leaving(k, n) => Becomes(k, o, m \ {n}, b)
  BY <1>1 DEF Leaving, Becomes, Group
<1>4. HandingOver(k, n) => Becomes(k, n, m \ {o}, b)
  <2> DEFINE grp == [groups[k] EXCEPT !.owner = n, !.members = groups[k].members \ {groups[k].owner}]
  <2> SUFFICES ASSUME HandingOver(k, n)
               PROVE  Becomes(k, n, m \ {o}, b)
    OBVIOUS
  <2>1. Replaced(k, grp)
    BY DEF HandingOver
  <2>2. groups[k] \in Group /\ groups'[k] = grp
    BY <1>1, <2>1
  <2>3. groups'[k].owner = n /\ groups'[k].members = m \ {o} /\ groups'[k].banned = b
    BY <2>2 DEF Group
  <2> QED
    BY <1>1, <2>1, <2>3 DEF Becomes
<1>5. Kicking(k, n) => Becomes(k, o, m \ {n}, b \cup {n})
  <2> DEFINE grp == [groups[k] EXCEPT !.members = groups[k].members \ {n},
                                        !.banned = groups[k].banned \cup {n}]
  <2> SUFFICES ASSUME Kicking(k, n)
               PROVE  Becomes(k, o, m \ {n}, b \cup {n})
    OBVIOUS
  <2>1. Replaced(k, grp)
    BY DEF Kicking
  <2>2. groups[k] \in Group /\ groups'[k] = grp
    BY <1>1, <2>1
  <2>3. /\ groups'[k].owner = o
        /\ groups'[k].members = m \ {n}
        /\ groups'[k].banned = b \cup {n}
    BY <2>2 DEF Group
  <2> QED
    BY <1>1, <2>1, <2>3 DEF Becomes
<1>6. Unbanning(k, n) => Becomes(k, o, m, b \ {n})
  BY <1>1 DEF Unbanning, Becomes, Group
<1>7. Transferring(k, n) => Becomes(k, n, m, b)
  BY <1>1 DEF Transferring, Becomes, Group
<1> QED
  BY <1>2, <1>3, <1>4, <1>5, <1>6, <1>7

(* A group that ends has no member but its owner: for one step.            *)
LEMMA EndsStep ==
  ASSUME GroupsInv, GroupsNext, NEW k \in DOMAIN groups, k \notin DOMAIN groups'
  PROVE  groups[k].members = {groups[k].owner}
<1>1. ASSUME NEW x \in Names, NEW n \in People, NEW h \in Hashes, Founding(x, n, h)
      PROVE  FALSE
  BY <1>1 DEF Founding, Emplace
<1>2. ASSUME NEW x \in Names, Dissolving(x)
      PROVE  groups[k].members = {groups[k].owner}
  BY <1>2 DEF Dissolving, Without
<1>3. ASSUME Unchanging
      PROVE  FALSE
  BY <1>3 DEF Unchanging
<1>4. ASSUME NEW x \in Names, NEW n \in People,
             \/ Joining(x, n) \/ Leaving(x, n) \/ HandingOver(x, n)
             \/ Kicking(x, n) \/ Unbanning(x, n) \/ Transferring(x, n)
      PROVE  FALSE
  BY <1>4, FieldByField DEF Becomes
<1> QED
  BY <1>1, <1>2, <1>3, <1>4, StepKinds

(* A group ends only when its owner leaves it as the last member           *)
(* (handle_group_leave; the erasure in handle_group_kick never happens).   *)
THEOREM GroupsEndWithOwners == GroupsSpec => EndsWithItsOwner
<1> DEFINE Ends == \A k \in DOMAIN groups :
                     k \notin DOMAIN groups' => groups[k].members = {groups[k].owner}
<1>1. GroupsInv /\ [GroupsNext]_groupVars => [Ends]_groupVars
  BY EndsStep
<1> QED
  BY <1>1, GroupsInvariant, PTL DEF GroupsSpec, EndsWithItsOwner

(* Whoever is told something was in the group it is about: for one step.   *)
LEMMA InsideStep ==
  ASSUME GroupsInv, GroupsNext, NEW m \in told'
  PROVE  m.group \in DOMAIN groups /\ m.to \in groups[m.group].members
<1> DEFINE In == m.group \in DOMAIN groups /\ m.to \in groups[m.group].members
<1>1. ASSUME NEW k \in DOMAIN groups, NEW S, Tell(k, S), S \subseteq groups[k].members
      PROVE  In
  <2>1. k \in Names
    BY StoredGroup
  <2>2. m.group = k /\ m.to \in S
    BY <1>1, <2>1, TellPeople DEF GroupsInv
  <2> QED
    BY <1>1, <2>2
<1>2. CASE Unchanging
  BY <1>1, <1>2 DEF Unchanging
<1>3. ASSUME NEW k \in Names, Dissolving(k)
      PROVE  In
  BY <1>1, <1>3 DEF Dissolving
<1>4. ASSUME NEW k \in Names, NEW n \in People,
             \/ Leaving(k, n) \/ HandingOver(k, n) \/ Kicking(k, n)
             \/ Unbanning(k, n) \/ Transferring(k, n)
      PROVE  In
  <2>1. k \in DOMAIN groups
    BY <1>4, FieldByField DEF Becomes
  <2>2. \/ Tell(k, groups[k].members \ {n}) \/ Tell(k, groups[k].members \ {groups[k].owner})
        \/ Tell(k, groups[k].members)
    BY <1>4 DEF Leaving, HandingOver, Kicking, Unbanning, Transferring
  <2> QED
    BY <1>1, <2>1, <2>2
<1>5. ASSUME told' = {}
      PROVE  In
  BY <1>5
<1> QED
  BY <1>2, <1>3, <1>4, <1>5, StepKinds

(* What is sent on behalf of a group reaches members of this group only,   *)
(* in whatever other groups they and the sender may be                     *)
(* (handle_send_message and the notices of _leave, _kick, _transfer).      *)
THEOREM GroupsKeepMessages == GroupsSpec => MessagesStayInside
<1> DEFINE Inside ==
      \A m \in told' : m.group \in DOMAIN groups /\ m.to \in groups[m.group].members
<1>1. GroupsInv /\ [GroupsNext]_groupVars => [Inside]_groupVars
  BY InsideStep
<1> QED
  BY <1>1, GroupsInvariant, PTL DEF GroupsSpec, MessagesStayInside

(* Those who ought to hear of a change of group k hear of it: for one step.*)
LEMMA AnnouncedStep ==
  ASSUME GroupsInv, GroupsNext, NEW k \in DOMAIN groups \cap DOMAIN groups',
         Public(groups'[k], groups[k]) # Public(groups[k], groups[k])
  PROVE  (groups'[k].members \cup (groups'[k].banned \ groups[k].banned))
           \cap Folded(online) \subseteq Audience(told', k)
<1>0. groups'[k] # groups[k]
  OBVIOUS
<1>1. ASSUME Unchanging
      PROVE  FALSE
  BY <1>0, <1>1 DEF Unchanging
<1>2. ASSUME NEW x \in Names, NEW n \in People, NEW h \in Hashes, Founding(x, n, h)
      PROVE  FALSE
  BY <1>0, <1>2 DEF Founding, Emplace
<1>3. ASSUME NEW x \in Names, Dissolving(x)
      PROVE  FALSE
  BY <1>0, <1>3 DEF Dissolving, Without
<1>4. ASSUME NEW x \in Names, NEW n \in People, Joining(x, n)
      PROVE  FALSE
  <2>1. x = k
    BY <1>0, <1>4, FieldByField DEF Becomes
  <2>2. /\ groups'[k].owner = groups[k].owner
        /\ groups'[k].banned = groups[k].banned
        /\ groups'[k].members = groups[k].members \cup {n}
    BY <1>4, <2>1, FieldByField DEF Becomes
  <2>3. groups[k].members \ groups'[k].members = groups[k].members \ groups[k].members
    BY <2>2
  <2> QED
    BY <2>2, <2>3 DEF Public
<1>5. ASSUME NEW x \in Names, NEW n \in People,
             \/ Leaving(x, n) \/ HandingOver(x, n) \/ Kicking(x, n)
             \/ Unbanning(x, n) \/ Transferring(x, n)
      PROVE  (groups'[k].members \cup (groups'[k].banned \ groups[k].banned))
               \cap Folded(online) \subseteq Audience(told', k)
  <2>1. x = k
    BY <1>0, <1>5, FieldByField DEF Becomes
  <2> DEFINE Concerned == groups'[k].members \cup (groups'[k].banned \ groups[k].banned)
  <2>0. ASSUME NEW S, Tell(k, S), Concerned \subseteq S
        PROVE  Concerned \cap Folded(online) \subseteq Audience(told', k)
    <3> HIDE DEF Concerned
    <3> QED
      BY <2>0, TellReaches, Zenon
  <2>2. CASE Leaving(k, n)
    <3>1. Tell(k, groups[k].members \ {n})
      BY <2>2 DEF Leaving
    <3>2. Concerned \subseteq groups[k].members \ {n}
      BY <2>1, <2>2, FieldByField DEF Becomes
    <3> QED
      BY <2>0, <3>1, <3>2
  <2>3. CASE HandingOver(k, n)
    <3>1. Tell(k, groups[k].members \ {groups[k].owner})
      BY <2>3 DEF HandingOver
    <3>2. Concerned \subseteq groups[k].members \ {groups[k].owner}
      BY <2>1, <2>3, FieldByField DEF Becomes
    <3> QED
      BY <2>0, <3>1, <3>2
  <2>4. CASE Kicking(k, n)
    <3>1. Tell(k, groups[k].members)
      BY <2>4 DEF Kicking
    <3>2. /\ groups'[k].members = groups[k].members \ {n}
          /\ groups'[k].banned = groups[k].banned \cup {n}
          /\ n \in groups[k].members
      BY <2>1, <2>4, FieldByField DEF Becomes, Kicking
    <3>3. Concerned \subseteq groups[k].members
      BY <3>2
    <3> QED
      BY <2>0, <3>1, <3>3
  <2>5. CASE Unbanning(k, n)
    <3>1. Tell(k, groups[k].members)
      BY <2>5 DEF Unbanning
    <3>2. Concerned \subseteq groups[k].members
      BY <2>1, <2>5, FieldByField DEF Becomes
    <3> QED
      BY <2>0, <3>1, <3>2
  <2>6. CASE Transferring(k, n)
    <3>1. Tell(k, groups[k].members)
      BY <2>6 DEF Transferring
    <3>2. Concerned \subseteq groups[k].members
      BY <2>1, <2>6, FieldByField DEF Becomes
    <3> QED
      BY <2>0, <3>1, <3>2
  <2> QED
    BY <1>5, <2>1, <2>2, <2>3, <2>4, <2>5, <2>6
<1> QED
  BY <1>1, <1>2, <1>3, <1>4, <1>5, StepKinds

(* No change of hands, departure, ban or unban goes unannounced to the     *)
(* members who are online, nor to the one who was thrown out.              *)
THEOREM GroupsAnnounce == GroupsSpec => ChangesAreAnnounced
<1> DEFINE Announced ==
      \A k \in DOMAIN groups \cap DOMAIN groups' :
        Public(groups'[k], groups[k]) # Public(groups[k], groups[k]) =>
          (groups'[k].members \cup (groups'[k].banned \ groups[k].banned))
            \cap Folded(online) \subseteq Audience(told', k)
<1>1. GroupsInv /\ [GroupsNext]_groupVars => [Announced]_groupVars
  BY AnnouncedStep
<1> QED
  BY <1>1, GroupsInvariant, PTL DEF GroupsSpec, ChangesAreAnnounced

-----------------------------------------------------------------------------
(* GroupManager implements GroupRoles.                                     *)

RoleMap == [k \in Folded(GroupNames) |-> [n \in Folded(Spellings) |-> RoleIn(k, n)]]

(* A sound group gives each user the role of the collection he is in.      *)
LEMMA RoleCases ==
  ASSUME GroupsInv, NEW k \in DOMAIN groups, NEW n
  PROVE  /\ n = groups[k].owner <=> RoleIn(k, n) = "owner"
         /\ n \in groups[k].members \ {groups[k].owner} <=> RoleIn(k, n) = "member"
         /\ n \in groups[k].banned <=> RoleIn(k, n) = "banned"
BY StoredGroup DEF RoleIn

(* The roles after a step that changes one user's role in one group.       *)
LEMMA OneRoleChanges ==
  ASSUME NEW k \in Names, NEW n \in People, NEW r, RoleIn(k, n)' = r,
         \A m \in People : m # n => RoleIn(k, m)' = RoleIn(k, m),
         \A x \in Names, m \in People : x # k => RoleIn(x, m)' = RoleIn(x, m)
  PROVE  RoleMap' = [RoleMap EXCEPT ![k][n] = r]
BY DEF RoleMap, Names, People

(* The roles in the groups that a change of group k leaves alone.          *)
LEMMA OtherRoles ==
  ASSUME NEW k, NEW o, NEW m, NEW b, Becomes(k, o, m, b), NEW x, x # k, NEW n
  PROVE  RoleIn(x, n)' = RoleIn(x, n)
BY DEF Becomes, RoleIn

(* The roles in a group that has changed.                                  *)
LEMMA NewRoles ==
  ASSUME NEW k, NEW o, NEW m, NEW b, Becomes(k, o, m, b), NEW n
  PROVE  RoleIn(k, n)' = IF n = o THEN "owner"
                         ELSE IF n \in b THEN "banned"
                         ELSE IF n \in m THEN "member" ELSE "none"
BY DEF Becomes, RoleIn

(* Joining, leaving, kicking and unbanning change the role of one user.    *)
LEMMA BecomeStep ==
  ASSUME GroupsInv, NEW k \in Names, NEW n \in People,
         Joining(k, n) \/ Leaving(k, n) \/ Kicking(k, n) \/ Unbanning(k, n)
  PROVE  Abstract!RolesNext
<1> DEFINE o == groups[k].owner
           m == groups[k].members
           b == groups[k].banned
<1>1. k \in DOMAIN groups /\ o \in m /\ m \cap b = {} /\ o \in People
  BY StoredGroup, FieldByField DEF Becomes
<1>2. RoleMap[k][o] = "owner" /\ RoleMap[k][n] = RoleIn(k, n)
  BY <1>1, RoleCases DEF RoleMap, Names, People
<1>3. \E r, s \in {"none", "member", "banned"} :
        /\ <<r, s>> \in {<<"none", "member">>, <<"member", "none">>,
                         <<"member", "banned">>, <<"banned", "none">>}
        /\ RoleIn(k, n) = r
        /\ RoleMap' = [RoleMap EXCEPT ![k][n] = s]
  <2>1. CASE Joining(k, n)
    <3>1. Becomes(k, o, m \cup {n}, b) /\ n \notin m \cup b
      BY <2>1, FieldByField DEF Joining
    <3>2. RoleMap' = [RoleMap EXCEPT ![k][n] = "member"]
      BY <1>1, <3>1, OneRoleChanges, OtherRoles, NewRoles, RoleCases DEF RoleIn
    <3> QED
      BY <1>1, <3>1, <3>2 DEF RoleIn
  <2>2. CASE Leaving(k, n)
    <3>1. Becomes(k, o, m \ {n}, b) /\ n \in m \ {o}
      BY <2>2, FieldByField DEF Leaving
    <3>2. RoleMap' = [RoleMap EXCEPT ![k][n] = "none"]
      BY <1>1, <3>1, OneRoleChanges, OtherRoles, NewRoles, RoleCases DEF RoleIn
    <3> QED
      BY <1>1, <3>1, <3>2 DEF RoleIn
  <2>3. CASE Kicking(k, n)
    <3>1. Becomes(k, o, m \ {n}, b \cup {n}) /\ n \in m \ {o}
      BY <2>3, FieldByField DEF Kicking
    <3>2. RoleMap' = [RoleMap EXCEPT ![k][n] = "banned"]
      BY <1>1, <3>1, OneRoleChanges, OtherRoles, NewRoles, RoleCases DEF RoleIn
    <3> QED
      BY <1>1, <3>1, <3>2 DEF RoleIn
  <2>4. CASE Unbanning(k, n)
    <3>1. Becomes(k, o, m, b \ {n}) /\ n \in b
      BY <2>4, FieldByField DEF Unbanning
    <3>2. RoleMap' = [RoleMap EXCEPT ![k][n] = "none"]
      BY <1>1, <3>1, OneRoleChanges, OtherRoles, NewRoles, RoleCases DEF RoleIn
    <3> QED
      BY <1>1, <3>1, <3>2 DEF RoleIn
  <2> QED
    BY <2>1, <2>2, <2>3, <2>4
<1>4. \/ Abstract!Join(k, n) \/ Abstract!Leave(k, n)
      \/ Abstract!Ban(k, n) \/ Abstract!Unban(k, n)
  BY <1>1, <1>2, <1>3
     DEF Abstract!Join, Abstract!Leave, Abstract!Ban, Abstract!Unban,
         Abstract!Become, Abstract!Exists, RoleMap, Names, People
<1> QED
  BY <1>4 DEF Abstract!RolesNext, Names, People

(* The owner's place is taken by a member, when he leaves or hands over.   *)
LEMMA SucceedStep ==
  ASSUME GroupsInv, NEW k \in Names, NEW n \in People,
         HandingOver(k, n) \/ Transferring(k, n)
  PROVE  Abstract!RolesNext
<1> DEFINE o == groups[k].owner
           m == groups[k].members
           b == groups[k].banned
<1>1. k \in DOMAIN groups /\ o \in m /\ m \cap b = {} /\ o \in People /\ n \in m \ {o}
  BY StoredGroup, FieldByField DEF Becomes, HandingOver, Transferring
<1>2. RoleMap[k][o] = "owner" /\ RoleMap[k][n] = "member"
  BY <1>1, RoleCases DEF RoleMap, Names, People
<1>3. \/ Becomes(k, n, m \ {o}, b)
      \/ Becomes(k, n, m, b)
  BY FieldByField
<1>4. PICK r \in {"none", "member"} :
        /\ \A y \in People : RoleIn(k, y)' = IF y = n THEN "owner"
                                             ELSE IF y = o THEN r ELSE RoleIn(k, y)
        /\ \A x \in Names, y \in People : x # k => RoleIn(x, y)' = RoleIn(x, y)
  <2>1. PICK mm \in {m \ {o}, m} : Becomes(k, n, mm, b)
    BY <1>3
  <2> DEFINE rr == IF o \in mm THEN "member" ELSE "none"
  <2>2. ASSUME NEW y \in People
        PROVE  RoleIn(k, y)' = IF y = n THEN "owner"
                               ELSE IF y = o THEN rr ELSE RoleIn(k, y)
    <3>1. RoleIn(k, y)' = IF y = n THEN "owner"
                          ELSE IF y \in b THEN "banned"
                          ELSE IF y \in mm THEN "member" ELSE "none"
      BY <2>1, NewRoles
    <3>2. CASE y \in {n, o}
      BY <1>1, <3>1, <3>2
    <3>3. CASE y \notin {n, o}
      <4>1. y \in mm <=> y \in m
        BY <2>1, <3>3
      <4> QED
        BY <1>1, <3>1, <3>3, <4>1 DEF RoleIn
    <3> QED
      BY <3>2, <3>3
  <2>3. ASSUME NEW x \in Names, NEW y \in People, x # k
        PROVE  RoleIn(x, y)' = RoleIn(x, y)
    BY <2>1, <2>3, OtherRoles
  <2>4. rr \in {"none", "member"}
    OBVIOUS
  <2> HIDE DEF rr
  <2> QED
    BY <2>2, <2>3, <2>4
<1>5. RoleMap' = [RoleMap EXCEPT ![k] = [@ EXCEPT ![o] = r, ![n] = "owner"]]
  <2>1. k \in Folded(GroupNames) /\ o \in Folded(Spellings) /\ n \in Folded(Spellings)
    BY <1>1 DEF Names, People
  <2>2. \A x \in Folded(GroupNames) : x # k => RoleMap'[x] = RoleMap[x]
    BY <1>4, <2>1 DEF RoleMap, Names, People
  <2>3. RoleMap'[k] = [y \in Folded(Spellings) |->
                         IF y = n THEN "owner" ELSE IF y = o THEN r ELSE RoleIn(k, y)]
    BY <1>4, <2>1 DEF RoleMap, People
  <2>4. RoleMap[k] = [y \in Folded(Spellings) |-> RoleIn(k, y)]
    BY <2>1 DEF RoleMap
  <2>5. RoleMap'[k] = [RoleMap[k] EXCEPT ![o] = r, ![n] = "owner"]
    <3> DEFINE f == [y \in Folded(Spellings) |-> RoleIn(k, y)]
    <3>1. [f EXCEPT ![o] = r, ![n] = "owner"]
            = [y \in Folded(Spellings) |->
                 IF y = n THEN "owner" ELSE IF y = o THEN r ELSE f[y]]
      <4> HIDE DEF o
      <4> QED
        BY <2>1
    <3> QED
      BY <2>3, <2>4, <3>1
  <2> QED
    BY <2>1, <2>2, <2>5 DEF RoleMap
<1>6. Abstract!Succeed(k, o, n)
  BY <1>2, <1>5 DEF Abstract!Succeed, RoleMap
<1> QED
  BY <1>1, <1>6 DEF Abstract!RolesNext, Names, People

(* A group appears with its founder as its owner and nobody else.          *)
LEMMA FoundStep ==
  ASSUME GroupsInv, NEW k \in Names, NEW n \in People, NEW h \in Hashes, Founding(k, n, h)
  PROVE  Abstract!RolesNext
<1> DEFINE grp == [owner |-> n, members |-> {n}, banned |-> {}, password_hash |-> h]
<1>1. k \notin DOMAIN groups /\ DOMAIN groups' = DOMAIN groups \cup {k}
      /\ groups'[k] = grp /\ \A x \in DOMAIN groups : groups'[x] = groups[x]
  BY DEF Founding, Emplace
<1>2. \A x \in Names, y \in People : x # k => RoleIn(x, y)' = RoleIn(x, y)
  BY <1>1 DEF RoleIn
<1>3. \A y \in People : RoleIn(k, y)' = IF y = n THEN "owner" ELSE "none"
  BY <1>1 DEF RoleIn
<1>4. \A y \in People : RoleIn(k, y) = "none"
  BY <1>1 DEF RoleIn
<1>5. RoleMap' = [RoleMap EXCEPT ![k][n] = "owner"]
  BY <1>2, <1>3, <1>4, OneRoleChanges
<1>6. Abstract!Found(k, n)
  BY <1>4, <1>5 DEF Abstract!Found, Abstract!Nobody, RoleMap, Names, People
<1> QED
  BY <1>6 DEF Abstract!RolesNext, Names, People

(* A group that goes leaves nobody with a role in it.                      *)
LEMMA DissolveStep ==
  ASSUME GroupsInv, NEW k \in Names, Dissolving(k)
  PROVE  Abstract!RolesNext
<1> DEFINE o == groups[k].owner
<1>1. /\ k \in DOMAIN groups
      /\ groups[k].members = {o}
      /\ o \in People
      /\ DOMAIN groups' = DOMAIN groups \ {k}
      /\ \A x \in DOMAIN groups' : groups'[x] = groups[x]
  BY StoredGroup DEF Dissolving, Without
<1>2. \A x \in Names, y \in People : x # k => RoleIn(x, y)' = RoleIn(x, y)
  BY <1>1 DEF RoleIn
<1>3. \A y \in People : RoleIn(k, y)' = "none"
  BY <1>1 DEF RoleIn
<1>4. RoleMap[k][o] = "owner" /\ \A y \in People : RoleMap[k][y] # "member"
  BY <1>1, RoleCases DEF RoleMap, Names, People
<1>5. RoleMap' = [RoleMap EXCEPT ![k] = [y \in People |-> "none"]]
  BY <1>2, <1>3 DEF RoleMap, Names, People
<1>6. Abstract!Dissolve(k, o)
  BY <1>4, <1>5 DEF Abstract!Dissolve, Abstract!Nobody, RoleMap, Names, People
<1> QED
  BY <1>1, <1>6 DEF Abstract!RolesNext, Names, People

(* GroupManager's commands are the role changes of GroupRoles: one user,   *)
(* one role per group; an owner who goes is replaced by a member, or the   *)
(* group goes.                                                             *)
THEOREM GroupsImplementRoles == GroupsSpec => ImplementsRoles
<1>1. GroupsInit => Abstract!RolesInit
  BY DEF GroupsInit, EmptyMap, RoleIn, Abstract!RolesInit, Abstract!Nobody
<1>2. GroupsInv /\ [GroupsNext]_groupVars => [Abstract!RolesNext]_RoleMap
  <2> SUFFICES ASSUME GroupsInv, [GroupsNext]_groupVars
               PROVE  [Abstract!RolesNext]_RoleMap
    OBVIOUS
  <2>1. CASE UNCHANGED groups
    BY <2>1 DEF RoleMap, RoleIn
  <2>2. CASE GroupsNext /\ ~Unchanging
    BY <2>2, StepKinds, FoundStep, DissolveStep, BecomeStep, SucceedStep
  <2> QED
    BY <2>1, <2>2 DEF Unchanging, groupVars
<1> QED
  BY <1>1, <1>2, GroupsInvariant, PTL
     DEF GroupsSpec, ImplementsRoles, Abstract!RolesSpec, RoleMap

-----------------------------------------------------------------------------
(***************************************************************************)
(* The life of the group data, for any number of starts, stops and kills.  *)
(*                                                                         *)
(* The groups in memory and the groups on disk both obey the rules         *)
(* (GroupsInv, SoundMap), because every start reads what a stop has        *)
(* written and every command keeps the rules.  While the server runs the   *)
(* file is not touched, so it holds what the run began with; the one step  *)
(* that writes it writes every field.                                      *)
(***************************************************************************)

(* The rules of the groups, said of any map of groups.                     *)
SoundMap(g) ==
  /\ IsMap(g, Names, Group)
  /\ \A k \in DOMAIN g : /\ g[k].owner \in g[k].members
                         /\ g[k].members \cap g[k].banned = {}

FileInv ==
  /\ file.kind \in {"missing", "torn", "whole"}
  /\ SoundMap(file.groups)

StoreInv ==
  /\ GroupsInv
  /\ FileInv
  /\ phase \in {"down", "running", "saving"}
  /\ stop \in {"never", "orderly", "failed", "killed"}
  /\ KillLosesThisRunOnly
  /\ OrderlyStopKeepsGroups

-----------------------------------------------------------------------------
(* The map without groups obeys the rules.                                 *)
LEMMA EmptyIsSound == SoundMap(EmptyMap)
BY EmptyIsMap DEF SoundMap

(* GroupsInv is SoundMap of the groups in memory.                          *)
LEMMA SoundMemory ==
  GroupsInv <=> /\ SoundMap(groups)
                /\ online \subseteq Users
                /\ told \subseteq Notice
BY DEF GroupsInv, GroupsTypeOK, OwnerIsMember, BannedAreOut, SoundMap, Names, People

(* Loading twice, as the start does, is loading once.                      *)
LEMMA LoadedTwice ==
  ASSUME FileInv
  PROVE  Loaded(Loaded(EmptyMap)) = Durable /\ SoundMap(Durable)
<1>1. CASE file.kind = "missing"
  BY <1>1, EmptyIsSound DEF Loaded, Durable
<1>2. CASE file.kind = "torn"
  BY <1>2, EmptyIsSound DEF Loaded, Durable
<1>3. CASE file.kind = "whole"
  BY <1>3 DEF Loaded, Durable, FileInv
<1> QED
  BY <1>1, <1>2, <1>3 DEF FileInv

(* from_json after to_json gives every group back.                         *)
LEMMA SerializedIsSame ==
  ASSUME NEW g, IsMap(g, Names, Group)
  PROVE  Serialized(g) = g
<1>1. \A k \in DOMAIN g :
        g[k] = [owner         |-> g[k].owner,
                members       |-> g[k].members,
                banned        |-> g[k].banned,
                password_hash |-> g[k].password_hash]
  BY DEF IsMap, Group
<1>2. g = [k \in DOMAIN g |-> g[k]]
  BY DEF IsMap
<1> QED
  BY <1>1, <1>2 DEF Serialized

-----------------------------------------------------------------------------
(* The invariant.                                                          *)

(* The first start finds no file.                                          *)
LEMMA StoreInvInit == StoreInit => StoreInv
<1> SUFFICES ASSUME StoreInit PROVE StoreInv
  OBVIOUS
<1>1. GroupsInv
  BY GroupsInvInit DEF StoreInit
<1>2. FileInv
  BY EmptyIsSound DEF StoreInit, NoFile, FileInv
<1> QED
  BY <1>1, <1>2 DEF StoreInit, StoreInv, KillLosesThisRunOnly, OrderlyStopKeepsGroups

(* However the process ends, nothing is left in memory.                    *)
LEMMA ExitInv ==
  ASSUME StoreInv, NEW how \in {"orderly", "failed", "killed"}, Exit(how), FileInv',
         how = "orderly" => Durable' = groups
  PROVE  StoreInv'
<1>1. GroupsInv'
  <2>1. SoundMap(groups)'
    BY EmptyIsSound DEF Exit, SoundMap
  <2> QED
    BY <2>1 DEF Exit, SoundMap, GroupsInv, GroupsTypeOK, OwnerIsMember, BannedAreOut,
                Names, People
<1> QED
  BY <1>1 DEF StoreInv, Exit, KillLosesThisRunOnly, OrderlyStopKeepsGroups

(* A start begins with what is on disk.                                    *)
LEMMA BootInv ==
  ASSUME StoreInv, Boot
  PROVE  StoreInv'
<1>1. groups' = Durable /\ SoundMap(Durable)
  BY LoadedTwice DEF StoreInv, Boot
<1>2. Durable' = Durable
  BY DEF Boot, Durable, Loaded
<1>3. GroupsInv'
  BY <1>1 DEF StoreInv, Boot, SoundMap, GroupsInv, GroupsTypeOK, OwnerIsMember,
              BannedAreOut, Names, People
<1> QED
  BY <1>1, <1>2, <1>3 DEF StoreInv, Boot, FileInv, KillLosesThisRunOnly,
                          OrderlyStopKeepsGroups

(* The write of an orderly stop puts every group on disk.                  *)
LEMMA WriteInv ==
  ASSUME StoreInv, Write
  PROVE  StoreInv'
<1>1. SoundMap(groups)
  BY SoundMemory DEF StoreInv
<1>2. file' = Whole(groups)
  BY <1>1, SerializedIsSame DEF Write, SoundMap
<1>3. FileInv'
  BY <1>1, <1>2 DEF Whole, FileInv
<1>4. Durable' = groups
  BY <1>2 DEF Durable, Loaded, Whole
<1> QED
  BY <1>3, <1>4, ExitInv DEF Write

(* Every step of the server's life keeps the invariant.                    *)
LEMMA StoreInvNext == StoreInv /\ [StoreNext]_storeVars => StoreInv'
<1> SUFFICES ASSUME StoreInv, [StoreNext]_storeVars
             PROVE  StoreInv'
  OBVIOUS
<1>1. CASE Boot
  BY <1>1, BootInv
<1>2. CASE Serve
  <2>1. GroupsInv'
    BY <1>2, GroupsInvNext DEF Serve, StoreInv
  <2> QED
    BY <1>2, <2>1 DEF Serve, StoreInv, FileInv, KillLosesThisRunOnly,
                      OrderlyStopKeepsGroups, Durable, Loaded
<1>3. CASE OpenForSave
  <2>1. FileInv'
    BY <1>3, EmptyIsSound DEF OpenForSave, Torn, FileInv
  <2>2. GroupsInv'
    BY <1>3 DEF OpenForSave, groupVars, StoreInv, GroupsInv, GroupsTypeOK,
                OwnerIsMember, BannedAreOut
  <2> QED
    BY <1>3, <2>1, <2>2 DEF OpenForSave, StoreInv, KillLosesThisRunOnly,
                            OrderlyStopKeepsGroups
<1>4. CASE OpenFails
  BY <1>4, ExitInv DEF OpenFails, StoreInv, FileInv
<1>5. CASE Write
  BY <1>5, WriteInv
<1>6. CASE WriteFails
  BY <1>6, ExitInv DEF WriteFails, StoreInv, FileInv
<1>7. CASE Crash
  BY <1>7, ExitInv DEF Crash, StoreInv, FileInv
<1>8. CASE UNCHANGED storeVars
  BY <1>8 DEF storeVars, groupVars, StoreInv, FileInv, GroupsInv, GroupsTypeOK,
              OwnerIsMember, BannedAreOut, KillLosesThisRunOnly,
              OrderlyStopKeepsGroups, Durable, Loaded
<1> QED
  BY <1>1, <1>2, <1>3, <1>4, <1>5, <1>6, <1>7, <1>8 DEF StoreNext

(* The invariant holds in every state of the server's life.                *)
THEOREM StoreInvariant == StoreSpec => []StoreInv
BY StoreInvInit, StoreInvNext, PTL DEF StoreSpec

-----------------------------------------------------------------------------
(* The properties.                                                         *)

(* What a run finds on disk is something GroupManager wrote (StoreTypeOK). *)
THEOREM StoreTyped == StoreSpec => []StoreTypeOK
<1>1. StoreInv => StoreTypeOK
  BY DEF StoreInv, StoreTypeOK, GroupsInv, FileInv, SoundMap, Names
<1> QED
  BY <1>1, StoreInvariant, PTL

(* The start after a stop whose save succeeded has the very same groups.   *)
THEOREM OrderlyStopsKeepGroups == StoreSpec => []OrderlyStopKeepsGroups
<1>1. StoreInv => OrderlyStopKeepsGroups
  BY DEF StoreInv
<1> QED
  BY <1>1, StoreInvariant, PTL

(* Killing the running server costs what this run has changed, no more.    *)
THEOREM KillsLoseOneRun == StoreSpec => []KillLosesThisRunOnly
<1>1. StoreInv => KillLosesThisRunOnly
  BY DEF StoreInv
<1> QED
  BY <1>1, StoreInvariant, PTL

(* The rules of the groups hold after any number of starts, stops, failed  *)
(* saves and kills.                                                        *)
THEOREM RestoredGroupsStaySound == StoreSpec => []RestoredGroupsAreSound
<1>1. StoreInv => RestoredGroupsAreSound
  BY DEF StoreInv, GroupsInv, RestoredGroupsAreSound
<1> QED
  BY <1>1, StoreInvariant, PTL
=============================================================================
