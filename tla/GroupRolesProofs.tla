-------------------------- MODULE GroupRolesProofs --------------------------
(***************************************************************************)
(* The role changes keep one owner per group, for any number of users and  *)
(* groups.  Together with GroupsImplementRoles this is what the abstract   *)
(* specification adds to the invariants of GroupManager: the rule follows  *)
(* from the commands being these changes, not from how a group is stored.  *)
(***************************************************************************)
EXTENDS GroupRoles, TLAPS

RolesTypeOK == role \in [Names -> [People -> Roles]]

RolesInv == RolesTypeOK /\ OneOwner

(* A group in which nobody has a role has no owner.                        *)
LEMMA NobodyOwns ==
  ASSUME RolesTypeOK, NEW g \in Names, role[g] = Nobody
  PROVE  ~Exists(g)
BY DEF Exists, Nobody

(* OneOwner of one group.                                                  *)
OwnedOnce(g) ==
  /\ \A u, v \in People : role[g][u] = "owner" /\ role[g][v] = "owner" => u = v
  /\ Exists(g) \/ role[g] = Nobody

(* Every change of roles is a change in one group.                         *)
LEMMA OneGroupAtATime ==
  ASSUME RolesInv, NEW h \in Names, NEW row \in [People -> Roles],
         role' = [role EXCEPT ![h] = row],
         \A u, v \in People : row[u] = "owner" /\ row[v] = "owner" => u = v,
         (\E u \in People : row[u] = "owner") \/ row = Nobody
  PROVE  RolesInv'
<1>1. RolesTypeOK'
  BY DEF RolesInv, RolesTypeOK
<1>2. ASSUME NEW g \in Names
      PROVE  OwnedOnce(g)'
  <2>1. CASE g = h
    <3>1. role'[g] = row
      BY <2>1 DEF RolesInv, RolesTypeOK
    <3> QED
      BY <3>1 DEF OwnedOnce, Exists, Nobody
  <2>2. CASE g # h
    <3>1. role'[g] = role[g]
      BY <2>2 DEF RolesInv, RolesTypeOK
    <3> QED
      BY <3>1 DEF RolesInv, OneOwner, OwnedOnce, Exists, Nobody
  <2> QED
    BY <2>1, <2>2
<1> QED
  BY <1>1, <1>2 DEF RolesInv, OneOwner, OwnedOnce

(* Joining, leaving, being banned and unbanned leave the owner alone.      *)
LEMMA BecomingKeepsOwner ==
  ASSUME RolesInv, NEW g \in Names, NEW u \in People,
         NEW r \in Roles \ {"owner"}, NEW s \in Roles \ {"owner"}, Become(g, u, r, s)
  PROVE  RolesInv'
<1> DEFINE row == [role[g] EXCEPT ![u] = s]
<1>1. role' = [role EXCEPT ![g] = row] /\ row \in [People -> Roles]
  BY DEF Become, RolesInv, RolesTypeOK
<1>2. \A v \in People : row[v] = "owner" <=> role[g][v] = "owner"
  BY DEF Become, RolesInv, RolesTypeOK
<1>3. Exists(g)
  BY DEF Become
<1> HIDE DEF row
<1>4. /\ \A v, w \in People : row[v] = "owner" /\ row[w] = "owner" => v = w
      /\ \E v \in People : row[v] = "owner"
  BY <1>2, <1>3 DEF RolesInv, OneOwner, Exists
<1> QED
  BY <1>1, <1>4, OneGroupAtATime

(* Every change of roles keeps one owner.                                  *)
LEMMA RolesInvNext == RolesInv /\ [RolesNext]_role => RolesInv'
<1> SUFFICES ASSUME RolesInv, [RolesNext]_role
             PROVE  RolesInv'
  OBVIOUS
<1>1. ASSUME NEW g \in Names, NEW u \in People, Found(g, u)
      PROVE  RolesInv'
  <2> DEFINE row == [Nobody EXCEPT ![u] = "owner"]
  <2>1. role' = [role EXCEPT ![g] = row] /\ row \in [People -> Roles]
    BY <1>1 DEF Found, Nobody, Roles, RolesInv, RolesTypeOK
  <2>2. \A v \in People : row[v] = "owner" <=> v = u
    BY DEF Nobody
  <2>3. /\ \A v, w \in People : row[v] = "owner" /\ row[w] = "owner" => v = w
        /\ \E v \in People : row[v] = "owner"
    BY <2>2
  <2> HIDE DEF row
  <2> QED
    BY <2>1, <2>3, OneGroupAtATime
<1>2. ASSUME NEW g \in Names, NEW u \in People,
             Join(g, u) \/ Leave(g, u) \/ Ban(g, u) \/ Unban(g, u)
      PROVE  RolesInv'
  BY <1>2, BecomingKeepsOwner DEF Join, Leave, Ban, Unban, Roles
<1>3. ASSUME NEW g \in Names, NEW u \in People, NEW v \in People, Succeed(g, u, v)
      PROVE  RolesInv'
  <2>1. PICK r \in {"none", "member"} :
          role' = [role EXCEPT ![g] = [@ EXCEPT ![u] = r, ![v] = "owner"]]
    BY <1>3 DEF Succeed
  <2> DEFINE row == [role[g] EXCEPT ![u] = r, ![v] = "owner"]
  <2>2. role' = [role EXCEPT ![g] = row] /\ row \in [People -> Roles]
    BY <2>1 DEF RolesInv, RolesTypeOK, Roles
  <2>3. \A w \in People : row[w] = "owner" <=> w = v
    BY <1>3 DEF Succeed, RolesInv, RolesTypeOK, OneOwner
  <2>4. /\ \A w, x \in People : row[w] = "owner" /\ row[x] = "owner" => w = x
        /\ \E w \in People : row[w] = "owner"
    BY <2>3
  <2> HIDE DEF row
  <2> QED
    BY <2>2, <2>4, OneGroupAtATime
<1>4. ASSUME NEW g \in Names, NEW u \in People, Dissolve(g, u)
      PROVE  RolesInv'
  <2>1. role' = [role EXCEPT ![g] = Nobody] /\ Nobody \in [People -> Roles]
    BY <1>4 DEF Dissolve, Nobody, Roles
  <2>2. \A v \in People : Nobody[v] # "owner"
    BY DEF Nobody
  <2> QED
    BY <2>1, <2>2, OneGroupAtATime
<1>5. CASE UNCHANGED role
  BY <1>5 DEF RolesInv, RolesTypeOK, OneOwner, Exists, Nobody
<1> QED
  BY <1>1, <1>2, <1>3, <1>4, <1>5 DEF RolesNext

(* A group has one owner as long as it exists, and nobody has a role in a  *)
(* group that does not exist (struct Group, handle_group_leave).           *)
THEOREM RolesKeepOneOwner == RolesSpec => []OneOwner
<1>1. RolesInit => RolesInv
  BY NobodyOwns DEF RolesInit, RolesInv, RolesTypeOK, OneOwner, Nobody, Roles, Exists
<1>2. RolesInv => OneOwner
  BY DEF RolesInv
<1> QED
  BY <1>1, <1>2, RolesInvNext, PTL DEF RolesSpec
=============================================================================
