----------------------------- MODULE GroupRoles -----------------------------
(***************************************************************************)
(* What the group commands promise, said of one user and one group at a    *)
(* time: a user has exactly one role in a group, and every command is a    *)
(* change of one or two roles.  A group exists while it has an owner.      *)
(* GroupManager implements this with three collections per group.          *)
(***************************************************************************)
CONSTANTS Names,  \* the groups there may be
          People  \* the users there may be

VARIABLE role     \* role[g][u]: the role of user u in group g

Roles == {"none", "member", "owner", "banned"}

Nobody == [u \in People |-> "none"]

(* Group g exists: somebody owns it.                                       *)
Exists(g) == \E u \in People : role[g][u] = "owner"

RolesInit == role = [g \in Names |-> Nobody]

Found(g, u) ==
  /\ role[g] = Nobody
  /\ role' = [role EXCEPT ![g][u] = "owner"]

(* One user's role changes from r to s while the group exists.             *)
Become(g, u, r, s) ==
  /\ Exists(g)
  /\ role[g][u] = r
  /\ role' = [role EXCEPT ![g][u] = s]

Join(g, u)  == Become(g, u, "none", "member")
Leave(g, u) == Become(g, u, "member", "none")
Ban(g, u)   == Become(g, u, "member", "banned")
Unban(g, u) == Become(g, u, "banned", "none")

(* The owner u leaves, or stays as a member, and member v becomes owner.   *)
Succeed(g, u, v) ==
  /\ role[g][u] = "owner"
  /\ role[g][v] = "member"
  /\ \E r \in {"none", "member"} :
       role' = [role EXCEPT ![g] = [@ EXCEPT ![u] = r, ![v] = "owner"]]

(* The owner u leaves a group that has no other member; the bans go too.   *)
Dissolve(g, u) ==
  /\ role[g][u] = "owner"
  /\ \A v \in People : role[g][v] # "member"
  /\ role' = [role EXCEPT ![g] = Nobody]

RolesNext ==
  \E g \in Names, u \in People :
    \/ Found(g, u) \/ Join(g, u) \/ Leave(g, u) \/ Ban(g, u) \/ Unban(g, u)
    \/ Dissolve(g, u)
    \/ \E v \in People : Succeed(g, u, v)

RolesSpec == RolesInit /\ [][RolesNext]_role

(* Every group has at most one owner, and a group without an owner has no  *)
(* members and no bans (struct Group, handle_group_leave).                 *)
OneOwner ==
  \A g \in Names :
    /\ \A u, v \in People : role[g][u] = "owner" /\ role[g][v] = "owner" => u = v
    /\ Exists(g) \/ role[g] = Nobody
=============================================================================
