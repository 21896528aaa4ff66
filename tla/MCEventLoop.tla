---------------------------- MODULE MCEventLoop ----------------------------
(* One user, who is registered; more connections than descriptor numbers,  *)
(* so that numbers are reused.                                             *)
EXTENDS EventLoop, TLC

CONSTANTS c1, c2, c3

Conns2 == {c1, c2}
Conns3 == {c1, c2, c3}
Fds1 == {1}
Fds2 == {1, 2}
MCNicks == {"al"}
MCLower == [n \in MCNicks |-> n]
MCAccounts == [l \in MCNicks |-> [name |-> l, admin |-> TRUE]]
NoEdits == {}

(* Connections differ only in their identity.                              *)
ConnSymmetry == Permutations(Conns3)
============================================================================
