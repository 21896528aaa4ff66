---------------------------- MODULE MCChatServer ----------------------------
(* Two accounts: one with a capital letter, known at the start, and one    *)
(* registered during the run, in lower case, so that the cache finds it by *)
(* its stored name.  Three connections over two numbers, so that a user    *)
(* may leave and come back on another; one public group, which has a       *)
(* user's name, in two spellings.                                          *)
EXTENDS ChatServer, TLC

CONSTANTS c1, c2, c3, NoPw

MCConns == {c1, c2, c3}
MCFds == 1..2
MCNicks == {"Al", "al", "bob"}
MCLower == [n \in MCNicks |-> IF n = "Al" THEN "al" ELSE n]
MCAccounts == [l \in {"al"} |-> [name |-> "Al", admin |-> FALSE]]
MCGroupNames == {"Al", "al"}

(* No step here asks who is idle (the runs of EventLoop do), and it is     *)
(* enough if one user's rights are given and taken: those of the user whom *)
(* the cache finds, rights he had at an earlier login included.            *)
OnlyWhatMattersHere ==
  /\ \A f \in DOMAIN clients : ~clients[f].stale
  /\ \A l \in DOMAIN accounts : accounts[l].admin => l = "bob"

(* Connections differ only in their identity.                              *)
ConnSymmetry == Permutations(MCConns)
=============================================================================
