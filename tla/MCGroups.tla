------------------------------ MODULE MCGroups ------------------------------
(* Three accounts, one of which is stored with a capital letter; two       *)
(* groups, one of which may be typed with one.                             *)
EXTENDS Groups, TLC

CONSTANTS pw, NoPw

MCSpellings == {"Al", "al", "bob", "cy"}
MCUsers == {"Al", "bob", "cy"}
MCGroupNames == {"Go", "go", "tea"}
MCLower == [n \in MCSpellings \cup MCGroupNames |->
              CASE n = "Al" -> "al" [] n = "Go" -> "go" [] OTHER -> n]
MCPasswords == {pw}
=============================================================================
