---------------------------- MODULE MCGroupStore ----------------------------
(* Two accounts, one stored with a capital letter, and two groups, the     *)
(* name of one of which no file can hold.                                  *)
EXTENDS GroupStore, TLC

CONSTANTS pw, NoPw

MCSpellings == {"Al", "al", "bob"}
MCUsers == {"Al", "bob"}
MCGroupNames == {"go", "bytes"}
MCLower == [n \in MCSpellings \cup MCGroupNames |-> IF n = "Al" THEN "al" ELSE n]
MCPasswords == {pw}
MCUnencodable == {"bytes"}

(* One group with a password is enough to see whether hashes survive.      *)
OnlyGoIsPrivate ==
  "bytes" \in DOMAIN groups => groups["bytes"].password_hash = NoPassword
=============================================================================
