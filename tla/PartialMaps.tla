---------------------------- MODULE PartialMaps ----------------------------
(***************************************************************************)
(* std::unordered_map as the server uses it.  A map is a function whose    *)
(* domain is the set of keys present.  The code only emplaces entries and  *)
(* erases them; what it changes inside an entry, it changes by reference.  *)
(***************************************************************************)

(* m maps some of the keys in K to values in V.                            *)
IsMap(m, K, V) == DOMAIN m \subseteq K /\ m \in [DOMAIN m -> V]

(* m.emplace(k, v): an entry that is already there wins.                   *)
Emplace(m, k, v) ==
  [x \in DOMAIN m \cup {k} |-> IF x \in DOMAIN m THEN m[x] ELSE v]

(* m after erasing every key of S; keys that are absent do not matter.     *)
Without(m, S) == [x \in DOMAIN m \ S |-> m[x]]

(* The map with no entries.                                                *)
EmptyMap == [x \in {} |-> x]
============================================================================
