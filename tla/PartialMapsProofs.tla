-------------------------- MODULE PartialMapsProofs --------------------------
(***************************************************************************)
(* What the operators of PartialMaps return, for any keys and values.      *)
(***************************************************************************)
EXTENDS PartialMaps, TLAPS

(* The map without entries is a map of any type (clients at start-up).     *)
LEMMA EmptyIsMap ==
  ASSUME NEW K, NEW V
  PROVE  IsMap(EmptyMap, K, V) /\ DOMAIN EmptyMap = {}
BY DEF IsMap, EmptyMap

(* emplace keeps the type and every entry that is there (clients in        *)
(* accept, groups in handle_create_group, registered_users_ in             *)
(* add_user_to_memory).                                                    *)
LEMMA EmplaceIsMap ==
  ASSUME NEW K, NEW V, NEW m, IsMap(m, K, V), NEW k \in K, NEW v \in V
  PROVE  /\ IsMap(Emplace(m, k, v), K, V)
         /\ DOMAIN Emplace(m, k, v) = DOMAIN m \cup {k}
         /\ k \notin DOMAIN m => Emplace(m, k, v)[k] = v
         /\ \A x \in DOMAIN m : Emplace(m, k, v)[x] = m[x]
BY DEF IsMap, Emplace

(* erase keeps the type and the entries that are not erased (the clean-up  *)
(* of clients, the end of a group).                                        *)
LEMMA WithoutIsMap ==
  ASSUME NEW K, NEW V, NEW m, IsMap(m, K, V), NEW S
  PROVE  /\ IsMap(Without(m, S), K, V)
         /\ DOMAIN Without(m, S) = DOMAIN m \ S
         /\ \A x \in DOMAIN m \ S : Without(m, S)[x] = m[x]
BY DEF IsMap, Without
=============================================================================
