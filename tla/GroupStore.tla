----------------------------- MODULE GroupStore -----------------------------
(***************************************************************************)
(* The life of the group data across runs of the server: loaded when main  *)
(* starts, changed in memory only, and written to JSON_FILE when the event *)
(* loop has ended.  The process may be killed at any moment.               *)
(*                                                                         *)
(* save_groups_to_file opens the file, which truncates it, BEFORE it turns *)
(* the groups into text; that throws if a name is not valid UTF-8, and a   *)
(* failing write is not noticed.  Between the two steps the file is empty. *)
(*                                                                         *)
(* Abstracted: the text of the file; a file that is empty or cut short is  *)
(* "torn": json cannot parse it.                                           *)
(***************************************************************************)
EXTENDS Groups

CONSTANTS
  Unencodable,  \* names, of groups or users, that are not valid UTF-8
  DiskFails     \* whether opening and writing the file may fail

ASSUME GroupStoreAssumption ==
  /\ Unencodable \subseteq Folded(GroupNames) \cup Folded(Spellings)
  /\ DiskFails \in BOOLEAN

VARIABLES
  file,     \* JSON_FILE
  phase,    \* the process: "down", "running", or "saving" (file truncated)
  \* History:
  initial,  \* the groups when the event loop of this run began
  final,    \* the groups when the process last stopped
  stop      \* how it stopped: "never", "orderly", "failed" (an orderly stop
            \* whose save met an unencodable name or a failing disk), "killed"

storeVars == <<groupVars, file, phase, initial, final, stop>>

NoFile  == [kind |-> "missing", groups |-> EmptyMap]
Torn    == [kind |-> "torn", groups |-> EmptyMap]
Whole(g) == [kind |-> "whole", groups |-> g]

StoreInit ==
  /\ GroupsInit
  /\ file = NoFile
  /\ phase = "down"
  /\ initial = EmptyMap
  /\ final = EmptyMap
  /\ stop = "never"

(* load_groups_from_file: a file that cannot be opened leaves the groups   *)
(* as they are, one that cannot be parsed clears them.                     *)
Loaded(g) ==
  CASE file.kind = "missing" -> g
    [] file.kind = "torn"    -> EmptyMap
    [] file.kind = "whole"   -> file.groups

(* Mutant: the file is truncated at startup, to test that it is writable.  *)
Boot_Truncates ==
  /\ phase = "down"
  /\ groups' = Loaded(Loaded(EmptyMap))
  /\ initial' = groups'
  /\ phase' = "running"
  /\ file' = Torn
  /\ UNCHANGED <<online, told, final, stop>>

(* The start of main: the file is loaded by ServerContext's constructor    *)
(* and then once more.                                                     *)
Boot ==
  /\ phase = "down"
  /\ groups' = Loaded(Loaded(EmptyMap))
  /\ initial' = groups'
  /\ phase' = "running"
  /\ UNCHANGED <<online, told, file, final, stop>>

Serve ==
  /\ phase = "running"
  /\ GroupsNext
  /\ UNCHANGED <<file, phase, initial, final, stop>>

(* What is lost with the process.                                          *)
Exit(how) ==
  /\ phase' = "down"
  /\ final' = groups
  /\ stop' = how
  /\ groups' = EmptyMap
  /\ online' = {}
  /\ told' = {}
  /\ UNCHANGED initial

(* SIGINT has ended the loop, and std::ofstream truncates the file.        *)
OpenForSave ==
  /\ phase = "running"
  /\ file' = Torn
  /\ phase' = "saving"
  /\ UNCHANGED <<groupVars, initial, final, stop>>

(* The file cannot be opened: an error is logged, the process ends.        *)
OpenFails ==
  /\ phase = "running"
  /\ DiskFails
  /\ Exit("failed")
  /\ UNCHANGED file

(* Mutant: to_json leaves the ban list out.                                *)
Serialized_NoBans(g) == [k \in DOMAIN g |-> [g[k] EXCEPT !.banned = {}]]

(* Mutant: from_json takes the members from the ban list's key.            *)
Serialized_MembersFromBans(g) ==
  [k \in DOMAIN g |-> [g[k] EXCEPT !.members = g[k].banned]]

(* What from_json makes of what to_json wrote: every field survives (the   *)
(* fifth, name, is the key).                                               *)
Serialized(g) ==
  [k \in DOMAIN g |-> [owner         |-> g[k].owner,
                       members       |-> g[k].members,
                       banned        |-> g[k].banned,
                       password_hash |-> g[k].password_hash]]

(* dump meets every name a group is stored with: its own, its owner's and  *)
(* those of its members and of the users it has banned.                    *)
Encodable ==
  \A k \in DOMAIN groups :
    ({k, groups[k].owner} \cup groups[k].members \cup groups[k].banned)
      \cap Unencodable = {}

Write ==
  /\ phase = "saving"
  /\ Encodable
  /\ file' = Whole(Serialized(groups))
  /\ Exit("orderly")

(* dump throws before anything is written, and the exception is logged; or *)
(* the write fails, and nobody looks.                                      *)
WriteFails ==
  /\ phase = "saving"
  /\ ~Encodable \/ DiskFails
  /\ Exit("failed")
  /\ UNCHANGED file

(* The process dies without reaching the end of main.                      *)
Crash ==
  /\ phase # "down"
  /\ Exit("killed")
  /\ UNCHANGED file

StoreNext ==
  Boot \/ Serve \/ OpenForSave \/ OpenFails \/ Write \/ WriteFails \/ Crash

StoreSpec == StoreInit /\ [][StoreNext]_storeVars

-----------------------------------------------------------------------------
(* Properties.                                                             *)

(* Types, the file's contents included: whatever a run finds on disk is    *)
(* something GroupManager wrote.                                           *)
StoreTypeOK ==
  /\ GroupsTypeOK
  /\ file.kind \in {"missing", "torn", "whole"}
  /\ IsMap(file.groups, Folded(GroupNames), Group)
  /\ phase \in {"down", "running", "saving"}
  /\ stop \in {"never", "orderly", "failed", "killed"}

(* The groups a server started now would have.                             *)
Durable == Loaded(EmptyMap)

(* After a shutdown whose save succeeded the next start has the very same  *)
(* groups, with their bans and hashes (save_groups_to_file,                *)
(* load_groups_from_file, to_json and from_json).                          *)
OrderlyStopKeepsGroups ==
  phase = "down" /\ stop = "orderly" => Durable = final

(* While the server runs, what it would lose by being killed is what this  *)
(* run has changed, and no more: the groups it started with stay on disk.  *)
KillLosesThisRunOnly == phase = "running" => Durable = initial

(* The rules of the groups hold across restarts, whatever file is found.   *)
RestoredGroupsAreSound == OwnerIsMember /\ BannedAreOut

(* The groups are written out when the server is stopped safely, and read  *)
(* in again at the next start: README:19.                                  *)
SafeStopKeepsGroups ==
  phase = "down" /\ stop \in {"orderly", "failed"} => Durable = final
=============================================================================
