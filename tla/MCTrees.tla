------------------------------- MODULE MCTrees -------------------------------
(***************************************************************************)
(* One session of inserts under each of two workloads: a few ids over and  *)
(* over with different contents of the memory nobody wrote to, and ids     *)
(* that are all different up to the full tree.  Each stays small because   *)
(* it has only the ids and the words its questions need.                   *)
(***************************************************************************)
EXTENDS MCBTree

VARIABLE workload

Workload ==
  [ repeated  |-> [keys |-> 0 .. 3, words |-> Words],
    different |-> [keys |-> Keys,   words |-> {2}] ]

(* Each workload is some of what the clients may do and memory may hold. *)
ASSUME WorkloadAssumption ==
  \A load \in DOMAIN Workload :
    Workload[load].keys \subseteq Keys /\ Workload[load].words \subseteq Words

TreesInit == Init /\ workload \in DOMAIN Workload

KeysInUse == IF workload = "different" THEN StoredKeys(db.pages) ELSE {}

(* The session ends for good when an insert ends the process. *)
TreesNext ==
  /\ \E w \in Workload[workload].words :
       \/ Open(w) /\ disk.num_pages = 0 /\ db.fate = "closed"
       \/ \E key \in Workload[workload].keys \ KeysInUse : Insert(key, w)
  /\ UNCHANGED workload

Trees == TreesInit /\ [][TreesNext]_<<vars, workload>>

=============================================================================
