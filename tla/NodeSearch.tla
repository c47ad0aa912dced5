----------------------------- MODULE NodeSearch -----------------------------
(***************************************************************************)
(* The two binary searches of src/btree.c, one step per turn of the loop:  *)
(* btree_node_leaf_find over the cells of a leaf, which may stop at a hit, *)
(* and btree_node_internal_find_child over the separators of an internal   *)
(* node, which goes on to the first of several equal ones.  They end in    *)
(* what Node!LeafPositions and Node!FindChild say, which is all module     *)
(* BTree knows of them.                                                    *)
(***************************************************************************)
EXTENDS Node

CONSTANTS
  Nodes,  \* the nodes that are searched
  Keys    \* the keys that are looked for

(* The number of keys the search may look at. *)
Count(page) == IF page.type = "leaf" THEN Len(page.cells) ELSE page.num

ASSUME NodesAssumption ==
  /\ Keys \subseteq Nat
  /\ \A page \in Nodes : /\ page \in Page
                         /\ NodeSorted(page)
                         /\ page.type = "internal" => page.num <= InternalMaxCells

VARIABLES
  node, key,             \* the arguments
  min_index, max_index,  \* the cells that may still be the answer
  answer, returned       \* the result, once there is one

vars == <<node, key, min_index, max_index, answer, returned>>

KeyAt(page, i) == IF page.type = "leaf" THEN page.cells[i + 1] ELSE page.seps[i]

Middle == (min_index + max_index) \div 2
KeyAtMiddle == KeyAt(node, Middle)

Searching == ~returned /\ min_index # max_index

Init ==
  /\ node \in Nodes
  /\ key \in Keys
  /\ min_index = 0
  /\ max_index = Count(node)
  /\ answer = 0
  /\ returned = FALSE

(* Only the search of a leaf ends at a hit. *)
AtKey == node.type = "leaf" /\ KeyAtMiddle = key

Hit ==
  /\ Searching
  /\ AtKey
  /\ answer' = Middle
  /\ returned' = TRUE
  /\ UNCHANGED <<node, key, min_index, max_index>>

GoesLeftAbove == key < KeyAtMiddle  \* a mutant: equal separators are passed over
GoesLeft == IF node.type = "leaf" THEN key < KeyAtMiddle ELSE key <= KeyAtMiddle

Left ==
  /\ Searching
  /\ ~AtKey
  /\ GoesLeft
  /\ max_index' = Middle
  /\ UNCHANGED <<node, key, min_index, answer, returned>>

RightKeepingMiddle ==  \* a mutant: the middle cell stays in the interval
  /\ Searching
  /\ ~AtKey
  /\ ~GoesLeft
  /\ min_index' = Middle
  /\ UNCHANGED <<node, key, max_index, answer, returned>>

Right ==
  /\ Searching
  /\ ~AtKey
  /\ ~GoesLeft
  /\ min_index' = Middle + 1
  /\ UNCHANGED <<node, key, max_index, answer, returned>>

Return ==
  /\ ~returned
  /\ min_index = max_index
  /\ answer' = min_index
  /\ returned' = TRUE
  /\ UNCHANGED <<node, key, min_index, max_index>>

Next == Hit \/ Left \/ Right \/ Return

(* One thread, nothing to wait for: a step that is possible is taken. *)
Spec == Init /\ [][Next]_vars /\ WF_vars(Next)

-----------------------------------------------------------------------------
(* The indices stay within the node. *)
TypeOK ==
  /\ node \in Nodes
  /\ key \in Keys
  /\ min_index \in 0 .. Count(node)
  /\ max_index \in min_index .. Count(node)
  /\ answer \in 0 .. Count(node)
  /\ returned \in BOOLEAN

(* The search of a leaf ends at the key, if the leaf holds it, and where it
   is to be inserted if not; the search of an internal node ends at the first
   separator at or above the key, or past all of them. *)
Correct ==
  returned => IF node.type = "leaf" THEN answer \in LeafPositions(node, key)
                                    ELSE answer = FindChild(node, key)

(* Each turn leaves less to search. *)
Terminates == <>returned
=============================================================================
