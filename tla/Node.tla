-------------------------------- MODULE Node --------------------------------
(***************************************************************************)
(* The pages of the database file seen as nodes of the B-tree: the record  *)
(* a page is, the words that are read from it, and the searches within one *)
(* node (the node half of src/btree.c).  Nothing here has state; module    *)
(* BTree composes these operators into the statements of the program.      *)
(*                                                                         *)
(* A page is the record below.  Two fields have two readers, because the   *)
(* leaf header and the internal header put them at the same offset:        *)
(*   num    is num_cells of a leaf  and num_keys    of an internal node,   *)
(*   link   is leaf_next of a leaf  and right_child of an internal node.   *)
(* BTREE_NODE_LEAF_NUM_CELLS_OFFSET and                                    *)
(* BTREE_NODE_INTERNAL_NUM_KEYS_OFFSET are the same number, and so are the *)
(* offsets of the two links.                                               *)
(*   cells  are the keys of the leaf cells.  A row's id is its key and the *)
(*          rest of the row takes part in no decision, so a key stands for *)
(*          its whole cell.  In a root that became internal, cells keeps   *)
(*          the keys of the leaf it was: nobody clears those bytes.        *)
(*   kids and seps are child and key of the internal cells; a cell at or   *)
(*          after num holds whatever the page held before.                 *)
(***************************************************************************)
EXTENDS Naturals, Sequences, SequencesExt, FiniteSets

CONSTANTS
  LeafMaxCells,  \* BTREE_NODE_LEAF_MAX_CELLS, 13 in the build
  InvalidPage    \* BTREE_NODE_INTERNAL_INVALID_PAGE_NUM, UINT32_MAX

InternalMaxCells == 3  \* BTREE_NODE_INTERNAL_MAX_CELLS

(* The leaf cells that LeafKey may be asked for lie within a page. *)
ASSUME NodeSizesAssumption ==
  /\ LeafMaxCells \in Nat
  /\ LeafMaxCells >= InternalMaxCells
  /\ InvalidPage \in Nat

(* Split counts: the right half gets the smaller part. *)
RightSplitCount == (LeafMaxCells + 1) \div 2
LeftSplitCount == (LeafMaxCells + 1) - RightSplitCount

(* Cell InternalMaxCells exists in the page and is written while a split is
   under way, so the arrays have one cell more than a node may keep. *)
CellIndex == 0 .. InternalMaxCells

Page ==
  [ type : {"leaf", "internal"}, root : BOOLEAN, parent : Nat,
    num : Nat, link : Nat, cells : Seq(Nat),
    kids : [CellIndex -> Nat], seps : [CellIndex -> Nat] ]

(* A page malloc just returned: every word in it is some word w. *)
FreshPage(w) ==
  [ type |-> "leaf", root |-> FALSE, parent |-> w, num |-> w, link |-> w,
    cells |-> <<>>, kids |-> [j \in CellIndex |-> w],
    seps |-> [j \in CellIndex |-> w] ]

(* btree_node_leaf_init and btree_node_internal_init *)
LeafInit(page) ==
  [page EXCEPT !.type = "leaf", !.root = FALSE, !.num = 0, !.link = 0]

InternalInit(page) ==
  [page EXCEPT !.type = "internal", !.root = FALSE, !.num = 0,
               !.link = InvalidPage]

-----------------------------------------------------------------------------
(* Reading one node *)

(* The word a leaf reader finds as the key of cell i.  An internal node's
   first child lies where the key of leaf cell 0 would be, and the cells after
   it are out of reach of the internal cells. *)
LeafKey(page, i) ==
  IF page.type = "internal" /\ i = 0 THEN page.kids[0] ELSE page.cells[i + 1]

(* btree_node_internal_child ends the process on an index past the right
   child and on a child that was never set. *)
ChildFails(page, i) ==
  \/ i > page.num
  \/ i = page.num /\ page.link = InvalidPage
  \/ i < page.num /\ page.kids[i] = InvalidPage

(* The page number of child i, where btree_node_internal_child finds one. *)
Child(page, i) == IF i = page.num THEN page.link ELSE page.kids[i]

-----------------------------------------------------------------------------
(* Searching one node: what the two binary searches return.  The loops      *)
(* themselves, iteration by iteration, are module NodeSearch, which proves  *)
(* that they end in these results on every sorted node of every size.       *)

NumBelow(page, key) ==
  Cardinality({i \in DOMAIN page.cells : page.cells[i] < key})

(* btree_node_leaf_find: the position of the key, any of them when the leaf
   holds the key several times, and otherwise the position to insert it at. *)
LeafPositions(page, key) ==
  LET hits == {i \in DOMAIN page.cells : page.cells[i] = key}
  IN  IF hits = {} THEN {NumBelow(page, key)} ELSE {i - 1 : i \in hits}

(* A mutant: equal separators are passed over. *)
FindChildBeyond(page, key) ==
  Cardinality({j \in CellIndex : j < page.num /\ page.seps[j] <= key})

(* btree_node_internal_find_child: the first separator at or above the key. *)
FindChild(page, key) ==
  Cardinality({j \in CellIndex : j < page.num /\ page.seps[j] < key})

(* A mutant: the separator of a child that was split stays as it was. *)
KeepKey(page, oldKey, newKey) == page

(* btree_node_internal_update_key *)
UpdateKey(page, oldKey, newKey) ==
  [page EXCEPT !.seps[FindChild(page, oldKey)] = newKey]

(* The arguments the searches are specified for. *)
NodeSorted(page) ==
  IF page.type = "leaf"
  THEN \A i, j \in DOMAIN page.cells : i < j => page.cells[i] <= page.cells[j]
  ELSE \A i, j \in 0 .. page.num - 1 : i < j => page.seps[i] <= page.seps[j]
=============================================================================
