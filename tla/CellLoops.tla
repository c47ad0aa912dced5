------------------------------ MODULE CellLoops ------------------------------
(***************************************************************************)
(* The loops of src/btree.c that move cells to make room for one more, a   *)
(* turn of the loop a step: the shift within a node that has room, which   *)
(* btree_node_leaf_insert and btree_node_internal_insert share, and the    *)
(* division of a full leaf between the old page and a new one in           *)
(* btree_node_leaf_split_and_insert.  Both overwrite the page they still   *)
(* read from, so all hangs on the order.  Module BTree takes their result, *)
(* the cells in their order with the new one among them, as one step.      *)
(***************************************************************************)
EXTENDS Integers

CONSTANTS
  MaxCells,  \* BTREE_NODE_LEAF_MAX_CELLS, or BTREE_NODE_INTERNAL_MAX_CELLS
  Cells,     \* what a cell may hold
  NewCell    \* the cell that is inserted

ASSUME CellLoopsAssumption ==
  /\ MaxCells \in Nat \ {0}
  /\ NewCell \in Cells

VARIABLES
  op,        \* "shift" or "split"
  page,      \* the cells of the node, those past its count included
  fresh,     \* the cells of the new leaf of a split
  count,     \* num_cells of a leaf, num_keys of an internal node
  cell_num,  \* where the new cell goes
  i,         \* the loop counter
  done,      \* the loop has ended and the counts are written
  before     \* the cells when the loop began

loop_vars == <<op, page, fresh, count, cell_num, i, done, before>>

Index == 0 .. MaxCells - 1

RightHalf == (MaxCells + 1) \div 2
LeftHalf == MaxCells + 1 - RightHalf

(* A node is shifted only while it has room; a leaf is split when it is full. *)
CountsWithRoom == Index

LoopsInit ==
  /\ op \in {"shift", "split"}
  /\ before \in [Index -> Cells]
  /\ fresh \in [Index -> Cells]
  /\ page = before
  /\ count \in (IF op = "split" THEN {MaxCells} ELSE CountsWithRoom)
  /\ cell_num \in 0 .. count
  /\ i = count
  /\ done = FALSE

-----------------------------------------------------------------------------
(* Within one node: cells from the last one down to cell_num go up by one.  *)

ShiftFromBelow ==  \* a mutant: the lowest cell goes first
  /\ op = "shift" /\ ~done
  /\ i > cell_num
  /\ page' = [page EXCEPT ![cell_num + count - i + 1] = page[cell_num + count - i]]
  /\ i' = i - 1
  /\ UNCHANGED <<op, fresh, count, cell_num, done, before>>

ShiftCell ==
  /\ op = "shift" /\ ~done
  /\ i > cell_num
  /\ page' = [page EXCEPT ![i] = page[i - 1]]
  /\ i' = i - 1
  /\ UNCHANGED <<op, fresh, count, cell_num, done, before>>

PutCell ==
  /\ op = "shift" /\ ~done
  /\ i <= cell_num
  /\ page' = [page EXCEPT ![cell_num] = NewCell]
  /\ count' = count + 1
  /\ done' = TRUE
  /\ UNCHANGED <<op, fresh, cell_num, i, before>>

-----------------------------------------------------------------------------
(* Between two leaves: all cells and the new one, the last of them first.   *)

IndexWithinNode == i % LeftHalf

(* The cell that comes i-th: the new one, or one that is still in the page. *)
CellToMove ==
  IF i = cell_num THEN NewCell
  ELSE IF i > cell_num THEN page[i - 1] ELSE page[i]

MoveToNew ==
  /\ op = "split" /\ ~done
  /\ i >= LeftHalf
  /\ fresh' = [fresh EXCEPT ![IndexWithinNode] = CellToMove]
  /\ i' = i - 1
  /\ UNCHANGED <<op, page, count, cell_num, done, before>>

MoveWithinOld ==
  /\ op = "split" /\ ~done
  /\ i >= 0 /\ i < LeftHalf
  /\ page' = [page EXCEPT ![IndexWithinNode] = CellToMove]
  /\ i' = i - 1
  /\ UNCHANGED <<op, fresh, count, cell_num, done, before>>

Divided ==
  /\ op = "split" /\ ~done
  /\ i < 0
  /\ count' = LeftHalf
  /\ done' = TRUE
  /\ UNCHANGED <<op, page, fresh, cell_num, i, before>>

LoopsNext ==
  \/ ShiftCell
  \/ PutCell
  \/ MoveToNew
  \/ MoveWithinOld
  \/ Divided

LoopsSpec == LoopsInit /\ [][LoopsNext]_loop_vars

-----------------------------------------------------------------------------
(* Cell k of the sequence `before' with the new cell inserted: what InsertAt  *)
(* makes of the cells in module BTree.                                        *)
Wanted(k) ==
  IF k < cell_num THEN before[k]
  ELSE IF k = cell_num THEN NewCell ELSE before[k - 1]

(* Cell k of the node, or of the two leaves one after the other. *)
Found(k) ==
  IF op = "shift" \/ k < LeftHalf THEN page[k]
  ELSE fresh[k - LeftHalf]

Total == IF op = "shift" THEN count - 1 ELSE MaxCells

(* Types; no turn reads or writes a cell outside the page, and the new leaf
   gets the cells its count will name. *)
LoopsTypeOK ==
  /\ op \in {"shift", "split"}
  /\ page \in [Index -> Cells] /\ fresh \in [Index -> Cells]
  /\ before \in [Index -> Cells]
  /\ count \in 0 .. MaxCells
  /\ cell_num \in 0 .. MaxCells
  /\ i \in -1 .. MaxCells
  /\ done \in BOOLEAN

(* When the loop has ended every cell is where the sequence has it: none was
   overwritten before it was read, none is there twice, and the two leaves
   continue one another. *)
AllInOrder == done => \A k \in 0 .. Total : Found(k) = Wanted(k)

(* The index of the new leaf is the place after the left half, which i modulo
   the left count only is because the right half is never the larger one. *)
UpperCellsFollow ==
  op = "split" /\ ~done /\ i >= LeftHalf =>
    IndexWithinNode = i - LeftHalf /\ IndexWithinNode < RightHalf
=============================================================================
