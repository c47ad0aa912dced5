--------------------------- MODULE NodeLoopsProofs ---------------------------
(***************************************************************************)
(* The loops within one node end in the results that module BTree takes    *)
(* for granted.  The binary searches do on every sorted node of every size *)
(* and for every key.  The copying loops do for every size of a node,      *)
(* every number of cells and every place of the new one: the invariant     *)
(* says how far a loop has got, the cells above i are where they belong,   *)
(* the cells up to i are still the old ones.                               *)
(***************************************************************************)
EXTENDS NodeSearch, CellLoops, FiniteSetTheorems, TLAPS

-----------------------------------------------------------------------------
(* The searches *)

(* What is left to search: the keys before the interval are smaller than the
   key, those from its end on are greater, or not smaller. *)
Narrowed ==
  /\ \A k \in 0 .. Count(node) - 1 : k < min_index => KeyAt(node, k) < key
  /\ \A k \in 0 .. Count(node) - 1 :
       k >= max_index => IF node.type = "leaf" THEN KeyAt(node, k) > key
                                               ELSE KeyAt(node, k) >= key

Inv == TypeOK /\ Narrowed /\ Correct

-----------------------------------------------------------------------------
(* The nodes *)

LEMMA NodeFacts ==
  ASSUME NEW nd \in Nodes
  PROVE  /\ Count(nd) \in Nat
         /\ nd.type \in {"leaf", "internal"}
         /\ nd.type = "leaf" => nd.cells \in Seq(Nat)
         /\ nd.type = "internal" => Count(nd) <= InternalMaxCells
         /\ \A k \in 0 .. Count(nd) - 1 : KeyAt(nd, k) \in Nat
         /\ \A k, j \in 0 .. Count(nd) - 1 :
              k < j => KeyAt(nd, k) <= KeyAt(nd, j)
<1>1. /\ nd \in Page
      /\ NodeSorted(nd)
      /\ nd.type = "internal" => nd.num <= InternalMaxCells
  BY NodesAssumption
<1>2. CASE nd.type = "leaf"
  <2>1. nd.cells \in Seq(Nat) /\ Len(nd.cells) \in Nat
    BY <1>1 DEF Page
  <2>2. \A k \in 0 .. Len(nd.cells) - 1 : k + 1 \in DOMAIN nd.cells
    BY <2>1
  <2>3. \A k \in 0 .. Len(nd.cells) - 1 : nd.cells[k + 1] \in Nat
    BY <2>1, <2>2
  <2>. QED
    BY <1>1, <1>2, <2>1, <2>2, <2>3 DEF Count, KeyAt, NodeSorted
<1>3. CASE nd.type = "internal"
  <2>1. nd.num \in Nat /\ nd.seps \in [CellIndex -> Nat]
    BY <1>1 DEF Page
  <2>2. \A k \in 0 .. nd.num - 1 : k \in CellIndex
    BY <1>1, <1>3, <2>1 DEF CellIndex, InternalMaxCells
  <2>. QED
    BY <1>1, <1>3, <2>1, <2>2 DEF Count, KeyAt, NodeSorted
<1>. QED
  BY <1>1, <1>2, <1>3 DEF Page

(* A set of numbers that holds exactly the first m of them has m elements. *)
LEMMA InitialSegment ==
  ASSUME NEW m \in Nat
  PROVE  Cardinality(1 .. m) = m /\ Cardinality(0 .. m - 1) = m
BY FS_Interval

LEMMA MiddleInside ==
  ASSUME TypeOK, Searching
  PROVE  /\ Middle \in min_index .. max_index - 1
         /\ Middle \in 0 .. Count(node) - 1
         /\ KeyAtMiddle \in Nat
         /\ key \in Nat
BY NodeFacts, NodesAssumption DEF TypeOK, Searching, Middle, KeyAtMiddle

-----------------------------------------------------------------------------
(* The invariant *)

LEMMA InvInit == Init => Inv
<1>. SUFFICES ASSUME Init PROVE Inv
  OBVIOUS
<1>1. Count(node) \in Nat
  BY NodeFacts DEF Init
<1>2. TypeOK
  <2>1. /\ min_index \in 0 .. Count(node) /\ answer \in 0 .. Count(node)
        /\ max_index \in min_index .. Count(node)
    BY <1>1 DEF Init
  <2>. QED
    BY <2>1 DEF Init, TypeOK
<1>3. \A k \in 0 .. Count(node) - 1 : ~(k < min_index) /\ ~(k >= max_index)
  BY <1>1 DEF Init
<1>4. Narrowed
  BY <1>3 DEF Narrowed
<1>5. Correct
  BY DEF Init, Correct
<1>. QED
  BY <1>2, <1>4, <1>5 DEF Inv

LEMMA HitStep ==
  ASSUME Inv, Hit
  PROVE  Inv'
<1>1. Middle \in 0 .. Count(node) - 1 /\ Middle <= Count(node)
  BY MiddleInside, NodeFacts DEF Inv, Hit, TypeOK
<1>2. Middle \in LeafPositions(node, key)
  <2>. DEFINE hits == {k \in DOMAIN node.cells : node.cells[k] = key}
  <2>1. Middle + 1 \in DOMAIN node.cells
    BY <1>1, NodeFacts DEF Inv, TypeOK, Hit, AtKey, Count
  <2>2. Middle + 1 \in hits
    BY <2>1 DEF Hit, AtKey, KeyAtMiddle, KeyAt
  <2>3. Middle = (Middle + 1) - 1
    BY <1>1, NodeFacts DEF Inv, TypeOK
  <2>4. Middle \in {k - 1 : k \in hits}
    BY <2>2, <2>3
  <2>. QED
    BY <2>2, <2>4 DEF LeafPositions
<1>3. TypeOK'
  BY <1>1, NodeFacts DEF Inv, TypeOK, Hit
<1>4. Narrowed'
  BY DEF Inv, Narrowed, Hit
<1>5. Correct'
  BY <1>2 DEF Correct, Hit, AtKey
<1>. QED
  BY <1>3, <1>4, <1>5 DEF Inv

LEMMA LeftStep ==
  ASSUME Inv, Left
  PROVE  Inv'
<1>1. /\ Middle \in min_index .. max_index - 1
      /\ Middle \in 0 .. Count(node) - 1
      /\ KeyAtMiddle \in Nat /\ key \in Nat
  BY MiddleInside DEF Inv, Left
<1>2. TypeOK'
  BY <1>1, NodeFacts DEF Inv, TypeOK, Left
<1>3. \A k \in 0 .. Count(node) - 1 :
        k >= Middle => IF node.type = "leaf" THEN KeyAt(node, k) > key
                                             ELSE KeyAt(node, k) >= key
  <2>. SUFFICES ASSUME NEW k \in 0 .. Count(node) - 1, k >= Middle
                PROVE  IF node.type = "leaf" THEN KeyAt(node, k) > key
                                             ELSE KeyAt(node, k) >= key
    OBVIOUS
  <2>1. node \in Nodes
    BY DEF Inv, TypeOK
  <2>2. KeyAt(node, Middle) <= KeyAt(node, k) /\ KeyAt(node, k) \in Nat
    BY <1>1, <2>1, NodeFacts, k = Middle \/ k > Middle DEF KeyAtMiddle
  <2>. QED
    BY <1>1, <2>2 DEF Left, GoesLeft, KeyAtMiddle
<1>4. Narrowed'
  BY <1>1, <1>3 DEF Inv, Narrowed, Left
<1>5. Correct'
  BY DEF Correct, Left, Searching
<1>. QED
  BY <1>2, <1>4, <1>5 DEF Inv

LEMMA RightStep ==
  ASSUME Inv, Right
  PROVE  Inv'
<1>1. /\ Middle \in min_index .. max_index - 1
      /\ Middle \in 0 .. Count(node) - 1
      /\ KeyAtMiddle \in Nat /\ key \in Nat
  BY MiddleInside DEF Inv, Right
<1>2. TypeOK'
  BY <1>1, NodeFacts DEF Inv, TypeOK, Right
<1>3. \A k \in 0 .. Count(node) - 1 : k < Middle + 1 => KeyAt(node, k) < key
  <2>. SUFFICES ASSUME NEW k \in 0 .. Count(node) - 1, k < Middle + 1
                PROVE  KeyAt(node, k) < key
    OBVIOUS
  <2>1. node \in Nodes
    BY DEF Inv, TypeOK
  <2>2. k = Middle \/ k < Middle
    BY <1>1
  <2>3. KeyAt(node, k) <= KeyAt(node, Middle) /\ KeyAt(node, k) \in Nat
    BY <1>1, <2>1, <2>2, NodeFacts DEF KeyAtMiddle
  <2>. QED
    BY <1>1, <2>3 DEF Right, GoesLeft, AtKey, KeyAtMiddle
<1>4. Narrowed'
  BY <1>1, <1>3 DEF Inv, Narrowed, Right
<1>5. Correct'
  BY DEF Correct, Right, Searching
<1>. QED
  BY <1>2, <1>4, <1>5 DEF Inv

LEMMA ReturnStep ==
  ASSUME Inv, Return
  PROVE  Inv'
<1>1. TypeOK' /\ Narrowed'
  BY NodeFacts DEF Inv, TypeOK, Narrowed, Return
<1>2. /\ node \in Nodes /\ key \in Nat
      /\ min_index \in 0 .. Count(node) /\ Count(node) \in Nat
      /\ max_index = min_index /\ min_index \in Nat
  BY NodeFacts, NodesAssumption DEF Inv, TypeOK, Return
<1>3. CASE node.type = "leaf"
  <2>1. /\ node.cells \in Seq(Nat)
        /\ Count(node) = Len(node.cells)
        /\ DOMAIN node.cells = 1 .. Len(node.cells)
    BY <1>2, <1>3, NodeFacts DEF Count
  <2>2. \A k \in DOMAIN node.cells :
          /\ k <= min_index => node.cells[k] < key
          /\ k > min_index => node.cells[k] > key
    <3>. SUFFICES ASSUME NEW k \in DOMAIN node.cells
                  PROVE  /\ k <= min_index => node.cells[k] < key
                         /\ k > min_index => node.cells[k] > key
      OBVIOUS
    <3>1. k - 1 \in 0 .. Count(node) - 1 /\ KeyAt(node, k - 1) = node.cells[k]
      BY <1>3, <2>1 DEF KeyAt
    <3>. QED
      BY <1>2, <1>3, <2>1, <3>1 DEF Inv, Narrowed
  <2>3. {k \in DOMAIN node.cells : node.cells[k] = key} = {}
    BY <1>2, <2>1, <2>2
  <2>4. {k \in DOMAIN node.cells : node.cells[k] < key} = 1 .. min_index
    BY <1>2, <2>1, <2>2
  <2>5. NumBelow(node, key) = min_index
    BY <1>2, <2>4, InitialSegment DEF NumBelow
  <2>. QED
    BY <1>1, <1>3, <2>3, <2>5 DEF Inv, Correct, Return, LeafPositions
<1>4. CASE node.type = "internal"
  <2>1. Count(node) = node.num /\ Count(node) <= InternalMaxCells
    BY <1>2, <1>4, NodeFacts DEF Count
  <2>2. \A j \in 0 .. Count(node) - 1 : node.seps[j] < key <=> j < min_index
    <3>. SUFFICES ASSUME NEW j \in 0 .. Count(node) - 1
                  PROVE  node.seps[j] < key <=> j < min_index
      OBVIOUS
    <3>1. KeyAt(node, j) = node.seps[j] /\ node.seps[j] \in Nat
      BY <1>2, <1>4, NodeFacts DEF KeyAt
    <3>. QED
      BY <1>2, <1>4, <3>1 DEF Inv, Narrowed
  <2>3. {j \in CellIndex : j < node.num /\ node.seps[j] < key}
          = 0 .. min_index - 1
    BY <1>2, <2>1, <2>2 DEF CellIndex, InternalMaxCells
  <2>4. FindChild(node, key) = min_index
    BY <1>2, <2>3, InitialSegment DEF FindChild
  <2>. QED
    BY <1>1, <1>4, <2>4 DEF Inv, Correct, Return
<1>. QED
  BY <1>2, <1>3, <1>4, NodeFacts

LEMMA InvNext ==
  ASSUME Inv, [Next]_vars
  PROVE  Inv'
<1>1. CASE UNCHANGED vars
  BY <1>1 DEF vars, Inv, TypeOK, Narrowed, Correct
<1>. QED
  BY <1>1, HitStep, LeftStep, RightStep, ReturnStep DEF Next

(* Both loops, on every sorted node: a search that returns has found what
   the statements are modelled with. *)
THEOREM SearchIsCorrect == Spec => []Correct
<1>1. Inv => Correct
  BY DEF Inv
<1>. QED
  BY <1>1, InvInit, InvNext, PTL DEF Spec

(* The indices never leave the node. *)
THEOREM SearchStaysInside == Spec => []TypeOK
<1>1. Inv => TypeOK
  BY DEF Inv
<1>. QED
  BY <1>1, InvInit, InvNext, PTL DEF Spec

(* What Terminates rests on: every turn that goes on leaves fewer cells, so
   there are at most as many turns as cells. *)
THEOREM EachTurnNarrows ==
  Spec => [][Left \/ Right => max_index' - min_index' < max_index - min_index]_vars
<1>1. Inv /\ [Next]_vars =>
        [Left \/ Right => max_index' - min_index' < max_index - min_index]_vars
  <2>. SUFFICES ASSUME Inv, Left \/ Right
                PROVE  max_index' - min_index' < max_index - min_index
    OBVIOUS
  <2>1. Middle \in min_index .. max_index - 1
    BY MiddleInside DEF Inv, Left, Right
  <2>. QED
    BY <2>1, NodeFacts DEF Inv, TypeOK, Left, Right
<1>. QED
  BY <1>1, InvInit, InvNext, PTL DEF Spec

-----------------------------------------------------------------------------
(* The copying loops *)

(* The cells a shift has already moved, one place up. *)
ShiftedAbove ==
  op = "shift" /\ ~done =>
    /\ count < MaxCells /\ cell_num <= i /\ i <= count
    /\ \A k \in Index : k <= i => page[k] = before[k]
    /\ \A k \in Index : i < k /\ k <= count => page[k] = before[k - 1]

(* The cells a split has already put into their leaf. *)
DividedAbove ==
  op = "split" /\ ~done =>
    /\ count = MaxCells
    /\ \A k \in Index : k <= i => page[k] = before[k]
    /\ \A k \in 0 .. MaxCells : i < k => Found(k) = Wanted(k)

IInv == LoopsTypeOK /\ ShiftedAbove /\ DividedAbove /\ AllInOrder

(* The halves: the left one is never the smaller, and no larger than a page. *)
LEMMA Halves ==
  /\ RightHalf \in Nat /\ LeftHalf \in Nat
  /\ RightHalf <= LeftHalf
  /\ 1 <= LeftHalf /\ LeftHalf <= MaxCells
  /\ LeftHalf + RightHalf = MaxCells + 1
BY CellLoopsAssumption DEF RightHalf, LeftHalf

(* i modulo the left count: i itself in the left half, the rest in the right. *)
LEMMA IndexOf ==
  ASSUME i \in 0 .. MaxCells
  PROVE  IndexWithinNode = IF i < LeftHalf THEN i ELSE i - LeftHalf
<1> DEFINE l == LeftHalf
<1>1. l \in Nat /\ 1 <= l /\ i \in Nat /\ i < 2 * l
  BY Halves, CellLoopsAssumption
<1>2. \A m, n \in Nat : 1 <= n /\ m < 2 * n => m % n = IF m < n THEN m ELSE m - n
  OBVIOUS
<1> QED BY <1>1, <1>2 DEF IndexWithinNode

LEMMA InitIInv == LoopsInit => IInv
<1> SUFFICES ASSUME LoopsInit PROVE IInv OBVIOUS
<1> USE CellLoopsAssumption DEF LoopsInit
<1>1. op \in {"shift", "split"} /\ count \in 0 .. MaxCells
  BY DEF Index, CountsWithRoom
<1>2. cell_num \in 0 .. MaxCells /\ i \in -1 .. MaxCells
  BY <1>1
<1>3. LoopsTypeOK
  BY <1>1, <1>2 DEF LoopsTypeOK
<1>4. ShiftedAbove
  BY DEF ShiftedAbove, Index, CountsWithRoom
<1>5. DividedAbove
  BY DEF DividedAbove
<1> QED BY <1>3, <1>4, <1>5 DEF IInv, AllInOrder

(* A turn of the shift: cell i - 1, not yet touched, goes to i. *)
LEMMA ShiftStep == IInv /\ ShiftCell => IInv'
<1> SUFFICES ASSUME IInv, ShiftCell PROVE IInv' OBVIOUS
<1> USE DEF IInv, ShiftCell, Index
<1>1. i \in 1 .. MaxCells - 1 /\ MaxCells \in Nat /\ count \in Nat
  BY CellLoopsAssumption DEF LoopsTypeOK, ShiftedAbove
<1>2. LoopsTypeOK'
  BY <1>1 DEF LoopsTypeOK
<1>3. ShiftedAbove'
  BY <1>1 DEF LoopsTypeOK, ShiftedAbove
<1> QED BY <1>2, <1>3 DEF DividedAbove, AllInOrder

LEMMA PutStep == IInv /\ PutCell => IInv'
<1> SUFFICES ASSUME IInv, PutCell PROVE IInv' OBVIOUS
<1> USE DEF IInv, PutCell, Index
<1>1. i = cell_num /\ count \in 0 .. MaxCells - 1 /\ cell_num \in 0 .. count
      /\ MaxCells \in Nat
  BY CellLoopsAssumption DEF LoopsTypeOK, ShiftedAbove
<1>2. LoopsTypeOK'
  BY <1>1, CellLoopsAssumption DEF LoopsTypeOK
<1>3. AllInOrder'
  BY <1>1 DEF LoopsTypeOK, ShiftedAbove, AllInOrder, Found, Wanted, Total
<1> QED BY <1>2, <1>3 DEF DividedAbove, ShiftedAbove

(* The cell a turn of the split moves is the one that is wanted i-th. *)
LEMMA MovesWanted ==
  ASSUME IInv, op = "split", ~done, i >= 0
  PROVE  CellToMove = Wanted(i) /\ CellToMove \in Cells
<1>1. i \in 0 .. MaxCells /\ cell_num \in 0 .. MaxCells /\ MaxCells \in Nat
  BY CellLoopsAssumption DEF IInv, LoopsTypeOK
<1>2. i < cell_num => i \in Index /\ page[i] = before[i]
  BY <1>1 DEF IInv, DividedAbove, Index
<1>3. i > cell_num => i - 1 \in Index /\ page[i - 1] = before[i - 1]
  BY <1>1 DEF IInv, DividedAbove, Index
<1> QED BY <1>1, <1>2, <1>3, CellLoopsAssumption
        DEF CellToMove, Wanted, IInv, LoopsTypeOK

LEMMA MoveToNewStep == IInv /\ MoveToNew => IInv'
<1> SUFFICES ASSUME IInv, MoveToNew PROVE IInv' OBVIOUS
<1> USE DEF MoveToNew
<1>1. i \in 0 .. MaxCells /\ MaxCells \in Nat
  BY Halves, CellLoopsAssumption DEF IInv, LoopsTypeOK
<1>2. IndexWithinNode = i - LeftHalf /\ IndexWithinNode \in Index
  BY <1>1, IndexOf, Halves DEF Index
<1>3. CellToMove = Wanted(i) /\ CellToMove \in Cells
  BY <1>1, MovesWanted
<1>4. LoopsTypeOK'
  BY <1>1, <1>2, <1>3 DEF IInv, LoopsTypeOK
<1>5. \A k \in 0 .. MaxCells : Wanted(k)' = Wanted(k)
  BY DEF Wanted
<1>6. ASSUME NEW k \in 0 .. MaxCells, i' < k
      PROVE  Found(k)' = Wanted(k)
  <2>1. CASE k = i
    BY <2>1, <1>1, <1>2, <1>3, Halves DEF Found, IInv, LoopsTypeOK
  <2>2. CASE i < k
    <3>1. Found(k) = Wanted(k)
      BY <2>2, <1>1 DEF IInv, DividedAbove
    <3>2. Found(k)' = Found(k)
      BY <2>2, <1>1, <1>2, Halves DEF Found, IInv, LoopsTypeOK
    <3> QED BY <3>1, <3>2
  <2> QED BY <2>1, <2>2, <1>1, <1>6
<1>7. DividedAbove'
  BY <1>1, <1>5, <1>6 DEF IInv, DividedAbove, Index
<1> QED BY <1>4, <1>7 DEF IInv, ShiftedAbove, AllInOrder

LEMMA MoveWithinOldStep == IInv /\ MoveWithinOld => IInv'
<1> SUFFICES ASSUME IInv, MoveWithinOld PROVE IInv' OBVIOUS
<1> USE DEF MoveWithinOld
<1>1. i \in 0 .. MaxCells /\ MaxCells \in Nat
  BY CellLoopsAssumption DEF IInv, LoopsTypeOK
<1>2. IndexWithinNode = i /\ i \in Index
  BY <1>1, IndexOf, Halves DEF Index
<1>3. CellToMove = Wanted(i) /\ CellToMove \in Cells
  BY <1>1, MovesWanted
<1>4. LoopsTypeOK'
  BY <1>1, <1>2, <1>3 DEF IInv, LoopsTypeOK
<1>5. \A k \in 0 .. MaxCells : Wanted(k)' = Wanted(k)
  BY DEF Wanted
<1>6. ASSUME NEW k \in 0 .. MaxCells, i' < k
      PROVE  Found(k)' = Wanted(k)
  <2>1. CASE k = i
    BY <2>1, <1>1, <1>2, <1>3, Halves DEF Found, IInv, LoopsTypeOK
  <2>2. CASE i < k
    <3>1. Found(k) = Wanted(k)
      BY <2>2, <1>1 DEF IInv, DividedAbove
    <3>2. Found(k)' = Found(k)
      BY <2>2, <1>1, <1>2, Halves DEF Found, IInv, LoopsTypeOK, Index
    <3> QED BY <3>1, <3>2
  <2> QED BY <2>1, <2>2, <1>1, <1>6
<1>7. \A k \in Index : k <= i' => page'[k] = before'[k]
  BY <1>1, <1>2 DEF IInv, DividedAbove, LoopsTypeOK, Index
<1>8. DividedAbove'
  BY <1>1, <1>5, <1>6, <1>7 DEF IInv, DividedAbove
<1> QED BY <1>4, <1>8 DEF IInv, ShiftedAbove, AllInOrder

LEMMA DividedStep == IInv /\ Divided => IInv'
<1> SUFFICES ASSUME IInv, Divided PROVE IInv' OBVIOUS
<1> USE DEF IInv, Divided
<1>1. LoopsTypeOK'
  BY Halves, CellLoopsAssumption DEF LoopsTypeOK
<1>2. AllInOrder'
  BY CellLoopsAssumption
     DEF LoopsTypeOK, DividedAbove, AllInOrder, Found, Wanted, Total
<1> QED BY <1>1, <1>2 DEF ShiftedAbove, DividedAbove

LEMMA NextIInv == IInv /\ [LoopsNext]_loop_vars => IInv'
<1> SUFFICES ASSUME IInv, [LoopsNext]_loop_vars PROVE IInv' OBVIOUS
<1>1. CASE UNCHANGED loop_vars
  BY <1>1 DEF loop_vars, IInv, LoopsTypeOK, ShiftedAbove, DividedAbove, AllInOrder,
     Found, Wanted, Total
<1> QED BY <1>1, ShiftStep, PutStep, MoveToNewStep, MoveWithinOldStep,
        DividedStep DEF LoopsNext

(* The indices stay in range, whatever the node (btree_node_leaf_insert,
   btree_node_leaf_split_and_insert, btree_node_internal_insert). *)
THEOREM TypeCorrect == LoopsSpec => []LoopsTypeOK
<1>1. IInv => LoopsTypeOK BY DEF IInv
<1> QED BY <1>1, InitIInv, NextIInv, PTL DEF LoopsSpec

(* Whatever the size of the node and wherever the new cell goes, the loops
   leave the cells in their order with the new one among them. *)
THEOREM OrderKept == LoopsSpec => []AllInOrder
<1>1. IInv => AllInOrder BY DEF IInv
<1> QED BY <1>1, InitIInv, NextIInv, PTL DEF LoopsSpec

(* The place i modulo the left count names in the new leaf is the one after
   the cells of the left half, for every size of a leaf. *)
THEOREM UpperPlaced == LoopsSpec => []UpperCellsFollow
<1>1. IInv => UpperCellsFollow
  <2> SUFFICES ASSUME IInv, op = "split", ~done, i >= LeftHalf
               PROVE  /\ IndexWithinNode = i - LeftHalf
                      /\ IndexWithinNode < RightHalf
    BY DEF UpperCellsFollow
  <2>1. i \in 0 .. MaxCells
    BY Halves, CellLoopsAssumption DEF IInv, LoopsTypeOK
  <2> QED BY <2>1, IndexOf, Halves, CellLoopsAssumption
<1> QED BY <1>1, InitIInv, NextIInv, PTL DEF LoopsSpec
=============================================================================
