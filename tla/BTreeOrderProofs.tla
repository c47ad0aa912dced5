-------------------------- MODULE BTreeOrderProofs --------------------------
(***************************************************************************)
(* The order of the rows in the tree of module BTree, for every leaf size, *)
(* set of ids and content of unwritten memory: both searches are given     *)
(* sorted arrays, and separators are the greatest keys of their leaves.    *)
(*                                                                         *)
(* Duplicates make the invariant, InOrder, weaker than that of a textbook: *)
(* a split whose halves end in the same key may put the upper half to the  *)
(* left of the lower one, and then keys below a separator stand to its     *)
(* right.  There are fewer of them than a split leaves in the lower half,  *)
(* which is what keeps the separators sorted.                              *)
(*                                                                         *)
(* The second half is about the chain of leaves, and what it means for     *)
(* those who read the tree.  With duplicates or without, leaf_next threads *)
(* every leaf once.  As long as no id is stored twice, the thread runs     *)
(* from left to right: then the search finds every row and a scan prints   *)
(* all of them in their order.                                             *)
(***************************************************************************)
EXTENDS BTreeProofs

Sorted(s) == \A i, j \in DOMAIN s : i < j => s[i] <= s[j]
Increasing(s) == \A i, j \in DOMAIN s : i < j => s[i] < s[j]

(* The leaves' cells from left to right, L, and the separators S between
   them, of a root with k separators. *)
InOrder(k, L, S) ==
  /\ \A i \in 0 .. k : Sorted(L[i])
  /\ \A i \in 0 .. k - 1 : S[i] = L[i][Len(L[i])]
  /\ \A i, j \in 0 .. k - 1 : i < j => S[i] <= S[j]
  /\ \A i \in 1 .. k :
       /\ S[i - 1] <= L[i][Len(L[i])]
       /\ \A c \in DOMAIN L[i] : c >= LeftSplitCount => S[i - 1] <= L[i][c]

(* What duplicates spoil: no key on the right of a separator is as small. *)
Apart(k, L, S) ==
  /\ \A i \in 0 .. k : Increasing(L[i])
  /\ \A i \in 1 .. k : \A c \in DOMAIN L[i] : S[i - 1] < L[i][c]

-----------------------------------------------------------------------------
(* Where the searches end, on sorted arrays *)

LEMMA CountBelow ==
  ASSUME NEW lo \in Nat, NEW hi \in Nat, lo <= hi + 1, NEW a, NEW key \in Nat,
         \A i \in lo .. hi : a[i] \in Nat,
         \A i, j \in lo .. hi : i < j => a[i] <= a[j]
  PROVE  LET count == Cardinality({i \in lo .. hi : a[i] < key})
         IN  /\ count \in 0 .. hi + 1 - lo
             /\ \A i \in lo .. hi : a[i] < key <=> i < lo + count
<1>. DEFINE below == {i \in lo .. hi : a[i] < key}
            count == Cardinality(below)
<1>1. IsFiniteSet(below) /\ count \in Nat
  <2>1. IsFiniteSet(lo .. hi) /\ below \in SUBSET (lo .. hi)
    BY FS_Interval
  <2>2. IsFiniteSet(below)
    BY <2>1, FS_Subset
  <2>. QED
    BY <2>2, FS_CardinalityType
<1>2. count <= hi + 1 - lo
  <2>1. below \subseteq lo .. hi /\ IsFiniteSet(lo .. hi)
    BY FS_Interval
  <2>2. Cardinality(lo .. hi) = hi + 1 - lo
    BY FS_Interval
  <2>. QED
    BY <2>1, <2>2, FS_Subset
<1>3. ASSUME NEW i \in lo .. hi, a[i] < key
      PROVE  i < lo + count
  <2>1. lo .. i \subseteq below
    <3>1. ASSUME NEW j \in lo .. i PROVE j \in below
      <4>1. j \in lo .. hi /\ (j < i \/ j = i) /\ a[j] \in Nat /\ a[i] \in Nat
        OBVIOUS
      <4>. QED
        BY <1>3, <4>1
    <3>. QED
      BY <3>1
  <2>2. Cardinality(lo .. i) = i + 1 - lo
    BY FS_Interval
  <2>3. Cardinality(lo .. i) <= count
    BY <1>1, <2>1, FS_Subset
  <2>. QED
    BY <1>1, <2>2, <2>3
<1>4. ASSUME NEW i \in lo .. hi, ~(a[i] < key)
      PROVE  ~(i < lo + count)
  <2>1. below \subseteq lo .. i - 1
    <3>1. ASSUME NEW j \in below PROVE j \in lo .. i - 1
      <4>1. j \in lo .. hi /\ a[j] \in Nat /\ a[i] \in Nat /\ a[j] < key
        OBVIOUS
      <4>2. ~(i < j) /\ i # j
        BY <1>4, <4>1
      <4>. QED
        BY <4>1, <4>2
    <3>. QED
      BY <3>1
  <2>2. IsFiniteSet(lo .. i - 1) /\ Cardinality(lo .. i - 1) = i - lo
    BY FS_Interval
  <2>3. count <= i - lo
    BY <2>1, <2>2, FS_Subset
  <2>. QED
    BY <1>1, <2>3
<1>. QED
  BY <1>1, <1>2, <1>3, <1>4

(* btree_node_internal_find_child divides the separators at the key. *)
LEMMA FoundChild ==
  ASSUME NEW page \in Page, page.num \in 0 .. InternalMaxCells, NEW key \in Nat,
         \A i, j \in 0 .. page.num - 1 : i < j => page.seps[i] <= page.seps[j]
  PROVE  /\ FindChild(page, key) \in 0 .. page.num
         /\ \A i \in 0 .. page.num - 1 :
              page.seps[i] < key <=> i < FindChild(page, key)
<1>1. page.num \in Nat /\ page.seps \in [CellIndex -> Nat]
  BY PageType
<1>2. FindChild(page, key) \in 0 .. page.num
  BY FindChildRange
<1>3. CASE page.num = 0
  BY <1>2, <1>3
<1>4. CASE page.num > 0
  <2>. DEFINE last == page.num - 1
  <2>1. last \in Nat /\ 0 <= last + 1
    BY <1>1, <1>4
  <2>2. \A i \in 0 .. last : i \in CellIndex /\ page.seps[i] \in Nat
    BY <1>1 DEF CellIndex, InternalMaxCells
  <2>3. {j \in CellIndex : j < page.num /\ page.seps[j] < key}
          = {j \in 0 .. last : page.seps[j] < key}
    BY <1>1, <2>2 DEF CellIndex
  <2>4. FindChild(page, key) = Cardinality({j \in 0 .. last : page.seps[j] < key})
    BY <2>3 DEF FindChild
  <2>. DEFINE seps == page.seps
  <2>5. \A i, j \in 0 .. last : i < j => seps[i] <= seps[j]
    OBVIOUS
  <2>. HIDE DEF last, seps
  <2>6. LET count == Cardinality({i \in 0 .. last : seps[i] < key})
        IN  \A i \in 0 .. last : seps[i] < key <=> i < 0 + count
    BY <2>1, <2>2, <2>5, CountBelow DEF seps
  <2>7. {i \in 0 .. last : seps[i] < key} = {j \in 0 .. last : page.seps[j] < key}
    BY DEF seps
  <2>8. \A i \in 0 .. last : seps[i] < key <=> i < FindChild(page, key)
    BY <1>2, <2>4, <2>6, <2>7
  <2>. QED
    BY <1>2, <2>8 DEF last, seps
<1>. QED
  BY <1>1, <1>3, <1>4

(* The position in a leaf divides its cells at the key; if the key is there, it
   is the place of one. *)
Divides(cells, pos, key) ==
  /\ pos \in 0 .. Len(cells)
  /\ \A i \in 1 .. Len(cells) :
       IF i <= pos THEN cells[i] <= key ELSE key <= cells[i]
  /\ (\E i \in 1 .. Len(cells) : cells[i] = key)
       => pos < Len(cells) /\ cells[pos + 1] = key

LEMMA FoundPosition ==
  ASSUME NEW page, page.cells \in Seq(Nat), NEW key \in Nat,
         Sorted(page.cells), NEW pos \in LeafPositions(page, key)
  PROVE  Divides(page.cells, pos, key)
<1>. DEFINE cells == page.cells
            len == Len(cells)
            hits == {i \in DOMAIN cells : cells[i] = key}
<1>1. len \in Nat /\ DOMAIN cells = 1 .. len /\ \A i \in 1 .. len : cells[i] \in Nat
  OBVIOUS
<1>2. pos \in 0 .. len
  BY LeafPositionRange
<1>. HIDE DEF cells, len
<1>3. CASE hits = {}
  <2>1. pos = Cardinality({i \in 1 .. len : cells[i] < key})
    BY <1>1, <1>3 DEF LeafPositions, NumBelow, cells
  <2>2. \A i, j \in 1 .. len : i < j => cells[i] <= cells[j]
    BY <1>1 DEF Sorted, cells
  <2>3. \A i \in 1 .. len : cells[i] < key <=> i < 1 + pos
    <3>1. 1 \in Nat /\ 1 <= len + 1
      BY <1>1
    <3>2. LET count == Cardinality({i \in 1 .. len : cells[i] < key})
          IN  \A i \in 1 .. len : cells[i] < key <=> i < 1 + count
      BY <1>1, <2>2, <3>1, CountBelow
    <3>. QED
      BY <2>1, <3>2
  <2>4. \A i \in 1 .. len : IF i <= pos THEN cells[i] <= key ELSE key <= cells[i]
    <3>. TAKE i \in 1 .. len
    <3>1. (i <= pos <=> i < 1 + pos) /\ cells[i] \in Nat
      BY <1>1, <1>2
    <3>. QED
      BY <2>3, <3>1
  <2>5. ~\E i \in 1 .. len : cells[i] = key
    BY <1>1, <1>3
  <2>. QED
    BY <1>2, <2>4, <2>5 DEF Divides, cells, len
<1>4. CASE hits # {}
  <2>1. PICK h \in 1 .. len : cells[h] = key /\ pos = h - 1
    BY <1>1, <1>4 DEF LeafPositions, cells
  <2>2. \A i \in 1 .. len : /\ i < h => cells[i] <= key
                            /\ h < i => key <= cells[i]
    BY <1>1, <2>1 DEF Sorted, cells
  <2>3. \A i \in 1 .. len : (i <= pos <=> i < h) /\ (i < h \/ i = h \/ h < i)
    BY <1>1, <2>1
  <2>4. \A i \in 1 .. len : IF i <= pos THEN cells[i] <= key ELSE key <= cells[i]
    BY <1>1, <2>1, <2>2, <2>3
  <2>. QED
    BY <1>1, <1>2, <2>1, <2>4 DEF Divides, cells, len
<1>. QED
  BY <1>3, <1>4

(* The cell at each place after an insertion. *)
LEMMA InsertedCells ==
  ASSUME NEW cells \in Seq(Nat), NEW pos \in 0 .. Len(cells), NEW key \in Nat
  PROVE  LET new == InsertAt(cells, pos + 1, key)
         IN  /\ new \in Seq(Nat) /\ Len(new) = Len(cells) + 1
             /\ \A i \in 1 .. Len(cells) + 1 :
                  new[i] = IF i <= pos THEN cells[i]
                           ELSE IF i = pos + 1 THEN key ELSE cells[i - 1]
<1>. DEFINE before == SubSeq(cells, 1, pos)
            after == SubSeq(cells, pos + 1, Len(cells))
            upto == before \o <<key>>
<1>1. /\ before \in Seq(Nat) /\ Len(before) = pos
      /\ \A i \in 1 .. pos : before[i] = cells[i]
  OBVIOUS
<1>2. /\ after \in Seq(Nat) /\ Len(after) = Len(cells) - pos
      /\ \A i \in 1 .. Len(cells) - pos : after[i] = cells[pos + i]
  OBVIOUS
<1>3. (pos + 1) - 1 = pos
  OBVIOUS
<1>4. InsertAt(cells, pos + 1, key) = upto \o after
  BY <1>3, Zenon DEF InsertAt
<1>5. /\ upto \in Seq(Nat) /\ Len(upto) = pos + 1
      /\ \A i \in 1 .. pos + 1 : upto[i] = IF i <= pos THEN cells[i] ELSE key
  BY <1>1, ConcatProperties
<1>. HIDE DEF before, after, upto
<1>. DEFINE whole == upto \o after
<1>6. /\ whole \in Seq(Nat) /\ Len(whole) = Len(cells) + 1
      /\ \A i \in 1 .. Len(cells) + 1 :
           whole[i] = IF i <= pos + 1 THEN upto[i] ELSE after[i - (pos + 1)]
  <2>1. /\ whole \in Seq(Nat) /\ Len(whole) = Len(upto) + Len(after)
        /\ \A i \in 1 .. Len(upto) + Len(after) :
             whole[i] = IF i <= Len(upto) THEN upto[i] ELSE after[i - Len(upto)]
    BY <1>2, <1>5, ConcatProperties
  <2>2. Len(upto) = pos + 1 /\ Len(upto) + Len(after) = Len(cells) + 1
    BY <1>2, <1>5
  <2>. QED
    BY <2>1, <2>2
<1>. HIDE DEF whole
<1>7. ASSUME NEW i \in 1 .. Len(cells) + 1
      PROVE  whole[i] = IF i <= pos THEN cells[i]
                      ELSE IF i = pos + 1 THEN key ELSE cells[i - 1]
  <2>1. CASE i <= pos + 1
    BY SMTT(30), <1>5, <1>6, <2>1
  <2>2. CASE i > pos + 1
    <3>. DEFINE j == i - (pos + 1)
    <3>1. j \in 1 .. Len(cells) - pos /\ pos + j = i - 1
      BY <2>2
    <3>2. whole[i] = after[j]
      BY <1>6, <2>2
    <3>3. after[j] = cells[pos + j]
      BY <1>2, <3>1
    <3>4. whole[i] = cells[i - 1]
      BY <3>1, <3>2, <3>3
    <3>5. ~(i <= pos) /\ i # pos + 1
      BY <2>2
    <3>. QED
      BY <3>4, <3>5
  <2>. QED
    BY <2>1, <2>2
<1>8. whole = InsertAt(cells, pos + 1, key)
  BY <1>4 DEF whole
<1>. QED
  BY <1>6, <1>7, <1>8

-----------------------------------------------------------------------------
(* The order after an insertion and after a split, without any pages *)

LEMMA InsertedOrder ==
  ASSUME NEW cells \in Seq(Nat), NEW pos, NEW key \in Nat, Sorted(cells),
         Divides(cells, pos, key)
  PROVE  LET new == InsertAt(cells, pos + 1, key)
         IN  /\ Sorted(new)
             /\ Increasing(cells) /\ (\A i \in 1 .. Len(cells) : cells[i] # key)
                  => Increasing(new)
<1>. DEFINE new == InsertAt(cells, pos + 1, key)
            len == Len(cells)
<1>1. /\ len \in Nat /\ pos \in 0 .. len
      /\ \A i \in 1 .. len : cells[i] \in Nat
      /\ \A i \in 1 .. len : IF i <= pos THEN cells[i] <= key ELSE key <= cells[i]
      /\ \A i, j \in 1 .. len : i < j => cells[i] <= cells[j]
  BY DEF Divides, Sorted
<1>2. /\ DOMAIN new = 1 .. len + 1
      /\ \A i \in 1 .. len + 1 : new[i] = IF i <= pos THEN cells[i]
                                          ELSE IF i = pos + 1 THEN key
                                          ELSE cells[i - 1]
  BY <1>1, InsertedCells
<1>. HIDE DEF new, len
<1>3. Sorted(new)
  <2>. SUFFICES ASSUME NEW i \in 1 .. len + 1, NEW j \in 1 .. len + 1, i < j
                PROVE  new[i] <= new[j]
    BY <1>2 DEF Sorted
  <2>1. CASE j <= pos
    BY <1>1, <1>2, <2>1
  <2>2. CASE j = pos + 1
    BY <1>1, <1>2, <2>2
  <2>3. CASE j > pos + 1
    <3>1. new[j] = cells[j - 1] /\ j - 1 \in 1 .. len /\ j - 1 > pos
      BY <1>1, <1>2, <2>3
    <3>2. key <= cells[j - 1] /\ cells[j - 1] \in Nat
      BY <1>1, <3>1
    <3>3. CASE i <= pos
      <4>1. new[i] = cells[i] /\ cells[i] <= key /\ cells[i] \in Nat
        BY <1>1, <1>2, <3>3
      <4>. QED
        BY <3>1, <3>2, <4>1
    <3>5. CASE i = pos + 1
      <4>1. new[i] = key
        BY <1>1, <1>2, <3>5
      <4>. QED
        BY <3>1, <3>2, <4>1
    <3>4. CASE i > pos + 1
      <4>1. new[i] = cells[i - 1] /\ i - 1 \in 1 .. len /\ i - 1 < j - 1
        BY <1>1, <1>2, <3>4
      <4>. QED
        BY <1>1, <3>1, <4>1
    <3>. QED
      BY <1>1, <3>3, <3>4, <3>5
  <2>. QED
    BY <1>1, <2>1, <2>2, <2>3
<1>4. ASSUME Increasing(cells), \A i \in 1 .. len : cells[i] # key
      PROVE  Increasing(new)
  <2>1. \A i, j \in 1 .. len : i < j => cells[i] < cells[j]
    BY <1>4 DEF Increasing, len
  <2>2. \A i \in 1 .. len : IF i <= pos THEN cells[i] < key ELSE key < cells[i]
    BY <1>1, <1>4
  <2>. SUFFICES ASSUME NEW i \in 1 .. len + 1, NEW j \in 1 .. len + 1, i < j
                PROVE  new[i] < new[j]
    BY <1>2 DEF Increasing
  <2>3. CASE j <= pos
    <3>1. i \in 1 .. len /\ j \in 1 .. len /\ i <= pos
      BY <1>1, <2>3
    <3>2. new[i] = cells[i] /\ new[j] = cells[j]
      BY <1>2, <2>3, <3>1
    <3>. QED
      BY <2>1, <3>1, <3>2
  <2>4. CASE j = pos + 1
    <3>1. i \in 1 .. len /\ i <= pos
      BY <1>1, <2>4
    <3>2. new[i] = cells[i] /\ new[j] = key /\ cells[i] < key
      BY <1>1, <1>2, <2>2, <2>4, <3>1
    <3>. QED
      BY <3>2
  <2>5. CASE j > pos + 1
    <3>1. new[j] = cells[j - 1] /\ j - 1 \in 1 .. len /\ j - 1 > pos
      BY <1>1, <1>2, <2>5
    <3>2. key < cells[j - 1] /\ cells[j - 1] \in Nat
      BY <1>1, <2>2, <3>1
    <3>3. CASE i <= pos
      <4>1. new[i] = cells[i] /\ cells[i] < key /\ cells[i] \in Nat
        BY <1>1, <1>2, <2>2, <3>3
      <4>. QED
        BY <3>1, <3>2, <4>1
    <3>5. CASE i = pos + 1
      <4>1. new[i] = key
        BY <1>1, <1>2, <3>5
      <4>. QED
        BY <3>1, <3>2, <4>1
    <3>4. CASE i > pos + 1
      <4>1. new[i] = cells[i - 1] /\ i - 1 \in 1 .. len /\ i - 1 < j - 1
        BY <1>1, <1>2, <3>4
      <4>. QED
        BY <2>1, <3>1, <4>1
    <3>. QED
      BY <1>1, <3>3, <3>4, <3>5
  <2>. QED
    BY <1>1, <2>3, <2>4, <2>5
<1>. QED
  BY <1>3, <1>4 DEF new, len

(* Cells that were at their place or behind it stay there, and the last one
   is still the last if the key went in front of it. *)
LEMMA InsertedAbove ==
  ASSUME NEW cells \in Seq(Nat), Len(cells) > 0, NEW pos, NEW key \in Nat,
         Divides(cells, pos, key), NEW low \in Nat, low < key,
         NEW first \in Nat \ {0},
         \A c \in 1 .. Len(cells) : c >= first => low <= cells[c],
         low <= cells[Len(cells)]
  PROVE  LET new == InsertAt(cells, pos + 1, key)
         IN  /\ \A c \in 1 .. Len(cells) + 1 : c >= first => low <= new[c]
             /\ low <= new[Len(cells) + 1]
<1>. DEFINE new == InsertAt(cells, pos + 1, key)
            len == Len(cells)
<1>1. /\ len \in Nat \ {0} /\ pos \in 0 .. len
      /\ \A i \in 1 .. len : cells[i] \in Nat
      /\ \A i \in 1 .. len : IF i <= pos THEN cells[i] <= key ELSE key <= cells[i]
  BY DEF Divides
<1>2. \A i \in 1 .. len + 1 : new[i] = IF i <= pos THEN cells[i]
                                       ELSE IF i = pos + 1 THEN key
                                       ELSE cells[i - 1]
  BY <1>1, InsertedCells
<1>3. \A c \in 1 .. len : c >= first => low <= cells[c]
  OBVIOUS
<1>4. low <= cells[len]
  OBVIOUS
<1>. HIDE DEF new, len
<1>5. ASSUME NEW c \in 1 .. len + 1, c >= first \/ c = len + 1
      PROVE  low <= new[c]
  <2>1. CASE c <= pos
    BY <1>1, <1>2, <1>3, <1>5, <2>1
  <2>2. CASE c = pos + 1
    <3>1. ~(c <= pos)
      BY <1>1, <2>2
    <3>2. new[c] = key
      BY <1>2, <2>2, <3>1
    <3>. QED
      BY <3>2
  <2>3. CASE c > pos + 1
    <3>1. c - 1 \in 1 .. len /\ ~(c - 1 <= pos) /\ new[c] = cells[c - 1]
      BY <1>1, <1>2, <2>3
    <3>2. key <= cells[c - 1] /\ cells[c - 1] \in Nat
      BY <1>1, <3>1
    <3>. QED
      BY <3>1, <3>2
  <2>. QED
    BY <1>1, <2>1, <2>2, <2>3
<1>. QED
  BY <1>1, <1>5 DEF new, len

(* The last cell is still the last if the key is not above it. *)
LEMMA InsertedLast ==
  ASSUME NEW cells \in Seq(Nat), Len(cells) > 0, NEW pos, NEW key \in Nat,
         Divides(cells, pos, key), key <= cells[Len(cells)]
  PROVE  InsertAt(cells, pos + 1, key)[Len(cells) + 1] = cells[Len(cells)]
<1>. DEFINE new == InsertAt(cells, pos + 1, key)
            len == Len(cells)
<1>1. /\ len \in Nat \ {0} /\ pos \in 0 .. len /\ cells[len] \in Nat
      /\ \A i \in 1 .. len : IF i <= pos THEN cells[i] <= key ELSE key <= cells[i]
      /\ (\E i \in 1 .. len : cells[i] = key) => pos < len
  BY DEF Divides
<1>2. \A i \in 1 .. len + 1 : new[i] = IF i <= pos THEN cells[i]
                                       ELSE IF i = pos + 1 THEN key
                                       ELSE cells[i - 1]
  BY <1>1, InsertedCells
<1>3. key <= cells[len]
  OBVIOUS
<1>. HIDE DEF new, len
<1>4. pos # len
  <2>1. ASSUME pos = len PROVE FALSE
    <3>1. len \in 1 .. len /\ len <= pos
      BY <1>1, <2>1
    <3>2. cells[len] <= key
      BY <1>1, <3>1
    <3>3. cells[len] = key
      BY <1>1, <1>3, <3>2
    <3>. QED
      BY <1>1, <2>1, <3>1, <3>3
  <2>. QED
    BY <2>1
<1>5. /\ ~(len + 1 <= pos) /\ len + 1 # pos + 1
      /\ len + 1 \in 1 .. len + 1 /\ (len + 1) - 1 = len
  BY <1>1, <1>4
<1>6. new[len + 1] = cells[len]
  BY <1>2, <1>5
<1>. QED
  BY <1>6 DEF new, len

LEMMA InsertedBeyond ==
  ASSUME NEW cells \in Seq(Nat), NEW pos \in 0 .. Len(cells), NEW key \in Nat,
         NEW low \in Nat, low < key, \A c \in 1 .. Len(cells) : low < cells[c]
  PROVE  \A c \in 1 .. Len(cells) + 1 : low < InsertAt(cells, pos + 1, key)[c]
<1>. DEFINE new == InsertAt(cells, pos + 1, key)
            len == Len(cells)
<1>3. /\ len \in Nat /\ pos \in 0 .. len
      /\ \A c \in 1 .. len : low < cells[c]
  OBVIOUS
<1>4. \A i \in 1 .. len + 1 : new[i] = IF i <= pos THEN cells[i]
                                       ELSE IF i = pos + 1 THEN key
                                       ELSE cells[i - 1]
  BY InsertedCells
<1>. HIDE DEF new, len
<1>1. /\ len \in Nat /\ pos \in 0 .. len
      /\ \A c \in 1 .. len : low < cells[c]
      /\ \A i \in 1 .. len + 1 : new[i] = IF i <= pos THEN cells[i]
                                          ELSE IF i = pos + 1 THEN key
                                          ELSE cells[i - 1]
  BY <1>3, <1>4
<1>2. ASSUME NEW c \in 1 .. len + 1
      PROVE  low < new[c]
  <2>1. CASE c <= pos
    <3>1. c \in 1 .. len
      BY <1>1, <2>1
    <3>. QED
      BY <1>1, <2>1, <3>1
  <2>2. CASE c = pos + 1
    <3>1. ~(c <= pos)
      BY <1>1, <2>2
    <3>. QED
      BY <1>1, <2>2, <3>1
  <2>3. CASE c > pos + 1
    <3>1. c - 1 \in 1 .. len /\ ~(c <= pos) /\ c # pos + 1
      BY <1>1, <2>3
    <3>. QED
      BY <1>1, <3>1
  <2>. QED
    BY <1>1, <2>1, <2>2, <2>3
<1>. QED
  BY <1>2 DEF new, len

LEMMA OrderAfterInsert ==
  ASSUME NEW k \in Nat, NEW L \in [0 .. k -> Seq(Nat)],
         NEW S, \A j \in 0 .. k - 1 : S[j] \in Nat,
         \A i \in 0 .. k : Len(L[i]) > 0,
         InOrder(k, L, S),
         NEW i \in 0 .. k, NEW key \in Nat,
         i > 0 => S[i - 1] < key, i < k => key <= S[i],
         NEW pos, Divides(L[i], pos, key)
  PROVE  LET M == [L EXCEPT ![i] = InsertAt(L[i], pos + 1, key)]
         IN  /\ InOrder(k, M, S)
             /\ Apart(k, L, S) /\ (\A c \in DOMAIN L[i] : L[i][c] # key)
                  => Apart(k, M, S)
<1>. DEFINE old == L[i]
            new == InsertAt(old, pos + 1, key)
            M == [L EXCEPT ![i] = new]
<1>1. /\ old \in Seq(Nat) /\ Len(old) > 0 /\ DOMAIN old = 1 .. Len(old)
      /\ pos \in 0 .. Len(old) /\ Divides(old, pos, key)
  BY DEF Divides
<1>2. M[i] = new /\ \A j \in 0 .. k : j # i => M[j] = L[j]
  OBVIOUS
<1>3. /\ \A j \in 0 .. k : Sorted(L[j])
      /\ \A j \in 0 .. k - 1 : S[j] = L[j][Len(L[j])]
      /\ \A j, l \in 0 .. k - 1 : j < l => S[j] <= S[l]
      /\ \A j \in 1 .. k :
           /\ S[j - 1] <= L[j][Len(L[j])]
           /\ \A c \in DOMAIN L[j] : c >= LeftSplitCount => S[j - 1] <= L[j][c]
  BY DEF InOrder
<1>4. Sorted(old) /\ (i < k => S[i] = old[Len(old)] /\ key <= old[Len(old)])
  <2>1. Sorted(L[i])
    BY <1>3
  <2>2. i < k => i \in 0 .. k - 1
    OBVIOUS
  <2>3. i < k => S[i] = L[i][Len(L[i])]
    BY <1>3, <2>2
  <2>4. i < k => key <= S[i]
    OBVIOUS
  <2>. HIDE DEF old
  <2>5. old = L[i]
    BY DEF old
  <2>. QED
    BY <2>1, <2>3, <2>4, <2>5
<1>5. i > 0 => /\ S[i - 1] \in Nat /\ S[i - 1] < key
               /\ S[i - 1] <= old[Len(old)]
               /\ \A c \in DOMAIN old : c >= LeftSplitCount => S[i - 1] <= old[c]
  <2>1. i > 0 => i \in 1 .. k /\ i - 1 \in 0 .. k - 1
    OBVIOUS
  <2>. QED
    BY <1>3, <2>1
<1>. HIDE DEF old
<1>6. /\ Len(new) = Len(old) + 1 /\ DOMAIN new = 1 .. Len(old) + 1
  BY <1>1, InsertedCells
<1>. HIDE DEF new, M
<1>7. Sorted(new)
  BY <1>1, <1>4, InsertedOrder DEF new
<1>8. i < k => new[Len(new)] = S[i]
  BY <1>1, <1>4, <1>6, InsertedLast DEF new
<1>9. i > 0 => /\ S[i - 1] <= new[Len(new)]
               /\ \A c \in DOMAIN new : c >= LeftSplitCount => S[i - 1] <= new[c]
  <2>. SUFFICES ASSUME i > 0
                PROVE  /\ S[i - 1] <= new[Len(old) + 1]
                       /\ \A c \in 1 .. Len(old) + 1 :
                            c >= LeftSplitCount => S[i - 1] <= new[c]
    BY <1>6
  <2>. DEFINE low == S[i - 1]
  <2>1. /\ low \in Nat /\ low < key /\ low <= old[Len(old)]
        /\ \A c \in 1 .. Len(old) : c >= LeftSplitCount => low <= old[c]
    BY <1>1, <1>5
  <2>2. LeftSplitCount \in Nat \ {0}
    BY SplitCounts
  <2>. HIDE DEF low
  <2>3. /\ \A c \in 1 .. Len(old) + 1 : c >= LeftSplitCount => low <= new[c]
        /\ low <= new[Len(old) + 1]
    BY <1>1, <2>1, <2>2, InsertedAbove DEF new
  <2>. QED
    BY <2>3 DEF low
<1>10. InOrder(k, M, S)
  <2>1. \A j \in 0 .. k : Sorted(M[j])
    BY <1>2, <1>3, <1>7
  <2>2. ASSUME NEW j \in 0 .. k - 1
        PROVE  S[j] = M[j][Len(M[j])]
    <3>1. j \in 0 .. k /\ j < k
      OBVIOUS
    <3>2. CASE j = i
      BY <1>2, <1>8, <3>1, <3>2
    <3>3. CASE j # i
      BY <1>2, <1>3, <3>1, <3>3
    <3>. QED
      BY <3>2, <3>3
  <2>3. ASSUME NEW j \in 1 .. k
        PROVE  /\ S[j - 1] <= M[j][Len(M[j])]
               /\ \A c \in DOMAIN M[j] : c >= LeftSplitCount => S[j - 1] <= M[j][c]
    <3>1. j \in 0 .. k /\ j > 0
      OBVIOUS
    <3>2. CASE j = i
      BY <1>2, <1>9, <3>1, <3>2
    <3>3. CASE j # i
      BY <1>2, <1>3, <3>1, <3>3
    <3>. QED
      BY <3>2, <3>3
  <2>. QED
    BY <1>3, <2>1, <2>2, <2>3 DEF InOrder
<1>11. ASSUME Apart(k, L, S), \A c \in DOMAIN L[i] : L[i][c] # key
       PROVE  Apart(k, M, S)
  <2>1. Increasing(old) /\ \A c \in 1 .. Len(old) : old[c] # key
    BY <1>1, <1>11 DEF old, Apart
  <2>2. Increasing(new)
    BY <1>1, <1>4, <2>1, InsertedOrder DEF new
  <2>3. \A j \in 0 .. k : Increasing(M[j])
    BY <1>2, <1>11, <2>2 DEF Apart
  <2>4. ASSUME i > 0
        PROVE  \A c \in DOMAIN new : S[i - 1] < new[c]
    <3>. DEFINE low == S[i - 1]
    <3>1. i \in 1 .. k
      BY <2>4
    <3>2. low \in Nat /\ low < key /\ \A c \in 1 .. Len(old) : low < old[c]
      BY <1>1, <1>5, <1>11, <2>4, <3>1 DEF Apart, old
    <3>. HIDE DEF low
    <3>3. \A c \in 1 .. Len(old) + 1 : low < new[c]
      BY <1>1, <3>2, InsertedBeyond DEF new
    <3>. QED
      BY <1>6, <3>3 DEF low
  <2>5. ASSUME NEW j \in 1 .. k, NEW c \in DOMAIN M[j]
        PROVE  S[j - 1] < M[j][c]
    <3>1. j \in 0 .. k /\ j > 0
      OBVIOUS
    <3>2. CASE j = i
      BY <1>2, <2>4, <2>5, <3>1, <3>2
    <3>3. CASE j # i
      BY <1>2, <1>11, <2>5, <3>1, <3>3 DEF Apart
    <3>. QED
      BY <3>2, <3>3
  <2>. QED
    BY <2>3, <2>5 DEF Apart
<1>. QED
  BY <1>10, <1>11 DEF M, new, old

(* Child i of a node is replaced by two, A and then B, with m between them. *)
Halved(k, L1, M, i, A, B) ==
  \A j \in 0 .. k + 1 : L1[j] = IF j < i THEN M[j]
                                ELSE IF j = i THEN A
                                ELSE IF j = i + 1 THEN B ELSE M[j - 1]

(* Separator m is put in place i, the ones from there on go one place up. *)
Spread(i, S1, S, k, m) ==
  \A j \in 0 .. k : S1[j] = IF j < i THEN S[j] ELSE IF j = i THEN m ELSE S[j - 1]

(* What lets A and B take the place of child i. *)
Fit(k, S, i, A, B, m) ==
  /\ Sorted(A) /\ Sorted(B)
  /\ A[Len(A)] = m /\ m <= B[Len(B)]
  /\ i < k => B[Len(B)] = S[i]
  /\ \A c \in DOMAIN B : c >= LeftSplitCount => m <= B[c]
  /\ i > 0 => /\ S[i - 1] <= m
              /\ \A c \in DOMAIN A : c >= LeftSplitCount => S[i - 1] <= A[c]

FitApart(k, S, i, A, B, m) ==
  /\ Increasing(A) /\ Increasing(B)
  /\ \A c \in DOMAIN B : m < B[c]
  /\ i > 0 => \A c \in DOMAIN A : S[i - 1] < A[c]

LEMMA HalvedParts ==
  ASSUME NEW k \in Nat, NEW i \in 0 .. k, NEW L1, NEW M, NEW A, NEW B,
         Halved(k, L1, M, i, A, B)
  PROVE  /\ \A j \in 0 .. i - 1 : L1[j] = M[j]
         /\ L1[i] = A /\ L1[i + 1] = B
         /\ \A j \in i + 2 .. k + 1 : L1[j] = M[j - 1] /\ j - 1 \in 0 .. k
<1>1. \A j \in 0 .. i - 1 : j \in 0 .. k + 1 /\ j < i
  OBVIOUS
<1>2. i \in 0 .. k + 1 /\ i + 1 \in 0 .. k + 1 /\ ~(i < i) /\ ~(i + 1 < i)
      /\ i + 1 # i
  OBVIOUS
<1>3. \A j \in i + 2 .. k + 1 : /\ j \in 0 .. k + 1 /\ ~(j < i) /\ j # i
                                /\ j # i + 1 /\ j - 1 \in 0 .. k
  OBVIOUS
<1>. QED
  BY <1>1, <1>2, <1>3, Zenon DEF Halved

LEMMA SpreadParts ==
  ASSUME NEW k \in Nat, NEW i \in 0 .. k, NEW S1, NEW S, NEW m,
         Spread(i, S1, S, k, m)
  PROVE  /\ \A j \in 0 .. i - 1 : S1[j] = S[j] /\ j \in 0 .. k - 1
         /\ S1[i] = m
         /\ \A j \in i + 1 .. k : S1[j] = S[j - 1] /\ j - 1 \in 0 .. k - 1
<1>1. \A j \in 0 .. i - 1 : j \in 0 .. k /\ j < i /\ j \in 0 .. k - 1
  OBVIOUS
<1>2. i \in 0 .. k /\ ~(i < i)
  OBVIOUS
<1>3. \A j \in i + 1 .. k : /\ j \in 0 .. k /\ ~(j < i) /\ j # i
                            /\ j - 1 \in 0 .. k - 1
  OBVIOUS
<1>. QED
  BY <1>1, <1>2, <1>3, Zenon DEF Spread

LEMMA OrderAfterSplit ==
  ASSUME NEW k \in Nat, NEW M, NEW S, \A j \in 0 .. k - 1 : S[j] \in Nat,
         InOrder(k, M, S), NEW i \in 0 .. k,
         NEW A, NEW B, NEW m \in Nat, Fit(k, S, i, A, B, m),
         NEW L1, Halved(k, L1, M, i, A, B),
         NEW S1, Spread(i, S1, S, k, m)
  PROVE  InOrder(k + 1, L1, S1)
<1>1. /\ \A j \in 0 .. k : Sorted(M[j])
      /\ \A j \in 0 .. k - 1 : S[j] = M[j][Len(M[j])]
      /\ \A j, l \in 0 .. k - 1 : j < l => S[j] <= S[l]
      /\ \A j \in 1 .. k :
           /\ S[j - 1] <= M[j][Len(M[j])]
           /\ \A c \in DOMAIN M[j] : c >= LeftSplitCount => S[j - 1] <= M[j][c]
  BY DEF InOrder
<1>2. /\ \A j \in 0 .. i - 1 : L1[j] = M[j]
      /\ L1[i] = A /\ L1[i + 1] = B
      /\ \A j \in i + 2 .. k + 1 : L1[j] = M[j - 1] /\ j - 1 \in 0 .. k
  BY HalvedParts
<1>3. /\ \A j \in 0 .. i - 1 : S1[j] = S[j] /\ j \in 0 .. k - 1
      /\ S1[i] = m
      /\ \A j \in i + 1 .. k : S1[j] = S[j - 1] /\ j - 1 \in 0 .. k - 1
  BY SpreadParts
<1>4. \A j \in 0 .. k + 1 : \/ j \in 0 .. i - 1 \/ j = i \/ j = i + 1
                            \/ j \in i + 2 .. k + 1
  OBVIOUS
<1>5. \A j \in 0 .. k : j \in 0 .. i - 1 \/ j = i \/ j \in i + 1 .. k
  OBVIOUS
<1>10. /\ Sorted(A) /\ Sorted(B)
       /\ A[Len(A)] = m /\ m <= B[Len(B)]
       /\ i < k => B[Len(B)] = S[i]
       /\ \A c \in DOMAIN B : c >= LeftSplitCount => m <= B[c]
       /\ i > 0 => /\ S[i - 1] <= m
                   /\ \A c \in DOMAIN A : c >= LeftSplitCount => S[i - 1] <= A[c]
  BY DEF Fit
<1>6. \A j \in 0 .. k + 1 : Sorted(L1[j])
  <2>1. \A j \in 0 .. i - 1 : j \in 0 .. k
    OBVIOUS
  <2>. QED
    BY <1>1, <1>2, <1>4, <1>10, <2>1
<1>7. ASSUME NEW j \in 0 .. k
      PROVE  S1[j] = L1[j][Len(L1[j])]
  <2>1. CASE j \in 0 .. i - 1
    BY <1>1, <1>2, <1>3, <2>1
  <2>2. CASE j = i
    BY <1>2, <1>3, <1>10, <2>2
  <2>3. CASE j \in i + 1 .. k
    <3>1. CASE j = i + 1
      <4>1. S1[j] = S[i] /\ i < k
        BY <1>3, <2>3, <3>1
      <4>. QED
        BY <1>2, <1>10, <3>1, <4>1
    <3>2. CASE j # i + 1
      <4>1. j \in i + 2 .. k + 1
        BY <2>3, <3>2
      <4>2. L1[j] = M[j - 1] /\ S1[j] = S[j - 1] /\ j - 1 \in 0 .. k - 1
        BY <1>2, <1>3, <2>3, <4>1
      <4>. QED
        BY <1>1, <4>2
    <3>. QED
      BY <3>1, <3>2
  <2>. QED
    BY <1>5, <2>1, <2>2, <2>3
<1>8. ASSUME NEW j \in 0 .. k, NEW l \in 0 .. k, j < l
      PROVE  S1[j] <= S1[l]
  <2>1. \A g \in 0 .. i - 1 : S[g] <= m
    <3>1. ASSUME NEW g \in 0 .. i - 1 PROVE S[g] <= m
      <4>1. i - 1 \in 0 .. k - 1 /\ g \in 0 .. k - 1 /\ i > 0
            /\ (g = i - 1 \/ g < i - 1)
        OBVIOUS
      <4>2. S[g] \in Nat /\ S[i - 1] \in Nat /\ S[i - 1] <= m
        BY <1>10, <4>1
      <4>3. CASE g < i - 1
        <5>1. S[g] <= S[i - 1]
          BY <1>1, <4>1, <4>3
        <5>. QED
          BY <4>2, <5>1
      <4>. QED
        BY <4>1, <4>2, <4>3
    <3>. QED
      BY <3>1
  <2>2. \A g \in i .. k - 1 : m <= S[g]
    <3>1. ASSUME NEW g \in i .. k - 1 PROVE m <= S[g]
      <4>1. i \in 0 .. k - 1 /\ g \in 0 .. k - 1 /\ (g = i \/ i < g)
        OBVIOUS
      <4>2. S[g] \in Nat /\ S[i] \in Nat /\ m <= S[i]
        BY <1>10, <4>1
      <4>3. S[i] <= S[g]
        BY <1>1, <4>1, <4>2
      <4>. QED
        BY <4>2, <4>3
    <3>. QED
      BY <3>1
  <2>3. CASE j \in 0 .. i - 1 /\ l \in 0 .. i - 1
    BY <1>1, <1>3, <1>8, <2>3
  <2>4. CASE j \in 0 .. i - 1 /\ l = i
    BY <1>3, <2>1, <2>4
  <2>5. CASE j \in 0 .. i - 1 /\ l \in i + 1 .. k
    <3>1. S1[j] = S[j] /\ S1[l] = S[l - 1] /\ j \in 0 .. k - 1
          /\ l - 1 \in 0 .. k - 1 /\ j < l - 1
      BY <1>3, <2>5
    <3>. QED
      BY <1>1, <3>1
  <2>6. CASE j = i /\ l \in i + 1 .. k
    <3>1. S1[j] = m /\ S1[l] = S[l - 1] /\ l - 1 \in i .. k - 1
      BY <1>3, <2>6
    <3>. QED
      BY <2>2, <3>1
  <2>7. CASE j \in i + 1 .. k /\ l \in i + 1 .. k
    <3>1. S1[j] = S[j - 1] /\ S1[l] = S[l - 1] /\ j - 1 \in 0 .. k - 1
          /\ l - 1 \in 0 .. k - 1 /\ j - 1 < l - 1
      BY <1>3, <1>8, <2>7
    <3>. QED
      BY <1>1, <3>1
  <2>8. /\ ~(j = i /\ l = i) /\ ~(j = i /\ l \in 0 .. i - 1)
        /\ ~(j \in i + 1 .. k /\ (l = i \/ l \in 0 .. i - 1))
    BY <1>8
  <2>. QED
    BY <1>5, <2>3, <2>4, <2>5, <2>6, <2>7, <2>8
<1>9. ASSUME NEW j \in 1 .. k + 1
      PROVE  /\ S1[j - 1] <= L1[j][Len(L1[j])]
             /\ \A c \in DOMAIN L1[j] :
                  c >= LeftSplitCount => S1[j - 1] <= L1[j][c]
  <2>1. CASE j \in 0 .. i - 1
    <3>1. L1[j] = M[j] /\ S1[j - 1] = S[j - 1] /\ j \in 1 .. k
      BY <1>2, <1>3, <2>1
    <3>. QED
      BY <1>1, <3>1
  <2>2. CASE j = i
    <3>1. L1[j] = A /\ S1[j - 1] = S[i - 1] /\ i > 0
      BY <1>2, <1>3, <2>2
    <3>. QED
      BY <1>10, <3>1
  <2>3. CASE j = i + 1
    <3>1. L1[j] = B /\ S1[j - 1] = m
      BY <1>2, <1>3, <2>3
    <3>. QED
      BY <1>10, <3>1
  <2>4. CASE j \in i + 2 .. k + 1
    <3>2. j - 1 \in i + 1 .. k /\ j - 1 \in 1 .. k
      BY <2>4
    <3>1. L1[j] = M[j - 1] /\ S1[j - 1] = S[(j - 1) - 1] /\ j - 1 \in 1 .. k
      BY <1>2, <1>3, <2>4, <3>2
    <3>. QED
      BY <1>1, <3>1
  <2>. QED
    BY <1>4, <2>1, <2>2, <2>3, <2>4
<1>. QED
  <2>1. (k + 1) - 1 = k
    OBVIOUS
  <2>. QED
    BY <1>6, <1>7, <1>8, <1>9, <2>1 DEF InOrder

LEMMA ApartAfterSplit ==
  ASSUME NEW k \in Nat, NEW M, NEW S, Apart(k, M, S), NEW i \in 0 .. k,
         NEW A, NEW B, NEW m, FitApart(k, S, i, A, B, m),
         NEW L1, Halved(k, L1, M, i, A, B),
         NEW S1, Spread(i, S1, S, k, m)
  PROVE  Apart(k + 1, L1, S1)
<1>1. /\ \A j \in 0 .. k : Increasing(M[j])
      /\ \A j \in 1 .. k : \A c \in DOMAIN M[j] : S[j - 1] < M[j][c]
  BY DEF Apart
<1>2. /\ \A j \in 0 .. i - 1 : L1[j] = M[j]
      /\ L1[i] = A /\ L1[i + 1] = B
      /\ \A j \in i + 2 .. k + 1 : L1[j] = M[j - 1] /\ j - 1 \in 0 .. k
  BY HalvedParts
<1>3. /\ \A j \in 0 .. i - 1 : S1[j] = S[j]
      /\ S1[i] = m
      /\ \A j \in i + 1 .. k : S1[j] = S[j - 1]
  BY SpreadParts
<1>4. \A j \in 0 .. k + 1 : \/ j \in 0 .. i - 1 \/ j = i \/ j = i + 1
                            \/ j \in i + 2 .. k + 1
  OBVIOUS
<1>7. /\ Increasing(A) /\ Increasing(B)
      /\ \A c \in DOMAIN B : m < B[c]
      /\ i > 0 => \A c \in DOMAIN A : S[i - 1] < A[c]
  BY DEF FitApart
<1>5. \A j \in 0 .. k + 1 : Increasing(L1[j])
  <2>1. \A j \in 0 .. i - 1 : j \in 0 .. k
    OBVIOUS
  <2>. QED
    BY <1>1, <1>2, <1>4, <1>7, <2>1
<1>6. ASSUME NEW j \in 1 .. k + 1
      PROVE  \A c \in DOMAIN L1[j] : S1[j - 1] < L1[j][c]
  <2>1. CASE j \in 0 .. i - 1
    <3>1. L1[j] = M[j] /\ S1[j - 1] = S[j - 1] /\ j \in 1 .. k
      BY <1>2, <1>3, <2>1
    <3>. QED
      BY <1>1, <3>1
  <2>2. CASE j = i
    <3>1. L1[j] = A /\ S1[j - 1] = S[i - 1] /\ i > 0
      BY <1>2, <1>3, <2>2
    <3>. QED
      BY <1>7, <3>1
  <2>3. CASE j = i + 1
    <3>1. L1[j] = B /\ S1[j - 1] = m
      BY <1>2, <1>3, <2>3
    <3>. QED
      BY <1>7, <3>1
  <2>4. CASE j \in i + 2 .. k + 1
    <3>2. j - 1 \in i + 1 .. k /\ j - 1 \in 1 .. k
      BY <2>4
    <3>1. L1[j] = M[j - 1] /\ S1[j - 1] = S[(j - 1) - 1] /\ j - 1 \in 1 .. k
      BY <1>2, <1>3, <2>4, <3>2
    <3>. QED
      BY <1>1, <3>1
  <2>. QED
    BY <1>4, <2>1, <2>2, <2>3, <2>4
<1>. QED
  BY <1>5, <1>6 DEF Apart

(* The two halves of a leaf's cells. *)
Halving(cells, lower, upper) ==
  /\ cells \in Seq(Nat) /\ Len(cells) = LeafMaxCells + 1
  /\ lower \in Seq(Nat) /\ Len(lower) = LeftSplitCount
  /\ upper \in Seq(Nat) /\ Len(upper) = RightSplitCount
  /\ \A c \in 1 .. LeftSplitCount : lower[c] = cells[c]
  /\ \A c \in 1 .. RightSplitCount : upper[c] = cells[LeftSplitCount + c]

LEMMA HalvesCells ==
  ASSUME NEW old \in Page, NEW pos \in 0 .. Len(old.cells), NEW key \in Nat,
         Len(old.cells) = LeafMaxCells
  PROVE  Halving(InsertAt(old.cells, pos + 1, key),
                 LowerHalf(old, pos, key), UpperHalf(old, pos, key))
<1>. DEFINE cells == InsertAt(old.cells, pos + 1, key)
            lower == SubSeq(cells, 1, LeftSplitCount)
            upper == SubSeq(cells, LeftSplitCount + 1, LeafMaxCells + 1)
<1>1. cells \in Seq(Nat) /\ Len(cells) = LeafMaxCells + 1
  BY Inserted, PageType
<1>. HIDE DEF cells
<1>2. \A c \in 1 .. LeafMaxCells + 1 : cells[c] \in Nat
  BY <1>1
<1>3. /\ lower \in Seq(Nat) /\ Len(lower) = LeftSplitCount
      /\ \A c \in 1 .. LeftSplitCount : lower[c] = cells[c]
  BY <1>1, <1>2, SplitCounts, SubSeqProperties
<1>4. /\ upper \in Seq(Nat) /\ Len(upper) = RightSplitCount
      /\ \A c \in 1 .. RightSplitCount : upper[c] = cells[LeftSplitCount + c]
  <2>1. /\ upper \in Seq(Nat) /\ Len(upper) = RightSplitCount
        /\ \A c \in 1 .. RightSplitCount :
             upper[c] = cells[(LeftSplitCount + 1) + c - 1]
    BY <1>1, <1>2, SplitCounts, SubSeqProperties
  <2>2. \A c \in 1 .. RightSplitCount :
          (LeftSplitCount + 1) + c - 1 = LeftSplitCount + c
    BY SplitCounts
  <2>. QED
    BY <2>1, <2>2
<1>. QED
  BY <1>1, <1>3, <1>4 DEF Halving, LowerHalf, UpperHalf, cells

LEMMA HalvesOrder ==
  ASSUME NEW cells, NEW lower, NEW upper, Halving(cells, lower, upper),
         Sorted(cells)
  PROVE  /\ Sorted(lower) /\ Sorted(upper)
         /\ lower[LeftSplitCount] \in Nat
         /\ lower[LeftSplitCount] = cells[LeftSplitCount]
         /\ upper[RightSplitCount] = cells[LeafMaxCells + 1]
         /\ \A c \in 1 .. RightSplitCount :
              /\ upper[c] \in Nat
              /\ lower[LeftSplitCount] <= upper[c]
              /\ upper[c] <= upper[RightSplitCount]
<1>. DEFINE lsc == LeftSplitCount
            rsc == RightSplitCount
            len == LeafMaxCells + 1
<1>1. lsc \in Nat \ {0} /\ rsc \in Nat \ {0} /\ lsc + rsc = len /\ len \in Nat
  BY SplitCounts
<1>2. /\ DOMAIN cells = 1 .. len /\ \A c \in 1 .. len : cells[c] \in Nat
      /\ DOMAIN lower = 1 .. lsc /\ \A c \in 1 .. lsc : lower[c] = cells[c]
      /\ DOMAIN upper = 1 .. rsc /\ \A c \in 1 .. rsc : upper[c] = cells[lsc + c]
  <2>1. /\ cells \in Seq(Nat) /\ Len(cells) = len
        /\ lower \in Seq(Nat) /\ Len(lower) = lsc
        /\ upper \in Seq(Nat) /\ Len(upper) = rsc
        /\ \A c \in 1 .. lsc : lower[c] = cells[c]
        /\ \A c \in 1 .. rsc : upper[c] = cells[lsc + c]
    BY DEF Halving
  <2>. HIDE DEF lsc, rsc, len
  <2>2. DOMAIN cells = 1 .. len /\ \A c \in 1 .. len : cells[c] \in Nat
    BY <2>1
  <2>3. DOMAIN lower = 1 .. lsc /\ DOMAIN upper = 1 .. rsc
    BY <2>1
  <2>. QED
    BY <2>1, <2>2, <2>3
<1>3. \A c, e \in 1 .. len : c < e => cells[c] <= cells[e]
  BY <1>2 DEF Sorted
<1>4. \A c, e \in 1 .. len : c <= e => cells[c] <= cells[e]
  BY <1>1, <1>2, <1>3
<1>. HIDE DEF lsc, rsc, len
<1>5. \A c \in 1 .. lsc : c \in 1 .. len
  BY <1>1
<1>6. \A c \in 1 .. rsc : lsc + c \in 1 .. len /\ lsc <= lsc + c /\ lsc + c <= len
  BY <1>1
<1>7. Sorted(lower)
  BY <1>2, <1>3, <1>5 DEF Sorted
<1>8. Sorted(upper)
  <2>. SUFFICES ASSUME NEW c \in 1 .. rsc, NEW e \in 1 .. rsc, c < e
                PROVE  upper[c] <= upper[e]
    BY <1>2 DEF Sorted
  <2>1. lsc + c < lsc + e
    BY <1>1
  <2>. QED
    BY <1>2, <1>3, <1>6, <2>1
<1>9. lsc \in 1 .. lsc /\ rsc \in 1 .. rsc /\ lsc \in 1 .. len /\ len \in 1 .. len
  BY <1>1
<1>10. /\ lower[lsc] \in Nat /\ lower[lsc] = cells[lsc]
       /\ upper[rsc] = cells[len]
  BY <1>1, <1>2, <1>9
<1>11. \A c \in 1 .. rsc : /\ upper[c] \in Nat /\ lower[lsc] <= upper[c]
                           /\ upper[c] <= upper[rsc]
  BY <1>2, <1>4, <1>6, <1>9, <1>10
<1>. QED
  BY <1>7, <1>8, <1>10, <1>11 DEF lsc, rsc, len

LEMMA HalvesFit ==
  ASSUME NEW k \in Nat, NEW M, NEW S, \A j \in 0 .. k - 1 : S[j] \in Nat,
         InOrder(k, M, S), NEW i \in 0 .. k,
         NEW lower, NEW upper, Halving(M[i], lower, upper)
  PROVE  LET m == lower[LeftSplitCount]
         IN  /\ Fit(k, S, i, lower, upper, m)
             /\ upper[RightSplitCount] = m => Fit(k, S, i, upper, lower, m)
<1>. DEFINE m == lower[LeftSplitCount]
            last == upper[RightSplitCount]
            cells == M[i]
<1>1. /\ Sorted(cells)
      /\ i < k => S[i] = cells[Len(cells)]
      /\ i > 0 => \A c \in DOMAIN cells :
                    c >= LeftSplitCount => S[i - 1] <= cells[c]
  <2>1. i < k => i \in 0 .. k - 1
    OBVIOUS
  <2>2. i > 0 => i \in 1 .. k
    OBVIOUS
  <2>. QED
    BY <2>1, <2>2, Zenon DEF InOrder
<1>. HIDE DEF cells
<1>2. Halving(cells, lower, upper)
  BY DEF cells
<1>3. /\ Sorted(lower) /\ Sorted(upper) /\ m \in Nat
      /\ m = cells[LeftSplitCount] /\ last = cells[LeafMaxCells + 1]
      /\ \A c \in 1 .. RightSplitCount :
           upper[c] \in Nat /\ m <= upper[c] /\ upper[c] <= last
  BY <1>1, <1>2, HalvesOrder
<1>4. /\ Len(cells) = LeafMaxCells + 1 /\ DOMAIN cells = 1 .. LeafMaxCells + 1
      /\ Len(lower) = LeftSplitCount /\ DOMAIN lower = 1 .. LeftSplitCount
      /\ Len(upper) = RightSplitCount /\ DOMAIN upper = 1 .. RightSplitCount
  BY <1>2, SplitCounts DEF Halving
<1>5. i < k => last = S[i]
  BY <1>1, <1>3, <1>4
<1>6. /\ LeftSplitCount \in Nat \ {0} /\ RightSplitCount \in Nat \ {0}
      /\ LeftSplitCount + RightSplitCount = LeafMaxCells + 1
      /\ LeafMaxCells \in Nat
  BY SplitCounts
<1>7. /\ LeftSplitCount \in 1 .. LeafMaxCells + 1
      /\ \A c \in 1 .. LeftSplitCount : c >= LeftSplitCount => c = LeftSplitCount
      /\ RightSplitCount \in 1 .. RightSplitCount
  BY <1>6
<1>. DEFINE low == S[i - 1]
<1>8. i > 0 => low \in Nat /\ low <= m
  <2>1. i > 0 => i - 1 \in 0 .. k - 1
    OBVIOUS
  <2>2. LeftSplitCount >= LeftSplitCount
    BY <1>6
  <2>. QED
    BY <1>1, <1>3, <1>4, <1>7, <2>1, <2>2
<1>. HIDE DEF m, last, low
<1>9. Fit(k, S, i, lower, upper, m)
  <2>1. lower[Len(lower)] = m /\ upper[Len(upper)] = last /\ m <= last
    BY <1>3, <1>4, <1>7 DEF m, last
  <2>2. i > 0 => low <= m /\ \A c \in DOMAIN lower :
                               c >= LeftSplitCount => low <= lower[c]
    BY <1>4, <1>7, <1>8 DEF m
  <2>. QED
    BY <1>3, <1>4, <1>5, <2>1, <2>2 DEF Fit, low
<1>10. ASSUME last = m
       PROVE  Fit(k, S, i, upper, lower, m)
  <2>1. lower[Len(lower)] = m /\ upper[Len(upper)] = m /\ m <= m
    BY <1>3, <1>4, <1>10 DEF m, last
  <2>2. i > 0 => \A c \in DOMAIN upper : low <= upper[c]
    BY <1>3, <1>4, <1>8
  <2>3. \A c \in DOMAIN lower : c >= LeftSplitCount => m <= lower[c]
    BY <1>3, <1>4, <1>7 DEF m
  <2>. QED
    BY <1>3, <1>5, <1>8, <1>10, <2>1, <2>2, <2>3 DEF Fit, low
<1>. QED
  BY <1>9, <1>10 DEF m, last

LEMMA HalvesFitApart ==
  ASSUME NEW k \in Nat, NEW M, NEW S, Apart(k, M, S), NEW i \in 0 .. k,
         NEW lower, NEW upper, Halving(M[i], lower, upper)
  PROVE  /\ FitApart(k, S, i, lower, upper, lower[LeftSplitCount])
         /\ lower[LeftSplitCount] < upper[RightSplitCount]
<1>. DEFINE m == lower[LeftSplitCount]
            cells == M[i]
            lsc == LeftSplitCount
            rsc == RightSplitCount
            low == S[i - 1]
<1>1. /\ \A c, e \in DOMAIN cells : c < e => cells[c] < cells[e]
      /\ i > 0 => \A c \in DOMAIN cells : low < cells[c]
  <2>1. i > 0 => i \in 1 .. k
    OBVIOUS
  <2>. QED
    BY <2>1, Zenon DEF Apart, Increasing
<1>. HIDE DEF cells, low
<1>2. Halving(cells, lower, upper)
  BY DEF cells
<1>3. /\ lsc \in Nat \ {0} /\ rsc \in Nat \ {0} /\ lsc + rsc = LeafMaxCells + 1
      /\ LeafMaxCells \in Nat
  BY SplitCounts
<1>4. /\ DOMAIN cells = 1 .. LeafMaxCells + 1
      /\ DOMAIN lower = 1 .. lsc /\ DOMAIN upper = 1 .. rsc
      /\ \A c \in 1 .. lsc : lower[c] = cells[c]
      /\ \A c \in 1 .. rsc : upper[c] = cells[lsc + c]
  BY <1>2, <1>3 DEF Halving
<1>. HIDE DEF lsc, rsc
<1>5. /\ \A c \in 1 .. lsc : c \in 1 .. LeafMaxCells + 1
      /\ \A c \in 1 .. rsc : lsc + c \in 1 .. LeafMaxCells + 1 /\ lsc < lsc + c
      /\ lsc \in 1 .. lsc /\ rsc \in 1 .. rsc
  BY <1>3
<1>6. Increasing(lower) /\ (i > 0 => \A c \in DOMAIN lower : low < lower[c])
  BY <1>1, <1>4, <1>5 DEF Increasing
<1>7. Increasing(upper)
  <2>. SUFFICES ASSUME NEW c \in 1 .. rsc, NEW e \in 1 .. rsc, c < e
                PROVE  upper[c] < upper[e]
    BY <1>4 DEF Increasing
  <2>1. lsc + c < lsc + e
    BY <1>3
  <2>. QED
    BY <1>1, <1>4, <1>5, <2>1
<1>8. \A c \in DOMAIN upper : m < upper[c]
  <2>1. lower[lsc] = cells[lsc]
    BY <1>4, <1>5
  <2>. QED
    BY <1>1, <1>4, <1>5, <2>1 DEF lsc
<1>9. m < upper[rsc]
  BY <1>4, <1>5, <1>8
<1>. QED
  BY <1>6, <1>7, <1>8, <1>9 DEF FitApart, low, rsc

-----------------------------------------------------------------------------
(* The leaves of a tree from left to right *)

Kid(pages, i) == Child(pages[Root], i)
Fanout(pages) == pages[Root].num
KidCells(pages) == [i \in 0 .. Fanout(pages) |-> pages[Kid(pages, i)].cells]
Separators(pages) == pages[Root].seps
IsNode(pages) == pages[Root].type = "internal"

Ordered(pages) ==
  IF IsNode(pages) THEN InOrder(Fanout(pages), KidCells(pages), Separators(pages))
  ELSE Sorted(pages[Root].cells)

LEMMA NodeFacts ==
  ASSUME NEW n, NEW pages, Sound(n, pages), IsNode(pages)
  PROVE  /\ RootNode(n, pages[Root]) /\ pages[Root] \in Page
         /\ Fanout(pages) \in 1 .. InternalMaxCells /\ n = Fanout(pages) + 2
         /\ n \in Nat
         /\ \A j \in 0 .. Fanout(pages) - 1 : Separators(pages)[j] \in Nat
         /\ \A i \in 0 .. Fanout(pages) :
              LET p == Kid(pages, i)
              IN  /\ p \in 1 .. n - 1 /\ p \in 0 .. n - 1 /\ p # Root
                  /\ pages[p] \in Page /\ pages[p].type = "leaf"
                  /\ ~pages[p].root /\ pages[p].parent = Root
                  /\ pages[p].cells \in Seq(Nat)
                  /\ Len(pages[p].cells) \in 1 .. LeafMaxCells
                  /\ pages[p].num = Len(pages[p].cells)
                  /\ KidCells(pages)[i] = pages[p].cells
<1>1. RootNode(n, pages[Root]) /\ pages \in [0 .. n - 1 -> Page] /\ n \in Nat \ {0}
  BY DEF Sound, RootLeaf, IsNode, UpTo
<1>2. Root \in 0 .. n - 1 /\ pages[Root] \in Page
  BY <1>1 DEF Root
<1>3. Fanout(pages) \in 1 .. InternalMaxCells /\ n = Fanout(pages) + 2
  BY <1>1 DEF RootShape, RootNode, Fanout
<1>4. \A j \in 0 .. Fanout(pages) - 1 : Separators(pages)[j] \in Nat
  <2>1. pages[Root].seps \in [CellIndex -> Nat]
    BY <1>2, PageType
  <2>2. \A j \in 0 .. Fanout(pages) - 1 : j \in CellIndex
    BY <1>3 DEF CellIndex, InternalMaxCells
  <2>. QED
    BY <2>1, <2>2 DEF Separators
<1>5. ASSUME NEW i \in 0 .. Fanout(pages)
      PROVE  LET p == Kid(pages, i)
             IN  /\ p \in 1 .. n - 1 /\ p \in 0 .. n - 1 /\ p # Root
                 /\ pages[p] \in Page /\ pages[p].type = "leaf"
                 /\ ~pages[p].root /\ pages[p].parent = Root
                 /\ pages[p].cells \in Seq(Nat)
                 /\ Len(pages[p].cells) \in 1 .. LeafMaxCells
                 /\ pages[p].num = Len(pages[p].cells)
                 /\ KidCells(pages)[i] = pages[p].cells
  <2>. DEFINE p == Kid(pages, i)
  <2>1. p \in 1 .. n - 1
    BY <1>1, <1>5 DEF RootShape, RootNode, Kid, Fanout
  <2>2. KidCells(pages)[i] = pages[p].cells
    BY <1>5 DEF KidCells
  <2>. HIDE DEF p
  <2>3. p \in 0 .. n - 1 /\ p # Root
    BY <1>1, <2>1 DEF Root
  <2>4. BelowRoot(pages[p]) /\ pages[p] \in Page
    BY <1>1, <2>1, <2>3 DEF Sound
  <2>5. pages[p].cells \in Seq(Nat)
    BY <2>4, PageType
  <2>. QED
    BY <2>1, <2>2, <2>3, <2>4, <2>5 DEF BelowRoot, p
<1>. QED
  BY <1>1, <1>2, <1>3, <1>4, <1>5

LEMMA KidCellsType ==
  ASSUME NEW n, NEW pages, Sound(n, pages), IsNode(pages)
  PROVE  /\ Fanout(pages) \in Nat /\ Fanout(pages) \in 1 .. 3
         /\ KidCells(pages) \in [0 .. Fanout(pages) -> Seq(Nat)]
         /\ \A j \in 0 .. Fanout(pages) : Len(KidCells(pages)[j]) > 0
<1>. DEFINE k == Fanout(pages)
            L == KidCells(pages)
<1>1. k \in 1 .. 3
  BY NodeFacts DEF InternalMaxCells
<1>2. ASSUME NEW j \in 0 .. k
      PROVE  L[j] \in Seq(Nat) /\ Len(L[j]) > 0
  <2>1. /\ L[j] = pages[Kid(pages, j)].cells
        /\ pages[Kid(pages, j)].cells \in Seq(Nat)
        /\ Len(pages[Kid(pages, j)].cells) \in 1 .. LeafMaxCells
    BY <1>2, NodeFacts
  <2>2. Len(L[j]) \in 1 .. LeafMaxCells
    BY <2>1
  <2>. HIDE DEF L
  <2>. QED
    BY <2>1, <2>2, SplitCounts
<1>3. L = [j \in 0 .. k |-> L[j]]
  BY DEF KidCells
<1>. HIDE DEF k, L
<1>4. L \in [0 .. k -> Seq(Nat)]
  BY <1>2, <1>3
<1>. QED
  BY <1>1, <1>2, <1>4 DEF k, L

(* The search ends in the child the key belongs to. *)
Aims(pages, i, key) ==
  /\ i \in 0 .. Fanout(pages)
  /\ i > 0 => Separators(pages)[i - 1] < key
  /\ i < Fanout(pages) => key <= Separators(pages)[i]

LEMMA LeafReached ==
  ASSUME NEW n, NEW pages, Sound(n, pages), IsNode(pages), Ordered(pages),
         NEW key \in Nat
  PROVE  \E i \in 0 .. Fanout(pages) : /\ Aims(pages, i, key)
                                       /\ FindLeaf(pages, key) = Kid(pages, i)
<1>. DEFINE i == FindChild(pages[Root], key)
            k == Fanout(pages)
            S == Separators(pages)
<1>1. /\ pages[Root] \in Page /\ k \in 1 .. InternalMaxCells
      /\ \A j \in 0 .. k - 1 : S[j] \in Nat
  BY NodeFacts
<1>2. \A j, l \in 0 .. k - 1 : j < l => S[j] <= S[l]
  BY DEF Ordered, InOrder
<1>3. i \in 0 .. k /\ \A j \in 0 .. k - 1 : S[j] < key <=> j < i
  <2>1. pages[Root].num \in 0 .. InternalMaxCells
    BY <1>1 DEF Fanout, InternalMaxCells
  <2>. QED
    BY <1>1, <1>2, <2>1, FoundChild DEF Fanout, Separators
<1>. HIDE DEF i
<1>4. Aims(pages, i, key)
  <2>1. i > 0 => i - 1 \in 0 .. k - 1 /\ i - 1 < i
    BY <1>1, <1>3
  <2>2. i < k => i \in 0 .. k - 1 /\ ~(i < i)
    BY <1>1, <1>3
  <2>3. i > 0 => S[i - 1] < key
    BY <1>3, <2>1
  <2>4. i < k => key <= S[i]
    BY <1>1, <1>3, <2>2
  <2>. QED
    BY <1>3, <2>3, <2>4 DEF Aims
<1>5. FindLeaf(pages, key) = Kid(pages, i)
  <2>1. StepDown(pages, Root, key) = Kid(pages, i)
    BY DEF StepDown, IsNode, Kid, i
  <2>2. pages[Kid(pages, i)].type = "leaf"
    BY <1>3, NodeFacts
  <2>. QED
    BY <2>1, <2>2 DEF FindLeaf, StepDown
<1>. QED
  BY <1>3, <1>4, <1>5

-----------------------------------------------------------------------------
(* What the split of a child does to the root *)

(* btree_node_internal_update_key: the separator of child i becomes m.  The
   right child has none; the key that is overwritten for it is one past the
   separators in use, or one that equals m already. *)
LEMMA UpdatedKey ==
  ASSUME NEW node \in Page, node.num \in 1 .. InternalMaxCells,
         \A j, l \in 0 .. node.num - 1 : j < l => node.seps[j] <= node.seps[l],
         NEW i \in 0 .. node.num, NEW oldMax \in Nat, NEW m \in Nat,
         i < node.num => /\ oldMax = node.seps[i]
                         /\ i > 0 => node.seps[i - 1] < oldMax,
         i = node.num => /\ node.seps[i - 1] <= oldMax
                         /\ node.seps[i - 1] = oldMax => m = oldMax
  PROVE  \A j \in 0 .. node.num - 1 :
           UpdateKey(node, oldMax, m).seps[j] = IF j = i THEN m ELSE node.seps[j]
<1>. DEFINE k == node.num
            S == node.seps
            f == FindChild(node, oldMax)
            new == [S EXCEPT ![f] = m]
<1>1. S \in [CellIndex -> Nat] /\ k \in 1 .. 3
  BY PageType DEF InternalMaxCells
<1>2. UpdateKey(node, oldMax, m).seps = new
  BY DEF UpdateKey, Page
<1>3. \A j \in 0 .. k - 1 : j \in CellIndex /\ S[j] \in Nat
  BY <1>1 DEF CellIndex, InternalMaxCells
<1>4. f \in 0 .. k /\ \A j \in 0 .. k - 1 : S[j] < oldMax <=> j < f
  BY FoundChild DEF InternalMaxCells
<1>. HIDE DEF f
<1>5. \A j \in CellIndex : new[j] = IF j = f THEN m ELSE S[j]
  BY <1>1
<1>6. /\ \A j, l \in 0 .. k - 1 : j < l => S[j] <= S[l]
      /\ i \in 0 .. k
      /\ i < k => oldMax = S[i] /\ (i > 0 => S[i - 1] < oldMax)
      /\ i = k => S[i - 1] <= oldMax /\ (S[i - 1] = oldMax => m = oldMax)
  OBVIOUS
<1>. HIDE DEF k, S, new
<1>7. CASE i < k
  <2>1. i \in 0 .. k - 1 /\ oldMax = S[i]
    BY <1>1, <1>6, <1>7
  <2>2. ~(i < f)
    BY <1>3, <1>4, <2>1
  <2>3. i > 0 => i - 1 < f
    <3>1. i > 0 => i - 1 \in 0 .. k - 1
      BY <1>1, <2>1
    <3>. QED
      BY <1>4, <1>6, <1>7, <3>1
  <2>4. f = i
    BY <1>1, <1>4, <2>1, <2>2, <2>3
  <2>. QED
    BY <1>2, <1>3, <1>5, <2>4 DEF k, S
<1>8. CASE i = k
  <2>1. CASE f = k
    <3>1. \A j \in 0 .. k - 1 : j # f /\ j # i
      BY <1>1, <1>8, <2>1
    <3>. QED
      BY <1>2, <1>3, <1>5, <3>1 DEF k, S
  <2>2. CASE f < k
    <3>1. f \in 0 .. k - 1 /\ k - 1 \in 0 .. k - 1 /\ (f = k - 1 \/ f < k - 1)
      BY <1>1, <1>4, <2>2
    <3>2. ~(S[f] < oldMax)
      BY <1>4, <3>1
    <3>3. S[f] <= S[k - 1] /\ S[k - 1] <= oldMax
      BY <1>3, <1>6, <1>8, <3>1
    <3>4. S[f] = oldMax /\ S[k - 1] = oldMax
      BY <1>3, <3>1, <3>2, <3>3
    <3>5. S[f] = m
      BY <1>6, <1>8, <3>4
    <3>6. \A j \in 0 .. k - 1 : new[j] = S[j] /\ j # i
      BY <1>1, <1>3, <1>5, <1>8, <3>5
    <3>. QED
      BY <1>2, <3>6 DEF k, S
  <2>. QED
    BY <1>1, <1>4, <2>1, <2>2
<1>. QED
  BY <1>1, <1>6, <1>7, <1>8 DEF k

(* A root whose separator of child i already is m, the greatest key of the
   lower half, is about to take page n with the upper half.  S were its
   separators before, childMax and rightMax are the greatest keys of page n
   and of the right child. *)
Growing(n, pages, S, i, m, childMax, rightMax) ==
  /\ RootNode(n, pages[Root]) /\ pages[Root] \in Page
  /\ Fanout(pages) < InternalMaxCells /\ i \in 0 .. Fanout(pages)
  /\ \A j \in 0 .. Fanout(pages) - 1 :
       /\ S[j] \in Nat
       /\ Separators(pages)[j] = IF j = i THEN m ELSE S[j]
  /\ \A j, l \in 0 .. Fanout(pages) - 1 : j < l => S[j] <= S[l]
  /\ i > 0 => S[i - 1] <= m
  /\ i > 0 /\ i < Fanout(pages) => S[i - 1] < S[i]
  /\ childMax = MaxKey(pages, n) /\ m <= childMax
  /\ rightMax = MaxKey(pages, pages[Root].link)
  /\ i < Fanout(pages) => childMax = S[i] /\ S[i] <= rightMax
  /\ i = Fanout(pages) => rightMax = m /\ S[i - 1] < childMax

(* btree_node_internal_insert: the new page becomes the child after the one
   that was split, or, if the halves end in the same key, the one before. *)
LEMMA BiggerShape ==
  ASSUME NEW n, NEW pages, NEW S, NEW i, NEW m \in Nat,
         NEW childMax \in Nat, NEW rightMax \in Nat,
         Growing(n, pages, S, i, m, childMax, rightMax)
  PROVE  /\ \/ PutIn(i + 1, Bigger(pages, n), pages[Root], n)
            \/ childMax = m /\ PutIn(i, Bigger(pages, n), pages[Root], n)
         /\ Spread(i, Bigger(pages, n).seps, S, Fanout(pages), m)
<1>. DEFINE node == pages[Root]
            k == Fanout(pages)
            Z == Separators(pages)
            bigger == Bigger(pages, n)
            f == FindChild(node, childMax)
<1>1. /\ k \in 1 .. 2 /\ node.num = k
      /\ m <= childMax
      /\ childMax = MaxKey(pages, n) /\ rightMax = MaxKey(pages, node.link)
  BY DEF Growing, RootShape, RootNode, InternalMaxCells, Fanout
<1>2. /\ i \in 0 .. k
      /\ \A j \in 0 .. k - 1 : S[j] \in Nat /\ Z[j] = IF j = i THEN m ELSE S[j]
      /\ \A j, l \in 0 .. k - 1 : j < l => S[j] <= S[l]
      /\ i > 0 => S[i - 1] <= m
      /\ i > 0 /\ i < k => S[i - 1] < S[i]
      /\ i < k => childMax = S[i] /\ S[i] <= rightMax
      /\ i = k => rightMax = m /\ S[i - 1] < childMax
  BY DEF Growing
<1>3. bigger = IF childMax > rightMax THEN AppendCell(node, n, rightMax)
               ELSE InsertCell(node, f, n, childMax)
  BY <1>1 DEF Bigger
<1>4. Z = node.seps /\ node \in Page /\ RootNode(n, node)
  BY DEF Growing, Separators
<1>. HIDE DEF node, k, Z, bigger
<1>5. \A j, l \in 0 .. k - 1 : j < l => Z[j] <= Z[l]
  <2>. SUFFICES ASSUME NEW j \in 0 .. k - 1, NEW l \in 0 .. k - 1, j < l
                PROVE  Z[j] <= Z[l]
    OBVIOUS
  <2>1. CASE j = i
    <3>1. Z[j] = m /\ Z[l] = S[l] /\ S[i] <= S[l] /\ i < k /\ m <= S[i]
          /\ S[i] \in Nat /\ S[l] \in Nat
      BY <1>1, <1>2, <2>1
    <3>. QED
      BY <3>1
  <2>2. CASE l = i
    <3>1. i - 1 \in 0 .. k - 1 /\ i > 0 /\ (j = i - 1 \/ j < i - 1)
      BY <1>1, <2>2
    <3>2. Z[l] = m /\ Z[j] = S[j] /\ S[i - 1] <= m
          /\ S[i - 1] \in Nat /\ S[j] \in Nat
      BY <1>2, <2>2, <3>1
    <3>3. S[j] <= S[i - 1]
      BY <1>2, <3>1, <3>2
    <3>. QED
      BY <3>2, <3>3
  <2>3. CASE j # i /\ l # i
    BY <1>2, <2>3
  <2>. QED
    BY <2>1, <2>2, <2>3
<1>6. f \in 0 .. k /\ \A j \in 0 .. k - 1 : Z[j] < childMax <=> j < f
  <2>1. node.num \in 0 .. InternalMaxCells
    BY <1>1 DEF InternalMaxCells
  <2>. QED
    BY <1>1, <1>4, <1>5, <2>1, FoundChild
<1>. HIDE DEF f
<1>7. CASE childMax > rightMax
  <2>1. i = k /\ rightMax = m
    BY <1>1, <1>2, <1>7
  <2>2. bigger = AppendCell(node, n, m)
    BY <1>3, <1>7, <2>1
  <2>3. /\ PutIn(k + 1, bigger, node, n)
        /\ bigger.seps = [node.seps EXCEPT ![k] = m]
    <3>1. node.num < InternalMaxCells
      BY <1>1 DEF InternalMaxCells
    <3>. QED
      BY <1>1, <1>4, <2>2, <3>1, AppendCellType
  <2>4. Spread(i, bigger.seps, S, k, m)
    <3>1. k \in CellIndex /\ \A j \in 0 .. k : j \in CellIndex
      BY <1>1 DEF CellIndex, InternalMaxCells
    <3>2. node.seps \in [CellIndex -> Nat]
      BY <1>4, PageType
    <3>3. bigger.seps[k] = m
      BY <2>3, <3>1, <3>2
    <3>4. \A j \in 0 .. k - 1 : bigger.seps[j] = Z[j] /\ Z[j] = S[j]
      BY <1>1, <1>2, <1>4, <2>1, <2>3, <3>1, <3>2
    <3>5. \A j \in 0 .. k : j = k \/ (j \in 0 .. k - 1 /\ j < i)
      BY <1>1, <2>1
    <3>. QED
      BY <1>1, <2>1, <3>3, <3>4, <3>5 DEF Spread
  <2>. QED
    BY <1>1, <2>1, <2>3, <2>4 DEF bigger, node, k
<1>8. CASE ~(childMax > rightMax)
  <2>1. bigger = InsertCell(node, f, n, childMax)
    BY <1>3, <1>8
  <2>2. /\ PutIn(f, bigger, node, n)
        /\ \A j \in 0 .. k : bigger.seps[j] = IF j < f THEN Z[j]
                                              ELSE IF j = f THEN childMax
                                              ELSE Z[j - 1]
    <3>1. node.num < InternalMaxCells
      BY <1>1 DEF InternalMaxCells
    <3>. QED
      BY <1>1, <1>4, <1>6, <2>1, <3>1, InsertCellType
  <2>3. f = i + 1 \/ (f = i /\ childMax = m)
    <3>1. CASE i < k
      <4>1. childMax = S[i] /\ Z[i] = m /\ i \in 0 .. k - 1
        BY <1>1, <1>2, <3>1
      <4>2. i > 0 => i - 1 < f
        <5>1. i > 0 => i - 1 \in 0 .. k - 1 /\ i - 1 # i
          BY <1>1, <4>1
        <5>2. i > 0 => Z[i - 1] = S[i - 1] /\ S[i - 1] < S[i]
          BY <1>2, <3>1, <5>1
        <5>. QED
          BY <1>6, <4>1, <5>1, <5>2
      <4>3. ~(i + 1 < f)
        <5>1. ASSUME i + 1 < f PROVE FALSE
          <6>1. i + 1 \in 0 .. k - 1 /\ i + 1 # i /\ i < i + 1
            BY <1>1, <1>6, <4>1, <5>1
          <6>2. Z[i + 1] = S[i + 1] /\ S[i] <= S[i + 1] /\ S[i + 1] \in Nat
            BY <1>2, <4>1, <6>1
          <6>3. Z[i + 1] < childMax
            BY <1>6, <5>1, <6>1
          <6>. QED
            BY <4>1, <6>2, <6>3
        <5>. QED
          BY <5>1
      <4>4. m < childMax <=> i < f
        BY <1>6, <4>1
      <4>. QED
        BY <1>1, <1>6, <4>1, <4>2, <4>3, <4>4
    <3>2. CASE i = k
      <4>1. rightMax = m /\ S[k - 1] < childMax /\ childMax = m
        BY <1>1, <1>2, <1>8, <3>2
      <4>2. k - 1 \in 0 .. k - 1 /\ k - 1 # i /\ Z[k - 1] = S[k - 1]
        BY <1>1, <1>2, <3>2
      <4>3. k - 1 < f
        BY <1>6, <4>1, <4>2
      <4>. QED
        BY <1>1, <1>6, <3>2, <4>1, <4>3
    <3>. QED
      BY <1>1, <1>2, <3>1, <3>2
  <2>4. i < k => childMax = S[i]
    BY <1>2
  <2>5. ASSUME NEW j \in 0 .. k
        PROVE  bigger.seps[j] = IF j < i THEN S[j]
                                ELSE IF j = i THEN m ELSE S[j - 1]
    <3>1. CASE j < i
      <4>1. j \in 0 .. k - 1 /\ j # i /\ j < f
        BY <1>1, <1>2, <2>3, <3>1
      <4>. QED
        BY <1>2, <2>2, <3>1, <4>1
    <3>2. CASE j = i
      <4>1. CASE f = i + 1
        <5>1. i \in 0 .. k - 1 /\ j < f
          BY <1>1, <1>2, <1>6, <3>2, <4>1
        <5>. QED
          BY <1>2, <2>2, <3>2, <5>1
      <4>2. CASE f = i /\ childMax = m
        BY <1>1, <1>2, <2>2, <3>2, <4>2
      <4>. QED
        BY <2>3, <4>1, <4>2
    <3>3. CASE j > i
      <4>1. j - 1 \in 0 .. k - 1 /\ ~(j < i) /\ j # i /\ i < k
        BY <1>1, <1>2, <3>3
      <4>2. CASE j = f
        <5>1. f = i + 1
          BY <1>1, <1>2, <2>3, <3>3, <4>2
        <5>2. j - 1 = i
          BY <1>2, <4>2, <5>1
        <5>3. bigger.seps[j] = childMax
          BY <2>2, <4>2
        <5>. QED
          BY <2>4, <4>1, <5>2, <5>3
      <4>3. CASE j # f
        <5>1. ~(j < f)
          BY <1>1, <1>2, <2>3, <3>3, <4>3
        <5>2. bigger.seps[j] = Z[j - 1]
          BY <2>2, <4>3, <5>1
        <5>3. Z[j - 1] = S[j - 1]
          <6>1. CASE j - 1 = i
            <7>1. f = i /\ childMax = m
              BY <1>2, <2>3, <4>3, <6>1
            <7>. QED
              BY <1>2, <2>4, <4>1, <6>1, <7>1
          <6>2. CASE j - 1 # i
            BY <1>2, <4>1, <6>2
          <6>. QED
            BY <6>1, <6>2
        <5>. QED
          BY <4>1, <5>2, <5>3
      <4>. QED
        BY <4>2, <4>3
    <3>. QED
      BY <1>1, <1>2, <3>1, <3>2, <3>3
  <2>6. Spread(i, bigger.seps, S, k, m)
    BY <2>5 DEF Spread
  <2>. QED
    BY <2>2, <2>3, <2>6 DEF bigger, node, k
<1>. QED
  BY <1>7, <1>8

(* The leaves with one row more, before the one that got it is split. *)
Crowded(pages, i, pos, key) ==
  [KidCells(pages) EXCEPT ![i] = InsertAt(KidCells(pages)[i], pos + 1, key)]

(* An insert that ends in child i, at a place that divides its cells. *)
Placed(n, pages, i, pos, key) ==
  /\ Sound(n, pages) /\ IsNode(pages) /\ Ordered(pages)
  /\ key \in Nat /\ Aims(pages, i, key) /\ Divides(KidCells(pages)[i], pos, key)

LEMMA CrowdedOrder ==
  ASSUME NEW n, NEW pages, NEW i, NEW pos, NEW key,
         Placed(n, pages, i, pos, key)
  PROVE  LET k == Fanout(pages)
             S == Separators(pages)
             M == Crowded(pages, i, pos, key)
         IN  /\ InOrder(k, M, S)
             /\ M[i] = InsertAt(KidCells(pages)[i], pos + 1, key)
             /\ \A j \in 0 .. k : j # i => M[j] = KidCells(pages)[j]
             /\ /\ Apart(k, KidCells(pages), S)
                /\ \A c \in DOMAIN KidCells(pages)[i] : KidCells(pages)[i][c] # key
                => Apart(k, M, S)
<1>. DEFINE k == Fanout(pages)
            S == Separators(pages)
            L == KidCells(pages)
            M == Crowded(pages, i, pos, key)
<1>1. /\ Sound(n, pages) /\ IsNode(pages) /\ InOrder(k, L, S)
      /\ key \in Nat /\ Aims(pages, i, key) /\ Divides(L[i], pos, key)
  BY DEF Placed, Ordered
<1>2. \A j \in 0 .. k - 1 : S[j] \in Nat
  BY <1>1, NodeFacts
<1>6. /\ k \in Nat /\ L \in [0 .. k -> Seq(Nat)]
      /\ \A j \in 0 .. k : Len(L[j]) > 0
  BY <1>1, KidCellsType
<1>4. /\ i \in 0 .. k /\ (i > 0 => S[i - 1] < key) /\ (i < k => key <= S[i])
  BY <1>1 DEF Aims
<1>5. M = [L EXCEPT ![i] = InsertAt(L[i], pos + 1, key)]
  BY DEF Crowded
<1>. HIDE DEF k, S, L, M
<1>7. /\ InOrder(k, M, S)
      /\ Apart(k, L, S) /\ (\A c \in DOMAIN L[i] : L[i][c] # key)
           => Apart(k, M, S)
  BY <1>1, <1>2, <1>4, <1>5, <1>6, OrderAfterInsert
<1>8. /\ M[i] = InsertAt(L[i], pos + 1, key)
      /\ \A j \in 0 .. k : j # i => M[j] = L[j]
  BY <1>4, <1>5, <1>6
<1>. QED
  BY <1>7, <1>8 DEF k, S, L, M

SplitShape(n, pages, result, i, lower, upper) ==
  LET p == Kid(pages, i)
  IN  /\ result[p].cells = lower /\ result[p].link = n
      /\ result[n].cells = upper /\ result[n].link = pages[p].link
      /\ \A q \in 1 .. n - 1 : q # p => result[q] = pages[q]
      /\ Spread(i, Separators(result), Separators(pages), Fanout(pages),
                lower[LeftSplitCount])
      /\ \/ PutIn(i + 1, result[Root], pages[Root], n)
         \/ /\ upper[RightSplitCount] = lower[LeftSplitCount]
            /\ PutIn(i, result[Root], pages[Root], n)

(* A key above all cells comes after them. *)
LEMMA KeyComesLast ==
  ASSUME NEW cells \in Seq(Nat), Len(cells) > 0, Sorted(cells),
         NEW key \in Nat, NEW pos, Divides(cells, pos, key),
         cells[Len(cells)] < key
  PROVE  \A c \in 1 .. Len(cells) :
           /\ InsertAt(cells, pos + 1, key)[c] = cells[c]
           /\ cells[c] <= cells[Len(cells)]
<1>. DEFINE new == InsertAt(cells, pos + 1, key)
            len == Len(cells)
<1>1. len \in Nat /\ cells[len] < key /\ len > 0
  OBVIOUS
<1>2. /\ pos \in 0 .. len
      /\ \A c \in 1 .. len : cells[c] \in Nat
      /\ \A c \in 1 .. len : IF c <= pos THEN cells[c] <= key ELSE key <= cells[c]
      /\ \A c, e \in 1 .. len : c < e => cells[c] <= cells[e]
  BY DEF Divides, Sorted
<1>3. \A c \in 1 .. len + 1 : new[c] = IF c <= pos THEN cells[c]
                                       ELSE IF c = pos + 1 THEN key
                                       ELSE cells[c - 1]
  BY <1>2, InsertedCells
<1>. HIDE DEF new, len
<1>4. pos = len
  <2>1. ASSUME ~(len <= pos) PROVE FALSE
    <3>1. len \in 1 .. len
      BY <1>1
    <3>2. key <= cells[len] /\ cells[len] \in Nat
      BY <1>2, <2>1, <3>1
    <3>. QED
      BY <1>1, <3>2
  <2>. QED
    BY <1>1, <1>2, <2>1
<1>5. \A c \in 1 .. len : new[c] = cells[c]
  BY <1>1, <1>3, <1>4
<1>6. \A c \in 1 .. len : cells[c] <= cells[len]
  <2>1. \A c \in 1 .. len : len \in 1 .. len /\ (c = len \/ c < len)
    BY <1>1
  <2>. QED
    BY <1>2, <2>1
<1>. QED
  BY <1>5, <1>6 DEF new, len

LEMMA LastNotBelowKey ==
  ASSUME NEW cells \in Seq(Nat), NEW key \in Nat, NEW pos \in 0 .. Len(cells),
         Sorted(InsertAt(cells, pos + 1, key))
  PROVE  key <= InsertAt(cells, pos + 1, key)[Len(cells) + 1]
<1>. DEFINE new == InsertAt(cells, pos + 1, key)
            len == Len(cells)
<1>1. /\ new \in Seq(Nat) /\ Len(new) = len + 1
      /\ \A c \in 1 .. len + 1 : new[c] = IF c <= pos THEN cells[c]
                                          ELSE IF c = pos + 1 THEN key
                                          ELSE cells[c - 1]
  BY InsertedCells
<1>2. len \in Nat /\ pos \in 0 .. len
  OBVIOUS
<1>. HIDE DEF new, len
<1>3. /\ pos + 1 \in 1 .. len + 1 /\ len + 1 \in 1 .. len + 1
      /\ ~(pos + 1 <= pos)
      /\ (pos + 1 = len + 1 \/ pos + 1 < len + 1)
  BY <1>2
<1>4. new[pos + 1] = key
  BY <1>1, <1>3
<1>5. \A c, e \in 1 .. len + 1 : c < e => new[c] <= new[e]
  BY <1>1 DEF new, Sorted
<1>. QED
  BY <1>3, <1>4, <1>5 DEF new, len

(* Every child has a place of its own among the children of the root. *)
LEMMA DistinctKids ==
  ASSUME NEW n, NEW pages, Sound(n, pages), IsNode(pages)
  PROVE  \A i, j \in 0 .. Fanout(pages) : Kid(pages, i) = Kid(pages, j) => i = j
<1>. DEFINE k == Fanout(pages)
            f == [i \in 0 .. k |-> Kid(pages, i)]
<1>1. /\ RootNode(n, pages[Root]) /\ n = k + 2 /\ k \in Nat
      /\ \A i \in 0 .. k : Kid(pages, i) \in 1 .. n - 1
  BY NodeFacts, KidCellsType
<1>2. 1 .. k + 1 = {Kid(pages, i) : i \in 0 .. k}
  BY <1>1 DEF RootShape, RootNode, Kid, Fanout
<1>. HIDE DEF k
<1>3. n - 1 = k + 1
  BY <1>1
<1>4. f \in Surjection(0 .. k, 1 .. k + 1)
  <2>1. f \in [0 .. k -> 1 .. k + 1]
    BY <1>1, <1>3
  <2>2. \A c \in 1 .. k + 1 : \E i \in 0 .. k : f[i] = c
    BY <1>2
  <2>. QED
    BY <2>1, <2>2 DEF Surjection
<1>5. /\ IsFiniteSet(0 .. k) /\ IsFiniteSet(1 .. k + 1)
      /\ Cardinality(0 .. k) = Cardinality(1 .. k + 1)
  <2>1. 0 <= k + 1 /\ 1 <= (k + 1) + 1
    BY <1>1
  <2>2. IsFiniteSet(0 .. k) /\ Cardinality(0 .. k) = k + 1
    BY <1>1, <2>1, FS_Interval
  <2>3. IsFiniteSet(1 .. k + 1) /\ Cardinality(1 .. k + 1) = k + 1
    BY <1>1, <2>1, FS_Interval
  <2>. QED
    BY <2>2, <2>3
<1>6. f \in Injection(0 .. k, 1 .. k + 1)
  BY <1>4, <1>5, FS_SurjSameCardinalityImpliesInj
<1>7. \A i, j \in 0 .. k : f[i] = f[j] => i = j
  BY <1>6 DEF Injection, IsInjective
<1>. QED
  BY <1>7 DEF k

LEMMA ChildSplitShape ==
  ASSUME NEW n, NEW pages, NEW i, NEW pos, NEW key, NEW w \in Nat,
         Placed(n, pages, i, pos, key), Fanout(pages) < InternalMaxCells,
         Len(KidCells(pages)[i]) = LeafMaxCells
  PROVE  LET p == Kid(pages, i)
             lower == LowerHalf(pages[p], pos, key)
             upper == UpperHalf(pages[p], pos, key)
         IN  /\ SplitShape(n, pages, ChildSplit(n, pages, p, pos, key, w), i,
                           lower, upper)
             /\ Halving(Crowded(pages, i, pos, key)[i], lower, upper)
<1>. DEFINE k == Fanout(pages)
            S == Separators(pages)
            L == KidCells(pages)
            M == Crowded(pages, i, pos, key)
            p == Kid(pages, i)
            old == pages[p]
            lower == LowerHalf(old, pos, key)
            upper == UpperHalf(old, pos, key)
            m == lower[LeftSplitCount]
            last == upper[RightSplitCount]
            oldMax == Last(old.cells)
            split == SplitPages(n, pages, p, pos, key, w)
            updated == Updated(split, p, oldMax)
            node == pages[Root]
            result == WithRoot(updated, Bigger(updated, n))
<1>1. /\ Sound(n, pages) /\ IsNode(pages) /\ InOrder(k, L, S)
      /\ key \in Nat /\ Aims(pages, i, key) /\ Divides(L[i], pos, key)
  BY DEF Placed, Ordered
<1>2. /\ i \in 0 .. k /\ (i > 0 => S[i - 1] < key) /\ (i < k => key <= S[i])
  BY <1>1 DEF Aims
<1>3. /\ RootNode(n, node) /\ node \in Page /\ k \in 1 .. 2 /\ n = k + 2
      /\ n \in Nat /\ node.num = k /\ node.seps = S
      /\ \A j \in 0 .. k - 1 : S[j] \in Nat
  BY <1>1, NodeFacts DEF InternalMaxCells, Fanout, Separators
<1>4. /\ p \in 1 .. n - 1 /\ p \in 0 .. n - 1 /\ p # Root
      /\ old \in Page /\ old.type = "leaf" /\ ~old.root /\ old.parent = Root
      /\ old.cells \in Seq(Nat) /\ old.cells = L[i]
  BY <1>1, <1>2, NodeFacts
<1>5. Len(old.cells) = LeafMaxCells /\ pos \in 0 .. LeafMaxCells
      /\ Divides(old.cells, pos, key)
  BY <1>1, <1>4 DEF Divides
<1>6. /\ InOrder(k, M, S) /\ M[i] = InsertAt(old.cells, pos + 1, key)
      /\ Sorted(old.cells)
  <2>1. Sorted(L[i])
    BY <1>1, <1>2 DEF InOrder
  <2>. QED
    BY <1>4, <2>1, CrowdedOrder
<1>7. Halving(M[i], lower, upper)
  BY <1>1, <1>4, <1>5, <1>6, HalvesCells
<1>8. Sorted(M[i])
  BY <1>2, <1>6 DEF InOrder
<1>. HIDE DEF L, M, lower, upper
<1>9. Fit(k, S, i, lower, upper, m)
  <2>1. k \in Nat /\ \A j \in 0 .. k - 1 : S[j] \in Nat
    BY <1>3
  <2>. HIDE DEF k, S, old
  <2>. QED
    BY <1>2, <1>6, <1>7, <2>1, HalvesFit
<1>10. /\ m \in Nat /\ last \in Nat /\ m <= last
       /\ m = M[i][LeftSplitCount] /\ last = M[i][LeafMaxCells + 1]
       /\ lower \in Seq(Nat) /\ Len(lower) = LeftSplitCount
       /\ upper \in Seq(Nat) /\ Len(upper) = RightSplitCount
       /\ Last(lower) = m /\ Last(upper) = last
  <2>1. RightSplitCount \in 1 .. RightSplitCount
    BY SplitCounts
  <2>2. /\ m \in Nat /\ last \in Nat /\ m <= last
        /\ m = M[i][LeftSplitCount] /\ last = M[i][LeafMaxCells + 1]
    BY <1>7, <1>8, <2>1, HalvesOrder
  <2>3. /\ lower \in Seq(Nat) /\ Len(lower) = LeftSplitCount
        /\ upper \in Seq(Nat) /\ Len(upper) = RightSplitCount
    BY <1>7 DEF Halving
  <2>. QED
    BY <2>2, <2>3 DEF Last
<1>11. /\ i > 0 => S[i - 1] <= m
       /\ i < k => last = S[i]
  <2>1. i < k => upper[Len(upper)] = S[i]
    BY <1>9 DEF Fit
  <2>. QED
    BY <1>9, <1>10, <2>1 DEF Fit
<1>. HIDE DEF m, last
<1>12. oldMax = old.cells[LeafMaxCells] /\ oldMax \in Nat
  <2>1. Len(old.cells) > 0
    BY <1>5, SplitCounts
  <2>. QED
    BY <1>4, <1>5, <2>1, LastCell DEF Last
<1>13. /\ split \in UpTo(n)
       /\ split[p].type = "leaf" /\ split[p].link = n
       /\ split[p].cells = lower
       /\ split[n].type = "leaf" /\ split[n].cells = upper
       /\ split[n].link = old.link
       /\ \A q \in 0 .. n - 1 : q # p => split[q] = pages[q]
  <2>1. pages \in UpTo(n - 1) /\ key \in Nat /\ n \in Nat
    BY <1>1, <1>3 DEF Sound
  <2>. HIDE DEF k, p, S, split
  <2>. QED
    BY <1>4, <1>5, <2>1, SplitPagesType DEF lower, upper, split
<1>14. Root \in 0 .. n - 1 /\ split[Root] = node
  BY <1>3, <1>4, <1>13 DEF Root
<1>. HIDE DEF split
<1>15. MaxKey(split, p) = m
  <2>1. Len(lower) > 0
    BY <1>10, SplitCounts
  <2>. QED
    BY <1>10, <1>13, <2>1, MaxKeyOfLeaf
<1>. DEFINE parent == UpdateKey(node, oldMax, m)
<1>16. updated = WithRoot(split, parent)
  BY <1>14, <1>15 DEF Updated
<1>17. /\ parent \in Page /\ RootNode(n, parent)
       /\ parent.num = k /\ parent.link = node.link /\ parent.kids = node.kids
  BY <1>3, <1>10, UpdateKeyType
<1>. HIDE DEF updated
<1>18. /\ updated[Root] = parent /\ updated[n] = split[n]
       /\ \A q \in 1 .. n : updated[q] = split[q]
  <2>1. n \in 1 .. n
    BY <1>3
  <2>. QED
    BY <1>3, <1>13, <1>16, <1>17, <2>1, WithRootType
<1>19. /\ \A j, l \in 0 .. k - 1 : j < l => S[j] <= S[l]
       /\ \A j \in 0 .. k - 1 : S[j] = L[j][Len(L[j])]
       /\ S[k - 1] <= L[k][Len(L[k])]
  <2>1. k \in 1 .. k
    BY <1>3
  <2>. QED
    BY <1>1, <2>1 DEF InOrder
<1>20. i < k => oldMax = S[i] /\ (i > 0 => S[i - 1] < oldMax)
  <2>. SUFFICES ASSUME i < k
                PROVE  oldMax = S[i] /\ (i > 0 => S[i - 1] < oldMax)
    OBVIOUS
  <2>1. i \in 0 .. k - 1
    BY <1>2, <1>3
  <2>2. oldMax = S[i]
    BY <1>4, <1>5, <1>12, <1>19, <2>1
  <2>. HIDE DEF k, S
  <2>3. i > 0 => i - 1 \in 0 .. k - 1
    BY <1>3, <2>1
  <2>. QED
    BY <1>1, <1>2, <1>3, <2>1, <2>2, <2>3
<1>21. i = k => /\ S[i - 1] <= oldMax /\ S[i - 1] < last
                /\ S[i - 1] = oldMax => m = oldMax
  <2>. SUFFICES ASSUME i = k
                PROVE  /\ S[i - 1] <= oldMax /\ S[i - 1] < last
                       /\ S[i - 1] = oldMax => m = oldMax
    OBVIOUS
  <2>1. i - 1 \in 0 .. k - 1 /\ i > 0
    BY <1>3
  <2>2. S[i - 1] <= oldMax /\ S[i - 1] \in Nat /\ S[i - 1] < key
    BY <1>2, <1>3, <1>4, <1>5, <1>12, <1>19, <2>1
  <2>3. key <= last
    <3>1. Sorted(InsertAt(old.cells, pos + 1, key)) /\ pos \in 0 .. Len(old.cells)
      BY <1>5, <1>6, <1>8
    <3>2. key <= InsertAt(old.cells, pos + 1, key)[Len(old.cells) + 1]
      BY <1>1, <1>4, <3>1, LastNotBelowKey
    <3>. QED
      BY <1>5, <1>6, <1>10, <3>2
  <2>4. ASSUME S[i - 1] = oldMax
        PROVE  m = oldMax
    <3>1. Len(old.cells) > 0 /\ old.cells[Len(old.cells)] < key
      BY <1>5, <1>12, <2>2, <2>4, SplitCounts
    <3>2. LeftSplitCount \in 1 .. Len(old.cells)
      BY <1>5, SplitCounts
    <3>3. /\ InsertAt(old.cells, pos + 1, key)[LeftSplitCount]
               = old.cells[LeftSplitCount]
          /\ old.cells[LeftSplitCount] <= old.cells[Len(old.cells)]
      BY <1>1, <1>4, <1>5, <1>6, <3>1, <3>2, KeyComesLast
    <3>4. m <= oldMax
      BY <1>5, <1>6, <1>10, <1>12, <3>3
    <3>. QED
      BY <1>10, <1>11, <1>12, <2>1, <2>4, <3>4
  <2>. QED
    BY <1>1, <1>10, <2>2, <2>3, <2>4
<1>. HIDE DEF oldMax, k, S, p, old, node
<1>22. \A j \in 0 .. k - 1 : parent.seps[j] = IF j = i THEN m ELSE S[j]
  <2>1. node.num \in 1 .. InternalMaxCells
    BY <1>3 DEF InternalMaxCells
  <2>2. \A j, l \in 0 .. node.num - 1 : j < l => node.seps[j] <= node.seps[l]
    BY <1>3, <1>19
  <2>3. /\ i \in 0 .. node.num /\ oldMax \in Nat /\ m \in Nat
        /\ i < node.num => /\ oldMax = node.seps[i]
                           /\ i > 0 => node.seps[i - 1] < oldMax
        /\ i = node.num => /\ node.seps[i - 1] <= oldMax
                           /\ node.seps[i - 1] = oldMax => m = oldMax
    BY <1>2, <1>3, <1>10, <1>12, <1>20, <1>21
  <2>4. \A j \in 0 .. node.num - 1 :
          UpdateKey(node, oldMax, m).seps[j] = IF j = i THEN m ELSE node.seps[j]
    <3>1. node \in Page
      BY <1>3
    <3>. QED
      BY <2>1, <2>2, <2>3, <3>1, UpdatedKey
  <2>. QED
    BY <1>3, <2>4
<1>. HIDE DEF parent
<1>23. MaxKey(updated, n) = last
  <2>1. Len(upper) > 0
    BY <1>10, SplitCounts
  <2>. QED
    BY <1>10, <1>13, <1>18, <2>1, MaxKeyOfLeaf
<1>. DEFINE rightMax == MaxKey(updated, parent.link)
<1>24. /\ rightMax \in Nat
       /\ i < k => S[i] <= rightMax
       /\ i = k => rightMax = m
  <2>1. parent.link = Kid(pages, k) /\ k \in 0 .. k
    BY <1>3, <1>17 DEF Kid, Child, node
  <2>2. CASE i = k
    <3>1. parent.link = p
      BY <2>1, <2>2 DEF p
    <3>2. /\ updated[p].type = "leaf" /\ updated[p].cells = lower
      BY <1>3, <1>4, <1>13, <1>18
    <3>3. Len(lower) > 0
      BY <1>10, SplitCounts
    <3>4. MaxKey(updated, p) = m
      BY <1>10, <3>2, <3>3, MaxKeyOfLeaf
    <3>. QED
      BY <1>3, <1>10, <2>2, <3>1, <3>4
  <2>3. CASE i < k
    <3>. DEFINE r == Kid(pages, k)
    <3>1. /\ r \in 1 .. n - 1 /\ r \in 0 .. n - 1 /\ pages[r].type = "leaf"
          /\ pages[r].cells \in Seq(Nat) /\ Len(pages[r].cells) > 0
          /\ pages[r].cells = L[k]
      <4>1. /\ r \in 1 .. n - 1 /\ r \in 0 .. n - 1 /\ pages[r].type = "leaf"
            /\ pages[r].cells \in Seq(Nat) /\ L[k] = pages[r].cells
        BY <1>1, <1>3, <2>1, NodeFacts DEF k, L
      <4>2. Len(L[k]) > 0
        BY <1>1, <2>1, KidCellsType DEF k, L
      <4>. QED
        BY <4>1, <4>2
    <3>2. r # p
      <4>1. i # k
        BY <1>2, <1>3, <2>3
      <4>. QED
        BY <1>1, <1>2, <2>1, <4>1, DistinctKids DEF p, k
    <3>3. r \in 1 .. n /\ updated[r] = pages[r]
      BY <1>3, <1>13, <1>18, <3>1, <3>2
    <3>. HIDE DEF r
    <3>4. MaxKey(updated, r) = Last(L[k]) /\ MaxKey(updated, r) \in Nat
      BY <3>1, <3>3, MaxKeyOfLeaf
    <3>5. S[k - 1] <= Last(L[k]) /\ Last(L[k]) \in Nat
      BY <1>19, <3>1, <3>4 DEF Last
    <3>6. S[i] <= S[k - 1] /\ S[i] \in Nat /\ S[k - 1] \in Nat
      <4>1. i \in 0 .. k - 1 /\ k - 1 \in 0 .. k - 1 /\ (i = k - 1 \/ i < k - 1)
        BY <1>2, <1>3, <2>3
      <4>. QED
        BY <1>3, <1>19, <4>1
    <3>. QED
      BY <1>3, <2>1, <2>3, <3>4, <3>5, <3>6 DEF r
  <2>. QED
    BY <1>2, <1>3, <2>2, <2>3
<1>25. /\ \/ PutIn(i + 1, Bigger(updated, n), parent, n)
          \/ last = m /\ PutIn(i, Bigger(updated, n), parent, n)
       /\ Spread(i, Bigger(updated, n).seps, S, k, m)
  <2>1. /\ RootNode(n, updated[Root]) /\ updated[Root] \in Page
        /\ Fanout(updated) = k /\ Separators(updated) = parent.seps
    BY <1>17, <1>18 DEF Fanout, Separators
  <2>2. Fanout(updated) < InternalMaxCells /\ i \in 0 .. Fanout(updated)
    BY <1>2, <1>3, <2>1 DEF InternalMaxCells
  <2>3. \A j \in 0 .. Fanout(updated) - 1 :
          /\ S[j] \in Nat
          /\ Separators(updated)[j] = IF j = i THEN m ELSE S[j]
    BY <1>3, <1>22, <2>1
  <2>4. \A j, l \in 0 .. Fanout(updated) - 1 : j < l => S[j] <= S[l]
    BY <1>19, <2>1
  <2>5. i > 0 /\ i < Fanout(updated) => S[i - 1] < S[i]
    BY <1>20, <2>1
  <2>6. rightMax = MaxKey(updated, updated[Root].link)
    BY <1>18
  <2>7. /\ i < Fanout(updated) => last = S[i] /\ S[i] <= rightMax
        /\ i = Fanout(updated) => rightMax = m /\ S[i - 1] < last
    BY <1>11, <1>21, <1>24, <2>1
  <2>. HIDE DEF rightMax
  <2>8. /\ m \in Nat /\ last \in Nat /\ m <= last /\ last = MaxKey(updated, n)
        /\ rightMax \in Nat /\ (i > 0 => S[i - 1] <= m)
    BY <1>10, <1>11, <1>23, <1>24
  <2>9. Growing(n, updated, S, i, m, last, rightMax)
    BY <2>1, <2>2, <2>3, <2>4, <2>5, <2>6, <2>7, <2>8 DEF Growing
  <2>10. /\ \/ PutIn(i + 1, Bigger(updated, n), updated[Root], n)
            \/ last = m /\ PutIn(i, Bigger(updated, n), updated[Root], n)
         /\ Spread(i, Bigger(updated, n).seps, S, Fanout(updated), m)
    BY <2>8, <2>9, BiggerShape
  <2>. QED
    BY <1>18, <2>1, <2>10
<1>26. /\ \/ PutIn(i + 1, Bigger(updated, n), node, n)
          \/ last = m /\ PutIn(i, Bigger(updated, n), node, n)
  <2>1. \A j : Child(parent, j) = Child(node, j)
    BY <1>3, <1>17 DEF Child
  <2>. QED
    BY <1>3, <1>17, <1>25, <2>1 DEF PutIn
<1>27. result = ChildSplit(n, pages, p, pos, key, w)
  BY DEF ChildSplit, updated, split, oldMax, old
<1>28. /\ result[Root] = Bigger(updated, n)
       /\ \A q \in 1 .. n : result[q] = split[q]
  <2>1. updated \in UpTo(n)
    BY <1>3, <1>13, <1>16, <1>17, WithRootType
  <2>2. updated = [updated EXCEPT ![Root] = updated[Root]] /\ Root \in 0 .. n
    BY <1>3, <2>1 DEF UpTo, Root
  <2>. QED
    BY <1>18, <2>1, <2>2 DEF WithRoot, UpTo, Root
<1>. HIDE DEF result
<1>29. SplitShape(n, pages, result, i, lower, upper)
  <2>1. /\ p \in 1 .. n /\ n \in 1 .. n
        /\ \A q \in 1 .. n - 1 : q \in 1 .. n /\ q \in 0 .. n - 1
    BY <1>3, <1>4
  <2>2. /\ result[p].cells = lower /\ result[p].link = n
        /\ result[n].cells = upper /\ result[n].link = pages[p].link
        /\ \A q \in 1 .. n - 1 : q # p => result[q] = pages[q]
    BY <1>13, <1>28, <2>1 DEF old
  <2>3. Spread(i, Separators(result), S, k, m)
    BY <1>25, <1>28 DEF Separators
  <2>. QED
    BY <1>26, <1>28, <2>2, <2>3 DEF SplitShape, p, m, last, S, k, node
<1>. QED
  BY <1>7, <1>27, <1>29 DEF p, old, lower, upper, M

-----------------------------------------------------------------------------
(* The three ways an insert changes the leaves keep their order *)

(* A child with room takes the row itself. *)
LEMMA RowInChild ==
  ASSUME NEW n, NEW pages, NEW i, NEW pos, NEW key,
         Placed(n, pages, i, pos, key)
  PROVE  LET result == WithRow(pages, Kid(pages, i), pos, key)
         IN  /\ result[Root] = pages[Root]
             /\ KidCells(result) = Crowded(pages, i, pos, key)
             /\ \A j \in 0 .. Fanout(pages) :
                  /\ Kid(result, j) = Kid(pages, j)
                  /\ result[Kid(pages, j)].link = pages[Kid(pages, j)].link
<1>. DEFINE k == Fanout(pages)
            L == KidCells(pages)
            M == Crowded(pages, i, pos, key)
            p == Kid(pages, i)
            old == pages[p]
            new == [old EXCEPT !.num = @ + 1, !.cells = InsertAt(@, pos + 1, key)]
            result == WithRow(pages, p, pos, key)
<1>1. /\ Sound(n, pages) /\ IsNode(pages) /\ i \in 0 .. k /\ key \in Nat
  BY DEF Placed, Aims
<1>2. /\ pages \in UpTo(n - 1) /\ p \in 0 .. n - 1 /\ p # Root /\ n \in Nat
      /\ old \in Page /\ L[i] = old.cells
  <2>1. pages \in UpTo(n - 1)
    BY <1>1 DEF Sound
  <2>. QED
    BY <1>1, <2>1, NodeFacts
<1>3. /\ new.cells = InsertAt(L[i], pos + 1, key) /\ new.link = old.link
  BY <1>2, PageType
<1>. HIDE DEF new
<1>4. result = [pages EXCEPT ![p] = new]
  BY DEF WithRow, new
<1>5. /\ result[p] = new /\ result[Root] = pages[Root]
      /\ \A q \in 0 .. n - 1 : q # p => result[q] = pages[q]
  <2>1. Root \in 0 .. n - 1
    BY <1>2 DEF Root
  <2>. HIDE DEF p
  <2>. QED
    BY <1>2, <1>4, <2>1 DEF UpTo
<1>. HIDE DEF result
<1>6. \A j \in 0 .. k : /\ Kid(pages, j) \in 0 .. n - 1
                        /\ L[j] = pages[Kid(pages, j)].cells
                        /\ Kid(pages, j) = p => j = i
  BY <1>1, NodeFacts, DistinctKids
<1>7. /\ M[i] = InsertAt(L[i], pos + 1, key)
      /\ \A j \in 0 .. k : j # i => M[j] = L[j]
      /\ M = [j \in 0 .. k |-> M[j]]
  <2>1. L = [j \in 0 .. k |-> L[j]]
    BY DEF KidCells
  <2>. HIDE DEF L, k
  <2>2. M = [L EXCEPT ![i] = InsertAt(L[i], pos + 1, key)]
    BY DEF Crowded, L
  <2>. HIDE DEF M
  <2>. QED
    BY <1>1, <2>1, <2>2
<1>8. \A j \in 0 .. k : /\ Kid(result, j) = Kid(pages, j)
                        /\ result[Kid(pages, j)].cells = M[j]
                        /\ result[Kid(pages, j)].link = pages[Kid(pages, j)].link
  <2>. TAKE j \in 0 .. k
  <2>1. Kid(result, j) = Kid(pages, j)
    BY <1>5 DEF Kid
  <2>2. CASE j = i
    BY <1>3, <1>5, <1>7, <2>1, <2>2
  <2>3. CASE j # i
    <3>1. result[Kid(pages, j)] = pages[Kid(pages, j)]
      BY <1>5, <1>6, <2>3
    <3>. QED
      BY <1>6, <1>7, <2>1, <2>3, <3>1
  <2>. QED
    BY <2>2, <2>3
<1>. HIDE DEF M, L, p
<1>9. KidCells(result) = M
  <2>1. Fanout(result) = k
    BY <1>5 DEF Fanout
  <2>2. KidCells(result) = [j \in 0 .. k |-> result[Kid(result, j)].cells]
    BY <2>1 DEF KidCells
  <2>3. \A j \in 0 .. k : result[Kid(result, j)].cells = M[j]
    BY <1>8
  <2>4. [j \in 0 .. k |-> result[Kid(result, j)].cells] = [j \in 0 .. k |-> M[j]]
    BY <2>3
  <2>. QED
    BY <1>7, <2>2, <2>4
<1>. QED
  BY <1>5, <1>8, <1>9 DEF result, M, p

LEMMA RowKeepsOrder ==
  ASSUME NEW n, NEW pages, NEW i, NEW pos, NEW key,
         Placed(n, pages, i, pos, key)
  PROVE  Ordered(WithRow(pages, Kid(pages, i), pos, key))
<1>. DEFINE result == WithRow(pages, Kid(pages, i), pos, key)
<1>1. /\ result[Root] = pages[Root]
      /\ KidCells(result) = Crowded(pages, i, pos, key)
  BY RowInChild
<1>2. InOrder(Fanout(pages), Crowded(pages, i, pos, key), Separators(pages))
  BY CrowdedOrder
<1>3. IsNode(pages)
  BY DEF Placed
<1>. HIDE DEF result
<1>4. /\ IsNode(result) /\ Fanout(result) = Fanout(pages)
      /\ Separators(result) = Separators(pages)
  BY <1>1, <1>3 DEF IsNode, Fanout, Separators
<1>5. Ordered(result)
  BY <1>1, <1>2, <1>4 DEF Ordered
<1>. QED
  BY <1>5 DEF result

(* A full child is replaced by its halves. *)
LEMMA SplitKids ==
  ASSUME NEW n, NEW pages, NEW i, NEW pos, NEW key,
         Placed(n, pages, i, pos, key), NEW result, Sound(n + 1, result),
         NEW lower, NEW upper, SplitShape(n, pages, result, i, lower, upper)
  PROVE  /\ IsNode(result) /\ Fanout(result) = Fanout(pages) + 1
         /\ \/ Halved(Fanout(pages), KidCells(result),
                      Crowded(pages, i, pos, key), i, lower, upper)
            \/ /\ upper[RightSplitCount] = lower[LeftSplitCount]
               /\ Halved(Fanout(pages), KidCells(result),
                         Crowded(pages, i, pos, key), i, upper, lower)
<1>. DEFINE k == Fanout(pages)
            L == KidCells(pages)
            M == Crowded(pages, i, pos, key)
            p == Kid(pages, i)
            L1 == KidCells(result)
<1>1. /\ Sound(n, pages) /\ IsNode(pages) /\ i \in 0 .. k
  BY DEF Placed, Aims
<1>2. /\ n \in Nat /\ n = k + 2 /\ k \in Nat /\ p \in 1 .. n - 1
      /\ \A j \in 0 .. k : /\ Kid(pages, j) \in 1 .. n - 1
                           /\ L[j] = pages[Kid(pages, j)].cells
                           /\ Kid(pages, j) = p => j = i
  BY <1>1, NodeFacts, DistinctKids, KidCellsType
<1>3. \A j \in 0 .. k : j # i => M[j] = L[j]
  BY CrowdedOrder
<1>4. IsNode(result)
  BY <1>2 DEF Sound, RootLeaf, RootShape, RootNode, IsNode
<1>. HIDE DEF k, L, M, p, L1
<1>5. /\ result[p].cells = lower /\ result[n].cells = upper
      /\ \A q \in 1 .. n - 1 : q # p => result[q] = pages[q]
  BY DEF SplitShape, p
<1>6. \A j \in 0 .. k : j # i => result[Kid(pages, j)].cells = M[j]
  BY <1>2, <1>3, <1>5
<1>7. \A at : PutIn(at, result[Root], pages[Root], n) =>
        /\ Fanout(result) = k + 1
        /\ \A j \in 0 .. k + 1 :
             Kid(result, j) = IF j < at THEN Kid(pages, j)
                              ELSE IF j = at THEN n ELSE Kid(pages, j - 1)
  BY DEF PutIn, Kid, Fanout, k
<1>8. Fanout(result) = k + 1 => \A j \in 0 .. k + 1 :
                                   L1[j] = result[Kid(result, j)].cells
  BY DEF KidCells, L1
<1>9. CASE PutIn(i + 1, result[Root], pages[Root], n)
  <2>1. /\ Fanout(result) = k + 1
        /\ \A j \in 0 .. k + 1 :
             Kid(result, j) = IF j < i + 1 THEN Kid(pages, j)
                              ELSE IF j = i + 1 THEN n ELSE Kid(pages, j - 1)
    BY <1>7, <1>9
  <2>2. \A j \in 0 .. k + 1 : L1[j] = result[Kid(result, j)].cells
    BY <1>8, <2>1
  <2>3. ASSUME NEW j \in 0 .. k + 1
        PROVE  L1[j] = IF j < i THEN M[j]
                       ELSE IF j = i THEN lower
                       ELSE IF j = i + 1 THEN upper ELSE M[j - 1]
    <3>1. CASE j < i
      <4>1. j \in 0 .. k /\ j < i + 1 /\ j # i
        BY <1>1, <1>2, <3>1
      <4>. QED
        BY <1>6, <2>1, <2>2, <3>1, <4>1
    <3>2. CASE j = i
      <4>1. j < i + 1 /\ ~(j < i) /\ Kid(pages, i) = p
        BY <1>1, <1>2, <3>2 DEF p
      <4>. QED
        BY <1>5, <2>1, <2>2, <3>2, <4>1
    <3>3. CASE j = i + 1
      <4>1. ~(j < i + 1) /\ ~(j < i) /\ j # i
        BY <1>1, <1>2, <3>3
      <4>. QED
        BY <1>5, <2>1, <2>2, <3>3, <4>1
    <3>4. CASE j > i + 1
      <4>1. /\ j - 1 \in 0 .. k /\ j - 1 # i
            /\ ~(j < i + 1) /\ ~(j < i) /\ j # i /\ j # i + 1
        BY <1>1, <1>2, <3>4
      <4>. QED
        BY <1>6, <2>1, <2>2, <4>1
    <3>. QED
      BY <1>1, <1>2, <3>1, <3>2, <3>3, <3>4
  <2>. QED
    BY <1>4, <2>1, <2>3 DEF Halved, k, L1, M
<1>10. CASE /\ upper[RightSplitCount] = lower[LeftSplitCount]
            /\ PutIn(i, result[Root], pages[Root], n)
  <2>1. /\ Fanout(result) = k + 1
        /\ \A j \in 0 .. k + 1 :
             Kid(result, j) = IF j < i THEN Kid(pages, j)
                              ELSE IF j = i THEN n ELSE Kid(pages, j - 1)
    BY <1>7, <1>10
  <2>2. \A j \in 0 .. k + 1 : L1[j] = result[Kid(result, j)].cells
    BY <1>8, <2>1
  <2>3. ASSUME NEW j \in 0 .. k + 1
        PROVE  L1[j] = IF j < i THEN M[j]
                       ELSE IF j = i THEN upper
                       ELSE IF j = i + 1 THEN lower ELSE M[j - 1]
    <3>1. CASE j < i
      <4>1. j \in 0 .. k /\ j # i
        BY <1>1, <1>2, <3>1
      <4>. QED
        BY <1>6, <2>1, <2>2, <3>1, <4>1
    <3>2. CASE j = i
      <4>1. ~(j < i)
        BY <1>1, <1>2, <3>2
      <4>. QED
        BY <1>5, <2>1, <2>2, <3>2, <4>1
    <3>3. CASE j = i + 1
      <4>1. ~(j < i) /\ j # i /\ j - 1 = i /\ Kid(pages, i) = p
        BY <1>1, <1>2, <3>3 DEF p
      <4>. QED
        BY <1>5, <2>1, <2>2, <3>3, <4>1
    <3>4. CASE j > i + 1
      <4>1. /\ j - 1 \in 0 .. k /\ j - 1 # i
            /\ ~(j < i) /\ j # i /\ j # i + 1
        BY <1>1, <1>2, <3>4
      <4>. QED
        BY <1>6, <2>1, <2>2, <4>1
    <3>. QED
      BY <1>1, <1>2, <3>1, <3>2, <3>3, <3>4
  <2>. QED
    BY <1>4, <1>10, <2>1, <2>3 DEF Halved, k, L1, M
<1>. QED
  BY <1>9, <1>10 DEF SplitShape

LEMMA ChildSplitKeepsOrder ==
  ASSUME NEW n, NEW pages, NEW i, NEW pos, NEW key,
         Placed(n, pages, i, pos, key), NEW result, Sound(n + 1, result),
         NEW lower, NEW upper, SplitShape(n, pages, result, i, lower, upper),
         Halving(Crowded(pages, i, pos, key)[i], lower, upper)
  PROVE  Ordered(result)
<1>. DEFINE k == Fanout(pages)
            S == Separators(pages)
            M == Crowded(pages, i, pos, key)
            m == lower[LeftSplitCount]
            S1 == Separators(result)
            L1 == KidCells(result)
<1>1. /\ k \in Nat /\ i \in 0 .. k /\ \A j \in 0 .. k - 1 : S[j] \in Nat
      /\ InOrder(k, M, S) /\ Spread(i, S1, S, k, m)
  <2>1. Sound(n, pages) /\ IsNode(pages) /\ i \in 0 .. k
    BY DEF Placed, Aims
  <2>. QED
    BY <2>1, NodeFacts, KidCellsType, CrowdedOrder DEF SplitShape
<1>2. /\ IsNode(result) /\ Fanout(result) = k + 1
      /\ \/ Halved(k, L1, M, i, lower, upper)
         \/ /\ upper[RightSplitCount] = m
            /\ Halved(k, L1, M, i, upper, lower)
  BY SplitKids
<1>. HIDE DEF k, S, M, S1, L1
<1>3. /\ Fit(k, S, i, lower, upper, m)
      /\ upper[RightSplitCount] = m => Fit(k, S, i, upper, lower, m)
  BY <1>1, HalvesFit DEF M
<1>4. m \in Nat
  <2>1. Sorted(M[i])
    BY <1>1 DEF InOrder
  <2>. QED
    BY <2>1, HalvesOrder DEF M
<1>. HIDE DEF m
<1>5. InOrder(k + 1, L1, S1)
  <2>1. CASE Halved(k, L1, M, i, lower, upper)
    BY <1>1, <1>3, <1>4, <2>1, OrderAfterSplit
  <2>2. CASE upper[RightSplitCount] = m /\ Halved(k, L1, M, i, upper, lower)
    BY <1>1, <1>3, <1>4, <2>2, OrderAfterSplit
  <2>. QED
    BY <1>2, <2>1, <2>2
<1>. QED
  BY <1>2, <1>5 DEF Ordered, L1, S1

(* A leaf that is the root becomes the right child, for the upper half, and
   page 2, for the lower one. *)
RootPlaced(n, pages, pos, key) ==
  /\ Sound(n, pages) /\ ~IsNode(pages) /\ Ordered(pages)
  /\ key \in Nat /\ Divides(pages[Root].cells, pos, key)

LEMMA RootLeafFacts ==
  ASSUME NEW n, NEW pages, Sound(n, pages), ~IsNode(pages)
  PROVE  /\ n = 1 /\ pages \in UpTo(0) /\ DOMAIN pages = {Root}
         /\ pages[Root] \in Page /\ pages[Root].type = "leaf"
         /\ pages[Root].root /\ pages[Root].cells \in Seq(Nat)
         /\ pages[Root].num = Len(pages[Root].cells)
         /\ pages[Root].num \in 0 .. LeafMaxCells
<1>1. RootLeaf(n, pages[Root]) /\ pages \in UpTo(n - 1)
  BY DEF Sound, RootShape, RootNode, IsNode
<1>2. n = 1 /\ n - 1 = 0
  BY <1>1 DEF RootLeaf
<1>3. pages \in UpTo(0) /\ DOMAIN pages = {Root} /\ pages[Root] \in Page
  <2>1. 0 .. 0 = {Root} /\ Root \in 0 .. 0
    BY DEF Root
  <2>. QED
    BY <1>1, <1>2, <2>1 DEF UpTo
<1>. QED
  BY <1>1, <1>2, <1>3, PageType DEF RootLeaf

LEMMA RootRowKeepsOrder ==
  ASSUME NEW n, NEW pages, NEW pos, NEW key, RootPlaced(n, pages, pos, key)
  PROVE  LET result == WithRow(pages, Root, pos, key)
         IN  /\ Ordered(result)
             /\ result[Root].cells = InsertAt(pages[Root].cells, pos + 1, key)
             /\ result[Root].link = pages[Root].link
             /\ ~IsNode(result)
<1>. DEFINE old == pages[Root]
            new == [old EXCEPT !.num = @ + 1, !.cells = InsertAt(@, pos + 1, key)]
            result == WithRow(pages, Root, pos, key)
<1>1. /\ old \in Page /\ old.type = "leaf" /\ pages \in UpTo(0)
      /\ old.cells \in Seq(Nat)
  BY RootLeafFacts DEF RootPlaced
<1>2. Sorted(old.cells) /\ key \in Nat /\ Divides(old.cells, pos, key)
  BY DEF RootPlaced, Ordered
<1>3. /\ new.type = "leaf" /\ new.cells = InsertAt(old.cells, pos + 1, key)
      /\ new.link = old.link
  BY <1>1, PageType
<1>4. result = [pages EXCEPT ![Root] = new]
  BY DEF WithRow
<1>. HIDE DEF new, result
<1>5. result[Root] = new
  BY <1>1, <1>4 DEF UpTo, Root
<1>6. Sorted(InsertAt(old.cells, pos + 1, key))
  BY <1>1, <1>2, InsertedOrder
<1>7. ~IsNode(result) /\ Ordered(result)
  BY <1>3, <1>5, <1>6 DEF IsNode, Ordered
<1>. QED
  BY <1>3, <1>5, <1>7 DEF result

LEMMA RootSplitShape ==
  ASSUME NEW n, NEW pages, NEW pos, NEW key, NEW w \in Nat,
         RootPlaced(n, pages, pos, key), Len(pages[Root].cells) = LeafMaxCells,
         NEW result, Sound(3, result),
         Heightened(SplitPages(n, pages, Root, pos, key, w), result)
  PROVE  LET lower == LowerHalf(pages[Root], pos, key)
             upper == UpperHalf(pages[Root], pos, key)
         IN  /\ Halving(InsertAt(pages[Root].cells, pos + 1, key), lower, upper)
             /\ IsNode(result) /\ Fanout(result) = 1
             /\ Kid(result, 0) = 2 /\ Kid(result, 1) = 1
             /\ KidCells(result)[0] = lower /\ KidCells(result)[1] = upper
             /\ Separators(result)[0] = lower[LeftSplitCount]
             /\ result[2].link = 1 /\ result[1].link = pages[Root].link
<1>. DEFINE old == pages[Root]
            lower == LowerHalf(old, pos, key)
            upper == UpperHalf(old, pos, key)
            split == SplitPages(n, pages, Root, pos, key, w)
<1>1. /\ old \in Page /\ old.type = "leaf" /\ pages \in UpTo(0) /\ n = 1
      /\ old.cells \in Seq(Nat) /\ n - 1 = 0 /\ n \in Nat /\ Root \in 0 .. n - 1
  BY RootLeafFacts DEF RootPlaced, Root
<1>2. key \in Nat /\ pos \in 0 .. LeafMaxCells /\ pos \in 0 .. Len(old.cells)
  BY DEF RootPlaced, Divides
<1>3. Halving(InsertAt(old.cells, pos + 1, key), lower, upper)
  BY <1>1, <1>2, HalvesCells
<1>. HIDE DEF lower, upper
<1>4. /\ split[Root].num = LeftSplitCount /\ split[Root].link = 1
      /\ SubSeq(split[Root].cells, 1, LeftSplitCount) = lower
      /\ split[1].cells = upper /\ split[1].link = old.link
  <2>1. pages \in UpTo(n - 1)
    BY <1>1
  <2>. HIDE DEF split
  <2>. QED
    BY <1>1, <1>2, <2>1, SplitPagesType DEF lower, upper, split
<1>. HIDE DEF split
<1>5. /\ result[Root].num = 1 /\ result[Root].link = 1
      /\ result[Root].kids[0] = 2
      /\ result[Root].seps[0] = Last(result[2].cells)
      /\ result[1].cells = split[1].cells /\ result[1].link = split[1].link
      /\ result[2].cells = SubSeq(split[0].cells, 1, split[0].num)
      /\ result[2].link = split[0].link
  BY DEF Heightened, split
<1>6. /\ Fanout(result) = 1 /\ Kid(result, 0) = 2 /\ Kid(result, 1) = 1
      /\ IsNode(result)
  BY <1>5 DEF Fanout, Kid, Child, Sound, RootLeaf, RootShape, RootNode, IsNode
<1>7. /\ result[2].cells = lower /\ result[1].cells = upper
      /\ result[2].link = 1 /\ result[1].link = old.link
  BY <1>4, <1>5 DEF Root
<1>8. KidCells(result)[0] = lower /\ KidCells(result)[1] = upper
  <2>1. \A j \in 0 .. 1 : KidCells(result)[j] = result[Kid(result, j)].cells
    BY <1>6 DEF KidCells
  <2>2. 0 \in 0 .. 1 /\ 1 \in 0 .. 1
    OBVIOUS
  <2>. QED
    BY <1>6, <1>7, <2>1, <2>2
<1>9. Separators(result)[0] = lower[LeftSplitCount]
  <2>1. Len(lower) = LeftSplitCount
    BY <1>3 DEF Halving
  <2>. QED
    BY <1>5, <1>7, <2>1 DEF Separators, Last
<1>. QED
  BY <1>3, <1>6, <1>7, <1>8, <1>9 DEF lower, upper

(* Two halves with their separator. *)
LEMMA HalvesInOrder ==
  ASSUME NEW cells, NEW lower, NEW upper, Halving(cells, lower, upper),
         Sorted(cells), NEW L, L[0] = lower, L[1] = upper,
         NEW S, S[0] = lower[LeftSplitCount]
  PROVE  InOrder(1, L, S)
<1>1. /\ Sorted(lower) /\ Sorted(upper)
      /\ \A c \in 1 .. RightSplitCount : lower[LeftSplitCount] <= upper[c]
  BY HalvesOrder
<1>2. /\ Len(lower) = LeftSplitCount /\ Len(upper) = RightSplitCount
      /\ DOMAIN upper = 1 .. RightSplitCount
      /\ RightSplitCount \in 1 .. RightSplitCount
  BY SplitCounts DEF Halving
<1>3. \A i \in 0 .. 1 : i = 0 \/ i = 1
  OBVIOUS
<1>4. \A i \in 0 .. 1 : Sorted(L[i])
  BY <1>1, <1>3
<1>5. \A i \in 0 .. 1 - 1 : i = 0
  OBVIOUS
<1>6. \A i \in 0 .. 1 - 1 : S[i] = L[i][Len(L[i])]
  BY <1>2, <1>5
<1>7. \A i, j \in 0 .. 1 - 1 : i < j => S[i] <= S[j]
  BY <1>5
<1>8. ASSUME NEW i \in 1 .. 1
      PROVE  /\ S[i - 1] <= L[i][Len(L[i])]
             /\ \A c \in DOMAIN L[i] : c >= LeftSplitCount => S[i - 1] <= L[i][c]
  <2>1. i = 1 /\ i - 1 = 0
    OBVIOUS
  <2>. QED
    BY <1>1, <1>2, <2>1
<1>. QED
  BY <1>4, <1>6, <1>7, <1>8 DEF InOrder

LEMMA RootSplitKeepsOrder ==
  ASSUME NEW n, NEW pages, NEW pos, NEW key, NEW w \in Nat,
         RootPlaced(n, pages, pos, key), Len(pages[Root].cells) = LeafMaxCells,
         NEW result, Sound(3, result),
         Heightened(SplitPages(n, pages, Root, pos, key, w), result)
  PROVE  Ordered(result)
<1>. DEFINE old == pages[Root]
            cells == InsertAt(old.cells, pos + 1, key)
            lower == LowerHalf(old, pos, key)
            upper == UpperHalf(old, pos, key)
<1>1. /\ Halving(cells, lower, upper)
      /\ IsNode(result) /\ Fanout(result) = 1
      /\ KidCells(result)[0] = lower /\ KidCells(result)[1] = upper
      /\ Separators(result)[0] = lower[LeftSplitCount]
  BY RootSplitShape
<1>2. Sorted(cells)
  <2>1. old.cells \in Seq(Nat)
    BY RootLeafFacts DEF RootPlaced
  <2>2. Sorted(old.cells) /\ key \in Nat /\ Divides(old.cells, pos, key)
    BY DEF RootPlaced, Ordered
  <2>. QED
    BY <2>1, <2>2, InsertedOrder
<1>. HIDE DEF lower, upper, cells
<1>3. InOrder(1, KidCells(result), Separators(result))
  BY <1>1, <1>2, HalvesInOrder
<1>. QED
  BY <1>1, <1>3 DEF Ordered

-----------------------------------------------------------------------------
(* An insert, whatever leaf it ends in *)

(* The four ways it can go when the process survives: result, of n1 pages, is
   the tree with the key at place pos of the leaf the search found. *)
Grown(n, pages, pos, key, w, n1, result) ==
  \/ /\ RootPlaced(n, pages, pos, key)
     /\ n1 = n /\ result = WithRow(pages, Root, pos, key)
  \/ /\ RootPlaced(n, pages, pos, key) /\ Len(pages[Root].cells) = LeafMaxCells
     /\ n1 = 3 /\ Heightened(SplitPages(n, pages, Root, pos, key, w), result)
  \/ \E i : /\ Placed(n, pages, i, pos, key)
            /\ n1 = n /\ result = WithRow(pages, Kid(pages, i), pos, key)
  \/ \E i : /\ Placed(n, pages, i, pos, key)
            /\ Fanout(pages) < InternalMaxCells
            /\ Len(KidCells(pages)[i]) = LeafMaxCells
            /\ n1 = n + 1
            /\ result = ChildSplit(n, pages, Kid(pages, i), pos, key, w)

LEMMA RootInsertCases ==
  ASSUME NEW n, NEW pages, Sound(n, pages), Ordered(pages), ~IsNode(pages),
         NEW key \in Nat, NEW w \in Words,
         NEW pos \in LeafPositions(pages[Root], key)
  PROVE  \E n1, result : /\ LeafInsert(Db(n, pages), Root, pos, key, w)
                              = Db(n1, result)
                         /\ Sound(n1, result)
                         /\ Grown(n, pages, pos, key, w, n1, result)
<1>. DEFINE d == LeafInsert(Db(n, pages), Root, pos, key, w)
            old == pages[Root]
<1>1. /\ n = 1 /\ n \in Nat /\ Root \in 0 .. n - 1
      /\ old.type = "leaf" /\ old.root
      /\ old.cells \in Seq(Nat) /\ old.num = Len(old.cells)
      /\ old.num \in 0 .. LeafMaxCells
  BY RootLeafFacts DEF Root
<1>2. Sorted(old.cells)
  BY DEF Ordered
<1>3. Divides(old.cells, pos, key)
  BY <1>1, <1>2, FoundPosition
<1>4. RootPlaced(n, pages, pos, key) /\ pos \in 0 .. Len(old.cells)
  BY <1>3 DEF RootPlaced, Divides
<1>5. CASE old.num < LeafMaxCells
  <2>. DEFINE result == WithRow(pages, Root, pos, key)
  <2>1. d = Db(n, result) /\ Sound(n, result)
    BY <1>1, <1>4, <1>5, RoomyLeafResult
  <2>2. Grown(n, pages, pos, key, w, n, result)
    BY <1>4 DEF Grown
  <2>. HIDE DEF result
  <2>. QED
    BY <2>1, <2>2
<1>6. CASE old.num = LeafMaxCells
  <2>1. d = LeafSplitAndInsert(Db(n, pages), Root, pos, key, w)
    <3>1. Db(n, pages).pages = pages
      BY DEF Db
    <3>2. old.num >= LeafMaxCells
      BY <1>6, SplitCounts
    <3>. QED
      BY <3>1, <3>2 DEF LeafInsert
  <2>. HIDE DEF d
  <2>. DEFINE e == LeafSplitAndInsert(Db(n, pages), Root, pos, key, w)
  <2>2. pos \in 0 .. LeafMaxCells
    BY <1>1, <1>4, <1>6
  <2>3. \E result : /\ e = Db(3, result) /\ Sound(3, result)
                    /\ Heightened(SplitPages(n, pages, Root, pos, key, w), result)
    BY <1>1, <1>6, <2>2, RootSplitResult
  <2>4. PICK result : /\ d = Db(3, result) /\ Sound(3, result)
                      /\ Heightened(SplitPages(n, pages, Root, pos, key, w), result)
    BY <2>1, <2>3
  <2>5. Grown(n, pages, pos, key, w, 3, result)
    BY <1>1, <1>4, <1>6, <2>4 DEF Grown
  <2>. QED
    BY <2>4, <2>5 DEF d
<1>. QED
  BY <1>1, <1>5, <1>6, SplitCounts

LEMMA ChildInsertCases ==
  ASSUME NEW n, NEW pages, NEW i, NEW pos, NEW key, NEW w \in Words,
         Placed(n, pages, i, pos, key)
  PROVE  LET d == LeafInsert(Db(n, pages), Kid(pages, i), pos, key, w)
         IN  \/ d \in Lost
             \/ \E n1, result : /\ d = Db(n1, result) /\ Sound(n1, result)
                                /\ Grown(n, pages, pos, key, w, n1, result)
<1>. DEFINE p == Kid(pages, i)
            d == LeafInsert(Db(n, pages), p, pos, key, w)
            old == pages[p]
<1>1. /\ Sound(n, pages) /\ IsNode(pages) /\ key \in Nat
      /\ i \in 0 .. Fanout(pages) /\ Divides(KidCells(pages)[i], pos, key)
  BY DEF Placed, Aims
<1>2. /\ n \in Nat /\ p \in 0 .. n - 1 /\ old.type = "leaf" /\ ~old.root
      /\ old.cells \in Seq(Nat) /\ KidCells(pages)[i] = old.cells
      /\ old.num = Len(old.cells)
  BY <1>1, NodeFacts
<1>3. Len(old.cells) \in 1 .. LeafMaxCells
  BY <1>1, NodeFacts
<1>4. pos \in 0 .. Len(old.cells)
  BY <1>1, <1>2 DEF Divides
<1>5. CASE old.num < LeafMaxCells
  <2>. DEFINE result == WithRow(pages, p, pos, key)
  <2>1. d = Db(n, result) /\ Sound(n, result)
    BY <1>1, <1>2, <1>4, <1>5, RoomyLeafResult
  <2>2. Grown(n, pages, pos, key, w, n, result)
    BY DEF Grown
  <2>. HIDE DEF result, d
  <2>. QED
    BY <2>1, <2>2 DEF d
<1>6. CASE old.num = LeafMaxCells
  <2>1. d = LeafSplitAndInsert(Db(n, pages), p, pos, key, w)
    <3>1. Db(n, pages).pages = pages
      BY DEF Db
    <3>2. old.num >= LeafMaxCells
      BY <1>6, SplitCounts
    <3>. QED
      BY <3>1, <3>2 DEF LeafInsert
  <2>. HIDE DEF d
  <2>. DEFINE e == LeafSplitAndInsert(Db(n, pages), p, pos, key, w)
              result == ChildSplit(n, pages, p, pos, key, w)
  <2>2. pos \in 0 .. LeafMaxCells
    BY <1>2, <1>4, <1>6
  <2>3. \/ e \in Lost
        \/ /\ e = Db(n + 1, result) /\ Sound(n + 1, result)
           /\ pages[Root].num < InternalMaxCells
    BY <1>1, <1>2, <1>6, <2>2, ChildSplitResult
  <2>4. pages[Root].num < InternalMaxCells
          => Grown(n, pages, pos, key, w, n + 1, result)
    <3>1. Len(KidCells(pages)[i]) = LeafMaxCells
      BY <1>2, <1>6
    <3>. QED
      BY <3>1 DEF Grown, Fanout
  <2>. HIDE DEF e, result
  <2>. QED
    BY <2>1, <2>3, <2>4 DEF d, e
<1>. QED
  BY <1>2, <1>3, <1>5, <1>6, SplitCounts

LEMMA InsertCases ==
  ASSUME NEW n, NEW pages, Sound(n, pages), Ordered(pages),
         NEW key \in Nat, NEW w \in Words,
         NEW pos \in LeafPositions(pages[FindLeaf(pages, key)], key)
  PROVE  LET d == LeafInsert(Db(n, pages), FindLeaf(pages, key), pos, key, w)
         IN  \/ d \in Lost
             \/ \E n1, result : /\ d = Db(n1, result) /\ Sound(n1, result)
                                /\ Grown(n, pages, pos, key, w, n1, result)
<1>1. CASE ~IsNode(pages)
  <2>1. FindLeaf(pages, key) = Root
    BY <1>1, RootLeafFacts DEF FindLeaf, StepDown
  <2>. QED
    BY <1>1, <2>1, RootInsertCases
<1>2. CASE IsNode(pages)
  <2>1. PICK i \in 0 .. Fanout(pages) :
          Aims(pages, i, key) /\ FindLeaf(pages, key) = Kid(pages, i)
    BY <1>2, LeafReached
  <2>2. /\ pages[Kid(pages, i)].cells \in Seq(Nat)
        /\ KidCells(pages)[i] = pages[Kid(pages, i)].cells
    BY <1>2, <2>1, NodeFacts
  <2>3. Sorted(KidCells(pages)[i])
    BY <1>2, <2>1 DEF Ordered, InOrder
  <2>4. Divides(pages[Kid(pages, i)].cells, pos, key)
    BY <2>1, <2>2, <2>3, FoundPosition
  <2>5. Placed(n, pages, i, pos, key)
    BY <1>2, <2>1, <2>2, <2>4 DEF Placed
  <2>. QED
    BY <2>1, <2>5, ChildInsertCases
<1>. QED
  BY <1>1, <1>2

LEMMA GrownKeepsOrder ==
  ASSUME NEW n, NEW pages, NEW pos, NEW key, NEW w \in Nat, NEW n1, NEW result,
         Grown(n, pages, pos, key, w, n1, result), Sound(n1, result)
  PROVE  Ordered(result)
<1>1. CASE /\ RootPlaced(n, pages, pos, key)
           /\ n1 = n /\ result = WithRow(pages, Root, pos, key)
  BY <1>1, RootRowKeepsOrder
<1>2. CASE /\ RootPlaced(n, pages, pos, key)
           /\ Len(pages[Root].cells) = LeafMaxCells /\ n1 = 3
           /\ Heightened(SplitPages(n, pages, Root, pos, key, w), result)
  BY <1>2, RootSplitKeepsOrder
<1>3. ASSUME NEW i, Placed(n, pages, i, pos, key),
             result = WithRow(pages, Kid(pages, i), pos, key)
      PROVE  Ordered(result)
  BY <1>3, RowKeepsOrder
<1>4. ASSUME NEW i, Placed(n, pages, i, pos, key),
             Fanout(pages) < InternalMaxCells,
             Len(KidCells(pages)[i]) = LeafMaxCells, n1 = n + 1,
             result = ChildSplit(n, pages, Kid(pages, i), pos, key, w)
      PROVE  Ordered(result)
  <2>. DEFINE p == Kid(pages, i)
              lower == LowerHalf(pages[p], pos, key)
              upper == UpperHalf(pages[p], pos, key)
  <2>1. /\ SplitShape(n, pages, result, i, lower, upper)
        /\ Halving(Crowded(pages, i, pos, key)[i], lower, upper)
    BY <1>4, ChildSplitShape
  <2>. HIDE DEF lower, upper
  <2>. QED
    BY <1>4, <2>1, ChildSplitKeepsOrder
<1>. QED
  BY <1>1, <1>2, <1>3, <1>4 DEF Grown

-----------------------------------------------------------------------------
(* The order is an invariant, in memory and in the file *)

OrderedDb(d) == \E n, pages : /\ d = Db(n, pages)
                              /\ Sound(n, pages) /\ Ordered(pages)

OrderInv ==
  /\ db \in Lost \cup {Closed} \/ OrderedDb(db)
  /\ \/ disk = EmptyFile
     \/ \E n, pages : /\ disk = [num_pages |-> n, pages |-> pages]
                      /\ Sound(n, pages) /\ Ordered(pages)

LEMMA RunningIsOrdered ==
  ASSUME OrderInv, Running
  PROVE  \E n, pages : /\ db = Db(n, pages) /\ db.pages = pages
                       /\ Sound(n, pages) /\ Ordered(pages)
<1>1. db \notin Lost \cup {Closed}
  BY Fates DEF Running
<1>. QED
  BY <1>1, Fates DEF OrderInv, OrderedDb

(* A statement that inserts. *)
LEMMA InsertGrows ==
  ASSUME NEW n, NEW pages, db = Db(n, pages), Sound(n, pages), Ordered(pages),
         NEW key \in Keys, NEW w \in Words, Insert(key, w)
  PROVE  \/ db' = db
         \/ db' \in Lost
         \/ \E pos, n1, result : /\ db' = Db(n1, result) /\ Sound(n1, result)
                                 /\ Grown(n, pages, pos, key, w, n1, result)
<1>1. db.pages = pages /\ key \in Nat
  BY Fates, BTreeAssumption
<1>. DEFINE leaf == FindLeaf(pages, key)
<1>2. PICK pos \in LeafPositions(pages[leaf], key) :
        db' = db \/ db' = LeafInsert(db, leaf, pos, key, w)
  BY <1>1 DEF Insert
<1>3. CASE db' = LeafInsert(db, leaf, pos, key, w)
  <2>. DEFINE d == LeafInsert(Db(n, pages), leaf, pos, key, w)
  <2>1. \/ d \in Lost
        \/ \E n1, result : /\ d = Db(n1, result) /\ Sound(n1, result)
                           /\ Grown(n, pages, pos, key, w, n1, result)
    BY <1>1, <1>2, InsertCases
  <2>2. db' = d
    BY <1>3
  <2>. QED
    BY <2>1, <2>2
<1>. QED
  BY <1>2, <1>3

(* The file of a new database. *)
LEMMA NewRootLeaf ==
  ASSUME NEW w \in Words
  PROVE  LET d == GetPage([Closed EXCEPT !.fate = "runs"], Root, w)
             root == [LeafInit(d.pages[Root]) EXCEPT !.root = TRUE]
         IN  \E pages : /\ SetPage(d, Root, root) = Db(1, pages)
                        /\ pages[Root].type = "leaf"
                        /\ pages[Root].cells = <<>> /\ pages[Root].link = 0
<1>. DEFINE empty == [Closed EXCEPT !.fate = "runs"]
            d == GetPage(empty, Root, w)
            fresh == [q \in 0 .. 0 |-> FreshPage(w)]
            root == [LeafInit(FreshPage(w)) EXCEPT !.root = TRUE]
<1>1. empty = Db(0, NoPages)
  BY DEF Closed, Db
<1>2. d = Db(1, fresh)
  <2>1. GetPage(Db(0, NoPages), 0, w) =
          Db(0 + 1, [q \in 0 .. 0 |-> IF q < 0 THEN NoPages[q]
                                      ELSE FreshPage(w)])
    BY SmallPages DEF GetPage, Db
  <2>2. d = GetPage(Db(0, NoPages), 0, w) /\ 0 + 1 = 1
    BY <1>1 DEF Root
  <2>3. [q \in 0 .. 0 |-> IF q < 0 THEN NoPages[q] ELSE FreshPage(w)] = fresh
    OBVIOUS
  <2>. QED
    BY <2>1, <2>2, <2>3
<1>3. d.pages = fresh /\ fresh[Root] = FreshPage(w)
  BY <1>2, Fates DEF Root
<1>4. root.type = "leaf" /\ root.cells = <<>> /\ root.link = 0
  <2>. DEFINE leaf == LeafInit(FreshPage(w))
  <2>1. /\ leaf \in Page /\ leaf.type = "leaf"
        /\ leaf.cells = <<>> /\ leaf.link = 0
    <3>1. w \in Nat
      BY BTreeAssumption
    <3>2. leaf \in Page /\ leaf.type = "leaf" /\ leaf.cells = <<>>
      BY <3>1, NewLeafPage
    <3>3. leaf.link = 0
      BY DEF LeafInit, FreshPage
    <3>. QED
      BY <3>2, <3>3
  <2>. HIDE DEF leaf
  <2>2. root = [leaf EXCEPT !.root = TRUE]
    BY DEF leaf
  <2>. HIDE DEF root
  <2>. QED
    BY <2>1, <2>2 DEF Page
<1>. HIDE DEF root, fresh
<1>5. SetPage(Db(1, fresh), Root, root) = Db(1, WithRoot(fresh, root))
  BY SetRootDb
<1>6. WithRoot(fresh, root)[Root] = root
  BY DEF WithRoot, Root, fresh
<1>. QED
  BY <1>2, <1>3, <1>4, <1>5, <1>6 DEF root

LEMMA OpenedTree ==
  ASSUME NEW w \in Words, Open(w), Inv
  PROVE  \/ \E pages : /\ db' = Db(1, pages) /\ Sound(1, pages)
                       /\ ~IsNode(pages) /\ pages[Root].cells = <<>>
                       /\ pages[Root].link = 0
         \/ /\ disk # EmptyFile
            /\ db' = [num_pages |-> disk.num_pages, pages |-> disk.pages,
                      fate |-> "runs"]
<1>1. CASE disk = EmptyFile
  <2>1. disk.num_pages = 0
    BY <1>1 DEF EmptyFile
  <2>2. PICK pages : /\ db' = Db(1, pages) /\ pages[Root].type = "leaf"
                     /\ pages[Root].cells = <<>> /\ pages[Root].link = 0
    BY <2>1, NewRootLeaf DEF Open
  <2>3. PICK n, pages1 : db' = Db(n, pages1) /\ Sound(n, pages1)
    BY OpenResult DEF SoundDb
  <2>4. n = 1 /\ pages1 = pages
    BY <2>2, <2>3, Fates
  <2>. QED
    BY <2>2, <2>3, <2>4 DEF IsNode
<1>2. CASE disk # EmptyFile
  <2>1. disk.num_pages # 0
    BY <1>2 DEF Inv, Sound
  <2>. QED
    BY <1>2, <2>1 DEF Open
<1>. QED
  BY <1>1, <1>2

LEMMA OrderInvIsInv ==
  ASSUME OrderInv
  PROVE  Inv
BY DEF OrderInv, Inv, OrderedDb, SoundDb

LEMMA OrderIsKept ==
  ASSUME OrderInv, [Next]_vars
  PROVE  OrderInv'
<1>1. ASSUME NEW w \in Words, Open(w)
      PROVE  OrderInv'
  <2>1. OrderedDb(db')
    <3>1. ASSUME NEW pages, db' = Db(1, pages), Sound(1, pages),
                 ~IsNode(pages), pages[Root].cells = <<>>
          PROVE  OrderedDb(db')
      <4>1. Sorted(<<>>)
        BY DEF Sorted
      <4>2. Ordered(pages)
        BY <3>1, <4>1 DEF Ordered
      <4>. QED
        BY <3>1, <4>2 DEF OrderedDb
    <3>2. CASE /\ disk # EmptyFile
               /\ db' = [num_pages |-> disk.num_pages, pages |-> disk.pages,
                         fate |-> "runs"]
      <4>1. PICK n, pages : /\ disk = [num_pages |-> n, pages |-> pages]
                            /\ Sound(n, pages) /\ Ordered(pages)
        BY <3>2 DEF OrderInv
      <4>2. db' = Db(n, pages)
        BY <3>2, <4>1 DEF Db
      <4>. QED
        BY <4>1, <4>2 DEF OrderedDb
    <3>. QED
      BY <1>1, <3>1, <3>2, OpenedTree, OrderInvIsInv
  <2>. QED
    BY <1>1, <2>1 DEF Open, OrderInv
<1>2. ASSUME NEW key \in Keys, NEW w \in Words, Insert(key, w)
      PROVE  OrderInv'
  <2>1. PICK n, pages : /\ db = Db(n, pages)
                        /\ Sound(n, pages) /\ Ordered(pages)
    BY <1>2, RunningIsOrdered DEF Insert
  <2>2. CASE db' = db
    BY <1>2, <2>2 DEF Insert, OrderInv
  <2>3. CASE db' \in Lost
    BY <1>2, <2>3 DEF Insert, OrderInv
  <2>4. ASSUME NEW pos, NEW n1, NEW result, db' = Db(n1, result),
               Sound(n1, result), Grown(n, pages, pos, key, w, n1, result)
        PROVE  OrderInv'
    <3>1. w \in Nat
      BY BTreeAssumption
    <3>2. OrderedDb(db')
      BY <2>4, <3>1, GrownKeepsOrder DEF OrderedDb
    <3>. QED
      BY <1>2, <3>2 DEF Insert, OrderInv
  <2>. QED
    BY <1>2, <2>1, <2>2, <2>3, <2>4, InsertGrows
<1>3. CASE Select \/ UNCHANGED vars
  BY <1>3 DEF Select, vars, OrderInv
<1>4. CASE Close
  <2>1. PICK n, pages : /\ db = Db(n, pages)
                        /\ Sound(n, pages) /\ Ordered(pages)
    BY <1>4, RunningIsOrdered DEF Close
  <2>2. disk' = [num_pages |-> n, pages |-> pages] /\ db' = Closed
    BY <1>4, <2>1, Fates DEF Close
  <2>. QED
    BY <2>1, <2>2 DEF OrderInv
<1>5. CASE Kill
  BY <1>5 DEF Kill, OrderInv
<1>. QED
  BY <1>1, <1>2, <1>3, <1>4, <1>5 DEF Next

(* Leaves and separators are in order in every open database and every saved
   one. *)
THEOREM AlwaysOrdered == Spec => []OrderInv
<1>1. Init => OrderInv
  BY DEF Init, OrderInv
<1>2. OrderInv /\ [Next]_vars => OrderInv'
  BY OrderIsKept
<1>. QED
  BY <1>1, <1>2, PTL DEF Spec

(* AllSorted, of btree_node_leaf_find and btree_node_internal_find_child: they
   are only ever given sorted arrays. *)
THEOREM SearchesAreSound == Spec => []AllSorted
<1>1. ASSUME NEW n, NEW pages, Sound(n, pages), Ordered(pages),
             NEW p \in DOMAIN pages
      PROVE  NodeSorted(pages[p])
  <2>1. CASE ~IsNode(pages)
    <3>1. p = Root /\ pages[Root].type = "leaf" /\ Sorted(pages[Root].cells)
      BY <1>1, <2>1, RootLeafFacts DEF Ordered
    <3>. QED
      BY <3>1 DEF NodeSorted, Sorted
  <2>2. CASE IsNode(pages)
    <3>1. InOrder(Fanout(pages), KidCells(pages), Separators(pages))
      BY <1>1, <2>2 DEF Ordered
    <3>2. CASE p = Root
      BY <2>2, <3>1, <3>2 DEF InOrder, NodeSorted, IsNode, Fanout, Separators
    <3>3. CASE p # Root
      <4>1. p \in 1 .. n - 1
        BY <1>1, <3>3 DEF Sound, UpTo, Root
      <4>2. PICK i \in 0 .. Fanout(pages) : p = Kid(pages, i)
        BY <1>1, <2>2, <4>1, NodeFacts DEF RootShape, RootNode, Kid, Fanout
      <4>3. pages[p].type = "leaf" /\ KidCells(pages)[i] = pages[p].cells
        BY <1>1, <2>2, <4>2, NodeFacts
      <4>4. Sorted(pages[p].cells)
        BY <3>1, <4>2, <4>3 DEF InOrder
      <4>. QED
        BY <4>3, <4>4 DEF NodeSorted, Sorted
    <3>. QED
      BY <3>2, <3>3
  <2>. QED
    BY <2>1, <2>2
<1>2. OrderInv => AllSorted
  BY <1>1, RunningIsOrdered DEF AllSorted
<1>. QED
  BY <1>2, AlwaysOrdered, PTL

(* SeparatorIsMax, of btree_node_internal_update_key and
   btree_node_internal_insert: whatever splits, every separator is the greatest
   key of the leaf on its left. *)
THEOREM SeparatorsAreGreatest == Spec => []SeparatorIsMax
<1>1. ASSUME NEW n, NEW pages, Sound(n, pages), Ordered(pages), IsNode(pages),
             NEW i \in 0 .. pages[Root].num - 1
      PROVE  pages[Root].seps[i] = MaxKey(pages, pages[Root].kids[i])
  <2>1. /\ i \in 0 .. Fanout(pages) /\ i \in 0 .. Fanout(pages) - 1
        /\ Kid(pages, i) = pages[Root].kids[i]
    <3>1. Fanout(pages) \in Nat /\ i \in 0 .. Fanout(pages) - 1
      BY <1>1, KidCellsType DEF Fanout
    <3>2. i \in 0 .. Fanout(pages) /\ i # Fanout(pages)
      BY <3>1
    <3>. QED
      BY <3>1, <3>2 DEF Kid, Child, Fanout
  <2>. DEFINE p == Kid(pages, i)
  <2>2. /\ pages[p].type = "leaf" /\ pages[p].cells \in Seq(Nat)
        /\ Len(pages[p].cells) > 0 /\ KidCells(pages)[i] = pages[p].cells
    <3>1. /\ pages[p].type = "leaf" /\ pages[p].cells \in Seq(Nat)
          /\ KidCells(pages)[i] = pages[p].cells
      BY SMTT(30), <1>1, <2>1, NodeFacts
    <3>2. Len(KidCells(pages)[i]) > 0
      BY <1>1, <2>1, KidCellsType
    <3>. QED
      BY <3>1, <3>2
  <2>3. MaxKey(pages, p) = Last(pages[p].cells)
    BY <2>2, MaxKeyOfLeaf
  <2>4. Separators(pages)[i] = KidCells(pages)[i][Len(KidCells(pages)[i])]
    BY <1>1, <2>1 DEF Ordered, InOrder
  <2>. QED
    BY <2>1, <2>2, <2>3, <2>4 DEF Separators, Last
<1>2. OrderInv => SeparatorIsMax
  BY <1>1, RunningIsOrdered DEF SeparatorIsMax, IsNode
<1>. QED
  BY <1>2, AlwaysOrdered, PTL

-----------------------------------------------------------------------------
(* Sequences put one behind the other *)

(* Every cell of an earlier sequence is below every one of a later. *)
Ranked(seqs) ==
  /\ \A j \in DOMAIN seqs : Increasing(seqs[j])
  /\ \A i, j \in DOMAIN seqs : i < j =>
       \A c \in DOMAIN seqs[i], d \in DOMAIN seqs[j] : seqs[i][c] < seqs[j][d]

(* joined holds what the first k sequences hold. *)
Joins(joined, seqs, k) ==
  /\ joined \in Seq(Nat)
  /\ \A x \in DOMAIN joined :
       \E j \in 1 .. k : \E c \in DOMAIN seqs[j] : joined[x] = seqs[j][c]
  /\ \A j \in 1 .. k : \A c \in DOMAIN seqs[j] :
       \E x \in DOMAIN joined : joined[x] = seqs[j][c]
  /\ Ranked(seqs) => Increasing(joined)

(* Each place of joined is a cell of one of the first k sequences, another cell
   for every place. *)
DrawnBy(from, cell, joined, seqs, k) ==
  /\ \A x \in DOMAIN joined :
       /\ from[x] \in 1 .. k /\ cell[x] \in DOMAIN seqs[from[x]]
       /\ joined[x] = seqs[from[x]][cell[x]]
  /\ \A x, y \in DOMAIN joined :
       from[x] = from[y] /\ cell[x] = cell[y] => x = y

Drawn(joined, seqs, k) == \E from, cell : DrawnBy(from, cell, joined, seqs, k)

LEMMA DrawnFirst ==
  ASSUME NEW seqs, seqs[1] \in Seq(Nat)
  PROVE  Drawn(seqs[1], seqs, 1)
<1>. DEFINE from == [x \in DOMAIN seqs[1] |-> 1]
            cell == [x \in DOMAIN seqs[1] |-> x]
<1>1. DrawnBy(from, cell, seqs[1], seqs, 1)
  BY DEF DrawnBy
<1>. HIDE DEF from, cell
<1>. QED
  BY <1>1 DEF Drawn

LEMMA DrawnNext ==
  ASSUME NEW joined \in Seq(Nat), NEW seqs, NEW k \in Nat \ {0},
         Drawn(joined, seqs, k), seqs[k + 1] \in Seq(Nat)
  PROVE  Drawn(joined \o seqs[k + 1], seqs, k + 1)
<1>. DEFINE new == seqs[k + 1]
            len == Len(joined)
            more == Len(new)
            whole == joined \o new
<1>1. /\ len \in Nat /\ more \in Nat /\ DOMAIN joined = 1 .. len
      /\ DOMAIN new = 1 .. more /\ DOMAIN whole = 1 .. len + more
      /\ \A x \in 1 .. len : whole[x] = joined[x]
      /\ \A x \in len + 1 .. len + more : whole[x] = new[x - len]
  OBVIOUS
<1>2. PICK from, cell : DrawnBy(from, cell, joined, seqs, k)
  BY DEF Drawn
<1>. DEFINE from1 == [x \in 1 .. len + more |-> IF x <= len THEN from[x] ELSE k + 1]
            cell1 == [x \in 1 .. len + more |-> IF x <= len THEN cell[x] ELSE x - len]
<1>. HIDE DEF new, len, more, whole
<1>3. \A x \in 1 .. len + more :
        \/ /\ x \in 1 .. len
           /\ from1[x] = from[x] /\ cell1[x] = cell[x]
        \/ /\ x \in len + 1 .. len + more /\ x - len \in 1 .. more
           /\ from1[x] = k + 1 /\ cell1[x] = x - len
  BY <1>1
<1>. HIDE DEF from1, cell1
<1>4. ASSUME NEW x \in 1 .. len + more
      PROVE  /\ from1[x] \in 1 .. k + 1 /\ cell1[x] \in DOMAIN seqs[from1[x]]
             /\ whole[x] = seqs[from1[x]][cell1[x]]
  <2>1. CASE /\ x \in 1 .. len
             /\ from1[x] = from[x] /\ cell1[x] = cell[x]
    <3>1. /\ from[x] \in 1 .. k /\ cell[x] \in DOMAIN seqs[from[x]]
          /\ joined[x] = seqs[from[x]][cell[x]]
      BY <1>1, <1>2, <2>1 DEF DrawnBy
    <3>. QED
      BY <1>1, <2>1, <3>1
  <2>2. CASE /\ x \in len + 1 .. len + more /\ x - len \in 1 .. more
             /\ from1[x] = k + 1 /\ cell1[x] = x - len
    <3>1. k + 1 \in 1 .. k + 1 /\ seqs[from1[x]] = new
      BY <2>2 DEF new
    <3>. QED
      BY <1>1, <2>2, <3>1
  <2>. QED
    BY <1>3, <2>1, <2>2
<1>5. ASSUME NEW x \in 1 .. len + more, NEW y \in 1 .. len + more,
             from1[x] = from1[y], cell1[x] = cell1[y]
      PROVE  x = y
  <2>1. k + 1 \notin 1 .. k
    OBVIOUS
  <2>2. \A z \in 1 .. len : from[z] \in 1 .. k
    BY <1>1, <1>2 DEF DrawnBy
  <2>3. CASE /\ x \in 1 .. len /\ from1[x] = from[x] /\ cell1[x] = cell[x]
    <3>1. y \in 1 .. len /\ from1[y] = from[y] /\ cell1[y] = cell[y]
      BY <1>3, <1>5, <2>1, <2>2, <2>3
    <3>. QED
      BY <1>1, <1>2, <1>5, <2>3, <3>1 DEF DrawnBy
  <2>4. CASE /\ x \in len + 1 .. len + more
             /\ from1[x] = k + 1 /\ cell1[x] = x - len
    <3>1. y \in len + 1 .. len + more /\ cell1[y] = y - len
      BY <1>3, <1>5, <2>1, <2>2, <2>4
    <3>2. x - len = y - len
      BY <1>5, <2>4, <3>1
    <3>. QED
      BY <1>1, <2>4, <3>1, <3>2
  <2>. QED
    BY <1>3, <2>3, <2>4
<1>6. DrawnBy(from1, cell1, whole, seqs, k + 1)
  BY <1>1, <1>4, <1>5 DEF DrawnBy
<1>7. Drawn(whole, seqs, k + 1)
  BY <1>6 DEF Drawn
<1>. QED
  BY <1>7 DEF new, whole

LEMMA JoinsFirst ==
  ASSUME NEW seqs, 1 \in DOMAIN seqs, seqs[1] \in Seq(Nat)
  PROVE  Joins(seqs[1], seqs, 1)
<1>1. \A j \in 1 .. 1 : j = 1
  OBVIOUS
<1>2. 1 \in 1 .. 1
  OBVIOUS
<1>3. Ranked(seqs) => Increasing(seqs[1])
  BY DEF Ranked
<1>. QED
  BY <1>1, <1>2, <1>3 DEF Joins

LEMMA JoinsNext ==
  ASSUME NEW joined, NEW seqs, NEW k \in Nat \ {0}, Joins(joined, seqs, k),
         1 .. k + 1 \subseteq DOMAIN seqs, seqs[k + 1] \in Seq(Nat)
  PROVE  Joins(joined \o seqs[k + 1], seqs, k + 1)
<1>. DEFINE new == seqs[k + 1]
            whole == joined \o new
            len == Len(joined)
<1>1. /\ joined \in Seq(Nat) /\ len \in Nat /\ DOMAIN joined = 1 .. len
      /\ \A x \in 1 .. len :
           \E j \in 1 .. k : \E c \in DOMAIN seqs[j] : joined[x] = seqs[j][c]
      /\ \A j \in 1 .. k : \A c \in DOMAIN seqs[j] :
           \E x \in 1 .. len : joined[x] = seqs[j][c]
  <2>1. joined \in Seq(Nat)
    BY DEF Joins
  <2>2. len \in Nat /\ DOMAIN joined = 1 .. len
    BY <2>1
  <2>. HIDE DEF len, new
  <2>. QED
    BY <2>1, <2>2, Zenon DEF Joins
<1>2. /\ new \in Seq(Nat) /\ Len(new) \in Nat /\ DOMAIN new = 1 .. Len(new)
      /\ k + 1 \in DOMAIN seqs /\ k + 1 \in 1 .. k + 1
  OBVIOUS
<1>3. /\ whole \in Seq(Nat) /\ Len(whole) = len + Len(new)
      /\ \A x \in 1 .. len + Len(new) :
           whole[x] = IF x <= len THEN joined[x] ELSE new[x - len]
  BY <1>1, <1>2, ConcatProperties
<1>4. DOMAIN whole = 1 .. len + Len(new)
  BY <1>3
<1>. HIDE DEF whole, len, new
<1>5. \A x \in 1 .. len + Len(new) :
        \/ x \in 1 .. len /\ whole[x] = joined[x]
        \/ /\ x > len /\ x - len \in 1 .. Len(new)
           /\ whole[x] = new[x - len]
  <2>. TAKE x \in 1 .. len + Len(new)
  <2>1. len \in Nat /\ Len(new) \in Nat
    BY <1>1, <1>2
  <2>2. whole[x] = IF x <= len THEN joined[x] ELSE new[x - len]
    BY <1>3
  <2>3. \/ x <= len /\ x \in 1 .. len
        \/ ~(x <= len) /\ x > len /\ x - len \in 1 .. Len(new)
    BY <2>1
  <2>. QED
    BY <2>2, <2>3
<1>6. \A c \in 1 .. Len(new) : /\ len + c \in 1 .. len + Len(new)
                               /\ whole[len + c] = new[c]
  <2>. TAKE c \in 1 .. Len(new)
  <2>1. /\ len + c \in 1 .. len + Len(new) /\ ~(len + c <= len)
        /\ (len + c) - len = c
    BY <1>1, <1>2
  <2>. QED
    BY <1>3, <2>1
<1>7. \A x \in 1 .. len : x \in 1 .. len + Len(new) /\ whole[x] = joined[x]
  <2>. TAKE x \in 1 .. len
  <2>1. len \in Nat /\ Len(new) \in Nat
    BY <1>1, <1>2
  <2>2. x \in 1 .. len + Len(new) /\ x <= len
    BY <2>1
  <2>. QED
    BY <1>3, <2>2
<1>8. \A j \in 1 .. k : j \in 1 .. k + 1 /\ j < k + 1
  OBVIOUS
<1>9. \A j \in 1 .. k + 1 : j \in 1 .. k \/ j = k + 1
  OBVIOUS
<1>10. \A x \in DOMAIN whole :
         \E j \in 1 .. k + 1 : \E c \in DOMAIN seqs[j] : whole[x] = seqs[j][c]
  <2>. TAKE x \in DOMAIN whole
  <2>1. CASE x \in 1 .. len /\ whole[x] = joined[x]
    BY <1>1, <1>8, <2>1
  <2>2. CASE x - len \in 1 .. Len(new) /\ whole[x] = new[x - len]
    BY <1>2, <2>2 DEF new
  <2>. QED
    BY <1>4, <1>5, <2>1, <2>2
<1>11. \A j \in 1 .. k + 1 : \A c \in DOMAIN seqs[j] :
         \E x \in DOMAIN whole : whole[x] = seqs[j][c]
  <2>. TAKE j \in 1 .. k + 1
  <2>. TAKE c \in DOMAIN seqs[j]
  <2>1. CASE j \in 1 .. k
    <3>1. PICK x \in 1 .. len : joined[x] = seqs[j][c]
      BY <1>1, <2>1
    <3>. QED
      BY <1>4, <1>7, <3>1
  <2>2. CASE j = k + 1
    <3>1. c \in 1 .. Len(new) /\ seqs[j][c] = new[c]
      BY <1>2, <2>2 DEF new
    <3>. QED
      BY <1>4, <1>6, <3>1
  <2>. QED
    BY <1>9, <2>1, <2>2
<1>12. ASSUME Ranked(seqs)
       PROVE  Increasing(whole)
  <2>1. /\ \A x, y \in 1 .. len : x < y => joined[x] < joined[y]
        /\ \A c, d \in 1 .. Len(new) : c < d => new[c] < new[d]
    <3>1. Increasing(joined) /\ Increasing(new)
      BY <1>2, <1>12 DEF Joins, Ranked, new
    <3>. QED
      BY <1>1, <1>2, <3>1 DEF Increasing, len
  <2>2. \A x \in 1 .. len, d \in 1 .. Len(new) : joined[x] < new[d]
    <3>. TAKE x \in 1 .. len, d \in 1 .. Len(new)
    <3>1. PICK j \in 1 .. k : \E c \in DOMAIN seqs[j] : joined[x] = seqs[j][c]
      BY <1>1
    <3>2. j \in DOMAIN seqs /\ j < k + 1
      BY <1>8
    <3>. QED
      BY <1>2, <1>12, <3>1, <3>2 DEF Ranked, new
  <2>. SUFFICES ASSUME NEW x \in 1 .. len + Len(new),
                       NEW y \in 1 .. len + Len(new), x < y
                PROVE  whole[x] < whole[y]
    BY <1>4 DEF Increasing
  <2>3. CASE y \in 1 .. len
    <3>1. x \in 1 .. len
      BY <1>1, <2>3
    <3>. QED
      BY <1>7, <2>1, <2>3, <3>1
  <2>4. CASE x \in 1 .. len /\ y > len
    BY <1>1, <1>2, <1>5, <1>7, <2>2, <2>4
  <2>5. CASE x > len /\ y > len
    <3>1. /\ x - len \in 1 .. Len(new) /\ y - len \in 1 .. Len(new)
          /\ x - len < y - len
          /\ whole[x] = new[x - len] /\ whole[y] = new[y - len]
      BY <1>1, <1>2, <1>5, <2>5
    <3>. QED
      BY <2>1, <3>1
  <2>. QED
    BY <1>1, <1>2, <2>3, <2>4, <2>5
<1>. QED
  BY <1>3, <1>10, <1>11, <1>12 DEF Joins, whole, new

(* FlattenSeq, of up to four sequences.  Its result is that of a recursive
   function, which has to be shown to exist. *)
LEMMA Flattened ==
  ASSUME NEW seqs, Len(seqs) \in 1 .. 4, DOMAIN seqs = 1 .. Len(seqs),
         \A j \in 1 .. Len(seqs) : seqs[j] \in Seq(Nat)
  PROVE  /\ Joins(FlattenSeq(seqs), seqs, Len(seqs))
         /\ Drawn(FlattenSeq(seqs), seqs, Len(seqs))
<1>. DEFINE m == Len(seqs)
            IsFlatten(f) == f = [i \in 1 .. m |-> IF i = 1 THEN seqs[i]
                                                  ELSE f[i - 1] \o seqs[i]]
            f == CHOOSE f : IsFlatten(f)
            Whole(s, k) == Joins(s, seqs, k) /\ Drawn(s, seqs, k)
            s2 == seqs[1] \o seqs[2]
            s3 == s2 \o seqs[3]
            s4 == s3 \o seqs[4]
            g == [i \in 1 .. m |-> IF i = 1 THEN seqs[1]
                                   ELSE IF i = 2 THEN s2
                                   ELSE IF i = 3 THEN s3 ELSE s4]
<1>1. m \in 1 .. 4
  OBVIOUS
<1>2. IsFlatten(g)
  <2>. HIDE DEF m, s2, s3, s4
  <2>1. ASSUME NEW i \in 1 .. m
        PROVE  g[i] = IF i = 1 THEN seqs[i] ELSE g[i - 1] \o seqs[i]
    <3>1. i = 1 \/ (i = 2 /\ m >= 2) \/ (i = 3 /\ m >= 3) \/ (i = 4 /\ m >= 4)
      BY <1>1
    <3>2. \A j \in 1 .. 4 : j <= i => j \in 1 .. m
      BY <1>1
    <3>. QED
      BY <3>1, <3>2 DEF s2, s3, s4
  <2>. HIDE DEF g
  <2>2. g = [i \in 1 .. m |-> g[i]]
    BY DEF g
  <2>. QED
    BY <2>1, <2>2
<1>. HIDE DEF g
<1>3. FlattenSeq(seqs) = f[m]
  <2>1. Len(seqs) # 0
    BY <1>1
  <2>. QED
    BY <2>1, Zenon DEF FlattenSeq
<1>4. IsFlatten(f)
  BY <1>2, Zenon
<1>. HIDE DEF f, m
<1>5. \A i \in 1 .. m : f[i] = IF i = 1 THEN seqs[i] ELSE f[i - 1] \o seqs[i]
  BY <1>4
<1>6. 1 \in 1 .. m /\ Whole(f[1], 1)
  <2>1. 1 \in 1 .. m
    BY <1>1
  <2>. QED
    BY <1>5, <2>1, JoinsFirst, DrawnFirst DEF m
<1>7. ASSUME NEW k \in Nat \ {0}, k + 1 \in 1 .. m, Whole(f[k], k)
      PROVE  Whole(f[k + 1], k + 1)
  <2>1. (k + 1) - 1 = k /\ k + 1 # 1
    OBVIOUS
  <2>2. f[k + 1] = f[k] \o seqs[k + 1]
    BY <1>5, <1>7, <2>1
  <2>3. 1 .. k + 1 \subseteq DOMAIN seqs /\ seqs[k + 1] \in Seq(Nat)
    BY <1>1, <1>7 DEF m
  <2>4. /\ Joins(f[k], seqs, k) /\ Drawn(f[k], seqs, k) /\ f[k] \in Seq(Nat)
    BY <1>7 DEF Joins
  <2>5. /\ Joins(f[k] \o seqs[k + 1], seqs, k + 1)
        /\ Drawn(f[k] \o seqs[k + 1], seqs, k + 1)
    BY <2>3, <2>4, JoinsNext, DrawnNext
  <2>. QED
    BY <2>2, <2>5
<1>. HIDE DEF Whole
<1>8. m >= 2 => Whole(f[2], 2)
  <2>1. m >= 2 => 1 + 1 \in 1 .. m
    BY <1>1
  <2>. QED
    BY <1>6, <1>7, <2>1
<1>9. m >= 3 => Whole(f[3], 3)
  <2>1. m >= 3 => 2 + 1 \in 1 .. m /\ m >= 2
    BY <1>1
  <2>. QED
    BY <1>7, <1>8, <2>1
<1>10. m >= 4 => Whole(f[4], 4)
  <2>1. m >= 4 => 3 + 1 \in 1 .. m /\ m >= 3
    BY <1>1
  <2>. QED
    BY <1>7, <1>9, <2>1
<1>11. Whole(f[m], m)
  <2>1. m = 1 \/ m = 2 \/ m = 3 \/ m = 4
    BY <1>1
  <2>2. (m = 2 => m >= 2) /\ (m = 3 => m >= 3) /\ (m = 4 => m >= 4)
    BY <1>1
  <2>. QED
    BY <1>6, <1>8, <1>9, <1>10, <2>1, <2>2
<1>. QED
  BY <1>3, <1>11 DEF m, Whole

-----------------------------------------------------------------------------
(* The leaves along leaf_next *)

(* f lists the m leaves in the order of their links. *)
Threads(f, m, leaves, pages) ==
  /\ \A j \in 1 .. m : f[j] \in leaves
  /\ \A p \in leaves : \E j \in 1 .. m : f[j] = p
  /\ \A i, j \in 1 .. m : f[i] = f[j] => i = j
  /\ \A j \in 1 .. m - 1 : pages[f[j]].link = f[j + 1]
  /\ pages[f[m]].link = 0

NumLeaves(pages) == IF IsNode(pages) THEN Fanout(pages) + 1 ELSE 1

Threaded(pages) == \E f : Threads(f, NumLeaves(pages), Leaves(pages), pages)

LEMMA LeavesAre ==
  ASSUME NEW n, NEW pages, Sound(n, pages)
  PROVE  /\ NumLeaves(pages) \in 1 .. 4
         /\ IsNode(pages) => /\ Leaves(pages) = 1 .. NumLeaves(pages)
                             /\ n = NumLeaves(pages) + 1
                             /\ Leaves(pages) = {Kid(pages, i) :
                                                   i \in 0 .. Fanout(pages)}
         /\ ~IsNode(pages) => /\ Leaves(pages) = {Root} /\ n = 1
                              /\ NumLeaves(pages) = 1
<1>1. CASE IsNode(pages)
  <2>1. /\ Fanout(pages) \in 1 .. 3 /\ n = Fanout(pages) + 2 /\ n \in Nat
        /\ RootNode(n, pages[Root])
    BY <1>1, NodeFacts, KidCellsType
  <2>2. NumLeaves(pages) = Fanout(pages) + 1
    BY <1>1 DEF NumLeaves
  <2>3. DOMAIN pages = 0 .. n - 1 /\ \A p \in 1 .. n - 1 : pages[p].type = "leaf"
    BY DEF Sound, UpTo, BelowRoot
  <2>4. pages[0].type # "leaf"
    BY <1>1 DEF IsNode, Root
  <2>5. \A p \in 0 .. n - 1 : p = 0 \/ p \in 1 .. n - 1
    BY <2>1
  <2>6. \A p \in 1 .. n - 1 : p \in 0 .. n - 1
    BY <2>1
  <2>7. Leaves(pages) = 1 .. n - 1
    BY <2>3, <2>4, <2>5, <2>6 DEF Leaves
  <2>8. 1 .. n - 1 = {Kid(pages, i) : i \in 0 .. Fanout(pages)}
    BY <2>1 DEF RootShape, RootNode, Kid, Fanout
  <2>9. /\ NumLeaves(pages) = n - 1 /\ NumLeaves(pages) \in 1 .. 4
        /\ n = NumLeaves(pages) + 1
    BY <2>1, <2>2
  <2>. QED
    BY <1>1, <2>7, <2>8, <2>9
<1>2. CASE ~IsNode(pages)
  BY <1>2, RootLeafFacts DEF Leaves, NumLeaves
<1>. QED
  BY <1>1, <1>2

LEMMA LoneLeafEnds ==
  ASSUME NEW n, NEW pages, Sound(n, pages), Threaded(pages), ~IsNode(pages)
  PROVE  pages[Root].link = 0
<1>1. NumLeaves(pages) = 1 /\ Leaves(pages) = {Root}
  BY LeavesAre
<1>2. PICK f : Threads(f, 1, {Root}, pages)
  BY <1>1 DEF Threaded
<1>3. 1 \in 1 .. 1
  OBVIOUS
<1>. QED
  BY <1>2, <1>3 DEF Threads

(* A row more in a leaf changes no link. *)
LEMMA SameLinks ==
  ASSUME NEW pages, NEW result, Threaded(pages),
         NumLeaves(result) = NumLeaves(pages), Leaves(result) = Leaves(pages),
         \A p \in Leaves(pages) : result[p].link = pages[p].link,
         NumLeaves(pages) \in Nat \ {0}
  PROVE  Threaded(result)
<1>. DEFINE m == NumLeaves(pages)
            leaves == Leaves(pages)
<1>1. PICK f : Threads(f, m, leaves, pages)
  BY DEF Threaded
<1>2. /\ \A p \in leaves : result[p].link = pages[p].link
      /\ NumLeaves(result) = m /\ Leaves(result) = leaves /\ m \in Nat \ {0}
  OBVIOUS
<1>. HIDE DEF m, leaves
<1>3. m \in 1 .. m /\ \A j \in 1 .. m - 1 : j \in 1 .. m
  BY <1>2
<1>4. Threads(f, m, leaves, result)
  BY <1>1, <1>2, <1>3 DEF Threads
<1>. QED
  BY <1>2, <1>4 DEF Threaded

(* The new leaf follows the one that was split. *)
LEMMA ThreadOfSplit ==
  ASSUME NEW m \in Nat \ {0}, NEW f, NEW pages, Threads(f, m, 1 .. m, pages),
         NEW p \in 1 .. m, NEW result,
         result[p].link = m + 1, result[m + 1].link = pages[p].link,
         \A q \in 1 .. m : q # p => result[q].link = pages[q].link
  PROVE  \E f1 : Threads(f1, m + 1, 1 .. m + 1, result)
<1>range. \A j \in 1 .. m : f[j] \in 1 .. m
  BY DEF Threads
<1>onto. \A q \in 1 .. m : \E j \in 1 .. m : f[j] = q
  BY DEF Threads
<1>once. \A i, j \in 1 .. m : f[i] = f[j] => i = j
  BY DEF Threads
<1>1. /\ \A j \in 1 .. m - 1 : pages[f[j]].link = f[j + 1]
      /\ pages[f[m]].link = 0
  BY DEF Threads
<1>2. PICK a \in 1 .. m : f[a] = p
  BY <1>onto
<1>. DEFINE n == m + 1
            f1 == [j \in 1 .. m + 1 |-> IF j <= a THEN f[j]
                                        ELSE IF j = a + 1 THEN n ELSE f[j - 1]]
<1>3. \A j \in 1 .. m + 1 : \/ j \in 1 .. m /\ j <= a /\ f1[j] = f[j]
                            \/ j = a + 1 /\ f1[j] = n
                            \/ /\ j > a + 1 /\ j - 1 \in 1 .. m /\ j - 1 > a
                               /\ f1[j] = f[j - 1]
  <2>. TAKE j \in 1 .. m + 1
  <2>1. CASE j <= a
    BY <2>1
  <2>2. CASE j = a + 1
    BY <2>2
  <2>3. CASE j > a + 1
    BY <2>3
  <2>. QED
    BY <2>1, <2>2, <2>3
<1>4. /\ \A j \in 1 .. m : j <= a => j \in 1 .. m + 1 /\ f1[j] = f[j]
      /\ a + 1 \in 1 .. m + 1 /\ f1[a + 1] = n
      /\ \A j \in 1 .. m : j > a => j + 1 \in 1 .. m + 1 /\ f1[j + 1] = f[j]
  <2>1. a + 1 \in 1 .. m + 1 /\ ~(a + 1 <= a)
    OBVIOUS
  <2>2. \A j \in 1 .. m : j <= a => j \in 1 .. m + 1
    OBVIOUS
  <2>3. \A j \in 1 .. m : j > a => /\ j + 1 \in 1 .. m + 1 /\ ~(j + 1 <= a)
                                   /\ j + 1 # a + 1 /\ (j + 1) - 1 = j
    OBVIOUS
  <2>. QED
    BY <2>1, <2>2, <2>3
<1>. HIDE DEF f1
<1>5. \A j \in 1 .. m + 1 : f1[j] \in 1 .. m + 1
  <2>1. \A q \in 1 .. m : q \in 1 .. m + 1
    OBVIOUS
  <2>2. n \in 1 .. m + 1
    OBVIOUS
  <2>. QED
    BY <1>range, <1>3, <2>1, <2>2
<1>6. \A q \in 1 .. m + 1 : \E j \in 1 .. m + 1 : f1[j] = q
  <2>. TAKE q \in 1 .. m + 1
  <2>1. CASE q = n
    BY <1>4, <2>1
  <2>2. CASE q # n
    <3>1. q \in 1 .. m
      BY <2>2
    <3>2. PICK j \in 1 .. m : f[j] = q
      BY <1>onto, <3>1
    <3>3. j <= a \/ j > a
      OBVIOUS
    <3>. QED
      BY <1>4, <3>2, <3>3
  <2>. QED
    BY <2>1, <2>2
<1>7. \A j \in 1 .. m : f[j] # n
  <2>1. \A q \in 1 .. m : q # n
    OBVIOUS
  <2>. QED
    BY <1>range, <2>1
<1>8. \A i, j \in 1 .. m + 1 : f1[i] = f1[j] => i = j
  <2>. SUFFICES ASSUME NEW i \in 1 .. m + 1, NEW j \in 1 .. m + 1,
                       f1[i] = f1[j]
                PROVE  i = j
    OBVIOUS
  <2>1. \/ i \in 1 .. m /\ i <= a /\ f1[i] = f[i]
        \/ i = a + 1 /\ f1[i] = n
        \/ i > a + 1 /\ i - 1 \in 1 .. m /\ i - 1 > a /\ f1[i] = f[i - 1]
    BY <1>3
  <2>2. \/ j \in 1 .. m /\ j <= a /\ f1[j] = f[j]
        \/ j = a + 1 /\ f1[j] = n
        \/ j > a + 1 /\ j - 1 \in 1 .. m /\ j - 1 > a /\ f1[j] = f[j - 1]
    BY <1>3
  <2>3. CASE i \in 1 .. m /\ i <= a /\ f1[i] = f[i]
    <3>1. CASE j \in 1 .. m /\ j <= a /\ f1[j] = f[j]
      BY <1>once, <2>3, <3>1
    <3>2. CASE j = a + 1 /\ f1[j] = n
      BY <1>7, <2>3, <3>2
    <3>3. CASE j > a + 1 /\ j - 1 \in 1 .. m /\ j - 1 > a /\ f1[j] = f[j - 1]
      <4>1. i = j - 1
        BY <1>once, <2>3, <3>3
      <4>. QED
        BY <2>3, <3>3, <4>1
    <3>. QED
      BY <2>2, <3>1, <3>2, <3>3
  <2>4. CASE i = a + 1 /\ f1[i] = n
    BY <1>7, <2>2, <2>4
  <2>5. CASE i > a + 1 /\ i - 1 \in 1 .. m /\ i - 1 > a /\ f1[i] = f[i - 1]
    <3>1. CASE j \in 1 .. m /\ j <= a /\ f1[j] = f[j]
      <4>1. i - 1 = j
        BY <1>once, <2>5, <3>1
      <4>. QED
        BY <2>5, <3>1, <4>1
    <3>2. CASE j = a + 1 /\ f1[j] = n
      BY <1>7, <2>5, <3>2
    <3>3. CASE j > a + 1 /\ j - 1 \in 1 .. m /\ j - 1 > a /\ f1[j] = f[j - 1]
      <4>1. i - 1 = j - 1
        BY <1>once, <2>5, <3>3
      <4>. QED
        BY <4>1
    <3>. QED
      BY <2>2, <3>1, <3>2, <3>3
  <2>. QED
    BY <2>1, <2>3, <2>4, <2>5
<1>9. \A j \in 1 .. m : j # a => result[f[j]].link = pages[f[j]].link
  BY <1>range, <1>once, <1>2
<1>10. ASSUME NEW j \in 1 .. (m + 1) - 1
       PROVE  result[f1[j]].link = f1[j + 1]
  <2>1. CASE j < a
    <3>1. /\ j \in 1 .. m /\ j <= a /\ j # a /\ j \in 1 .. m - 1
          /\ j + 1 \in 1 .. m /\ j + 1 <= a
      BY <2>1
    <3>2. f1[j] = f[j] /\ f1[j + 1] = f[j + 1]
      BY <1>4, <3>1
    <3>. QED
      BY <1>1, <1>9, <3>1, <3>2
  <2>2. CASE j = a
    <3>1. f1[j] = p
      BY <1>2, <1>4, <2>2
    <3>. QED
      BY <1>4, <2>2, <3>1
  <2>3. CASE j = a + 1
    <3>1. /\ f1[j] = n /\ a \in 1 .. m - 1
          /\ j \in 1 .. m /\ j > a
      BY <1>4, <2>3
    <3>2. f1[j + 1] = f[j]
      BY <1>4, <3>1
    <3>. QED
      BY <1>1, <1>2, <2>3, <3>1, <3>2
  <2>4. CASE j > a + 1
    <3>1. /\ j - 1 \in 1 .. m /\ j - 1 > a /\ j - 1 # a /\ j - 1 \in 1 .. m - 1
          /\ j \in 1 .. m /\ j > a /\ (j - 1) + 1 = j
      BY <2>4
    <3>2. f1[j] = f[j - 1] /\ f1[j + 1] = f[j]
      BY <1>4, <3>1
    <3>. QED
      BY <1>1, <1>9, <3>1, <3>2
  <2>. QED
    BY <2>1, <2>2, <2>3, <2>4
<1>11. result[f1[m + 1]].link = 0
  <2>1. CASE a = m
    BY <1>1, <1>2, <1>4, <2>1
  <2>2. CASE a # m
    <3>1. m \in 1 .. m /\ m > a
      BY <2>2
    <3>2. f1[m + 1] = f[m]
      BY <1>4, <3>1
    <3>. QED
      BY <1>1, <1>9, <2>2, <3>1, <3>2
  <2>. QED
    BY <2>1, <2>2
<1>12. Threads(f1, m + 1, 1 .. m + 1, result)
  BY <1>5, <1>6, <1>8, <1>10, <1>11 DEF Threads
<1>. QED
  BY <1>12

LEMMA GrownKeepsThread ==
  ASSUME NEW n, NEW pages, Sound(n, pages), Threaded(pages), NEW pos, NEW key,
         NEW w \in Nat, NEW n1, NEW result,
         Grown(n, pages, pos, key, w, n1, result), Sound(n1, result)
  PROVE  Threaded(result)
<1>0. NumLeaves(pages) \in 1 .. 4
  BY LeavesAre
<1>1. CASE /\ RootPlaced(n, pages, pos, key)
           /\ n1 = n /\ result = WithRow(pages, Root, pos, key)
  <2>1. /\ ~IsNode(pages) /\ ~IsNode(result)
        /\ result[Root].link = pages[Root].link
    BY <1>1, RootRowKeepsOrder DEF RootPlaced
  <2>2. /\ Leaves(pages) = {Root} /\ Leaves(result) = {Root}
        /\ NumLeaves(pages) = 1 /\ NumLeaves(result) = 1
    BY <2>1, LeavesAre
  <2>. QED
    BY <2>1, <2>2, SameLinks
<1>2. CASE /\ RootPlaced(n, pages, pos, key)
           /\ Len(pages[Root].cells) = LeafMaxCells /\ n1 = 3
           /\ Heightened(SplitPages(n, pages, Root, pos, key, w), result)
  <2>1. /\ IsNode(result) /\ Fanout(result) = 1 /\ result[2].link = 1
        /\ result[1].link = pages[Root].link /\ ~IsNode(pages)
    BY <1>2, RootSplitShape DEF RootPlaced
  <2>2. NumLeaves(result) = 2 /\ Leaves(result) = 1 .. 2
    <3>1. NumLeaves(result) = 2
      BY <2>1 DEF NumLeaves
    <3>. QED
      BY <2>1, <3>1, LeavesAre
  <2>3. result[1].link = 0
    BY <2>1, LoneLeafEnds
  <2>. DEFINE f == [j \in 1 .. 2 |-> IF j = 1 THEN 2 ELSE 1]
  <2>4. /\ f[1] = 2 /\ f[2] = 1 /\ 1 \in 1 .. 2 /\ 2 \in 1 .. 2
        /\ \A j \in 1 .. 2 : j = 1 \/ j = 2
        /\ \A j \in 1 .. 2 - 1 : j = 1 /\ j + 1 = 2
    OBVIOUS
  <2>. HIDE DEF f
  <2>5. Threads(f, 2, 1 .. 2, result)
    <3>1. /\ \A j \in 1 .. 2 : f[j] \in 1 .. 2
          /\ \A p \in 1 .. 2 : \E j \in 1 .. 2 : f[j] = p
          /\ \A i, j \in 1 .. 2 : f[i] = f[j] => i = j
      BY <2>4
    <3>2. \A j \in 1 .. 2 - 1 : result[f[j]].link = f[j + 1]
      BY <2>1, <2>4
    <3>3. result[f[2]].link = 0
      BY <2>3, <2>4
    <3>. QED
      BY <3>1, <3>2, <3>3 DEF Threads
  <2>. QED
    BY <2>2, <2>5 DEF Threaded
<1>3. ASSUME NEW i, Placed(n, pages, i, pos, key), n1 = n,
             result = WithRow(pages, Kid(pages, i), pos, key)
      PROVE  Threaded(result)
  <2>1. /\ result[Root] = pages[Root]
        /\ \A j \in 0 .. Fanout(pages) :
             result[Kid(pages, j)].link = pages[Kid(pages, j)].link
    BY <1>3, RowInChild
  <2>2. IsNode(pages) /\ IsNode(result) /\ Fanout(result) = Fanout(pages)
    BY <1>3, <2>1 DEF Placed, IsNode, Fanout
  <2>3. NumLeaves(result) = NumLeaves(pages)
    BY <2>2 DEF NumLeaves
  <2>4. /\ Leaves(pages) = {Kid(pages, j) : j \in 0 .. Fanout(pages)}
        /\ Leaves(pages) = 1 .. NumLeaves(pages)
        /\ Leaves(result) = 1 .. NumLeaves(pages)
    BY <2>2, <2>3, LeavesAre
  <2>5. \A p \in Leaves(pages) : result[p].link = pages[p].link
    BY <2>1, <2>4
  <2>. QED
    BY <1>0, <2>3, <2>4, <2>5, SameLinks
<1>4. ASSUME NEW i, Placed(n, pages, i, pos, key),
             Fanout(pages) < InternalMaxCells,
             Len(KidCells(pages)[i]) = LeafMaxCells, n1 = n + 1,
             result = ChildSplit(n, pages, Kid(pages, i), pos, key, w)
      PROVE  Threaded(result)
  <2>. DEFINE p == Kid(pages, i)
              lower == LowerHalf(pages[p], pos, key)
              upper == UpperHalf(pages[p], pos, key)
              m == NumLeaves(pages)
  <2>1. SplitShape(n, pages, result, i, lower, upper)
    BY <1>4, ChildSplitShape
  <2>. HIDE DEF lower, upper
  <2>2. IsNode(result) /\ Fanout(result) = Fanout(pages) + 1
    BY <1>4, <2>1, SplitKids
  <2>3. IsNode(pages) /\ i \in 0 .. Fanout(pages)
    BY <1>4 DEF Placed, Aims
  <2>4. /\ Leaves(pages) = 1 .. m /\ n = m + 1 /\ m \in Nat \ {0}
        /\ p \in 1 .. m
    <3>1. /\ Leaves(pages) = 1 .. m /\ n = m + 1
          /\ Leaves(pages) = {Kid(pages, j) : j \in 0 .. Fanout(pages)}
      BY <2>3, LeavesAre
    <3>. QED
      BY <1>0, <2>3, <3>1
  <2>5. NumLeaves(result) = m + 1
    <3>1. Fanout(pages) \in Nat
      BY <2>3, KidCellsType
    <3>. QED
      BY <2>2, <2>3, <3>1 DEF NumLeaves
  <2>6. Leaves(result) = 1 .. m + 1
    BY <1>4, <2>2, <2>5, LeavesAre
  <2>7. PICK f : Threads(f, m, 1 .. m, pages)
    BY <2>4 DEF Threaded
  <2>8. /\ result[p].link = n /\ result[n].link = pages[p].link
        /\ \A q \in 1 .. n - 1 : q # p => result[q] = pages[q]
    BY <2>1 DEF SplitShape
  <2>. HIDE DEF m, p
  <2>9. /\ result[p].link = m + 1 /\ result[m + 1].link = pages[p].link
        /\ \A q \in 1 .. m : q # p => result[q].link = pages[q].link
    <3>1. n - 1 = m
      BY <2>4
    <3>. QED
      BY <2>4, <2>8, <3>1
  <2>10. \E f1 : Threads(f1, m + 1, 1 .. m + 1, result)
    BY <2>4, <2>7, <2>9, ThreadOfSplit
  <2>. QED
    BY <2>5, <2>6, <2>10 DEF Threaded
<1>. QED
  BY <1>1, <1>2, <1>3, <1>4 DEF Grown

-----------------------------------------------------------------------------
(* LeafChain, whose recursive function has to be shown to exist *)

Prefix(g, k) == [j \in 1 .. k |-> g[j]]

LEMMA PrefixSteps ==
  ASSUME NEW g, NEW k \in Nat \ {0}
  PROVE  /\ Prefix(g, 1) = <<g[1]>>
         /\ Len(Prefix(g, k)) = k /\ Last(Prefix(g, k)) = g[k]
         /\ Append(Prefix(g, k), g[k + 1]) = Prefix(g, k + 1)
<1>. DEFINE S == {g[j] : j \in 1 .. k + 1}
<1>1. Prefix(g, k) \in Seq(S) /\ g[k + 1] \in S
  <2>1. \A j \in 1 .. k : j \in 1 .. k + 1
    OBVIOUS
  <2>2. k + 1 \in 1 .. k + 1
    OBVIOUS
  <2>. QED
    BY <2>1, <2>2 DEF Prefix
<1>2. Len(Prefix(g, k)) = k /\ DOMAIN Prefix(g, k) = 1 .. k
  BY <1>1 DEF Prefix
<1>3. Last(Prefix(g, k)) = g[k]
  BY <1>2 DEF Last, Prefix
<1>4. Append(Prefix(g, k), g[k + 1]) = Prefix(g, k + 1)
  <2>. DEFINE s == Append(Prefix(g, k), g[k + 1])
  <2>. HIDE DEF S
  <2>1. /\ s \in Seq(S) /\ Len(s) = k + 1 /\ s[k + 1] = g[k + 1]
        /\ \A j \in 1 .. k : s[j] = Prefix(g, k)[j]
    BY <1>1, <1>2, AppendProperties
  <2>2. s = [j \in 1 .. k + 1 |-> s[j]]
    BY <2>1
  <2>3. \A j \in 1 .. k + 1 : s[j] = g[j]
    <3>1. \A j \in 1 .. k : Prefix(g, k)[j] = g[j]
      BY DEF Prefix
    <3>2. \A j \in 1 .. k + 1 : j \in 1 .. k \/ j = k + 1
      OBVIOUS
    <3>. QED
      BY <2>1, <3>1, <3>2
  <2>. HIDE DEF s
  <2>4. s = [j \in 1 .. k + 1 |-> g[j]]
    BY <2>2, <2>3
  <2>. QED
    BY <2>4 DEF s, Prefix
<1>5. Prefix(g, 1) = <<g[1]>>
  BY DEF Prefix
<1>. QED
  BY <1>2, <1>3, <1>4, <1>5

(* The m pages g are linked and the last one ends the chain. *)
Runs(g, m, pages) ==
  /\ \A j \in 1 .. m - 1 : pages[g[j]].link = g[j + 1] /\ g[j + 1] # 0
  /\ pages[g[m]].link = 0

LEMMA ChainFrom ==
  ASSUME NEW pages, NEW N \in 1 .. 5, Cardinality(DOMAIN pages) = N,
         NEW m \in 1 .. N, NEW g, Runs(g, m, pages)
  PROVE  LeafChain(pages, g[1]) = Prefix(g, m)
<1>0. /\ \A j \in 1 .. m - 1 : pages[g[j]].link = g[j + 1] /\ g[j + 1] # 0
      /\ pages[g[m]].link = 0
  BY DEF Runs
<1>. DEFINE p == g[1]
            Step(c, k) ==
              IF k = 1 THEN <<p>>
              ELSE IF pages[Last(c[k - 1])].link = 0 THEN c[k - 1]
              ELSE Append(c[k - 1], pages[Last(c[k - 1])].link)
            IsChain(c) == c = [k \in 1 .. N |-> Step(c, k)]
            chain == CHOOSE c : IsChain(c)
            upto(k) == IF k <= m THEN k ELSE m
            h == [k \in 1 .. N |-> Prefix(g, upto(k))]
<1>1. \A k \in 1 .. N : k # 1 =>
        /\ k - 1 \in 1 .. N
        /\ \/ /\ k - 1 \in 1 .. m - 1 /\ k - 1 \in Nat \ {0}
              /\ (k - 1) + 1 = k /\ k <= m
           \/ /\ k - 1 >= m /\ upto(k - 1) = m /\ upto(k) = m
  OBVIOUS
<1>2. IsChain(h)
  <2>1. ASSUME NEW k \in 1 .. N
        PROVE  h[k] = IF k = 1 THEN <<p>>
                      ELSE IF pages[Last(h[k - 1])].link = 0 THEN h[k - 1]
                      ELSE Append(h[k - 1], pages[Last(h[k - 1])].link)
    <3>1. CASE k = 1
      <4>1. upto(1) = 1 /\ 1 \in 1 .. N /\ 1 \in Nat \ {0}
        OBVIOUS
      <4>2. h[1] = Prefix(g, 1)
        BY <4>1
      <4>. QED
        BY <3>1, <4>1, <4>2, PrefixSteps
    <3>2. CASE k # 1 /\ k - 1 \in 1 .. m - 1
      <4>. DEFINE e == k - 1
      <4>1. /\ e \in 1 .. N /\ e \in 1 .. m - 1 /\ e \in Nat \ {0}
            /\ e + 1 = k /\ upto(e) = e /\ upto(k) = k
        BY <3>2
      <4>2. h[e] = Prefix(g, e) /\ h[k] = Prefix(g, k)
        BY <4>1
      <4>. HIDE DEF e, h
      <4>3. Last(h[e]) = g[e] /\ Append(h[e], g[e + 1]) = Prefix(g, e + 1)
        <5>1. /\ Last(Prefix(g, e)) = g[e]
              /\ Append(Prefix(g, e), g[e + 1]) = Prefix(g, e + 1)
          BY <4>1, PrefixSteps
        <5>. QED
          BY <4>2, <5>1
      <4>4. pages[Last(h[e])].link = g[e + 1] /\ g[e + 1] # 0
        BY <1>0, <4>1, <4>3
      <4>5. h[k] = Append(h[e], pages[Last(h[e])].link)
        BY <4>1, <4>2, <4>3, <4>4
      <4>. QED
        BY <3>2, <4>4, <4>5 DEF e
    <3>3. CASE k # 1 /\ upto(k - 1) = m /\ upto(k) = m
      <4>1. k - 1 \in 1 .. N /\ m \in Nat \ {0}
        BY <3>3
      <4>2. h[k - 1] = Prefix(g, m) /\ h[k] = Prefix(g, m)
        BY <3>3, <4>1
      <4>. HIDE DEF h
      <4>3. Last(h[k - 1]) = g[m]
        BY <4>1, <4>2, PrefixSteps
      <4>4. pages[Last(h[k - 1])].link = 0
        BY <1>0, <4>3
      <4>. QED
        BY <3>3, <4>2, <4>4
    <3>. HIDE DEF upto
    <3>. QED
      BY <1>1, <3>1, <3>2, <3>3
  <2>2. h = [k \in 1 .. N |-> h[k]]
    OBVIOUS
  <2>. HIDE DEF h
  <2>. QED
    BY <2>1, <2>2
<1>. HIDE DEF h
<1>3. LeafChain(pages, p) = chain[N]
  BY Zenon DEF LeafChain
<1>4. IsChain(chain)
  <2>. HIDE DEF IsChain
  <2>. QED
    BY <1>2, Zenon
<1>. HIDE DEF chain, p
<1>5. /\ 1 \in 1 .. N /\ chain[1] = <<p>>
      /\ \A k \in 1 .. N : k # 1 =>
           chain[k] = IF pages[Last(chain[k - 1])].link = 0 THEN chain[k - 1]
                      ELSE Append(chain[k - 1], pages[Last(chain[k - 1])].link)
  <2>. HIDE DEF Step
  <2>1. \A k \in 1 .. N : chain[k] = Step(chain, k)
    BY <1>4
  <2>2. 1 \in 1 .. N
    OBVIOUS
  <2>. QED
    BY <2>1, <2>2 DEF Step
<1>6. chain[1] = Prefix(g, upto(1))
  <2>1. upto(1) = 1 /\ 1 \in Nat \ {0}
    OBVIOUS
  <2>. QED
    BY <1>5, <2>1, PrefixSteps DEF p
<1>7. ASSUME NEW k \in 1 .. N - 1, chain[k] = Prefix(g, upto(k))
      PROVE  chain[k + 1] = Prefix(g, upto(k + 1))
  <2>1. /\ k + 1 \in 1 .. N /\ k + 1 # 1 /\ (k + 1) - 1 = k
        /\ k \in Nat \ {0} /\ m \in Nat \ {0}
    OBVIOUS
  <2>2. chain[k + 1] = IF pages[Last(chain[k])].link = 0 THEN chain[k]
                       ELSE Append(chain[k], pages[Last(chain[k])].link)
    BY <1>5, <2>1
  <2>3. CASE k < m
    <3>1. upto(k) = k /\ upto(k + 1) = k + 1 /\ k \in 1 .. m - 1
      BY <2>3
    <3>2. Last(chain[k]) = g[k] /\ Append(chain[k], g[k + 1]) = Prefix(g, k + 1)
      <4>. HIDE DEF upto, Step, IsChain
      <4>1. /\ Last(Prefix(g, k)) = g[k]
            /\ Append(Prefix(g, k), g[k + 1]) = Prefix(g, k + 1)
        <5>1. k \in Nat \ {0}
          BY <2>1
        <5>. QED
          BY Zenon, <5>1, PrefixSteps
      <4>. QED
        BY <1>7, <3>1, <4>1
    <3>3. pages[Last(chain[k])].link = g[k + 1] /\ g[k + 1] # 0
      BY <1>0, <3>1, <3>2
    <3>. QED
      BY <2>2, <3>1, <3>2, <3>3
  <2>4. CASE ~(k < m)
    <3>1. upto(k) = m /\ upto(k + 1) = m
      BY <2>4
    <3>2. Last(chain[k]) = g[m]
      <4>1. Last(Prefix(g, m)) = g[m]
        BY <2>1, PrefixSteps
      <4>. QED
        BY <1>7, <3>1, <4>1
    <3>3. pages[Last(chain[k])].link = 0
      BY <1>0, <3>2
    <3>. QED
      BY <1>7, <2>2, <3>1, <3>3
  <2>. QED
    BY <2>3, <2>4
<1>. HIDE DEF upto
<1>8. N >= 2 => chain[2] = Prefix(g, upto(2))
  <2>1. N >= 2 => 1 \in 1 .. N - 1
    OBVIOUS
  <2>. QED
    BY <1>6, <1>7, <2>1
<1>9. N >= 3 => chain[3] = Prefix(g, upto(3))
  <2>1. N >= 3 => 2 \in 1 .. N - 1 /\ N >= 2
    OBVIOUS
  <2>. QED
    BY <1>7, <1>8, <2>1
<1>10. N >= 4 => chain[4] = Prefix(g, upto(4))
  <2>1. N >= 4 => 3 \in 1 .. N - 1 /\ N >= 3
    OBVIOUS
  <2>. QED
    BY <1>7, <1>9, <2>1
<1>11. N >= 5 => chain[5] = Prefix(g, upto(5))
  <2>1. N >= 5 => 4 \in 1 .. N - 1 /\ N >= 4
    OBVIOUS
  <2>. QED
    BY <1>7, <1>10, <2>1
<1>12. chain[N] = Prefix(g, upto(N))
  <2>1. N = 1 \/ N = 2 \/ N = 3 \/ N = 4 \/ N = 5
    OBVIOUS
  <2>2. /\ (N = 2 => N >= 2) /\ (N = 3 => N >= 3)
        /\ (N = 4 => N >= 4) /\ (N = 5 => N >= 5)
    OBVIOUS
  <2>. QED
    BY <1>6, <1>8, <1>9, <1>10, <1>11, <2>1, <2>2
<1>13. upto(N) = m
  BY DEF upto
<1>. QED
  BY <1>3, <1>12, <1>13 DEF p

-----------------------------------------------------------------------------
(* No row twice, and from left to right *)

(* No two places of the leaves below the root hold the same id. *)
Distinct(k, L) ==
  \A i, j \in 0 .. k : \A c \in DOMAIN L[i], d \in DOMAIN L[j] :
    L[i][c] = L[j][d] => i = j /\ c = d

(* The leaves are linked in the order of the child pointers. *)
LeftToRight(pages) ==
  /\ \A j \in 0 .. Fanout(pages) - 1 :
       pages[Kid(pages, j)].link = Kid(pages, j + 1)
  /\ pages[Kid(pages, Fanout(pages))].link = 0

Lined(pages) ==
  /\ Apart(Fanout(pages), KidCells(pages), Separators(pages))
  /\ LeftToRight(pages)

(* What uniqueness buys.  A root that is a leaf needs no more than its order. *)
LinedIfDistinct(pages) ==
  IsNode(pages) /\ Distinct(Fanout(pages), KidCells(pages)) => Lined(pages)

(* M are the leaves L with one key more. *)
Widened(k, L, i, pos, key, M) ==
  /\ k \in Nat /\ i \in 0 .. k /\ pos \in 0 .. Len(L[i]) /\ key \in Nat
  /\ \A j \in 0 .. k : L[j] \in Seq(Nat)
  /\ M[i] = InsertAt(L[i], pos + 1, key)
  /\ \A j \in 0 .. k : j # i => M[j] = L[j]

(* An insert only adds a place. *)
LEMMA DistinctBefore ==
  ASSUME NEW k, NEW L, NEW i, NEW pos, NEW key, NEW M,
         Widened(k, L, i, pos, key, M), Distinct(k, M)
  PROVE  Distinct(k, L) /\ \A c \in DOMAIN L[i] : L[i][c] # key
<1>. DEFINE at(j, c) == IF j = i /\ c > pos THEN c + 1 ELSE c
            len == Len(L[i])
<1>0. /\ k \in Nat /\ i \in 0 .. k /\ pos \in 0 .. Len(L[i]) /\ key \in Nat
      /\ \A j \in 0 .. k : L[j] \in Seq(Nat)
      /\ M[i] = InsertAt(L[i], pos + 1, key)
      /\ \A j \in 0 .. k : j # i => M[j] = L[j]
  BY DEF Widened
<1>once. \A x, y \in 0 .. k : \A c \in DOMAIN M[x], d \in DOMAIN M[y] :
           M[x][c] = M[y][d] => x = y /\ c = d
  BY DEF Distinct
<1>1. /\ L[i] \in Seq(Nat) /\ len \in Nat /\ DOMAIN L[i] = 1 .. len
      /\ pos \in 0 .. len
  BY <1>0
<1>2. /\ M[i] \in Seq(Nat) /\ Len(M[i]) = len + 1
      /\ \A c \in 1 .. len + 1 :
           M[i][c] = IF c <= pos THEN L[i][c]
                     ELSE IF c = pos + 1 THEN key ELSE L[i][c - 1]
  <2>. DEFINE new == InsertAt(L[i], pos + 1, key)
  <2>1. /\ new \in Seq(Nat) /\ Len(new) = Len(L[i]) + 1
        /\ \A c \in 1 .. Len(L[i]) + 1 :
             new[c] = IF c <= pos THEN L[i][c]
                      ELSE IF c = pos + 1 THEN key ELSE L[i][c - 1]
    <3>1. L[i] \in Seq(Nat) /\ pos \in 0 .. Len(L[i]) /\ key \in Nat
      BY <1>0, <1>1
    <3>. DEFINE cells == L[i]
    <3>2. cells \in Seq(Nat) /\ pos \in 0 .. Len(cells) /\ key \in Nat
      BY <3>1
    <3>. HIDE DEF cells
    <3>3. LET ins == InsertAt(cells, pos + 1, key)
          IN  /\ ins \in Seq(Nat) /\ Len(ins) = Len(cells) + 1
              /\ \A c \in 1 .. Len(cells) + 1 :
                   ins[c] = IF c <= pos THEN cells[c]
                            ELSE IF c = pos + 1 THEN key ELSE cells[c - 1]
      BY <3>2, InsertedCells
    <3>. QED
      BY <3>3, Zenon DEF cells
  <2>2. M[i] = new
    BY <1>0
  <2>. HIDE DEF new
  <2>. QED
    BY <2>1, <2>2
<1>. HIDE DEF len
<1>3. DOMAIN M[i] = 1 .. len + 1
  BY <1>1, <1>2
<1>4. \A c \in 1 .. len :
        /\ at(i, c) \in 1 .. len + 1 /\ at(i, c) # pos + 1
        /\ M[i][at(i, c)] = L[i][c]
  <2>. TAKE c \in 1 .. len
  <2>1. CASE c > pos
    <3>1. /\ at(i, c) = c + 1 /\ c + 1 \in 1 .. len + 1 /\ ~(c + 1 <= pos)
          /\ c + 1 # pos + 1 /\ (c + 1) - 1 = c
      BY <1>1, <2>1
    <3>. QED
      BY <1>2, <3>1
  <2>2. CASE ~(c > pos)
    <3>1. at(i, c) = c /\ c \in 1 .. len + 1 /\ c <= pos /\ c # pos + 1
      BY <1>1, <2>2
    <3>. QED
      BY <1>2, <3>1
  <2>. QED
    BY <2>1, <2>2
<1>5. ASSUME NEW j \in 0 .. k, NEW c \in DOMAIN L[j]
      PROVE  at(j, c) \in DOMAIN M[j] /\ M[j][at(j, c)] = L[j][c]
  <2>1. CASE j = i
    BY <1>1, <1>3, <1>4, <2>1
  <2>2. CASE j # i
    BY <1>0, <2>2
  <2>. QED
    BY <2>1, <2>2
<1>6. ASSUME NEW a \in 0 .. k, NEW b \in 0 .. k, NEW c \in DOMAIN L[a],
             NEW d \in DOMAIN L[b], L[a][c] = L[b][d]
      PROVE  a = b /\ c = d
  <2>1. /\ at(a, c) \in DOMAIN M[a] /\ at(b, d) \in DOMAIN M[b]
        /\ M[a][at(a, c)] = M[b][at(b, d)]
    BY <1>5, <1>6
  <2>2. a = b /\ at(a, c) = at(b, d)
    <3>. DEFINE x == at(a, c)
                y == at(b, d)
    <3>. HIDE DEF x, y
    <3>1. x \in DOMAIN M[a] /\ y \in DOMAIN M[b] /\ M[a][x] = M[b][y]
      BY <2>1 DEF x, y
    <3>2. a = b /\ x = y
      BY <1>once, <3>1
    <3>. QED
      BY <3>2 DEF x, y
  <2>3. c \in Nat /\ d \in Nat
    <3>1. L[a] \in Seq(Nat) /\ L[b] \in Seq(Nat)
      BY <1>0
    <3>2. DOMAIN L[a] = 1 .. Len(L[a]) /\ DOMAIN L[b] = 1 .. Len(L[b])
      BY <3>1
    <3>. QED
      BY <3>2
  <2>. QED
    BY <2>2, <2>3, <1>1
<1>7. ASSUME NEW c \in DOMAIN L[i], L[i][c] = key
      PROVE  FALSE
  <2>1. /\ at(i, c) \in 1 .. len + 1 /\ at(i, c) # pos + 1
        /\ M[i][at(i, c)] = key
    BY <1>1, <1>4, <1>7
  <2>2. pos + 1 \in 1 .. len + 1 /\ M[i][pos + 1] = key
    <3>1. pos + 1 \in 1 .. len + 1 /\ ~(pos + 1 <= pos)
      BY <1>1
    <3>. QED
      BY <1>2, <3>1
  <2>. DEFINE x == at(i, c)
              y == pos + 1
  <2>3. /\ x \in DOMAIN M[i] /\ y \in DOMAIN M[i] /\ x # y
        /\ M[i][x] = M[i][y]
    BY <1>3, <2>1, <2>2
  <2>. HIDE DEF x, y
  <2>. QED
    BY <1>0, <1>once, <2>3
<1>. QED
  BY <1>6, <1>7 DEF Distinct

(* A split only moves rows. *)
LEMMA DistinctWhole ==
  ASSUME NEW k \in Nat, NEW M, NEW i \in 0 .. k, NEW A, NEW B,
         Halving(M[i], A, B), NEW L1, Halved(k, L1, M, i, A, B),
         Distinct(k + 1, L1)
  PROVE  Distinct(k, M)
<1>. DEFINE kid(j, c) == IF j < i \/ (j = i /\ c <= LeftSplitCount) THEN j
                         ELSE j + 1
            at(j, c) == IF j = i /\ c > LeftSplitCount THEN c - LeftSplitCount
                        ELSE c
<1>1. /\ DOMAIN M[i] = 1 .. LeftSplitCount + RightSplitCount
      /\ DOMAIN A = 1 .. LeftSplitCount /\ DOMAIN B = 1 .. RightSplitCount
      /\ LeftSplitCount \in Nat /\ RightSplitCount \in Nat
  BY SplitCounts, NodeSizesAssumption DEF Halving
<1>2. /\ \A c \in 1 .. LeftSplitCount : A[c] = M[i][c]
      /\ \A c \in 1 .. RightSplitCount : B[c] = M[i][LeftSplitCount + c]
  BY DEF Halving
<1>3. ASSUME NEW j \in 0 .. k, NEW c \in DOMAIN M[j]
      PROVE  /\ kid(j, c) \in 0 .. k + 1
             /\ at(j, c) \in DOMAIN L1[kid(j, c)]
             /\ L1[kid(j, c)][at(j, c)] = M[j][c]
  <2>1. CASE j < i
    <3>1. kid(j, c) = j /\ at(j, c) = c /\ j \in 0 .. k + 1
      BY <2>1
    <3>2. L1[j] = M[j]
      BY <2>1, <3>1 DEF Halved
    <3>. QED
      BY <3>1, <3>2
  <2>2. CASE j = i /\ c <= LeftSplitCount
    <3>1. kid(j, c) = i /\ at(j, c) = c /\ i \in 0 .. k + 1
      BY <1>1, <2>2
    <3>2. L1[i] = A
      BY <3>1 DEF Halved
    <3>3. c \in 1 .. LeftSplitCount
      BY <1>1, <2>2
    <3>. QED
      BY <1>1, <1>2, <2>2, <3>1, <3>2, <3>3
  <2>3. CASE j = i /\ ~(c <= LeftSplitCount)
    <3>1. /\ kid(j, c) = i + 1 /\ at(j, c) = c - LeftSplitCount
          /\ i + 1 \in 0 .. k + 1 /\ ~(i + 1 < i) /\ i + 1 # i
          /\ c - LeftSplitCount \in 1 .. RightSplitCount
          /\ LeftSplitCount + (c - LeftSplitCount) = c
      BY <1>1, <2>3
    <3>2. L1[i + 1] = B
      BY <3>1 DEF Halved
    <3>3. B[c - LeftSplitCount] = M[i][c]
      BY <1>2, <3>1
    <3>. QED
      BY <1>1, <2>3, <3>1, <3>2, <3>3
  <2>4. CASE j > i
    <3>1. /\ kid(j, c) = j + 1 /\ at(j, c) = c /\ j + 1 \in 0 .. k + 1
          /\ ~(j + 1 < i) /\ j + 1 # i /\ j + 1 # i + 1 /\ (j + 1) - 1 = j
      BY <2>4
    <3>2. L1[j + 1] = M[j]
      BY <3>1 DEF Halved
    <3>. QED
      BY <3>1, <3>2
  <2>. QED
    BY <2>1, <2>2, <2>3, <2>4
<1>4. ASSUME NEW a \in 0 .. k, NEW b \in 0 .. k, NEW c \in DOMAIN M[a],
             NEW d \in DOMAIN M[b], M[a][c] = M[b][d]
      PROVE  a = b /\ c = d
  <2>1. kid(a, c) = kid(b, d) /\ at(a, c) = at(b, d)
    <3>1. /\ kid(a, c) \in 0 .. k + 1 /\ kid(b, d) \in 0 .. k + 1
          /\ at(a, c) \in DOMAIN L1[kid(a, c)]
          /\ at(b, d) \in DOMAIN L1[kid(b, d)]
          /\ L1[kid(a, c)][at(a, c)] = L1[kid(b, d)][at(b, d)]
      BY <1>3, <1>4
    <3>. HIDE DEF kid, at
    <3>. QED
      BY <3>1 DEF Distinct
  <2>2. CASE a = i /\ b = i
    <3>1. c \in Nat /\ d \in Nat
      BY <1>1, <2>2
    <3>. QED
      BY <1>1, <2>1, <2>2, <3>1
  <2>3. CASE a # i /\ b # i
    BY <2>1, <2>3
  <2>4. CASE a = i /\ b # i
    <3>1. c \in Nat /\ (c <= LeftSplitCount \/ c > LeftSplitCount)
      BY <1>1, <2>4
    <3>2. kid(b, d) < i \/ kid(b, d) > i + 1
      BY <2>4
    <3>3. kid(a, c) = i \/ kid(a, c) = i + 1
      BY <2>4
    <3>. HIDE DEF kid
    <3>. QED
      BY <2>1, <3>2, <3>3
  <2>5. CASE a # i /\ b = i
    <3>2. kid(a, c) < i \/ kid(a, c) > i + 1
      BY <2>5
    <3>3. kid(b, d) = i \/ kid(b, d) = i + 1
      BY <2>5
    <3>. HIDE DEF kid
    <3>. QED
      BY <2>1, <3>2, <3>3
  <2>. QED
    BY <2>2, <2>3, <2>4, <2>5
<1>. QED
  BY <1>4 DEF Distinct

LEMMA IncreasingIfDistinct ==
  ASSUME NEW k \in Nat, NEW L, Distinct(k, L), NEW j \in 0 .. k,
         L[j] \in Seq(Nat), Sorted(L[j])
  PROVE  Increasing(L[j])
<1>1. ASSUME NEW c \in DOMAIN L[j], NEW d \in DOMAIN L[j], c < d
      PROVE  L[j][c] < L[j][d]
  <2>1. DOMAIN L[j] = 1 .. Len(L[j])
    OBVIOUS
  <2>2. c \in Nat /\ d \in Nat /\ c # d
    BY <1>1, <2>1
  <2>3. L[j][c] \in Nat /\ L[j][d] \in Nat /\ L[j][c] <= L[j][d]
    BY <1>1 DEF Sorted
  <2>4. L[j][c] # L[j][d]
    BY <1>1, <2>2 DEF Distinct
  <2>. QED
    BY <2>3, <2>4
<1>. QED
  BY <1>1 DEF Increasing

LEMMA RootSplitLined ==
  ASSUME NEW n, NEW pages, NEW pos, NEW key, NEW w \in Nat,
         RootPlaced(n, pages, pos, key), Len(pages[Root].cells) = LeafMaxCells,
         pages[Root].link = 0, NEW result, Sound(3, result),
         Heightened(SplitPages(n, pages, Root, pos, key, w), result)
  PROVE  LinedIfDistinct(result)
<1>. DEFINE old == pages[Root]
            cells == InsertAt(old.cells, pos + 1, key)
            lower == LowerHalf(old, pos, key)
            upper == UpperHalf(old, pos, key)
            L == KidCells(result)
            S == Separators(result)
<1>1. /\ Halving(cells, lower, upper)
      /\ IsNode(result) /\ Fanout(result) = 1
      /\ Kid(result, 0) = 2 /\ Kid(result, 1) = 1
      /\ L[0] = lower /\ L[1] = upper /\ S[0] = lower[LeftSplitCount]
      /\ result[2].link = 1 /\ result[1].link = 0
  BY RootSplitShape
<1>2. Sorted(cells)
  <2>1. old.cells \in Seq(Nat)
    BY RootLeafFacts DEF RootPlaced
  <2>2. Sorted(old.cells) /\ key \in Nat /\ Divides(old.cells, pos, key)
    BY DEF RootPlaced, Ordered
  <2>. QED
    BY <2>1, <2>2, InsertedOrder
<1>3. LeftToRight(result)
  <2>1. \A j \in 0 .. 1 - 1 : j = 0 /\ j + 1 = 1
    OBVIOUS
  <2>. QED
    BY <1>1, <2>1 DEF LeftToRight
<1>. HIDE DEF lower, upper, cells, L, S
<1>4. ASSUME Distinct(1, L)
      PROVE  Apart(1, L, S)
  <2>1. /\ lower \in Seq(Nat) /\ upper \in Seq(Nat)
        /\ DOMAIN lower = 1 .. LeftSplitCount
        /\ DOMAIN upper = 1 .. RightSplitCount
        /\ LeftSplitCount \in 1 .. LeftSplitCount
    BY <1>1, SplitCounts DEF Halving
  <2>2. /\ Sorted(lower) /\ Sorted(upper) /\ lower[LeftSplitCount] \in Nat
        /\ \A c \in 1 .. RightSplitCount :
             upper[c] \in Nat /\ lower[LeftSplitCount] <= upper[c]
    BY <1>1, <1>2, HalvesOrder
  <2>3. \A j \in 0 .. 1 : j = 0 \/ j = 1
    OBVIOUS
  <2>4. \A j \in 0 .. 1 : L[j] \in Seq(Nat) /\ Sorted(L[j])
    BY <1>1, <2>1, <2>2, <2>3
  <2>5. \A j \in 0 .. 1 : Increasing(L[j])
    BY <1>4, <2>4, IncreasingIfDistinct
  <2>6. ASSUME NEW c \in 1 .. RightSplitCount
        PROVE  lower[LeftSplitCount] # upper[c]
    <3>1. /\ 0 \in 0 .. 1 /\ 1 \in 0 .. 1 /\ 0 # 1
          /\ LeftSplitCount \in DOMAIN L[0] /\ c \in DOMAIN L[1]
      BY <1>1, <2>1
    <3>2. L[0][LeftSplitCount] # L[1][c]
      BY <1>4, <3>1 DEF Distinct
    <3>. QED
      BY <1>1, <3>2
  <2>7. ASSUME NEW c \in DOMAIN L[1]
        PROVE  S[0] < L[1][c]
    <3>1. c \in 1 .. RightSplitCount
      BY <1>1, <2>1
    <3>2. lower[LeftSplitCount] < upper[c]
      BY <2>2, <2>6, <3>1
    <3>. QED
      BY <1>1, <3>2
  <2>8. \A j \in 1 .. 1 : j = 1 /\ j - 1 = 0
    OBVIOUS
  <2>9. \A j \in 1 .. 1 : \A c \in DOMAIN L[j] : S[j - 1] < L[j][c]
    BY <2>7, <2>8
  <2>. QED
    BY <2>5, <2>9 DEF Apart
<1>. QED
  BY <1>1, <1>3, <1>4 DEF LinedIfDistinct, Lined, L, S

(* What a row more in a child says about the tree before it. *)
LEMMA CrowdedLined ==
  ASSUME NEW n, NEW pages, NEW i, NEW pos, NEW key,
         Placed(n, pages, i, pos, key), LinedIfDistinct(pages),
         Distinct(Fanout(pages), Crowded(pages, i, pos, key))
  PROVE  /\ LeftToRight(pages)
         /\ Apart(Fanout(pages), Crowded(pages, i, pos, key), Separators(pages))
<1>. DEFINE k == Fanout(pages)
            L == KidCells(pages)
            M == Crowded(pages, i, pos, key)
<1>1. /\ Sound(n, pages) /\ IsNode(pages) /\ key \in Nat /\ i \in 0 .. k
      /\ pos \in 0 .. Len(L[i])
  BY DEF Placed, Aims, Divides
<1>2. /\ k \in Nat /\ \A j \in 0 .. k : L[j] \in Seq(Nat)
  BY <1>1, KidCellsType
<1>3. /\ M[i] = InsertAt(L[i], pos + 1, key)
      /\ \A j \in 0 .. k : j # i => M[j] = L[j]
      /\ /\ Apart(k, L, Separators(pages))
         /\ \A c \in DOMAIN L[i] : L[i][c] # key
         => Apart(k, M, Separators(pages))
  BY CrowdedOrder
<1>4. Distinct(k, M)
  OBVIOUS
<1>. HIDE DEF k, L, M
<1>5. Distinct(k, L) /\ \A c \in DOMAIN L[i] : L[i][c] # key
  <2>1. Widened(k, L, i, pos, key, M)
    BY <1>1, <1>2, <1>3 DEF Widened
  <2>. QED
    BY <1>4, <2>1, DistinctBefore
<1>6. LeftToRight(pages) /\ Apart(k, L, Separators(pages))
  BY <1>1, <1>5 DEF LinedIfDistinct, Lined, k, L
<1>. QED
  BY <1>3, <1>5, <1>6 DEF k, M

LEMMA RowLined ==
  ASSUME NEW n, NEW pages, NEW i, NEW pos, NEW key,
         Placed(n, pages, i, pos, key), LinedIfDistinct(pages)
  PROVE  LinedIfDistinct(WithRow(pages, Kid(pages, i), pos, key))
<1>. DEFINE result == WithRow(pages, Kid(pages, i), pos, key)
            k == Fanout(pages)
<1>1. /\ result[Root] = pages[Root]
      /\ KidCells(result) = Crowded(pages, i, pos, key)
      /\ \A j \in 0 .. k :
           /\ Kid(result, j) = Kid(pages, j)
           /\ result[Kid(pages, j)].link = pages[Kid(pages, j)].link
  BY RowInChild
<1>2. k \in Nat
  BY KidCellsType DEF Placed
<1>. HIDE DEF result
<1>3. Fanout(result) = k /\ Separators(result) = Separators(pages)
  BY <1>1 DEF Fanout, Separators
<1>4. ASSUME Distinct(k, KidCells(result))
      PROVE  Lined(result)
  <2>1. /\ LeftToRight(pages)
        /\ Apart(k, KidCells(result), Separators(pages))
    BY <1>1, <1>4, CrowdedLined
  <2>2. \A j \in 0 .. k - 1 : j \in 0 .. k /\ j + 1 \in 0 .. k
    BY <1>2
  <2>3. k \in 0 .. k
    BY <1>2
  <2>. HIDE DEF k
  <2>4. LeftToRight(result)
    <3>1. \A j \in 0 .. k - 1 : result[Kid(result, j)].link = Kid(result, j + 1)
      BY <1>1, <2>1, <2>2 DEF LeftToRight, k
    <3>2. result[Kid(result, k)].link = 0
      BY <1>1, <2>1, <2>3 DEF LeftToRight, k
    <3>. QED
      BY <1>3, <3>1, <3>2 DEF LeftToRight
  <2>. QED
    BY <1>3, <2>1, <2>4 DEF Lined
<1>. QED
  BY <1>3, <1>4 DEF LinedIfDistinct, result

(* The new leaf stands right behind the one that was split, in the tree and in
   the chain. *)
LEMMA SplitLinks ==
  ASSUME NEW n, NEW pages, NEW i, NEW pos, NEW key,
         Placed(n, pages, i, pos, key), LeftToRight(pages), NEW result,
         Fanout(result) = Fanout(pages) + 1,
         NEW lower, NEW upper, SplitShape(n, pages, result, i, lower, upper),
         PutIn(i + 1, result[Root], pages[Root], n)
  PROVE  LeftToRight(result)
<1>. DEFINE k == Fanout(pages)
            p == Kid(pages, i)
<1>1. /\ Sound(n, pages) /\ IsNode(pages) /\ i \in 0 .. k
  BY DEF Placed, Aims
<1>2. k \in Nat /\ \A j \in 0 .. k : Kid(pages, j) \in 1 .. n - 1
  BY <1>1, KidCellsType, NodeFacts
<1>3. \A j \in 0 .. k : j # i => Kid(pages, j) # p
  BY <1>1, DistinctKids
<1>4. /\ result[p].link = n /\ result[n].link = pages[p].link
      /\ \A q \in 1 .. n - 1 : q # p => result[q] = pages[q]
  BY DEF SplitShape
<1>5. \A j \in 0 .. k + 1 :
        Kid(result, j) = IF j < i + 1 THEN Kid(pages, j)
                         ELSE IF j = i + 1 THEN n ELSE Kid(pages, j - 1)
  BY DEF PutIn, Kid, Fanout
<1>6. /\ \A j \in 0 .. k - 1 : pages[Kid(pages, j)].link = Kid(pages, j + 1)
      /\ pages[Kid(pages, k)].link = 0
  BY DEF LeftToRight
<1>7. Fanout(result) = k + 1
  OBVIOUS
<1>. HIDE DEF k, p
<1>8. \A j \in 0 .. k : j # i =>
        result[Kid(pages, j)].link = pages[Kid(pages, j)].link
  BY <1>2, <1>3, <1>4
<1>9. ASSUME NEW j \in 0 .. k
      PROVE  result[Kid(result, j)].link = Kid(result, j + 1)
  <2>1. j \in 0 .. k + 1 /\ j + 1 \in 0 .. k + 1
    BY <1>2
  <2>2. CASE j < i
    <3>1. j < i + 1 /\ j + 1 < i + 1 /\ j \in 0 .. k - 1 /\ j # i
      BY <1>1, <1>2, <2>2
    <3>2. Kid(result, j) = Kid(pages, j) /\ Kid(result, j + 1) = Kid(pages, j + 1)
      BY <1>5, <2>1, <3>1
    <3>. QED
      BY <1>6, <1>8, <3>1, <3>2
  <2>3. CASE j = i
    <3>1. i < i + 1 /\ ~(i + 1 < i + 1)
      BY <1>1
    <3>2. Kid(result, j) = p /\ Kid(result, j + 1) = n
      BY <1>5, <2>1, <2>3, <3>1 DEF p
    <3>. QED
      BY <1>4, <3>2
  <2>4. CASE j = i + 1
    <3>1. /\ ~(j < i + 1) /\ ~(j + 1 < i + 1) /\ j + 1 # i + 1
          /\ (j + 1) - 1 = i + 1 /\ i \in 0 .. k - 1
      BY <1>1, <1>2, <2>4
    <3>2. Kid(result, j) = n /\ Kid(result, j + 1) = Kid(pages, i + 1)
      BY <1>5, <2>1, <2>4, <3>1
    <3>3. pages[p].link = Kid(pages, i + 1)
      BY <1>6, <3>1 DEF p
    <3>. QED
      BY <1>4, <3>2, <3>3
  <2>5. CASE j > i + 1
    <3>1. /\ ~(j < i + 1) /\ ~(j + 1 < i + 1) /\ j # i + 1 /\ j + 1 # i + 1
          /\ (j + 1) - 1 = j /\ j - 1 \in 0 .. k - 1 /\ j - 1 \in 0 .. k
          /\ j - 1 # i /\ (j - 1) + 1 = j
      BY <1>1, <1>2, <2>5
    <3>2. Kid(result, j) = Kid(pages, j - 1) /\ Kid(result, j + 1) = Kid(pages, j)
      BY <1>5, <2>1, <3>1
    <3>3. pages[Kid(pages, j - 1)].link = Kid(pages, j)
      BY <1>6, <3>1
    <3>. QED
      BY <1>8, <3>1, <3>2, <3>3
  <2>. QED
    BY <1>1, <2>2, <2>3, <2>4, <2>5
<1>10. result[Kid(result, k + 1)].link = 0
  <2>1. k + 1 \in 0 .. k + 1 /\ k \in 0 .. k
    BY <1>2
  <2>2. CASE i = k
    <3>1. ~(k + 1 < i + 1) /\ k + 1 = i + 1
      BY <1>2, <2>2
    <3>2. Kid(result, k + 1) = n
      BY <1>5, <2>1, <3>1
    <3>. QED
      BY <1>4, <1>6, <2>2, <3>2 DEF p
  <2>3. CASE i # k
    <3>1. ~(k + 1 < i + 1) /\ k + 1 # i + 1 /\ (k + 1) - 1 = k
      BY <1>1, <1>2, <2>3
    <3>2. Kid(result, k + 1) = Kid(pages, k)
      BY <1>5, <2>1, <3>1
    <3>. QED
      BY <1>6, <1>8, <2>1, <2>3, <3>2
  <2>. QED
    BY <2>2, <2>3
<1>11. (k + 1) - 1 = k
  BY <1>2
<1>. QED
  BY <1>7, <1>9, <1>10, <1>11 DEF LeftToRight

LEMMA SplitLined ==
  ASSUME NEW n, NEW pages, NEW i, NEW pos, NEW key,
         Placed(n, pages, i, pos, key), LinedIfDistinct(pages),
         NEW result, Sound(n + 1, result),
         NEW lower, NEW upper, SplitShape(n, pages, result, i, lower, upper),
         Halving(Crowded(pages, i, pos, key)[i], lower, upper)
  PROVE  LinedIfDistinct(result)
<1>. DEFINE k == Fanout(pages)
            S == Separators(pages)
            M == Crowded(pages, i, pos, key)
            m == lower[LeftSplitCount]
            S1 == Separators(result)
            L1 == KidCells(result)
<1>1. k \in Nat /\ i \in 0 .. k /\ Spread(i, S1, S, k, m)
  <2>1. Sound(n, pages) /\ IsNode(pages) /\ i \in 0 .. k
    BY DEF Placed, Aims
  <2>. QED
    BY <2>1, KidCellsType DEF SplitShape
<1>2. /\ IsNode(result) /\ Fanout(result) = k + 1
      /\ \/ Halved(k, L1, M, i, lower, upper)
         \/ /\ upper[RightSplitCount] = m
            /\ Halved(k, L1, M, i, upper, lower)
  BY SplitKids
<1>3. Halving(M[i], lower, upper)
  OBVIOUS
<1>4. \/ PutIn(i + 1, result[Root], pages[Root], n)
      \/ upper[RightSplitCount] = m
  BY DEF SplitShape
<1>. HIDE DEF k, S, M, S1, L1
<1>5. ASSUME Distinct(k + 1, L1)
      PROVE  Lined(result)
  <2>1. upper[RightSplitCount] # m
    <3>1. /\ i \in 0 .. k + 1 /\ i + 1 \in 0 .. k + 1 /\ i # i + 1
          /\ ~(i + 1 < i) /\ ~(i < i)
      BY <1>1
    <3>2. /\ LeftSplitCount \in DOMAIN lower
          /\ RightSplitCount \in DOMAIN upper
      BY <1>3, SplitCounts DEF Halving
    <3>3. CASE Halved(k, L1, M, i, lower, upper)
      <4>1. L1[i] = lower /\ L1[i + 1] = upper
        BY <3>1, <3>3 DEF Halved
      <4>. QED
        BY <1>5, <3>1, <3>2, <4>1 DEF Distinct
    <3>4. CASE Halved(k, L1, M, i, upper, lower)
      <4>1. L1[i] = upper /\ L1[i + 1] = lower
        BY <3>1, <3>4 DEF Halved
      <4>. QED
        BY <1>5, <3>1, <3>2, <4>1 DEF Distinct
    <3>. QED
      BY <1>2, <3>3, <3>4
  <2>2. Halved(k, L1, M, i, lower, upper)
    BY <1>2, <2>1
  <2>3. Distinct(k, M)
    BY <1>1, <1>3, <1>5, <2>2, DistinctWhole
  <2>4. LeftToRight(pages) /\ Apart(k, M, S)
    BY <2>3, CrowdedLined DEF k, M, S
  <2>. HIDE DEF m
  <2>5. FitApart(k, S, i, lower, upper, m)
    BY <1>1, <1>3, <2>4, HalvesFitApart DEF m
  <2>6. Apart(k + 1, L1, S1)
    BY <1>1, <2>2, <2>4, <2>5, ApartAfterSplit
  <2>7. LeftToRight(result)
    BY <1>2, <1>4, <2>1, <2>4, SplitLinks DEF k
  <2>. QED
    BY <1>2, <2>6, <2>7 DEF Lined, L1, S1
<1>. QED
  BY <1>2, <1>5 DEF LinedIfDistinct, L1

LEMMA GrownKeepsLine ==
  ASSUME NEW n, NEW pages, Sound(n, pages), Threaded(pages),
         LinedIfDistinct(pages), NEW pos, NEW key, NEW w \in Nat,
         NEW n1, NEW result, Grown(n, pages, pos, key, w, n1, result),
         Sound(n1, result)
  PROVE  LinedIfDistinct(result)
<1>1. CASE /\ RootPlaced(n, pages, pos, key)
           /\ n1 = n /\ result = WithRow(pages, Root, pos, key)
  <2>1. ~IsNode(result)
    BY <1>1, RootRowKeepsOrder
  <2>. QED
    BY <2>1 DEF LinedIfDistinct
<1>2. CASE /\ RootPlaced(n, pages, pos, key)
           /\ Len(pages[Root].cells) = LeafMaxCells /\ n1 = 3
           /\ Heightened(SplitPages(n, pages, Root, pos, key, w), result)
  <2>1. pages[Root].link = 0
    BY <1>2, LoneLeafEnds DEF RootPlaced
  <2>. QED
    BY <1>2, <2>1, RootSplitLined
<1>3. ASSUME NEW i, Placed(n, pages, i, pos, key), n1 = n,
             result = WithRow(pages, Kid(pages, i), pos, key)
      PROVE  LinedIfDistinct(result)
  BY <1>3, RowLined
<1>4. ASSUME NEW i, Placed(n, pages, i, pos, key),
             Fanout(pages) < InternalMaxCells,
             Len(KidCells(pages)[i]) = LeafMaxCells, n1 = n + 1,
             result = ChildSplit(n, pages, Kid(pages, i), pos, key, w)
      PROVE  LinedIfDistinct(result)
  <2>. DEFINE lower == LowerHalf(pages[Kid(pages, i)], pos, key)
              upper == UpperHalf(pages[Kid(pages, i)], pos, key)
  <2>1. /\ SplitShape(n, pages, result, i, lower, upper)
        /\ Halving(Crowded(pages, i, pos, key)[i], lower, upper)
    BY <1>4, ChildSplitShape
  <2>. HIDE DEF lower, upper
  <2>. QED
    BY <1>4, <2>1, SplitLined
<1>. QED
  BY <1>1, <1>2, <1>3, <1>4 DEF Grown

-----------------------------------------------------------------------------
(* Every reachable state *)

Chained(pages) == Threaded(pages) /\ LinedIfDistinct(pages)

ScanInv ==
  /\ OrderInv
  /\ Running => Chained(db.pages)
  /\ disk # EmptyFile => Chained(disk.pages)

LEMMA NewIsChained ==
  ASSUME NEW pages, Sound(1, pages), ~IsNode(pages), pages[Root].link = 0
  PROVE  Chained(pages)
<1>1. NumLeaves(pages) = 1 /\ Leaves(pages) = {Root}
  BY LeavesAre
<1>. DEFINE f == [j \in 1 .. 1 |-> Root]
<1>2. /\ f[1] = Root /\ 1 \in 1 .. 1
      /\ \A j \in 1 .. 1 : j = 1
      /\ \A j \in 1 .. 1 - 1 : FALSE
  OBVIOUS
<1>. HIDE DEF f
<1>3. Threads(f, 1, {Root}, pages)
  BY <1>2 DEF Threads
<1>. QED
  BY <1>1, <1>3 DEF Chained, Threaded, LinedIfDistinct

LEMMA ChainIsKept ==
  ASSUME ScanInv, [Next]_vars
  PROVE  ScanInv'
<1>1. OrderInv /\ OrderInv'
  BY OrderIsKept DEF ScanInv
<1>2. ASSUME NEW w \in Words, Open(w)
      PROVE  ScanInv'
  <2>1. disk' = disk
    BY <1>2 DEF Open
  <2>2. Chained(db'.pages)
    <3>1. ASSUME NEW pages, db' = Db(1, pages), Sound(1, pages),
                 ~IsNode(pages), pages[Root].link = 0
          PROVE  Chained(db'.pages)
      BY <3>1, NewIsChained, Fates
    <3>2. CASE /\ disk # EmptyFile
               /\ db' = [num_pages |-> disk.num_pages, pages |-> disk.pages,
                         fate |-> "runs"]
      BY <3>2 DEF ScanInv
    <3>. QED
      BY <1>1, <1>2, <3>1, <3>2, OpenedTree, OrderInvIsInv
  <2>. QED
    BY <1>1, <2>1, <2>2 DEF ScanInv
<1>3. ASSUME NEW key \in Keys, NEW w \in Words, Insert(key, w)
      PROVE  ScanInv'
  <2>1. disk' = disk /\ Running
    BY <1>3 DEF Insert
  <2>2. PICK n, pages : /\ db = Db(n, pages) /\ db.pages = pages
                        /\ Sound(n, pages) /\ Ordered(pages)
    BY <1>1, <2>1, RunningIsOrdered
  <2>3. Chained(pages)
    BY <2>1, <2>2 DEF ScanInv
  <2>4. Running' => Chained(db'.pages)
    <3>1. CASE db' = db
      BY <2>2, <2>3, <3>1
    <3>2. CASE db' \in Lost
      BY <3>2, Fates DEF Running
    <3>3. ASSUME NEW pos, NEW n1, NEW result, db' = Db(n1, result),
                 Sound(n1, result), Grown(n, pages, pos, key, w, n1, result)
          PROVE  Chained(db'.pages)
      <4>1. w \in Nat
        BY BTreeAssumption
      <4>2. Chained(result)
        BY <2>2, <2>3, <3>3, <4>1, GrownKeepsThread, GrownKeepsLine DEF Chained
      <4>. QED
        BY <3>3, <4>2, Fates
    <3>. QED
      BY <1>3, <2>2, <3>1, <3>2, <3>3, InsertGrows
  <2>. QED
    BY <1>1, <2>1, <2>4 DEF ScanInv
<1>4. CASE Select \/ UNCHANGED vars
  BY <1>1, <1>4 DEF Select, vars, ScanInv, Running
<1>5. CASE Close
  <2>1. /\ Running /\ ~Running'
        /\ disk' = [num_pages |-> db.num_pages, pages |-> db.pages]
    BY <1>5, Fates DEF Close, Running
  <2>2. disk'.pages = db.pages
    BY <2>1
  <2>. QED
    BY <1>1, <2>1, <2>2 DEF ScanInv
<1>6. CASE Kill
  <2>1. ~Running' /\ disk' = disk
    BY <1>6, Fates DEF Kill, Running
  <2>. QED
    BY <1>1, <2>1 DEF ScanInv
<1>. QED
  BY <1>2, <1>3, <1>4, <1>5, <1>6 DEF Next

(* Every open database and every saved one has its leaves in one chain, and in
   the order of the tree as long as no id is stored twice. *)
THEOREM AlwaysChained == Spec => []ScanInv
<1>1. Init => ScanInv
  BY Fates DEF Init, ScanInv, OrderInv, Running
<1>2. ScanInv /\ [Next]_vars => ScanInv'
  BY ChainIsKept
<1>. QED
  BY <1>1, <1>2, PTL DEF Spec

LEMMA RunningIsChained ==
  ASSUME ScanInv, Running
  PROVE  \E n, pages : /\ db.pages = pages /\ Sound(n, pages)
                       /\ Ordered(pages) /\ Chained(pages)
<1>1. PICK n, pages : /\ db.pages = pages
                      /\ Sound(n, pages) /\ Ordered(pages)
  BY RunningIsOrdered DEF ScanInv
<1>. QED
  BY <1>1 DEF ScanInv

-----------------------------------------------------------------------------
(* One chain *)

LEMMA HowMany ==
  ASSUME NEW n, NEW pages, Sound(n, pages)
  PROVE  /\ n \in 1 .. 5 /\ Cardinality(DOMAIN pages) = n
         /\ NumLeaves(pages) \in 1 .. n
         /\ Cardinality(Leaves(pages)) = NumLeaves(pages)
<1>1. n \in 1 .. 5 /\ NumLeaves(pages) \in 1 .. n /\ NumLeaves(pages) \in 1 .. 4
  BY LeavesAre
<1>2. Cardinality(DOMAIN pages) = n
  <2>1. DOMAIN pages = 0 .. n - 1
    BY DEF Sound, UpTo
  <2>2. Cardinality(0 .. n - 1) = (n - 1) - 0 + 1
    BY <1>1, FS_Interval
  <2>. QED
    BY <1>1, <2>1, <2>2
<1>3. CASE IsNode(pages)
  <2>1. Leaves(pages) = 1 .. NumLeaves(pages)
    BY <1>3, LeavesAre
  <2>2. Cardinality(1 .. NumLeaves(pages)) = NumLeaves(pages) - 1 + 1
    BY <1>1, FS_Interval
  <2>. QED
    BY <1>1, <1>2, <2>1, <2>2
<1>4. CASE ~IsNode(pages)
  <2>1. Leaves(pages) = {Root} /\ NumLeaves(pages) = 1
    BY <1>4, LeavesAre
  <2>2. Cardinality({Root}) = 1
    BY FS_Singleton
  <2>. QED
    BY <1>1, <1>2, <2>1, <2>2
<1>. QED
  BY <1>3, <1>4

(* From leaf a of the thread the chain is what is left of the thread. *)
LEMMA ChainFromLeaf ==
  ASSUME NEW n, NEW pages, Sound(n, pages),
         NEW f, Threads(f, NumLeaves(pages), Leaves(pages), pages),
         NEW a \in 1 .. NumLeaves(pages)
  PROVE  LeafChain(pages, f[a]) =
           [j \in 1 .. NumLeaves(pages) + 1 - a |-> f[a - 1 + j]]
<1>. DEFINE M == NumLeaves(pages)
            m == M + 1 - a
            g == [j \in 1 .. m |-> f[a - 1 + j]]
<1>1. /\ n \in 1 .. 5 /\ Cardinality(DOMAIN pages) = n
      /\ M \in 1 .. n /\ m \in 1 .. n /\ m \in Nat \ {0} /\ a \in 1 .. M
  BY HowMany
<1>2. /\ \A j \in 1 .. M : f[j] \in Leaves(pages)
      /\ \A j \in 1 .. M - 1 : pages[f[j]].link = f[j + 1]
      /\ pages[f[M]].link = 0
  BY DEF Threads
<1>3. M > 1 => Leaves(pages) = 1 .. M
  BY LeavesAre
<1>4. \A j \in 1 .. m : g[j] = f[a - 1 + j]
  OBVIOUS
<1>5. ASSUME NEW j \in 1 .. m - 1
      PROVE  pages[g[j]].link = g[j + 1] /\ g[j + 1] # 0
  <2>. DEFINE b == a - 1 + j
  <2>1. /\ b \in 1 .. M - 1 /\ b + 1 \in 1 .. M /\ M > 1
        /\ j \in 1 .. m /\ j + 1 \in 1 .. m /\ a - 1 + (j + 1) = b + 1
    BY <1>1
  <2>2. g[j] = f[b] /\ g[j + 1] = f[b + 1]
    BY <1>4, <2>1
  <2>. HIDE DEF b, g, M
  <2>3. f[b + 1] \in 1 .. M
    BY <1>2, <1>3, <2>1
  <2>. QED
    BY <1>2, <2>1, <2>2, <2>3
<1>6. pages[g[m]].link = 0 /\ g[1] = f[a]
  <2>1. m \in 1 .. m /\ 1 \in 1 .. m /\ a - 1 + m = M /\ a - 1 + 1 = a
    BY <1>1
  <2>. QED
    BY <1>2, <1>4, <2>1
<1>7. Prefix(g, m) = g
  BY DEF Prefix
<1>. HIDE DEF g, m, M
<1>8. LeafChain(pages, g[1]) = Prefix(g, m)
  <2>1. Runs(g, m, pages)
    BY <1>5, <1>6 DEF Runs
  <2>. QED
    BY <1>1, <2>1, ChainFrom
<1>. QED
  BY <1>6, <1>7, <1>8 DEF g, m, M

(* OneChain, of cursor_advance: whatever was inserted, leaf_next leads through
   every leaf once and to an end. *)
THEOREM ChainIsWhole == Spec => []OneChain
<1>1. ASSUME NEW n, NEW pages, Sound(n, pages), Threaded(pages)
      PROVE  \E first \in Leaves(pages) :
               LET chain == LeafChain(pages, first)
               IN  /\ Range(chain) = Leaves(pages)
                   /\ Len(chain) = Cardinality(Leaves(pages))
  <2>. DEFINE m == NumLeaves(pages)
  <2>1. PICK f : Threads(f, m, Leaves(pages), pages)
    BY <1>1 DEF Threaded
  <2>2. m \in Nat \ {0} /\ 1 \in 1 .. m /\ Cardinality(Leaves(pages)) = m
    BY <1>1, HowMany
  <2>3. LeafChain(pages, f[1]) = [j \in 1 .. m + 1 - 1 |-> f[1 - 1 + j]]
    BY <1>1, <2>1, <2>2, ChainFromLeaf
  <2>4. LeafChain(pages, f[1]) = Prefix(f, m)
    <3>1. m + 1 - 1 = m /\ \A j \in 1 .. m : 1 - 1 + j = j
      BY <2>2
    <3>. QED
      BY <2>3, <3>1 DEF Prefix
  <2>. HIDE DEF m
  <2>5. Len(Prefix(f, m)) = m
    BY <2>2, PrefixSteps
  <2>6. Range(Prefix(f, m)) = Leaves(pages)
    <3>1. Range(Prefix(f, m)) = {f[j] : j \in 1 .. m}
      BY DEF Range, Prefix
    <3>2. /\ \A j \in 1 .. m : f[j] \in Leaves(pages)
          /\ \A p \in Leaves(pages) : \E j \in 1 .. m : f[j] = p
      BY <2>1 DEF Threads
    <3>. QED
      BY <3>1, <3>2
  <2>7. f[1] \in Leaves(pages)
    BY <2>1, <2>2 DEF Threads
  <2>. QED
    BY <2>2, <2>4, <2>5, <2>6, <2>7
<1>2. ScanInv => OneChain
  BY <1>1, RunningIsChained DEF OneChain, Chained
<1>. QED
  BY <1>2, AlwaysChained, PTL

-----------------------------------------------------------------------------
(* What a scan prints *)

(* The cells of the leaves from the a-th of the thread on. *)
Rest(f, a, pages) ==
  [j \in 1 .. NumLeaves(pages) + 1 - a |-> pages[f[a - 1 + j]].cells]

LEMMA LeafCellsType ==
  ASSUME NEW n, NEW pages, Sound(n, pages), NEW p \in Leaves(pages)
  PROVE  pages[p].cells \in Seq(Nat)
<1>1. p \in 0 .. n - 1 /\ pages[p].type = "leaf"
  BY DEF Leaves, Sound, UpTo
<1>. QED
  BY <1>1, LeafFacts

LEMMA RowsFromLeaf ==
  ASSUME NEW n, NEW pages, Sound(n, pages),
         NEW f, Threads(f, NumLeaves(pages), Leaves(pages), pages),
         NEW a \in 1 .. NumLeaves(pages), NEW pos \in Nat
  PROVE  LET seqs == Rest(f, a, pages)
             rows == FlattenSeq(seqs)
         IN  /\ Joins(rows, seqs, NumLeaves(pages) + 1 - a)
             /\ Drawn(rows, seqs, NumLeaves(pages) + 1 - a)
             /\ RowsFrom(pages, f[a], pos) = SubSeq(rows, pos + 1, Len(rows))
             /\ RowsFrom(pages, f[a], pos) \in Seq(Nat)
<1>. DEFINE M == NumLeaves(pages)
            m == M + 1 - a
            seqs == Rest(f, a, pages)
            rows == FlattenSeq(seqs)
            chain == LeafChain(pages, f[a])
<1>1. M \in 1 .. 4 /\ m \in 1 .. 4 /\ m \in Nat \ {0}
  BY LeavesAre
<1>2. chain = [j \in 1 .. m |-> f[a - 1 + j]]
  BY ChainFromLeaf
<1>3. \A j \in 1 .. m : seqs[j] = pages[f[a - 1 + j]].cells
  BY DEF Rest
<1>4. DOMAIN seqs = 1 .. m /\ DOMAIN chain = 1 .. m
  BY <1>2 DEF Rest
<1>5. ASSUME NEW j \in 1 .. m
      PROVE  seqs[j] \in Seq(Nat)
  <2>1. a - 1 + j \in 1 .. M
    BY <1>1
  <2>2. f[a - 1 + j] \in Leaves(pages)
    BY <2>1 DEF Threads
  <2>. QED
    BY <1>3, <2>2, LeafCellsType
<1>6. [i \in DOMAIN chain |-> pages[chain[i]].cells] = seqs
  BY <1>2, <1>4 DEF Rest
<1>7. RowsFrom(pages, f[a], pos) = SubSeq(rows, pos + 1, Len(rows))
  BY <1>6 DEF RowsFrom
<1>8. Len(seqs) = m
  <2>1. seqs \in Seq(Seq(Nat))
    <3>. HIDE DEF m, seqs
    <3>1. seqs = [j \in 1 .. m |-> seqs[j]]
      BY <1>4 DEF seqs, m, Rest
    <3>2. seqs \in [1 .. m -> Seq(Nat)]
      BY <1>5, <3>1
    <3>. QED
      BY <1>1, <3>2
  <2>. QED
    BY <1>1, <1>4, <2>1
<1>. HIDE DEF m, seqs, M
<1>9. Joins(rows, seqs, m) /\ Drawn(rows, seqs, m)
  <2>1. Len(seqs) \in 1 .. 4 /\ DOMAIN seqs = 1 .. Len(seqs)
        /\ \A j \in 1 .. Len(seqs) : seqs[j] \in Seq(Nat)
    BY <1>1, <1>4, <1>5, <1>8
  <2>2. /\ Joins(FlattenSeq(seqs), seqs, Len(seqs))
        /\ Drawn(FlattenSeq(seqs), seqs, Len(seqs))
    BY <2>1, Flattened
  <2>. QED
    BY <1>8, <2>2
<1>10. SubSeq(rows, pos + 1, Len(rows)) \in Seq(Nat)
  <2>1. rows \in Seq(Nat)
    BY <1>9 DEF Joins
  <2>. HIDE DEF rows
  <2>2. \A x \in pos + 1 .. Len(rows) : rows[x] \in Nat
    BY <2>1
  <2>. QED
    BY <2>1, <2>2, SubSeqProperties
<1>. QED
  BY <1>7, <1>9, <1>10 DEF m, seqs, M

LEMMA ScansAreRows ==
  ASSUME NEW n, NEW pages, Sound(n, pages), Threaded(pages),
         NEW rows \in Scans(pages)
  PROVE  rows \in Seq(Nat)
<1>. DEFINE p == FindLeaf(pages, 0)
<1>1. PICK pos \in LeafPositions(pages[p], 0) : rows = RowsFrom(pages, p, pos)
  BY DEF Scans
<1>2. p \in Leaves(pages)
  <2>1. p \in 0 .. n - 1 /\ pages[p].type = "leaf"
    BY FindLeafFinds
  <2>2. DOMAIN pages = 0 .. n - 1
    BY DEF Sound, UpTo
  <2>. QED
    BY <2>1, <2>2 DEF Leaves
<1>. HIDE DEF p
<1>3. pos \in Nat
  <2>1. pages[p].cells \in Seq(Nat)
    BY <1>2, LeafCellsType
  <2>2. pos \in 0 .. Len(pages[p].cells) /\ Len(pages[p].cells) \in Nat
    BY <2>1, LeafPositionRange
  <2>. QED
    BY <2>2
<1>4. PICK f : Threads(f, NumLeaves(pages), Leaves(pages), pages)
  BY DEF Threaded
<1>5. PICK a \in 1 .. NumLeaves(pages) : f[a] = p
  BY <1>2, <1>4 DEF Threads
<1>6. RowsFrom(pages, f[a], pos) \in Seq(Nat)
  BY <1>3, <1>4, RowsFromLeaf
<1>. QED
  BY <1>1, <1>5, <1>6

(* TypeOK, with the answers to every statement: a scan prints rows. *)
THEOREM TypesAreOK == Spec => []TypeOK
<1>. DEFINE Replies == [kind : {"none", "inserted", "duplicate", "rows"},
                        rows : Seq(Nat)]
            ReplyOK == reply \in Replies
<1>1. \A kind \in {"none", "inserted", "duplicate", "rows"} :
        \A rows \in Seq(Nat) : Reply(kind, rows) \in Replies
  BY DEF Reply
<1>2. Reply("none", <<>>) \in Replies
  BY DEF Reply
<1>. HIDE DEF Replies
<1>3. Init => ReplyOK
  BY <1>2 DEF Init
<1>4. ASSUME ScanInv, ReplyOK, [Next]_vars
      PROVE  ReplyOK'
  <2>1. CASE (\E w \in Words : Open(w)) \/ Close \/ Kill
    BY <1>2, <2>1 DEF Open, Close, Kill
  <2>2. ASSUME NEW key \in Keys, NEW w \in Words, Insert(key, w)
        PROVE  ReplyOK'
    <3>1. <<key>> \in Seq(Nat)
      BY BTreeAssumption
    <3>2. \/ reply' = Reply("duplicate", <<key>>)
          \/ reply' = Reply("inserted", <<key>>)
          \/ reply' = Reply("none", <<>>)
      BY <2>2 DEF Insert
    <3>. QED
      BY <1>1, <1>2, <3>1, <3>2
  <2>3. CASE Select
    <3>1. PICK n, pages : /\ db.pages = pages /\ Sound(n, pages)
                          /\ Ordered(pages) /\ Chained(pages)
      BY <1>4, <2>3, RunningIsChained DEF Select
    <3>2. PICK rows \in Scans(pages) : reply' = Reply("rows", rows)
      BY <2>3, <3>1 DEF Select
    <3>3. rows \in Seq(Nat)
      BY <3>1, <3>2, ScansAreRows DEF Chained
    <3>. QED
      BY <1>1, <3>2, <3>3
  <2>4. CASE UNCHANGED vars
    BY <1>4, <2>4 DEF vars
  <2>. QED
    BY <1>4, <2>1, <2>2, <2>3, <2>4 DEF Next
<1>5. ScanInv => db.fate \in {"closed", "runs", "exits", "outside", "recurses"}
  BY Fates DEF ScanInv, OrderInv, OrderedDb
<1>6. ReplyOK /\ PagesOK /\ db.fate \in {"closed", "runs", "exits", "outside", "recurses"}
        => TypeOK
  BY DEF TypeOK, Replies
<1>. HIDE DEF ReplyOK
<1>. QED
  BY <1>3, <1>4, <1>5, <1>6, AlwaysChained, PagesAreOK, PTL DEF Spec

-----------------------------------------------------------------------------
(* No id is stored twice *)

LEMMA StoredAre ==
  ASSUME NEW n, NEW pages, Sound(n, pages)
  PROVE  /\ \A p \in Leaves(pages) : \A c \in DOMAIN pages[p].cells :
              <<p, c>> \in Cells(pages)
         /\ \A x : x \in StoredKeys(pages) <=>
              \E p \in Leaves(pages) : \E c \in DOMAIN pages[p].cells :
                pages[p].cells[c] = x
<1>1. ASSUME NEW p \in Leaves(pages), NEW c \in DOMAIN pages[p].cells
      PROVE  <<p, c>> \in Cells(pages)
  <2>1. p \in 0 .. n - 1 /\ pages[p].type = "leaf"
    BY DEF Leaves, Sound, UpTo
  <2>2. /\ pages[p].cells \in Seq(Nat)
        /\ Len(pages[p].cells) \in 0 .. LeafMaxCells
    BY <2>1, LeafFacts
  <2>3. c \in 1 .. LeafMaxCells
    <3>1. c \in 1 .. Len(pages[p].cells)
      BY <2>2
    <3>. QED
      BY <2>2, <3>1, NodeSizesAssumption
  <2>. QED
    BY <2>3 DEF Cells
<1>2. ASSUME NEW x \in StoredKeys(pages)
      PROVE  \E p \in Leaves(pages) : \E c \in DOMAIN pages[p].cells :
               pages[p].cells[c] = x
  BY DEF StoredKeys, Cells
<1>3. ASSUME NEW p \in Leaves(pages), NEW c \in DOMAIN pages[p].cells
      PROVE  pages[p].cells[c] \in StoredKeys(pages)
  <2>. DEFINE x == <<p, c>>
  <2>1. x \in Cells(pages) /\ x[1] = p /\ x[2] = c
    BY <1>1
  <2>. HIDE DEF x
  <2>2. pages[x[1]].cells[x[2]] \in StoredKeys(pages)
    BY <2>1 DEF StoredKeys
  <2>. QED
    BY <2>1, <2>2
<1>. QED
  BY <1>1, <1>2, <1>3

LEMMA CellsAreFinite ==
  ASSUME NEW n, NEW pages, Sound(n, pages)
  PROVE  IsFiniteSet(Cells(pages))
<1>1. IsFiniteSet(Leaves(pages))
  <2>1. n \in Nat /\ DOMAIN pages = 0 .. n - 1
    BY DEF Sound, UpTo
  <2>2. IsFiniteSet(0 .. n - 1)
    BY <2>1, FS_Interval
  <2>3. Leaves(pages) \subseteq 0 .. n - 1
    BY <2>1 DEF Leaves
  <2>. QED
    BY <2>2, <2>3, FS_Subset
<1>2. IsFiniteSet(1 .. LeafMaxCells)
  BY FS_Interval, NodeSizesAssumption
<1>3. IsFiniteSet(Leaves(pages) \X (1 .. LeafMaxCells))
  BY <1>1, <1>2, FS_Product
<1>4. Cells(pages) \subseteq Leaves(pages) \X (1 .. LeafMaxCells)
  BY DEF Cells
<1>. QED
  BY <1>3, <1>4, FS_Subset

LEMMA UniqueMeansOnce ==
  ASSUME NEW n, NEW pages, Sound(n, pages), UniqueKeys(pages)
  PROVE  \A p, q \in Leaves(pages) :
           \A c \in DOMAIN pages[p].cells, d \in DOMAIN pages[q].cells :
             pages[p].cells[c] = pages[q].cells[d] => p = q /\ c = d
<1>. DEFINE S == Cells(pages)
            T == StoredKeys(pages)
            f == [x \in S |-> pages[x[1]].cells[x[2]]]
<1>1. f \in Surjection(S, T)
  <2>1. f \in [S -> T]
    BY DEF StoredKeys
  <2>2. \A y \in T : \E x \in S : f[x] = y
    BY DEF StoredKeys
  <2>. QED
    BY <2>1, <2>2 DEF Surjection
<1>2. IsFiniteSet(S) /\ Cardinality(T) = Cardinality(S)
  BY CellsAreFinite DEF UniqueKeys
<1>3. \A p \in Leaves(pages) : \A c \in DOMAIN pages[p].cells :
        <<p, c>> \in S /\ f[<<p, c>>] = pages[p].cells[c]
  BY StoredAre
<1>. HIDE DEF S, T, f
<1>4. f \in Injection(S, T)
  BY <1>1, <1>2, FS_Surjection
<1>5. \A x, y \in S : f[x] = f[y] => x = y
  BY <1>1, <1>4 DEF Injection, IsInjective, Surjection
<1>6. ASSUME NEW p \in Leaves(pages), NEW q \in Leaves(pages),
             NEW c \in DOMAIN pages[p].cells, NEW d \in DOMAIN pages[q].cells,
             pages[p].cells[c] = pages[q].cells[d]
      PROVE  p = q /\ c = d
  <2>1. /\ <<p, c>> \in S /\ f[<<p, c>>] = pages[p].cells[c]
        /\ <<q, d>> \in S /\ f[<<q, d>>] = pages[q].cells[d]
    BY <1>3
  <2>2. <<p, c>> = <<q, d>>
    BY <1>5, <1>6, <2>1
  <2>. QED
    BY <2>2
<1>. QED
  BY <1>6

LEMMA UniqueIsDistinct ==
  ASSUME NEW n, NEW pages, Sound(n, pages), UniqueKeys(pages), IsNode(pages)
  PROVE  Distinct(Fanout(pages), KidCells(pages))
<1>. DEFINE k == Fanout(pages)
            L == KidCells(pages)
<1>1. \A i \in 0 .. k : /\ Kid(pages, i) \in Leaves(pages)
                        /\ L[i] = pages[Kid(pages, i)].cells
  BY NodeFacts, LeavesAre
<1>2. \A i, j \in 0 .. k : Kid(pages, i) = Kid(pages, j) => i = j
  BY DistinctKids
<1>. HIDE DEF k, L
<1>3. ASSUME NEW i \in 0 .. k, NEW j \in 0 .. k, NEW c \in DOMAIN L[i],
             NEW d \in DOMAIN L[j], L[i][c] = L[j][d]
      PROVE  i = j /\ c = d
  BY <1>1, <1>2, <1>3, UniqueMeansOnce
<1>. QED
  BY <1>3 DEF Distinct, k, L

-----------------------------------------------------------------------------
(* What the readers of the tree find then *)

(* What the invariant says of the pages below an internal root when no id is
   stored twice. *)
Read(n, pages) ==
  /\ Sound(n, pages) /\ IsNode(pages) /\ Ordered(pages) /\ Lined(pages)

LEMMA ReadFacts ==
  ASSUME NEW n, NEW pages, Read(n, pages)
  PROVE  LET k == Fanout(pages)
             L == KidCells(pages)
             S == Separators(pages)
         IN  /\ k \in Nat
             /\ \A i \in 0 .. k : L[i] \in Seq(Nat) /\ Increasing(L[i])
             /\ \A i \in 0 .. k - 1 : S[i] \in Nat
             /\ \A i, j \in 0 .. k - 1 : i < j => S[i] <= S[j]
             /\ \A i \in 0 .. k - 1 : \A c \in DOMAIN L[i] : L[i][c] <= S[i]
             /\ \A i \in 1 .. k : \A c \in DOMAIN L[i] : S[i - 1] < L[i][c]
<1>. DEFINE k == Fanout(pages)
            L == KidCells(pages)
            S == Separators(pages)
<1>1. /\ k \in Nat /\ \A i \in 0 .. k : L[i] \in Seq(Nat)
      /\ \A i \in 0 .. k - 1 : S[i] \in Nat
      /\ InOrder(k, L, S) /\ Apart(k, L, S)
  BY NodeFacts, KidCellsType DEF Read, Ordered, Lined
<1>. HIDE DEF k, L, S
<1>2. /\ \A i \in 0 .. k : Increasing(L[i])
      /\ \A i \in 1 .. k : \A c \in DOMAIN L[i] : S[i - 1] < L[i][c]
  BY <1>1 DEF Apart
<1>3. /\ \A i \in 0 .. k : Sorted(L[i])
      /\ \A i \in 0 .. k - 1 : S[i] = L[i][Len(L[i])]
      /\ \A i, j \in 0 .. k - 1 : i < j => S[i] <= S[j]
  BY <1>1 DEF InOrder
<1>4. ASSUME NEW i \in 0 .. k - 1, NEW c \in DOMAIN L[i]
      PROVE  L[i][c] <= S[i]
  <2>1. i \in 0 .. k
    BY <1>1
  <2>2. L[i] \in Seq(Nat) /\ Sorted(L[i])
    BY <1>1, <1>3, <2>1
  <2>3. /\ c \in 1 .. Len(L[i]) /\ Len(L[i]) \in 1 .. Len(L[i])
        /\ DOMAIN L[i] = 1 .. Len(L[i]) /\ L[i][c] \in Nat
    BY <2>2
  <2>4. c < Len(L[i]) => L[i][c] <= L[i][Len(L[i])]
    BY <2>2, <2>3 DEF Sorted
  <2>5. c = Len(L[i]) \/ c < Len(L[i])
    BY <2>3
  <2>. QED
    BY <1>3, <2>3, <2>4, <2>5
<1>. QED
  BY <1>1, <1>2, <1>3, <1>4 DEF k, L, S

(* An id that is stored below one separator is searched for below it. *)
LEMMA AimsAtItsLeaf ==
  ASSUME NEW n, NEW pages, Read(n, pages), NEW i \in 0 .. Fanout(pages),
         NEW c \in DOMAIN KidCells(pages)[i], NEW j,
         Aims(pages, j, KidCells(pages)[i][c])
  PROVE  j = i
<1>. DEFINE k == Fanout(pages)
            L == KidCells(pages)
            S == Separators(pages)
            key == L[i][c]
<1>1. /\ k \in Nat
      /\ \A a \in 0 .. k : L[a] \in Seq(Nat)
      /\ \A a \in 0 .. k - 1 : S[a] \in Nat
      /\ \A a, b \in 0 .. k - 1 : a < b => S[a] <= S[b]
      /\ \A a \in 0 .. k - 1 : \A d \in DOMAIN L[a] : L[a][d] <= S[a]
      /\ \A a \in 1 .. k : \A d \in DOMAIN L[a] : S[a - 1] < L[a][d]
  BY ReadFacts
<1>2. j \in 0 .. k /\ (j > 0 => S[j - 1] < key) /\ (j < k => key <= S[j])
  BY DEF Aims
<1>3. key \in Nat /\ i \in 0 .. k /\ c \in DOMAIN L[i]
  BY <1>1
<1>. HIDE DEF k, L, S
<1>4. CASE i < j
  <2>1. i \in 0 .. k - 1 /\ j - 1 \in 0 .. k - 1 /\ j > 0
    BY <1>1, <1>2, <1>3, <1>4
  <2>2. key <= S[i] /\ S[j - 1] < key
    BY <1>1, <1>2, <1>3, <2>1
  <2>3. S[i] <= S[j - 1]
    <3>1. i = j - 1 \/ i < j - 1
      BY <1>2, <1>3, <1>4
    <3>2. S[i] \in Nat
      BY <1>1, <2>1
    <3>. QED
      BY <1>1, <2>1, <3>1, <3>2
  <2>4. S[i] \in Nat /\ S[j - 1] \in Nat
    BY <1>1, <2>1
  <2>. HIDE DEF key
  <2>. QED
    BY <1>3, <2>2, <2>3, <2>4
<1>5. CASE i > j
  <2>1. i \in 1 .. k /\ i - 1 \in 0 .. k - 1 /\ j \in 0 .. k - 1 /\ j < k
    BY <1>1, <1>2, <1>3, <1>5
  <2>2. S[i - 1] < key /\ key <= S[j]
    BY <1>1, <1>2, <1>3, <2>1
  <2>3. S[j] <= S[i - 1]
    <3>1. j = i - 1 \/ j < i - 1
      BY <1>2, <1>3, <1>5
    <3>2. S[j] \in Nat
      BY <1>1, <2>1
    <3>. QED
      BY <1>1, <2>1, <3>1, <3>2
  <2>4. S[j] \in Nat /\ S[i - 1] \in Nat
    BY <1>1, <2>1
  <2>. HIDE DEF key
  <2>. QED
    BY <1>3, <2>2, <2>3, <2>4
<1>. QED
  BY <1>2, <1>3, <1>4, <1>5

(* SearchFindsRow, of btree_node_internal_find: as long as no id is stored
   twice, the search for a stored id ends in the leaf that holds it. *)
THEOREM EveryRowIsFound == Spec => []SearchFindsRow
<1>1. ASSUME NEW n, NEW pages, Sound(n, pages), Ordered(pages),
             LinedIfDistinct(pages), UniqueKeys(pages),
             NEW key \in StoredKeys(pages)
      PROVE  key \in Range(pages[FindLeaf(pages, key)].cells)
  <2>1. PICK p \in Leaves(pages) : \E c \in DOMAIN pages[p].cells :
                                     pages[p].cells[c] = key
    BY <1>1, StoredAre
  <2>2. PICK c \in DOMAIN pages[p].cells : pages[p].cells[c] = key
    BY <2>1
  <2>3. FindLeaf(pages, key) = p
    <3>1. CASE ~IsNode(pages)
      <4>1. Leaves(pages) = {Root} /\ pages[Root].type = "leaf"
        BY <1>1, <3>1, LeavesAre, RootLeafFacts
      <4>. QED
        BY <4>1 DEF FindLeaf, StepDown
    <3>2. CASE IsNode(pages)
      <4>1. Read(n, pages)
        BY <1>1, <3>2, UniqueIsDistinct DEF LinedIfDistinct, Read
      <4>2. PICK i \in 0 .. Fanout(pages) : p = Kid(pages, i)
        BY <1>1, <3>2, LeavesAre
      <4>3. KidCells(pages)[i] = pages[p].cells
        BY <4>2 DEF KidCells
      <4>4. key \in Nat
        BY <1>1, <2>2, LeafCellsType
      <4>5. PICK j \in 0 .. Fanout(pages) :
              Aims(pages, j, key) /\ FindLeaf(pages, key) = Kid(pages, j)
        BY <1>1, <3>2, <4>4, LeafReached
      <4>6. j = i
        BY <2>2, <4>1, <4>3, <4>5, AimsAtItsLeaf
      <4>. QED
        BY <4>2, <4>5, <4>6
    <3>. QED
      BY <3>1, <3>2
  <2>. QED
    BY <2>2, <2>3 DEF Range
<1>2. ScanInv => SearchFindsRow
  BY <1>1, RunningIsChained DEF SearchFindsRow, Chained
<1>. QED
  BY <1>2, AlwaysChained, PTL

(* The first place is the one a search for id 0 finds. *)
LEMMA FirstPlace ==
  ASSUME NEW cells \in Seq(Nat), Increasing(cells), NEW pos,
         Divides(cells, pos, 0)
  PROVE  pos = 0
<1>1. /\ pos \in 0 .. Len(cells) /\ Len(cells) \in Nat
      /\ DOMAIN cells = 1 .. Len(cells)
      /\ \A i \in 1 .. Len(cells) : cells[i] \in Nat
  BY DEF Divides
<1>2. ASSUME pos > 0
      PROVE  FALSE
  <2>1. 1 \in 1 .. Len(cells) /\ 1 <= pos
    BY <1>1, <1>2
  <2>2. cells[1] <= 0 /\ cells[1] \in Nat
    BY <1>1, <2>1 DEF Divides
  <2>3. cells[1] = 0
    BY <2>2
  <2>4. pos < Len(cells) /\ cells[pos + 1] = 0
    BY <2>1, <2>3 DEF Divides
  <2>5. pos + 1 \in 1 .. Len(cells) /\ 1 < pos + 1
    BY <1>1, <1>2, <2>4
  <2>6. cells[1] < cells[pos + 1]
    BY <1>1, <2>1, <2>5 DEF Increasing
  <2>. QED
    BY <2>3, <2>4, <2>6
<1>. QED
  BY <1>1, <1>2

LEMMA WholeScan ==
  ASSUME NEW n, NEW pages, Sound(n, pages),
         NEW f, Threads(f, NumLeaves(pages), Leaves(pages), pages),
         Ranked(Rest(f, 1, pages))
  PROVE  LET rows == RowsFrom(pages, f[1], 0)
         IN  Range(rows) = StoredKeys(pages) /\ Increasing(rows)
<1>. DEFINE m == NumLeaves(pages)
            seqs == Rest(f, 1, pages)
            all == FlattenSeq(seqs)
            rows == RowsFrom(pages, f[1], 0)
<1>1. m \in Nat /\ m + 1 - 1 = m /\ 1 \in 1 .. m /\ 0 \in Nat
  BY LeavesAre
<1>2. /\ Joins(all, seqs, m + 1 - 1)
      /\ rows = SubSeq(all, 0 + 1, Len(all))
  BY <1>1, RowsFromLeaf
<1>3. \A j \in 1 .. m : seqs[j] = pages[f[j]].cells
  <2>1. \A j \in 1 .. m : 1 - 1 + j = j
    BY <1>1
  <2>2. \A j \in 1 .. m : seqs[j] = pages[f[1 - 1 + j]].cells
    BY <1>1 DEF Rest
  <2>. QED
    BY <2>1, <2>2
<1>. HIDE DEF m, seqs, all, rows
<1>4. Joins(all, seqs, m)
  BY <1>1, <1>2
<1>5. rows = all
  <2>1. all \in Seq(Nat) /\ 0 + 1 = 1
    BY <1>4 DEF Joins
  <2>2. SubSeq(all, 1, Len(all)) = all
    BY <2>1
  <2>. QED
    BY <1>2, <2>1, <2>2
<1>6. Increasing(all)
  BY <1>4 DEF Joins, seqs
<1>7. ASSUME NEW x \in DOMAIN all
      PROVE  all[x] \in StoredKeys(pages)
  <2>1. PICK j \in 1 .. m : \E c \in DOMAIN seqs[j] : all[x] = seqs[j][c]
    BY <1>4 DEF Joins
  <2>2. f[j] \in Leaves(pages)
    BY DEF Threads, m
  <2>. QED
    BY <1>3, <2>1, <2>2, StoredAre
<1>8. ASSUME NEW key \in StoredKeys(pages)
      PROVE  \E x \in DOMAIN all : all[x] = key
  <2>1. PICK p \in Leaves(pages) : \E c \in DOMAIN pages[p].cells :
                                     pages[p].cells[c] = key
    BY StoredAre
  <2>2. PICK j \in 1 .. m : f[j] = p
    BY DEF Threads, m
  <2>3. \E c \in DOMAIN seqs[j] : seqs[j][c] = key
    BY <1>3, <2>1, <2>2
  <2>. QED
    BY <1>4, <2>3 DEF Joins
<1>9. Range(all) = StoredKeys(pages)
  BY <1>7, <1>8 DEF Range
<1>. QED
  BY <1>5, <1>6, <1>9 DEF rows

(* The thread of the leaves of a tree that is read. *)
LEMMA ReadThread ==
  ASSUME NEW n, NEW pages, Read(n, pages)
  PROVE  LET f == [j \in 1 .. Fanout(pages) + 1 |-> Kid(pages, j - 1)]
         IN  /\ Threads(f, NumLeaves(pages), Leaves(pages), pages)
             /\ Ranked(Rest(f, 1, pages)) /\ f[1] = Kid(pages, 0)
<1>. DEFINE k == Fanout(pages)
            m == k + 1
            L == KidCells(pages)
            S == Separators(pages)
            f == [j \in 1 .. m |-> Kid(pages, j - 1)]
            seqs == Rest(f, 1, pages)
<1>1. /\ Sound(n, pages) /\ IsNode(pages) /\ k \in Nat /\ NumLeaves(pages) = m
      /\ Leaves(pages) = {Kid(pages, i) : i \in 0 .. k}
  BY LeavesAre, ReadFacts DEF Read, NumLeaves
<1>2. /\ \A j \in 1 .. m : f[j] = Kid(pages, j - 1) /\ j - 1 \in 0 .. k
      /\ \A i \in 0 .. k : i + 1 \in 1 .. m /\ (i + 1) - 1 = i
      /\ 1 \in 1 .. m /\ 1 - 1 = 0
  BY <1>1
<1>3. Threads(f, m, Leaves(pages), pages)
  <2>. HIDE DEF f
  <2>1. /\ \A j \in 1 .. m : f[j] \in Leaves(pages)
        /\ \A p \in Leaves(pages) : \E j \in 1 .. m : f[j] = p
    BY <1>1, <1>2
  <2>2. \A i, j \in 1 .. m : f[i] = f[j] => i = j
    <3>1. \A i, j \in 0 .. k : Kid(pages, i) = Kid(pages, j) => i = j
      BY <1>1, DistinctKids
    <3>. HIDE DEF k
    <3>2. ASSUME NEW i \in 1 .. m, NEW j \in 1 .. m, f[i] = f[j]
          PROVE  i = j
      <4>1. i - 1 = j - 1
        BY <1>2, <3>1, <3>2
      <4>. QED
        BY <1>1, <4>1
    <3>. QED
      BY <3>2
  <2>3. ASSUME NEW j \in 1 .. m - 1
        PROVE  pages[f[j]].link = f[j + 1]
    <3>1. /\ j \in 1 .. m /\ j + 1 \in 1 .. m /\ j - 1 \in 0 .. k - 1
          /\ (j + 1) - 1 = (j - 1) + 1
      BY <1>1
    <3>2. f[j] = Kid(pages, j - 1) /\ f[j + 1] = Kid(pages, (j - 1) + 1)
      BY <1>2, <3>1
    <3>. QED
      BY <3>1, <3>2 DEF Read, Lined, LeftToRight
  <2>4. pages[f[m]].link = 0
    <3>1. m \in 1 .. m /\ m - 1 = k
      BY <1>1
    <3>. QED
      BY <1>2, <3>1 DEF Read, Lined, LeftToRight
  <2>. QED
    BY <2>1, <2>2, <2>3, <2>4 DEF Threads
<1>4. DOMAIN seqs = 1 .. m /\ \A j \in 1 .. m : seqs[j] = L[j - 1]
  <2>1. m + 1 - 1 = m /\ \A j \in 1 .. m : 1 - 1 + j = j
    BY <1>1
  <2>2. seqs = [j \in 1 .. m |-> pages[f[j]].cells]
    BY <1>1, <2>1 DEF Rest
  <2>3. \A j \in 1 .. m : pages[f[j]].cells = L[j - 1]
    BY <1>2 DEF KidCells
  <2>. HIDE DEF m, L, f, seqs
  <2>. QED
    BY <2>2, <2>3
<1>5. /\ \A i \in 0 .. k : L[i] \in Seq(Nat) /\ Increasing(L[i])
      /\ \A i \in 0 .. k - 1 : S[i] \in Nat
      /\ \A i, j \in 0 .. k - 1 : i < j => S[i] <= S[j]
      /\ \A i \in 0 .. k - 1 : \A c \in DOMAIN L[i] : L[i][c] <= S[i]
      /\ \A i \in 1 .. k : \A c \in DOMAIN L[i] : S[i - 1] < L[i][c]
  BY ReadFacts
<1>. HIDE DEF k, m, L, S, seqs
<1>6. Ranked(seqs)
  <2>1. \A j \in DOMAIN seqs : Increasing(seqs[j])
    BY <1>2, <1>4, <1>5
  <2>2. ASSUME NEW i \in 1 .. m, NEW j \in 1 .. m, i < j,
               NEW c \in DOMAIN L[i - 1], NEW d \in DOMAIN L[j - 1]
        PROVE  L[i - 1][c] < L[j - 1][d]
    <3>. DEFINE a == i - 1
                b == j - 1
    <3>1. /\ a \in 0 .. k - 1 /\ b \in 1 .. k /\ a \in 0 .. k /\ b \in 0 .. k
          /\ b - 1 \in 0 .. k - 1 /\ (a = b - 1 \/ a < b - 1)
      BY <1>1, <2>2 DEF m
    <3>2. c \in DOMAIN L[a] /\ d \in DOMAIN L[b]
      OBVIOUS
    <3>. HIDE DEF a, b
    <3>3. L[a][c] <= S[a] /\ S[b - 1] < L[b][d] /\ S[a] \in Nat
          /\ S[b - 1] \in Nat
      BY <1>5, <3>1, <3>2
    <3>4. S[a] <= S[b - 1]
      BY SMTT(30), <1>5, <3>1, <3>3
    <3>5. L[a][c] \in Nat /\ L[b][d] \in Nat
      <4>1. L[a] \in Seq(Nat) /\ L[b] \in Seq(Nat)
        BY <1>5, <3>1
      <4>. DEFINE A == L[a]
                  B == L[b]
      <4>2. A \in Seq(Nat) /\ B \in Seq(Nat) /\ c \in DOMAIN A /\ d \in DOMAIN B
        BY <3>2, <4>1
      <4>. HIDE DEF A, B
      <4>3. A[c] \in Nat /\ B[d] \in Nat
        BY SMTT(30), <4>2
      <4>. QED
        BY <4>3 DEF A, B
    <3>6. L[a][c] < L[b][d]
      BY <3>3, <3>4, <3>5
    <3>. QED
      BY <3>6 DEF a, b
  <2>3. \A i, j \in 1 .. m : i < j =>
          \A c \in DOMAIN seqs[i], d \in DOMAIN seqs[j] : seqs[i][c] < seqs[j][d]
    BY <1>4, <2>2
  <2>. QED
    BY <1>4, <2>1, <2>3 DEF Ranked
<1>. QED
  BY <1>1, <1>2, <1>3, <1>6 DEF k, m, seqs

(* A scan starts at the first row of the first leaf. *)
LEMMA ScanStarts ==
  ASSUME NEW n, NEW pages, Sound(n, pages), Ordered(pages),
         Chained(pages), UniqueKeys(pages), NEW rows \in Scans(pages)
  PROVE  \E f : /\ Threads(f, NumLeaves(pages), Leaves(pages), pages)
                /\ Ranked(Rest(f, 1, pages)) /\ rows = RowsFrom(pages, f[1], 0)
<1>. DEFINE p == FindLeaf(pages, 0)
<1>1. PICK pos \in LeafPositions(pages[p], 0) : rows = RowsFrom(pages, p, pos)
  BY DEF Scans
<1>2. ASSUME pages[p].cells \in Seq(Nat), Increasing(pages[p].cells)
      PROVE  pos = 0
  <2>1. Sorted(pages[p].cells)
    <3>1. \A i \in DOMAIN pages[p].cells : pages[p].cells[i] \in Nat
      BY <1>2
    <3>. HIDE DEF p
    <3>. QED
      BY <1>2, <3>1 DEF Sorted, Increasing
  <2>. HIDE DEF p
  <2>2. Divides(pages[p].cells, pos, 0)
    BY <1>1, <1>2, <2>1, FoundPosition
  <2>. QED
    BY <1>2, <2>2, FirstPlace
<1>3. CASE IsNode(pages)
  <2>1. Read(n, pages)
    BY <1>3, UniqueIsDistinct DEF Chained, LinedIfDistinct, Read
  <2>. DEFINE f == [j \in 1 .. Fanout(pages) + 1 |-> Kid(pages, j - 1)]
  <2>2. /\ Threads(f, NumLeaves(pages), Leaves(pages), pages)
        /\ Ranked(Rest(f, 1, pages)) /\ f[1] = Kid(pages, 0)
    BY <2>1, ReadThread
  <2>. HIDE DEF f
  <2>3. p = Kid(pages, 0) /\ 0 \in 0 .. Fanout(pages)
    <3>1. PICK j \in 0 .. Fanout(pages) : /\ Aims(pages, j, 0)
                                          /\ p = Kid(pages, j)
      BY <1>3, LeafReached
    <3>2. Fanout(pages) \in Nat
      BY <2>1, ReadFacts
    <3>3. ~(j > 0)
      <4>1. j > 0 => /\ j - 1 \in 0 .. Fanout(pages) - 1
                     /\ Separators(pages)[j - 1] < 0
        BY <3>1, <3>2 DEF Aims
      <4>2. \A i \in 0 .. Fanout(pages) - 1 : Separators(pages)[i] \in Nat
        BY <2>1, ReadFacts
      <4>. QED
        BY <4>1, <4>2
    <3>. QED
      BY <3>1, <3>2, <3>3
  <2>. HIDE DEF p
  <2>4. /\ KidCells(pages)[0] = pages[p].cells
        /\ pages[p].cells \in Seq(Nat) /\ Increasing(pages[p].cells)
    <3>1. KidCells(pages)[0] = pages[p].cells
      BY <2>3 DEF KidCells
    <3>2. KidCells(pages)[0] \in Seq(Nat) /\ Increasing(KidCells(pages)[0])
      BY <2>1, <2>3, ReadFacts
    <3>. QED
      BY <3>1, <3>2
  <2>. QED
    BY <1>1, <1>2, <2>2, <2>3, <2>4 DEF p
<1>4. CASE ~IsNode(pages)
  <2>. DEFINE f == [j \in 1 .. 1 |-> Root]
              cells == pages[Root].cells
  <2>1. /\ NumLeaves(pages) = 1 /\ Leaves(pages) = {Root}
        /\ pages[Root].type = "leaf" /\ cells \in Seq(Nat) /\ Sorted(cells)
    BY <1>4, LeavesAre, RootLeafFacts DEF Ordered
  <2>2. p = Root
    BY <2>1 DEF FindLeaf, StepDown
  <2>3. Increasing(cells)
    <3>1. ASSUME NEW c \in DOMAIN cells, NEW d \in DOMAIN cells, c < d
          PROVE  cells[c] < cells[d]
      <4>1. DOMAIN cells = 1 .. Len(cells) /\ Len(cells) \in Nat
        BY <2>1
      <4>2. c # d /\ cells[c] \in Nat /\ cells[d] \in Nat
        BY <2>1, <3>1, <4>1
      <4>3. cells[c] # cells[d]
        BY <2>1, <4>2, UniqueMeansOnce
      <4>. HIDE DEF cells
      <4>4. cells[c] <= cells[d]
        BY <2>1, <3>1 DEF Sorted
      <4>. QED
        BY <4>2, <4>3, <4>4
    <3>. QED
      BY <3>1 DEF Increasing
  <2>4. /\ f[1] = Root
        /\ \A j \in 1 .. 1 : j = 1
        /\ \A j \in 1 .. 1 - 1 : FALSE
        /\ 1 \in 1 .. 1
    OBVIOUS
  <2>5. DOMAIN Rest(f, 1, pages) = 1 .. 1 /\ Rest(f, 1, pages)[1] = cells
    <3>1. 1 .. 1 + 1 - 1 = 1 .. 1 /\ 1 - 1 + 1 = 1
      OBVIOUS
    <3>2. Rest(f, 1, pages) = [j \in 1 .. 1 |-> pages[f[1 - 1 + j]].cells]
      BY <2>1, <3>1 DEF Rest
    <3>. QED
      BY <2>4, <3>1, <3>2
  <2>. HIDE DEF f
  <2>6. Threads(f, 1, {Root}, pages)
    <3>1. pages[Root].link = 0
      BY <1>4, LoneLeafEnds DEF Chained
    <3>. QED
      BY <2>4, <3>1 DEF Threads
  <2>. HIDE DEF cells
  <2>7. Ranked(Rest(f, 1, pages))
    BY <2>3, <2>5 DEF Ranked
  <2>. QED
    BY <1>1, <1>2, <2>1, <2>2, <2>3, <2>4, <2>6, <2>7 DEF cells
<1>. QED
  BY <1>3, <1>4

(* ScanIsComplete, of statement_execute_select: as long as no id is stored
   twice, a scan prints every row, once, in the order of the ids. *)
THEOREM ScansPrintEveryRow == Spec => []ScanIsComplete
<1>1. ASSUME NEW n, NEW pages, Sound(n, pages), Ordered(pages),
             Chained(pages), UniqueKeys(pages), NEW rows \in Scans(pages)
      PROVE  /\ Range(rows) = StoredKeys(pages)
             /\ \A i, j \in DOMAIN rows : i < j => rows[i] < rows[j]
  <2>1. PICK f : /\ Threads(f, NumLeaves(pages), Leaves(pages), pages)
                 /\ Ranked(Rest(f, 1, pages)) /\ rows = RowsFrom(pages, f[1], 0)
    BY <1>1, ScanStarts
  <2>2. Range(rows) = StoredKeys(pages) /\ Increasing(rows)
    BY <1>1, <2>1, WholeScan
  <2>. QED
    BY <2>2 DEF Increasing
<1>2. ScanInv => ScanIsComplete
  BY <1>1, RunningIsChained DEF ScanIsComplete
<1>. QED
  BY <1>2, AlwaysChained, PTL
=============================================================================
