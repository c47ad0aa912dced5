----------------------------- MODULE BTreeProofs -----------------------------
(***************************************************************************)
(* For every number of rows in a leaf, every set of ids and every content  *)
(* of the memory nobody wrote to: the pages always form a tree of at most  *)
(* two levels, an insert ends the process only when that tree is full, and *)
(* then it always does: the split of a full root never returns, and never  *)
(* calls itself a third time.  Two databases that differ in no more than   *)
(* the words nobody wrote stay so, whatever is inserted, or both are lost, *)
(* as long as none of those words is InvalidPage.                          *)
(*                                                                         *)
(* The invariant behind both, Sound, adds to TreeShape the number of pages *)
(* and that the cells of a leaf are as many as it counts: without the      *)
(* first, the page number of a new leaf might be one in use, and without   *)
(* the second the greatest key of a leaf might be a word nobody wrote.     *)
(***************************************************************************)
EXTENDS BTree, FiniteSetTheorems, SequenceTheorems, TLAPS

BelowRoot(page) ==
  /\ page.type = "leaf" /\ ~page.root
  /\ page.parent = Root
  /\ page.num \in 1 .. LeafMaxCells
  /\ page.num = Len(page.cells)

RootLeaf(n, page) ==
  /\ page.type = "leaf" /\ page.root
  /\ n = 1
  /\ page.num \in 0 .. LeafMaxCells
  /\ page.num = Len(page.cells)

RootShape(n, page) ==
  /\ page.type = "internal" /\ page.root
  /\ page.num \in 1 .. InternalMaxCells
  /\ n = page.num + 2
  /\ 1 .. n - 1 = {Child(page, i) : i \in 0 .. page.num}

RootNode(n, page) ==
  /\ RootShape(n, page)
  /\ InvalidPage \notin Words => \A j \in CellIndex : page.kids[j] # InvalidPage

(* The page tables whose last page is p. *)
UpTo(p) == [0 .. p -> Page]

Sound(n, pages) ==
  /\ n \in Nat \ {0}
  /\ pages \in UpTo(n - 1)
  /\ RootLeaf(n, pages[Root]) \/ RootNode(n, pages[Root])
  /\ \A p \in 1 .. n - 1 : BelowRoot(pages[p])

Db(n, pages) == [num_pages |-> n, pages |-> pages, fate |-> "runs"]

SoundDb(d) == \E n, pages : d = Db(n, pages) /\ Sound(n, pages)

(* What an insert leaves that takes the session with it. *)
Lost == {Exited, Outside}

Inv ==
  /\ db \in Lost \cup {Closed} \/ SoundDb(db)
  /\ \/ disk = EmptyFile
     \/ \E n, pages : /\ disk = [num_pages |-> n, pages |-> pages]
                      /\ Sound(n, pages)

-----------------------------------------------------------------------------
(* Pages and cells *)

LEMMA PageType ==
  ASSUME NEW page \in Page
  PROVE  /\ page = [type |-> page.type, root |-> page.root,
                    parent |-> page.parent, num |-> page.num,
                    link |-> page.link, cells |-> page.cells,
                    kids |-> page.kids, seps |-> page.seps]
         /\ page.type \in {"leaf", "internal"} /\ page.root \in BOOLEAN
         /\ page.parent \in Nat /\ page.num \in Nat /\ page.link \in Nat
         /\ page.cells \in Seq(Nat)
         /\ page.kids \in [CellIndex -> Nat] /\ page.seps \in [CellIndex -> Nat]
BY DEF Page

LEMMA FreshPageType ==
  ASSUME NEW w \in Nat
  PROVE  FreshPage(w) \in Page
BY DEF FreshPage, Page

LEMMA NewLeafPage ==
  ASSUME NEW w \in Nat
  PROVE  LET leaf == LeafInit(FreshPage(w))
         IN  /\ leaf \in Page /\ leaf.type = "leaf" /\ ~leaf.root
             /\ leaf.num = 0 /\ leaf.cells = <<>>
<1>. DEFINE fresh == FreshPage(w)
            leaf == [fresh EXCEPT !.type = "leaf", !.root = FALSE, !.num = 0,
                                  !.link = 0]
<1>1. fresh \in Page /\ fresh.cells = <<>>
  BY FreshPageType DEF FreshPage
<1>. HIDE DEF fresh
<1>2. leaf \in Page
  BY <1>1 DEF Page
<1>3. /\ leaf.type = "leaf" /\ leaf.root = FALSE
      /\ leaf.num = 0 /\ leaf.cells = fresh.cells
  BY <1>1 DEF Page
<1>. QED
  BY <1>1, <1>2, <1>3 DEF LeafInit, fresh

LEMMA SplitCounts ==
  /\ LeafMaxCells \in Nat /\ LeafMaxCells >= 3
  /\ LeftSplitCount \in 1 .. LeafMaxCells
  /\ RightSplitCount \in 1 .. LeafMaxCells
  /\ LeftSplitCount + RightSplitCount = LeafMaxCells + 1
BY NodeSizesAssumption DEF LeftSplitCount, RightSplitCount, InternalMaxCells

LEMMA Inserted ==
  ASSUME NEW cells \in Seq(Nat), NEW pos \in 0 .. Len(cells), NEW key \in Nat
  PROVE  /\ InsertAt(cells, pos + 1, key) \in Seq(Nat)
         /\ Len(InsertAt(cells, pos + 1, key)) = Len(cells) + 1
<1>. DEFINE before == SubSeq(cells, 1, pos)
            after == SubSeq(cells, pos + 1, Len(cells))
<1>1. before \in Seq(Nat) /\ Len(before) = pos
  OBVIOUS
<1>2. after \in Seq(Nat) /\ Len(after) = Len(cells) - pos
  OBVIOUS
<1>3. (pos + 1) - 1 = pos
  OBVIOUS
<1>4. InsertAt(cells, pos + 1, key) = before \o <<key>> \o after
  BY <1>3, Zenon DEF InsertAt
<1>. DEFINE upto == before \o <<key>>
<1>5. upto \in Seq(Nat) /\ Len(upto) = pos + 1
  BY <1>1, ConcatProperties
<1>. HIDE DEF before, after, upto
<1>6. upto \o after \in Seq(Nat) /\ Len(upto \o after) = Len(upto) + Len(after)
  BY <1>2, <1>5, ConcatProperties
<1>7. Len(upto) + Len(after) = Len(cells) + 1
  BY <1>2, <1>5
<1>. QED
  BY <1>4, <1>6, <1>7 DEF upto

LEMMA LastCell ==
  ASSUME NEW cells \in Seq(Nat), Len(cells) > 0
  PROVE  Last(cells) \in Nat
BY DEF Last

LEMMA FindChildRange ==
  ASSUME NEW page, page.num \in 0 .. InternalMaxCells, NEW key
  PROVE  FindChild(page, key) \in 0 .. page.num
<1>. DEFINE S == {j \in CellIndex : j < page.num /\ page.seps[j] < key}
<1>1. IsFiniteSet(0 .. page.num - 1) /\ Cardinality(0 .. page.num - 1) = page.num
  BY FS_Interval DEF InternalMaxCells
<1>2. S \in SUBSET (0 .. page.num - 1)
  BY DEF CellIndex, InternalMaxCells
<1>3. IsFiniteSet(S) /\ Cardinality(S) <= page.num
  BY <1>1, <1>2, FS_Subset
<1>4. Cardinality(S) \in Nat
  BY <1>3, FS_CardinalityType
<1>. QED
  BY <1>3, <1>4 DEF FindChild, InternalMaxCells

LEMMA LeafPositionRange ==
  ASSUME NEW page, page.cells \in Seq(Nat), NEW key,
         NEW pos \in LeafPositions(page, key)
  PROVE  pos \in 0 .. Len(page.cells)
<1>. DEFINE hits == {i \in DOMAIN page.cells : page.cells[i] = key}
            S == {i \in DOMAIN page.cells : page.cells[i] < key}
<1>1. CASE hits = {}
  <2>1. pos = Cardinality(S)
    BY <1>1 DEF LeafPositions, NumBelow
  <2>2. S \in SUBSET (1 .. Len(page.cells)) /\ Len(page.cells) \in Nat
    OBVIOUS
  <2>3. /\ IsFiniteSet(1 .. Len(page.cells))
        /\ Cardinality(1 .. Len(page.cells)) = Len(page.cells)
    BY SMTT(30), <2>2, FS_Interval
  <2>4. IsFiniteSet(S) /\ Cardinality(S) <= Len(page.cells)
    BY <2>2, <2>3, FS_Subset
  <2>. QED
    BY <2>1, <2>2, <2>4, FS_CardinalityType
<1>2. CASE hits # {}
  BY <1>2 DEF LeafPositions
<1>. QED
  BY <1>1, <1>2

-----------------------------------------------------------------------------
(* Reading a sound tree *)

LEMMA LeafFacts ==
  ASSUME NEW n, NEW pages, Sound(n, pages), NEW p \in 0 .. n - 1,
         pages[p].type = "leaf"
  PROVE  /\ pages[p] \in Page
         /\ pages[p].num = Len(pages[p].cells)
         /\ pages[p].num \in 0 .. LeafMaxCells
         /\ pages[p].cells \in Seq(Nat)
         /\ pages[p].root => p = Root /\ n = 1
         /\ ~pages[p].root => p # Root /\ pages[p].parent = Root
<1>1. pages[p] \in Page
  BY DEF Sound, UpTo
<1>2. pages[p].cells \in Seq(Nat)
  BY <1>1, PageType
<1>3. CASE p = Root
  BY <1>1, <1>2, <1>3 DEF Sound, RootLeaf, RootShape, RootNode
<1>4. CASE p # Root
  <2>1. p \in 1 .. n - 1
    BY <1>4 DEF Root, Sound
  <2>2. BelowRoot(pages[p])
    BY <2>1 DEF Sound
  <2>. QED
    BY <1>1, <1>2, <1>4, <2>2, SplitCounts DEF BelowRoot
<1>. QED
  BY <1>3, <1>4

LEMMA FindLeafFinds ==
  ASSUME NEW n, NEW pages, Sound(n, pages), NEW key
  PROVE  LET leaf == FindLeaf(pages, key)
         IN  leaf \in 0 .. n - 1 /\ pages[leaf].type = "leaf"
<1>1. CASE RootLeaf(n, pages[Root])
  BY <1>1 DEF RootLeaf, FindLeaf, StepDown, Root
<1>2. CASE RootNode(n, pages[Root])
  <2>. DEFINE next == Child(pages[Root], FindChild(pages[Root], key))
  <2>1. StepDown(pages, Root, key) = next
    BY <1>2 DEF RootShape, RootNode, StepDown
  <2>2. FindChild(pages[Root], key) \in 0 .. pages[Root].num
    BY <1>2, FindChildRange DEF RootShape, RootNode
  <2>3. next \in 1 .. n - 1
    BY <1>2, <2>2 DEF RootShape, RootNode
  <2>. HIDE DEF next
  <2>4. pages[next].type = "leaf"
    BY <2>3 DEF Sound, BelowRoot
  <2>5. FindLeaf(pages, key) = next
    BY <2>1, <2>4 DEF FindLeaf, StepDown
  <2>. QED
    BY <2>3, <2>4, <2>5 DEF Sound
<1>. QED
  BY <1>1, <1>2 DEF Sound

LEMMA MaxKeyOfLeaf ==
  ASSUME NEW pages, NEW p, pages[p].type = "leaf",
         pages[p].cells \in Seq(Nat), Len(pages[p].cells) > 0
  PROVE  MaxKey(pages, p) = Last(pages[p].cells) /\ MaxKey(pages, p) \in Nat
<1>1. StepRight(pages, StepRight(pages, p)) = p
  BY DEF StepRight
<1>. QED
  BY <1>1, LastCell DEF MaxKey

-----------------------------------------------------------------------------
(* New pages *)

LEMMA SetPageDb ==
  ASSUME NEW n, NEW pages, NEW p, NEW page
  PROVE  SetPage(Db(n, pages), p, page) = Db(n, [pages EXCEPT ![p] = page])
BY DEF SetPage, Db

LEMMA NewPage ==
  ASSUME NEW n \in Nat, n < PagerMaxPages, NEW pages, NEW w
  PROVE  GetPage(Db(n, pages), n, w) =
           Db(n + 1, [q \in 0 .. n |-> IF q < n THEN pages[q] ELSE FreshPage(w)])
BY BTreeAssumption DEF GetPage, Db

LEMMA OldPage ==
  ASSUME NEW n \in Nat, NEW p \in 0 .. n - 1, NEW pages, NEW w
  PROVE  GetPage(Db(n, pages), p, w) = Db(n, pages)
<1>1. Db(n, pages).num_pages = n /\ p < n
  BY DEF Db
<1>. QED
  BY <1>1 DEF GetPage

(* The pages a split leaf leaves, and what is known of its two halves. *)
LowerHalf(old, pos, key) ==
  SubSeq(InsertAt(old.cells, pos + 1, key), 1, LeftSplitCount)

UpperHalf(old, pos, key) ==
  SubSeq(InsertAt(old.cells, pos + 1, key), LeftSplitCount + 1, LeafMaxCells + 1)

SplitPages(n, pages, p, pos, key, w) ==
  [q \in 0 .. n |->
     IF q = p THEN OldLeaf(pages[p], LowerHalf(pages[p], pos, key), n)
     ELSE IF q = n
     THEN NewLeaf(FreshPage(w), pages[p], UpperHalf(pages[p], pos, key))
     ELSE pages[q]]

LEMMA Halves ==
  ASSUME NEW old \in Page, NEW pos \in 0 .. Len(old.cells), NEW key \in Nat,
         Len(old.cells) = LeafMaxCells
  PROVE  /\ LowerHalf(old, pos, key) \in Seq(Nat)
         /\ Len(LowerHalf(old, pos, key)) = LeftSplitCount
         /\ UpperHalf(old, pos, key) \in Seq(Nat)
         /\ Len(UpperHalf(old, pos, key)) = RightSplitCount
<1>. DEFINE cells == InsertAt(old.cells, pos + 1, key)
<1>1. cells \in Seq(Nat) /\ Len(cells) = LeafMaxCells + 1
  BY Inserted, PageType
<1>. HIDE DEF cells
<1>2. \A i \in 1 .. LeafMaxCells + 1 : cells[i] \in Nat
  BY <1>1
<1>3. /\ SubSeq(cells, 1, LeftSplitCount) \in Seq(Nat)
      /\ Len(SubSeq(cells, 1, LeftSplitCount)) = LeftSplitCount
  BY <1>1, <1>2, SplitCounts, SubSeqProperties
<1>4. /\ SubSeq(cells, LeftSplitCount + 1, LeafMaxCells + 1) \in Seq(Nat)
      /\ Len(SubSeq(cells, LeftSplitCount + 1, LeafMaxCells + 1))
           = RightSplitCount
  BY <1>1, <1>2, SplitCounts, SubSeqProperties
<1>. QED
  BY <1>3, <1>4 DEF LowerHalf, UpperHalf, cells

LEMMA NewLeafType ==
  ASSUME NEW old \in Page, NEW w \in Nat, NEW upper \in Seq(Nat),
         Len(upper) = RightSplitCount
  PROVE  LET page == NewLeaf(FreshPage(w), old, upper)
         IN  /\ page \in Page /\ page.type = "leaf" /\ ~page.root
             /\ page.parent = old.parent
             /\ page.num = RightSplitCount /\ page.cells = upper
             /\ page.link = old.link
<1>. DEFINE fresh == LeafInit(FreshPage(w))
<1>1. fresh \in Page /\ fresh.type = "leaf" /\ ~fresh.root
  BY NewLeafPage
<1>. HIDE DEF fresh
<1>2. old.parent \in Nat /\ old.link \in Nat /\ RightSplitCount \in Nat
  BY PageType, SplitCounts
<1>3. NewLeaf(FreshPage(w), old, upper) =
        [fresh EXCEPT !.parent = old.parent, !.link = old.link,
                      !.cells = upper, !.num = RightSplitCount]
  BY DEF NewLeaf, fresh
<1>4. NewLeaf(FreshPage(w), old, upper) \in Page
  BY <1>1, <1>2, <1>3 DEF Page
<1>5. LET page == NewLeaf(FreshPage(w), old, upper)
      IN  /\ page.type = "leaf" /\ ~page.root
          /\ page.parent = old.parent
          /\ page.num = RightSplitCount /\ page.cells = upper
          /\ page.link = old.link
  BY <1>1, <1>3 DEF Page
<1>. QED
  BY <1>4, <1>5

LEMMA OldLeafType ==
  ASSUME NEW old \in Page, old.type = "leaf", NEW new \in Nat,
         NEW lower \in Seq(Nat), Len(lower) = LeftSplitCount,
         Len(old.cells) = LeafMaxCells
  PROVE  LET page == OldLeaf(old, lower, new)
         IN  /\ page \in Page /\ page.type = "leaf" /\ page.root = old.root
             /\ page.parent = old.parent /\ page.num = LeftSplitCount
             /\ page.link = new
             /\ ~old.root => page.cells = lower
             /\ Len(page.cells) >= LeftSplitCount
             /\ SubSeq(page.cells, 1, LeftSplitCount) = lower
<1>. DEFINE stale == SubSeq(old.cells, LeftSplitCount + 1, LeafMaxCells)
            page == OldLeaf(old, lower, new)
<1>1. stale \in Seq(Nat)
  <2>1. old.cells \in Seq(Nat)
    BY PageType
  <2>2. \A i \in 1 .. LeafMaxCells : old.cells[i] \in Nat
    BY <2>1
  <2>3. \A i \in LeftSplitCount + 1 .. LeafMaxCells : old.cells[i] \in Nat
    BY <2>2, SplitCounts
  <2>. QED
    BY <2>3, SplitCounts, SubSeqProperties
<1>. HIDE DEF stale
<1>2. lower \o stale \in Seq(Nat) /\ Len(lower \o stale) >= LeftSplitCount
  BY <1>1, ConcatProperties
<1>. DEFINE kept == IF old.root THEN lower \o stale ELSE lower
<1>3. kept \in Seq(Nat) /\ Len(kept) >= LeftSplitCount
  BY <1>2, SplitCounts
<1>9. SubSeq(kept, 1, LeftSplitCount) = lower
  <2>1. \A i \in 1 .. Len(lower) : (lower \o stale)[i] = lower[i]
    BY <1>1, ConcatProperties
  <2>2. \A i \in 1 .. LeftSplitCount : kept[i] = lower[i]
    BY <2>1
  <2>3. /\ LeftSplitCount \in Nat
        /\ \A i \in 1 .. LeftSplitCount : i \in 1 .. Len(kept)
    BY <1>3, SplitCounts
  <2>. HIDE DEF kept
  <2>. DEFINE first == SubSeq(kept, 1, LeftSplitCount)
  <2>4. /\ first \in Seq(Nat) /\ Len(first) = LeftSplitCount
        /\ \A i \in 1 .. LeftSplitCount : first[i] = kept[i]
    BY SMTT(30), <1>3, <2>3
  <2>. HIDE DEF first
  <2>5. first = lower
    BY SMTT(30), <2>2, <2>4
  <2>. QED
    BY <2>5 DEF first
<1>4. page = [old EXCEPT !.link = new, !.num = LeftSplitCount, !.cells = kept]
  BY DEF OldLeaf, stale
<1>. HIDE DEF kept, page
<1>5. LeftSplitCount \in Nat
  BY SplitCounts
<1>6. page \in Page
  BY <1>3, <1>4, <1>5 DEF Page
<1>7. /\ page.type = "leaf" /\ page.root = old.root
      /\ page.parent = old.parent /\ page.num = LeftSplitCount
      /\ page.cells = kept /\ page.link = new
  BY <1>4 DEF Page
<1>8. ~old.root => kept = lower
  BY DEF kept
<1>. QED
  BY <1>3, <1>6, <1>7, <1>8, <1>9 DEF page

LEMMA SplitLeafResult ==
  ASSUME NEW n \in Nat, n < PagerMaxPages, NEW pages \in UpTo(n - 1),
         NEW p \in 0 .. n - 1, NEW pos, NEW key, NEW w
  PROVE  SplitLeaf(Db(n, pages), p, pos, key, w) =
           Db(n + 1, SplitPages(n, pages, p, pos, key, w))
<1>. USE DEF UpTo
<1>. DEFINE P == [q \in 0 .. n |-> IF q < n THEN pages[q] ELSE FreshPage(w)]
            old == pages[p]
<1>1. GetPage(Db(n, pages), n, w) = Db(n + 1, P)
  BY NewPage
<1>2. P[n] = FreshPage(w)
  OBVIOUS
<1>. DEFINE d == Db(n, pages)
            newPage == NewLeaf(FreshPage(w), old, UpperHalf(old, pos, key))
            oldPage == OldLeaf(old, LowerHalf(old, pos, key), n)
<1>3. d.pages = pages /\ d.num_pages = n
  BY DEF Db
<1>4. Db(n + 1, P).fate = "runs" /\ Db(n + 1, P).pages = P
  BY DEF Db
<1>5. SplitLeaf(d, p, pos, key, w) =
        SetPage(SetPage(Db(n + 1, P), n, newPage), p, oldPage)
  BY <1>1, <1>2, <1>3, <1>4 DEF SplitLeaf, LowerHalf, UpperHalf
<1>. HIDE DEF newPage, oldPage, P
<1>. DEFINE P1 == [P EXCEPT ![n] = newPage]
            P2 == [P1 EXCEPT ![p] = oldPage]
<1>6. SetPage(Db(n + 1, P), n, newPage) = Db(n + 1, P1)
  BY SetPageDb
<1>. HIDE DEF P1
<1>7. SetPage(Db(n + 1, P1), p, oldPage) = Db(n + 1, P2)
  BY SetPageDb
<1>. HIDE DEF P2
<1>8. P2 = [q \in 0 .. n |-> IF q = p THEN oldPage
                            ELSE IF q = n THEN newPage ELSE pages[q]]
  <2>1. DOMAIN P = 0 .. n /\ \A q \in 0 .. n : q # n => P[q] = pages[q]
    BY DEF P
  <2>2. DOMAIN P1 = 0 .. n
        /\ \A q \in 0 .. n : P1[q] = IF q = n THEN newPage ELSE pages[q]
    BY <2>1 DEF P1
  <2>3. P2 = [q \in 0 .. n |-> IF q = p THEN oldPage ELSE P1[q]]
    BY <2>2 DEF P2
  <2>. QED
    BY <2>2, <2>3
<1>. QED
  BY <1>5, <1>6, <1>7, <1>8 DEF SplitPages, newPage, oldPage

LEMMA SetParentDb ==
  ASSUME NEW n, NEW pages, NEW p, NEW parent
  PROVE  SetParent(Db(n, pages), p, parent) =
           Db(n, [pages EXCEPT ![p] = [@ EXCEPT !.parent = parent]])
BY DEF SetParent, Db

LEMMA SplitPagesType ==
  ASSUME NEW n \in Nat, NEW pages \in UpTo(n - 1),
         NEW p \in 0 .. n - 1, pages[p].type = "leaf",
         Len(pages[p].cells) = LeafMaxCells,
         NEW pos \in 0 .. LeafMaxCells, NEW key \in Nat, NEW w \in Nat
  PROVE  LET split == SplitPages(n, pages, p, pos, key, w)
         IN  /\ split \in UpTo(n)
             /\ split[p].type = "leaf" /\ split[p].root = pages[p].root
             /\ split[p].parent = pages[p].parent
             /\ split[p].num = LeftSplitCount /\ split[p].link = n
             /\ ~pages[p].root => Len(split[p].cells) = LeftSplitCount
             /\ ~pages[p].root => split[p].cells = LowerHalf(pages[p], pos, key)
             /\ Len(split[p].cells) >= LeftSplitCount
             /\ SubSeq(split[p].cells, 1, LeftSplitCount)
                  = LowerHalf(pages[p], pos, key)
             /\ split[n].type = "leaf" /\ ~split[n].root
             /\ split[n].parent = pages[p].parent
             /\ split[n].num = RightSplitCount
             /\ Len(split[n].cells) = RightSplitCount
             /\ split[n].cells = UpperHalf(pages[p], pos, key)
             /\ split[n].link = pages[p].link
             /\ \A q \in 0 .. n - 1 : q # p => split[q] = pages[q]
<1>. USE DEF UpTo
<1>. DEFINE old == pages[p]
            lower == LowerHalf(old, pos, key)
            upper == UpperHalf(old, pos, key)
            split == SplitPages(n, pages, p, pos, key, w)
<1>1. old \in Page
  OBVIOUS
<1>2. /\ lower \in Seq(Nat) /\ Len(lower) = LeftSplitCount
      /\ upper \in Seq(Nat) /\ Len(upper) = RightSplitCount
  BY <1>1, Halves
<1>. HIDE DEF lower, upper
<1>3. /\ split[p] = OldLeaf(old, lower, n)
      /\ split[n] = NewLeaf(FreshPage(w), old, upper)
      /\ \A q \in 0 .. n - 1 : q # p => split[q] = pages[q]
      /\ split = [q \in 0 .. n |-> split[q]]
  BY DEF SplitPages, lower, upper
<1>. HIDE DEF split, old
<1>4. old.type = "leaf" /\ Len(old.cells) = LeafMaxCells
  BY DEF old
<1>5. /\ split[p] \in Page /\ split[p].type = "leaf" /\ split[p].root = old.root
      /\ split[p].parent = old.parent /\ split[p].num = LeftSplitCount
      /\ ~old.root => split[p].cells = lower
      /\ Len(split[p].cells) >= LeftSplitCount
      /\ split[p].link = n
      /\ SubSeq(split[p].cells, 1, LeftSplitCount) = lower
  BY SMTT(30), <1>1, <1>2, <1>3, <1>4, OldLeafType
<1>6. /\ split[n] \in Page /\ split[n].type = "leaf" /\ ~split[n].root
      /\ split[n].parent = old.parent
      /\ split[n].num = RightSplitCount /\ split[n].cells = upper
      /\ split[n].link = old.link
  <2>. DEFINE new == NewLeaf(FreshPage(w), old, upper)
  <2>1. /\ new \in Page /\ new.type = "leaf" /\ ~new.root
        /\ new.parent = old.parent
        /\ new.num = RightSplitCount /\ new.cells = upper
        /\ new.link = old.link
    BY <1>1, <1>2, NewLeafType
  <2>. HIDE DEF new
  <2>2. split[n] = new
    BY <1>3 DEF new
  <2>. QED
    BY <2>1, <2>2
<1>7. \A q \in 0 .. n : split[q] \in Page
  <2>1. \A q \in 0 .. n - 1 : pages[q] \in Page
    OBVIOUS
  <2>2. \A q \in 0 .. n : q = n \/ q \in 0 .. n - 1
    OBVIOUS
  <2>. QED
    BY <1>3, <1>5, <1>6, <2>1, <2>2
<1>. QED
  BY <1>2, <1>3, <1>5, <1>6, <1>7 DEF old, split, lower, upper

-----------------------------------------------------------------------------
(* A leaf that is the root is split *)

LEMMA CopyRootType ==
  ASSUME NEW page \in Page, page.type = "leaf", page.num <= Len(page.cells)
  PROVE  LET copy == CopyRoot(page)
         IN  /\ copy \in Page /\ copy.type = "leaf" /\ ~copy.root
             /\ copy.num = page.num /\ Len(copy.cells) = page.num
             /\ copy.cells = SubSeq(page.cells, 1, page.num)
             /\ copy.link = page.link
<1>. DEFINE used == SubSeq(page.cells, 1, page.num)
<1>1. page.num \in Nat /\ page.cells \in Seq(Nat)
  BY PageType
<1>2. used \in Seq(Nat) /\ Len(used) = page.num
  BY <1>1
<1>. HIDE DEF used
<1>3. CopyRoot(page) = [page EXCEPT !.root = FALSE, !.cells = used]
  BY DEF CopyRoot, used
<1>4. CopyRoot(page) \in Page
  BY <1>2, <1>3 DEF Page
<1>5. LET copy == CopyRoot(page)
      IN  copy.type = "leaf" /\ ~copy.root /\ copy.num = page.num
          /\ copy.cells = used /\ copy.link = page.link
  BY <1>3 DEF Page
<1>. QED
  BY <1>2, <1>4, <1>5 DEF used

LEMMA NewRootPage ==
  ASSUME NEW page \in Page, page.type = "leaf", NEW w \in Words,
         NEW max \in Nat
  PROVE  LET root == RootPage(page, 2, max, 1, w)
         IN  /\ root \in Page /\ RootNode(3, root)
             /\ root.num = 1 /\ root.link = 1
             /\ root.kids[0] = 2 /\ root.seps[0] = max
<1>. DEFINE cells == RootCells(page, w)
            kids == [cells.kids EXCEPT ![0] = 2]
            seps == [cells.seps EXCEPT ![0] = max]
            root == [cells EXCEPT !.type = "internal", !.root = TRUE,
                                  !.num = 1, !.link = 1,
                                  !.kids = kids, !.seps = seps]
<1>1. w \in Nat
  BY BTreeAssumption
<1>2. /\ cells \in Page
      /\ cells.kids = [j \in CellIndex |-> w]
      /\ cells.seps = [j \in CellIndex |-> w]
  <2>. DEFINE words == [j \in CellIndex |-> w]
  <2>1. words \in [CellIndex -> Nat]
    BY <1>1
  <2>. HIDE DEF words
  <2>2. cells = [page EXCEPT !.kids = words, !.seps = words]
    BY DEF RootCells, words
  <2>. QED
    BY <2>1, <2>2 DEF Page, words
<1>. HIDE DEF cells
<1>3. kids \in [CellIndex -> Nat] /\ seps \in [CellIndex -> Nat]
  BY <1>1, <1>2 DEF CellIndex
<1>11. seps[0] = max
  BY <1>2 DEF CellIndex, InternalMaxCells
<1>4. kids[0] = 2 /\ \A j \in CellIndex : kids[j] = 2 \/ kids[j] = w
  BY <1>2 DEF CellIndex, InternalMaxCells
<1>. HIDE DEF kids, seps
<1>5. root \in Page
  BY <1>2, <1>3 DEF Page
<1>6. /\ root.type = "internal" /\ root.root /\ root.num = 1 /\ root.link = 1
      /\ root.kids = kids /\ root.seps = seps
  BY <1>2 DEF Page
<1>. HIDE DEF root
<1>7. Child(root, 0) = 2 /\ Child(root, 1) = 1
  BY <1>4, <1>6 DEF Child
<1>8. {Child(root, i) : i \in 0 .. root.num} = 1 .. 2
  BY <1>6, <1>7
<1>9. InvalidPage > 2
  BY BTreeAssumption, NodeSizesAssumption DEF InternalMaxCells
<1>10. RootNode(3, root)
  BY <1>4, <1>6, <1>8, <1>9 DEF RootShape, RootNode, InternalMaxCells
<1>. QED
  BY <1>4, <1>5, <1>6, <1>10, <1>11 DEF RootPage, root, kids, seps, cells

LEMMA SmallPages ==
  /\ InvalidPage \in Nat /\ PagerMaxPages \in Nat
  /\ 7 <= PagerMaxPages /\ PagerMaxPages < InvalidPage
BY BTreeAssumption, NodeSizesAssumption DEF InternalMaxCells

LEMMA LinkedBelow ==
  ASSUME NEW page \in Page, page.type = "leaf", ~page.root,
         page.num \in 1 .. LeafMaxCells, page.num = Len(page.cells)
  PROVE  LET linked == [page EXCEPT !.parent = 0]
         IN  /\ linked \in Page /\ BelowRoot(linked)
             /\ linked.cells = page.cells /\ linked.link = page.link
<1>. DEFINE linked == [page EXCEPT !.parent = 0]
<1>1. linked \in Page
  BY DEF Page
<1>2. /\ linked.type = page.type /\ linked.root = page.root
      /\ linked.num = page.num /\ linked.cells = page.cells
      /\ linked.parent = 0 /\ linked.link = page.link
  BY DEF Page
<1>. HIDE DEF linked
<1>. QED
  BY <1>1, <1>2 DEF BelowRoot, Root, linked

(* A root that was a leaf becomes the parent of page 2, which takes over its
   cells, and of page 1. *)
Heightened(pages, result) ==
  /\ result[Root].num = 1 /\ result[Root].link = 1
  /\ result[Root].kids[0] = 2
  /\ result[Root].seps[0] = Last(result[2].cells)
  /\ result[1].cells = pages[1].cells /\ result[1].link = pages[1].link
  /\ result[2].cells = SubSeq(pages[0].cells, 1, pages[0].num)
  /\ result[2].link = pages[0].link

LEMMA NewRootOfLeaf ==
  ASSUME NEW pages \in UpTo(1), NEW w \in Words,
         pages[0].type = "leaf", pages[0].num \in 1 .. LeafMaxCells,
         pages[0].num <= Len(pages[0].cells),
         pages[1].type = "leaf", ~pages[1].root,
         pages[1].num \in 1 .. LeafMaxCells,
         pages[1].num = Len(pages[1].cells)
  PROVE  \E result : /\ NewRoot(Db(2, pages), 1, w) = Db(3, result)
                     /\ Sound(3, result) /\ Heightened(pages, result)
<1>. USE DEF UpTo
<1>. DEFINE P == [q \in 0 .. 2 |-> IF q < 2 THEN pages[q] ELSE FreshPage(w)]
            copy == CopyRoot(pages[0])
            P1 == [P EXCEPT ![2] = copy]
            max == MaxKey(P1, 2)
            root == RootPage(pages[0], 2, max, 1, w)
            P2 == [P1 EXCEPT ![0] = root]
            P3 == [P2 EXCEPT ![2] = [@ EXCEPT !.parent = 0]]
            P4 == [P3 EXCEPT ![1] = [@ EXCEPT !.parent = 0]]
<1>1. GetPage(Db(2, pages), 1, w) = Db(2, pages)
  BY OldPage
<1>2. GetPage(Db(2, pages), 2, w) = Db(3, P)
  <2>1. GetPage(Db(2, pages), 2, w) = Db(2 + 1, P)
    BY SmallPages DEF GetPage, Db
  <2>2. 2 + 1 = 3
    OBVIOUS
  <2>. QED
    BY <2>1, <2>2
<1>3. pages[0] \in Page /\ pages[1] \in Page
  OBVIOUS
<1>4. /\ copy \in Page /\ copy.type = "leaf" /\ ~copy.root
      /\ copy.num = pages[0].num /\ Len(copy.cells) = pages[0].num
      /\ copy.cells = SubSeq(pages[0].cells, 1, pages[0].num)
      /\ copy.link = pages[0].link
  BY <1>3, CopyRootType
<1>. HIDE DEF copy
<1>5. /\ P1 = [q \in 0 .. 2 |-> P1[q]]
      /\ P1[0] = pages[0] /\ P1[1] = pages[1] /\ P1[2] = copy
  OBVIOUS
<1>6. P[0] = pages[0]
  OBVIOUS
<1>. HIDE DEF P
<1>7. SetPage(Db(3, P), 2, copy) = Db(3, P1)
  BY SetPageDb
<1>. HIDE DEF P1
<1>8. max \in Nat /\ max = Last(copy.cells)
  <2>3. copy \in Page /\ Len(copy.cells) > 0
    BY <1>4
  <2>1. copy.cells \in Seq(Nat) /\ Len(copy.cells) > 0
    BY <2>3, PageType
  <2>2. /\ P1[2].type = "leaf" /\ P1[2].cells \in Seq(Nat)
        /\ Len(P1[2].cells) > 0
    BY <1>4, <1>5, <2>1
  <2>. QED
    BY <1>5, <2>2, MaxKeyOfLeaf
<1>9. /\ root \in Page /\ RootNode(3, root)
      /\ root.num = 1 /\ root.link = 1
      /\ root.kids[0] = 2 /\ root.seps[0] = max
  BY <1>3, <1>8, NewRootPage
<1>10. NewRoot(Db(2, pages), 1, w) =
         SetParent(SetParent(SetPage(Db(3, P1), Root, root), 2, Root), 1, Root)
  <2>1. /\ Db(2, pages).num_pages = 2
        /\ Db(3, P).fate = "runs" /\ Db(3, P).pages = P
        /\ Db(3, P1).fate = "runs" /\ Db(3, P1).pages = P1
    BY DEF Db
  <2>2. "leaf" # "internal"
    OBVIOUS
  <2>3. root = RootPage(P1[0], 2, MaxKey(P1, 2), 1, w)
    BY <1>5
  <2>. QED
    BY <1>1, <1>2, <1>6, <1>7, <2>1, <2>2, <2>3 DEF NewRoot, Root, copy
<1>. HIDE DEF root, P2, P3, P4
<1>11. SetPage(Db(3, P1), Root, root) = Db(3, P2)
  BY SetPageDb DEF P2, Root
<1>12. SetParent(Db(3, P2), 2, Root) = Db(3, P3)
  BY SetParentDb DEF P3, Root
<1>13. SetParent(Db(3, P3), 1, Root) = Db(3, P4)
  BY SetParentDb DEF P4, Root
<1>14. /\ P4 = [q \in 0 .. 2 |-> P4[q]]
       /\ P4[0] = root
       /\ P4[1] = [pages[1] EXCEPT !.parent = 0]
       /\ P4[2] = [copy EXCEPT !.parent = 0]
  <2>1. /\ P2 = [q \in 0 .. 2 |-> P2[q]]
        /\ P2[0] = root /\ P2[1] = pages[1] /\ P2[2] = copy
    BY <1>5 DEF P2
  <2>2. /\ P3 = [q \in 0 .. 2 |-> P3[q]]
        /\ P3[0] = root /\ P3[1] = pages[1]
        /\ P3[2] = [copy EXCEPT !.parent = 0]
    BY <2>1 DEF P3
  <2>. QED
    BY <2>2 DEF P4
<1>15. /\ P4[1] \in Page /\ BelowRoot(P4[1])
       /\ P4[1].cells = pages[1].cells /\ P4[1].link = pages[1].link
  BY <1>3, <1>14, LinkedBelow
<1>16. /\ P4[2] \in Page /\ BelowRoot(P4[2])
       /\ P4[2].cells = copy.cells /\ P4[2].link = copy.link
  BY <1>4, <1>14, LinkedBelow
<1>17. Sound(3, P4)
  <2>1. \A q \in 0 .. 2 : P4[q] \in Page
    BY <1>9, <1>14, <1>15, <1>16
  <2>2. P4 \in [0 .. 2 -> Page]
    BY <1>14, <2>1
  <2>. QED
    BY <1>9, <1>14, <1>15, <1>16, <2>2 DEF Sound, Root
<1>. HIDE DEF max
<1>18. Heightened(pages, P4)
  BY <1>4, <1>8, <1>9, <1>14, <1>15, <1>16 DEF Heightened, Root
<1>. QED
  BY <1>10, <1>11, <1>12, <1>13, <1>17, <1>18

-----------------------------------------------------------------------------
(* A leaf below the root is split: the root takes another child *)

LEMMA UpdateKeyType ==
  ASSUME NEW n, NEW page \in Page, RootNode(n, page), NEW oldKey,
         NEW newKey \in Nat
  PROVE  LET node == UpdateKey(page, oldKey, newKey)
         IN  /\ node \in Page /\ RootNode(n, node)
             /\ node.num = page.num /\ node.link = page.link
             /\ node.kids = page.kids
<1>. DEFINE index == FindChild(page, oldKey)
            seps == [page.seps EXCEPT ![index] = newKey]
            node == [page EXCEPT !.seps = seps]
<1>1. UpdateKey(page, oldKey, newKey) = node
  BY DEF UpdateKey
<1>2. seps \in [CellIndex -> Nat]
  <2>1. page.seps \in [CellIndex -> Nat]
    BY PageType
  <2>. HIDE DEF index
  <2>. QED
    BY <2>1
<1>. HIDE DEF seps
<1>3. node \in Page
  BY <1>2 DEF Page
<1>4. /\ node.type = page.type /\ node.root = page.root
      /\ node.num = page.num /\ node.link = page.link /\ node.kids = page.kids
  BY DEF Page
<1>. HIDE DEF node
<1>5. \A i : Child(node, i) = Child(page, i)
  BY <1>4 DEF Child
<1>6. RootNode(n, node)
  BY <1>4, <1>5 DEF RootShape, RootNode
<1>. QED
  BY <1>1, <1>3, <1>4, <1>6

(* Wherever the new child is put among the others, they are all there. *)
AllChildren(f, k, n) ==
  /\ \A i \in 0 .. k : f[i] \in 1 .. n - 1
  /\ \A c \in 1 .. n - 1 : \E i \in 0 .. k : f[i] = c

PutAt(index, g, f, k, n) ==
  \A i \in 0 .. k + 1 : g[i] = IF i < index THEN f[i]
                               ELSE IF i = index THEN n ELSE f[i - 1]

LEMMA OneMoreChild ==
  ASSUME NEW k \in Nat, NEW n \in Nat \ {0}, NEW f, NEW g,
         NEW index \in 0 .. k + 1,
         AllChildren(f, k, n), PutAt(index, g, f, k, n)
  PROVE  /\ \A i \in 0 .. k + 1 : g[i] \in 1 .. n
         /\ \A c \in 1 .. n : \E i \in 0 .. k + 1 : g[i] = c
<1>. USE DEF AllChildren, PutAt
<1>1. ASSUME NEW i \in 0 .. k + 1
      PROVE  g[i] \in 1 .. n
  <2>1. CASE i < index
    BY <2>1
  <2>2. CASE i = index
    BY <2>2
  <2>3. CASE i > index
    <3>1. i - 1 \in 0 .. k
      BY <2>3
    <3>. QED
      BY <2>3, <3>1
  <2>. QED
    BY <2>1, <2>2, <2>3
<1>2. ASSUME NEW c \in 1 .. n
      PROVE  \E i \in 0 .. k + 1 : g[i] = c
  <2>1. CASE c = n
    <3>1. g[index] = n
      OBVIOUS
    <3>. QED
      BY <2>1, <3>1
  <2>2. CASE c # n
    <3>1. PICK j \in 0 .. k : f[j] = c
      BY <2>2
    <3>2. CASE j < index
      BY <3>1, <3>2
    <3>3. CASE j >= index
      <4>1. j + 1 \in 0 .. k + 1 /\ j + 1 > index /\ (j + 1) - 1 = j
        BY <3>3
      <4>2. g[j + 1] = f[j]
        BY <4>1
      <4>. QED
        BY <3>1, <4>1, <4>2
    <3>. QED
      BY <3>2, <3>3
  <2>. QED
    BY <2>1, <2>2
<1>. QED
  BY <1>1, <1>2

(* The same for nodes: page n is child number at of the node grown. *)
PutIn(at, grown, node, n) ==
  /\ grown.num = node.num + 1
  /\ \A i \in 0 .. node.num + 1 :
       Child(grown, i) = IF i < at THEN Child(node, i)
                         ELSE IF i = at THEN n ELSE Child(node, i - 1)

LEMMA AppendCellType ==
  ASSUME NEW n, NEW node \in Page, RootNode(n, node),
         node.num < InternalMaxCells, NEW max \in Nat
  PROVE  LET grown == AppendCell(node, n, max)
         IN  /\ grown \in Page /\ RootNode(n + 1, grown)
             /\ PutIn(node.num + 1, grown, node, n)
             /\ grown.seps = [node.seps EXCEPT ![node.num] = max]
<1>. DEFINE k == node.num
            kids == [node.kids EXCEPT ![k] = node.link]
            seps == [node.seps EXCEPT ![k] = max]
            grown == [node EXCEPT !.num = k + 1, !.link = n,
                                  !.kids = kids, !.seps = seps]
<1>1. k \in 1 .. 2 /\ n = k + 2 /\ n \in 1 .. 4
  BY DEF RootShape, RootNode, InternalMaxCells
<1>2. /\ node.kids \in [CellIndex -> Nat] /\ node.seps \in [CellIndex -> Nat]
      /\ node.link \in Nat
  BY PageType
<1>3. AppendCell(node, n, max) = grown
  BY DEF AppendCell
<1>4. k \in CellIndex
  BY <1>1 DEF CellIndex, InternalMaxCells
<1>5. /\ kids \in [CellIndex -> Nat] /\ seps \in [CellIndex -> Nat]
      /\ kids[k] = node.link
      /\ \A j \in CellIndex : j # k => kids[j] = node.kids[j]
  BY <1>2, <1>4
<1>. HIDE DEF kids, seps
<1>6. grown \in Page
  <2>1. k + 1 \in Nat /\ n \in Nat
    BY <1>1
  <2>. HIDE DEF k
  <2>. QED
    BY <1>5, <2>1 DEF Page
<1>7. /\ grown.type = node.type /\ grown.root = node.root
      /\ grown.num = k + 1 /\ grown.link = n /\ grown.kids = kids
      /\ grown.seps = seps
  BY DEF Page
<1>. HIDE DEF grown
<1>12. PutIn(k + 1, grown, node, n)
  <2>1. ASSUME NEW i \in 0 .. k + 1
        PROVE  Child(grown, i) = IF i < k + 1 THEN Child(node, i)
                                 ELSE IF i = k + 1 THEN n ELSE Child(node, i - 1)
    BY <1>1, <1>5, <1>7 DEF Child, CellIndex, InternalMaxCells
  <2>. QED
    BY <1>7, <2>1 DEF PutIn
<1>8. {Child(grown, i) : i \in 0 .. k + 1} = 1 .. n
  <2>. DEFINE f == [i \in 0 .. k |-> Child(node, i)]
              g == [i \in 0 .. k + 1 |-> Child(grown, i)]
  <2>1. /\ \A i \in 0 .. k : f[i] \in 1 .. n - 1
        /\ \A c \in 1 .. n - 1 : \E i \in 0 .. k : f[i] = c
    BY DEF RootShape, RootNode
  <2>2. ASSUME NEW i \in 0 .. k + 1
        PROVE  g[i] = IF i < k + 1 THEN f[i]
                      ELSE IF i = k + 1 THEN n ELSE f[i - 1]
    BY SMTT(30), <1>1, <1>5, <1>7 DEF Child, CellIndex, InternalMaxCells
  <2>3. k \in Nat /\ n \in Nat \ {0} /\ k + 1 \in 0 .. k + 1
    BY <1>1
  <2>. HIDE DEF f, g, k
  <2>4. AllChildren(f, k, n) /\ PutAt(k + 1, g, f, k, n)
    BY <2>1, <2>2 DEF AllChildren, PutAt
  <2>5. /\ \A i \in 0 .. k + 1 : g[i] \in 1 .. n
        /\ \A c \in 1 .. n : \E i \in 0 .. k + 1 : g[i] = c
    BY <2>3, <2>4, OneMoreChild
  <2>. QED
    BY <2>5 DEF g
<1>9. node.link \in 1 .. n - 1
  <2>1. Child(node, k) = node.link /\ k \in 0 .. node.num
    BY <1>1 DEF Child
  <2>. QED
    BY <2>1 DEF RootShape, RootNode
<1>10. InvalidPage \notin Words => \A j \in CellIndex : kids[j] # InvalidPage
  BY <1>1, <1>5, <1>9, SmallPages DEF RootShape, RootNode
<1>11. RootNode(n + 1, grown)
  <2>1. (n + 1) - 1 = n /\ n + 1 = (k + 1) + 2 /\ k + 1 \in 1 .. 3
    BY <1>1
  <2>2. 1 .. (n + 1) - 1 = {Child(grown, i) : i \in 0 .. grown.num}
    BY <1>7, <1>8, <2>1
  <2>. QED
    BY <1>7, <1>10, <2>1, <2>2 DEF RootShape, RootNode, InternalMaxCells
<1>. QED
  BY <1>3, <1>6, <1>7, <1>11, <1>12 DEF seps

LEMMA InsertCellType ==
  ASSUME NEW n, NEW node \in Page, RootNode(n, node),
         node.num < InternalMaxCells, NEW index \in 0 .. node.num,
         NEW max \in Nat
  PROVE  LET grown == InsertCell(node, index, n, max)
         IN  /\ grown \in Page /\ RootNode(n + 1, grown)
             /\ PutIn(index, grown, node, n)
             /\ \A j \in 0 .. node.num :
                  grown.seps[j] = IF j < index THEN node.seps[j]
                                  ELSE IF j = index THEN max
                                  ELSE node.seps[j - 1]
<1>. DEFINE k == node.num
            kids == [j \in CellIndex |-> CASE j = index -> n
                       [] index < j /\ j <= k -> node.kids[j - 1]
                       [] OTHER -> node.kids[j]]
            seps == [j \in CellIndex |-> CASE j = index -> max
                       [] index < j /\ j <= k -> node.seps[j - 1]
                       [] OTHER -> node.seps[j]]
            grown == [node EXCEPT !.num = k + 1, !.kids = kids, !.seps = seps]
<1>1. k \in 1 .. 2 /\ n = k + 2 /\ n \in 1 .. 4
  BY DEF RootShape, RootNode, InternalMaxCells
<1>2. node.kids \in [CellIndex -> Nat] /\ node.seps \in [CellIndex -> Nat]
  BY PageType
<1>3. InsertCell(node, index, n, max) = grown
  BY DEF InsertCell
<1>4. /\ kids = [j \in CellIndex |-> kids[j]]
      /\ kids[index] = n
      /\ \A j \in CellIndex : index < j /\ j <= k => kids[j] = node.kids[j - 1]
      /\ \A j \in CellIndex : j < index \/ j > k => kids[j] = node.kids[j]
  BY <1>1 DEF CellIndex, InternalMaxCells
<1>5. /\ seps = [j \in CellIndex |-> seps[j]]
      /\ seps[index] = max
      /\ \A j \in CellIndex : index < j /\ j <= k => seps[j] = node.seps[j - 1]
      /\ \A j \in CellIndex : j < index \/ j > k => seps[j] = node.seps[j]
  BY <1>1 DEF CellIndex, InternalMaxCells
<1>. HIDE DEF kids, seps
<1>6. \A j \in CellIndex : \/ j = index
                           \/ index < j /\ j <= k /\ j - 1 \in CellIndex
                           \/ j < index \/ j > k
  BY <1>1 DEF CellIndex, InternalMaxCells
<1>7. kids \in [CellIndex -> Nat] /\ seps \in [CellIndex -> Nat]
  <2>1. \A j \in CellIndex : kids[j] \in Nat /\ seps[j] \in Nat
    BY <1>1, <1>2, <1>4, <1>5, <1>6
  <2>. QED
    BY <1>4, <1>5, <2>1
<1>8. grown \in Page
  <2>1. k + 1 \in Nat
    BY <1>1
  <2>. HIDE DEF k
  <2>. QED
    BY <1>7, <2>1 DEF Page
<1>9. /\ grown.type = node.type /\ grown.root = node.root
      /\ grown.num = k + 1 /\ grown.link = node.link /\ grown.kids = kids
      /\ grown.seps = seps
  BY DEF Page
<1>. HIDE DEF grown
<1>13. ASSUME NEW i \in 0 .. k + 1
       PROVE  Child(grown, i) = IF i < index THEN Child(node, i)
                                ELSE IF i = index THEN n ELSE Child(node, i - 1)
  <2>1. CASE i = k + 1
    <3>1. (k + 1) - 1 = k /\ k \in 0 .. k /\ k + 1 \in 0 .. k + 1
      BY <1>1
    <3>2. Child(grown, k + 1) = node.link /\ Child(node, k) = node.link
      BY <1>1, <1>9 DEF Child
    <3>3. ~(i < index) /\ i # index
      BY <1>1, <2>1
    <3>. QED
      BY <2>1, <3>1, <3>2, <3>3
  <2>2. CASE i # k + 1
    <3>1. i \in CellIndex /\ i \in 0 .. k /\ Child(grown, i) = kids[i]
      BY <1>1, <1>9, <2>2 DEF Child, CellIndex, InternalMaxCells
    <3>2. CASE i < index
      <4>1. Child(node, i) = node.kids[i]
        BY <1>1, <3>1, <3>2 DEF Child
      <4>. QED
        BY <1>4, <3>1, <3>2, <4>1
    <3>3. CASE i = index
      BY <1>4, <3>1, <3>3
    <3>4. CASE i > index
      <4>1. Child(node, i - 1) = node.kids[i - 1]
        BY <1>1, <3>1, <3>4 DEF Child
      <4>. QED
        BY <1>4, <3>1, <3>4, <4>1
    <3>. QED
      BY <1>1, <3>1, <3>2, <3>3, <3>4
  <2>. QED
    BY <2>1, <2>2
<1>14. PutIn(index, grown, node, n)
  BY <1>9, <1>13 DEF PutIn
<1>15. \A j \in 0 .. k : seps[j] = IF j < index THEN node.seps[j]
                                   ELSE IF j = index THEN max
                                   ELSE node.seps[j - 1]
  <2>1. \A j \in 0 .. k : j \in CellIndex
    BY <1>1 DEF CellIndex, InternalMaxCells
  <2>. QED
    BY <1>1, <1>5, <2>1
<1>10. {Child(grown, i) : i \in 0 .. k + 1} = 1 .. n
  <2>. DEFINE f == [i \in 0 .. k |-> Child(node, i)]
              g == [i \in 0 .. k + 1 |-> Child(grown, i)]
  <2>1. /\ \A i \in 0 .. k : f[i] \in 1 .. n - 1
        /\ \A c \in 1 .. n - 1 : \E i \in 0 .. k : f[i] = c
    BY DEF RootShape, RootNode
  <2>2. ASSUME NEW i \in 0 .. k + 1
        PROVE  g[i] = IF i < index THEN f[i]
                      ELSE IF i = index THEN n ELSE f[i - 1]
    <3>1. i < index => i \in 0 .. k
      BY <1>1
    <3>2. i > index => i - 1 \in 0 .. k
      BY <1>1
    <3>. QED
      BY <1>1, <1>13, <3>1, <3>2
  <2>3. k \in Nat /\ n \in Nat \ {0} /\ index \in 0 .. k + 1
    BY <1>1
  <2>. HIDE DEF f, g, k
  <2>4. AllChildren(f, k, n) /\ PutAt(index, g, f, k, n)
    BY <2>1, <2>2 DEF AllChildren, PutAt
  <2>5. /\ \A i \in 0 .. k + 1 : g[i] \in 1 .. n
        /\ \A c \in 1 .. n : \E i \in 0 .. k + 1 : g[i] = c
    BY <2>3, <2>4, OneMoreChild
  <2>. QED
    BY <2>5 DEF g
<1>11. InvalidPage \notin Words => \A j \in CellIndex : kids[j] # InvalidPage
  BY <1>1, <1>4, <1>6, SmallPages DEF RootShape, RootNode
<1>12. RootNode(n + 1, grown)
  <2>1. (n + 1) - 1 = n /\ n + 1 = (k + 1) + 2 /\ k + 1 \in 1 .. 3
    BY <1>1
  <2>2. 1 .. (n + 1) - 1 = {Child(grown, i) : i \in 0 .. grown.num}
    BY <1>9, <1>10, <2>1
  <2>. QED
    BY <1>9, <1>11, <2>1, <2>2 DEF RootShape, RootNode, InternalMaxCells
<1>. QED
  BY <1>3, <1>8, <1>9, <1>12, <1>14, <1>15

WithRoot(pages, page) == [pages EXCEPT ![Root] = page]

LEMMA SetRootDb ==
  ASSUME NEW n, NEW pages, NEW page
  PROVE  SetPage(Db(n, pages), Root, page) = Db(n, WithRoot(pages, page))
BY SetPageDb DEF WithRoot

(* The root with page n as one more child. *)
Bigger(pages, n) ==
  LET node == pages[Root]
      childMax == MaxKey(pages, n)
      rightMax == MaxKey(pages, node.link)
  IN  IF childMax > rightMax THEN AppendCell(node, n, rightMax)
      ELSE InsertCell(node, FindChild(node, childMax), n, childMax)

LEMMA AddChildResult ==
  ASSUME NEW n \in Nat, NEW pages \in UpTo(n),
         RootNode(n, pages[Root]), pages[Root].num < InternalMaxCells,
         \A p \in 1 .. n : /\ pages[p].type = "leaf"
                           /\ pages[p].num = Len(pages[p].cells)
                           /\ pages[p].num \in 1 .. LeafMaxCells
  PROVE  LET d == AddChild(Db(n + 1, pages), Root, n)
         IN  \/ d = Exited /\ InvalidPage \in Words
             \/ /\ d = Db(n + 1, WithRoot(pages, Bigger(pages, n)))
                /\ Bigger(pages, n) \in Page
                /\ RootNode(n + 1, Bigger(pages, n))
<1>. USE DEF UpTo
<1>. DEFINE node == pages[Root]
            k == node.num
            childMax == MaxKey(pages, n)
            rightMax == MaxKey(pages, node.link)
            index == FindChild(node, childMax)
            grown == [node EXCEPT !.num = @ + 1]
            at == IF childMax > rightMax THEN k ELSE index
            bigger == IF childMax > rightMax
                      THEN AppendCell(node, n, rightMax)
                      ELSE InsertCell(node, index, n, childMax)
            d == AddChild(Db(n + 1, pages), Root, n)
<1>1. k \in 1 .. 2 /\ n = k + 2 /\ n \in 1 .. 4
  BY DEF RootShape, RootNode, InternalMaxCells
<1>2. node \in Page
  BY <1>1 DEF Root
<1>3. \A p \in 1 .. n : MaxKey(pages, p) \in Nat
  <2>. TAKE p \in 1 .. n
  <2>1. pages[p] \in Page
    BY <1>1
  <2>2. pages[p].cells \in Seq(Nat) /\ Len(pages[p].cells) > 0
    BY <2>1, PageType
  <2>. QED
    BY <2>2, MaxKeyOfLeaf
<1>4. node.link \in 1 .. n - 1
  <2>1. Child(node, k) = node.link /\ k \in 0 .. node.num
    BY <1>1 DEF Child
  <2>. QED
    BY <2>1 DEF RootShape, RootNode
<1>5. childMax \in Nat /\ rightMax \in Nat
  BY <1>1, <1>3, <1>4
<1>6. index \in 0 .. k
  BY <1>1, FindChildRange DEF InternalMaxCells
<1>7. bigger \in Page /\ RootNode(n + 1, bigger)
  <2>. HIDE DEF childMax, rightMax, index, node
  <2>1. CASE childMax > rightMax
    BY <1>2, <1>5, <2>1, AppendCellType DEF node
  <2>2. CASE ~(childMax > rightMax)
    BY <1>2, <1>5, <1>6, <2>2, InsertCellType DEF node
  <2>. QED
    BY <2>1, <2>2
<1>8. node.link # InvalidPage
  BY <1>1, <1>4, SmallPages
<1>9. Db(n + 1, pages).pages = pages
  BY DEF Db
<1>10. d = IF ChildFails(grown, at) THEN Exited
           ELSE SetPage(Db(n + 1, pages), Root, bigger)
  BY <1>8, <1>9 DEF AddChild
<1>11. ChildFails(grown, at) => InvalidPage \in Words
  <2>1. at \in 0 .. k
    BY <1>1, <1>6
  <2>2. grown.num = k + 1 /\ grown.kids = node.kids
    BY <1>2 DEF Page
  <2>. HIDE DEF at, grown
  <2>3. ChildFails(grown, at) => node.kids[at] = InvalidPage
    BY <1>1, <2>1, <2>2 DEF ChildFails
  <2>4. at \in CellIndex
    BY <1>1, <2>1 DEF CellIndex, InternalMaxCells
  <2>. QED
    BY <2>3, <2>4 DEF RootShape, RootNode
<1>13. bigger = Bigger(pages, n)
  BY DEF Bigger
<1>. HIDE DEF node, childMax, rightMax, index, grown, at, bigger, d, k
<1>12. SetPage(Db(n + 1, pages), Root, bigger)
         = Db(n + 1, WithRoot(pages, bigger))
  BY SetRootDb
<1>. QED
  BY <1>7, <1>10, <1>11, <1>12, <1>13 DEF d

(* A root that is full is split in its copy, and the split calls itself to add
   the child.  What follows looks at the numbers of the pages it writes to and
   at no more: some pages hold unwritten memory by now. *)
Fields == {"type", "root", "parent", "num", "link", "cells", "kids", "seps"}

Shaped(page) == DOMAIN page = Fields /\ DOMAIN page.kids = CellIndex

Shapes(n, pages) ==
  /\ n \in Nat /\ DOMAIN pages = 0 .. n - 1
  /\ \A q \in 0 .. n - 1 : Shaped(pages[q])

(* The same node for one who looks for its children. *)
SameNode(a, b) ==
  a.num = b.num /\ a.link = b.link /\ a.kids = b.kids /\ a.root = b.root

LEMMA SetShaped ==
  ASSUME NEW n, NEW pages, Shapes(n, pages), NEW p, NEW page, Shaped(page)
  PROVE  Shapes(n, [pages EXCEPT ![p] = page])
BY DEF Shapes

LEMMA ParentShaped ==
  ASSUME NEW n, NEW pages, Shapes(n, pages), NEW p, NEW parent
  PROVE  LET result == [pages EXCEPT ![p] = [@ EXCEPT !.parent = parent]]
         IN  /\ Shapes(n, result)
             /\ \A q \in 0 .. n - 1 : SameNode(result[q], pages[q])
<1>. DEFINE page == [pages[p] EXCEPT !.parent = parent]
            result == [pages EXCEPT ![p] = page]
<1>1. ASSUME p \in 0 .. n - 1
      PROVE  Shaped(page) /\ SameNode(page, pages[p])
  BY <1>1 DEF Shapes, Shaped, Fields, SameNode
<1>. HIDE DEF page
<1>2. \A q \in 0 .. n - 1 : result[q] = IF q = p THEN page ELSE pages[q]
  BY DEF Shapes
<1>3. DOMAIN result = 0 .. n - 1
  BY DEF Shapes
<1>. HIDE DEF result
<1>4. \A q \in 0 .. n - 1 : Shaped(result[q]) /\ SameNode(result[q], pages[q])
  BY <1>1, <1>2 DEF Shapes, SameNode
<1>. QED
  BY <1>3, <1>4 DEF Shapes, result, page

(* A page that is asked for is there, or the process is lost. *)
LEMMA GetPageShaped ==
  ASSUME NEW n, NEW pages, Shapes(n, pages), NEW p \in Nat, NEW w
  PROVE  LET d == GetPage(Db(n, pages), p, w)
         IN  \/ d \in Lost
             \/ \E m, result :
                  /\ d = Db(m, result) /\ Shapes(m, result)
                  /\ m = IF p < n THEN n ELSE p + 1
                  /\ \A q \in 0 .. n - 1 : result[q] = pages[q]
<1>. DEFINE d == GetPage(Db(n, pages), p, w)
            result == [q \in 0 .. p |-> IF q < n THEN pages[q] ELSE FreshPage(w)]
<1>1. n \in Nat /\ DOMAIN pages = 0 .. n - 1
  BY DEF Shapes
<1>2. CASE p < n
  <2>1. d = Db(n, pages)
    BY <1>2 DEF GetPage, Db
  <2>. HIDE DEF d
  <2>. QED
    BY <1>2, <2>1 DEF d
<1>3. CASE ~(p < n) /\ p >= PagerMaxPages
  <2>1. d \in Lost
    BY <1>3, BTreeAssumption DEF GetPage, Db, Lost
  <2>. QED
    BY <2>1
<1>4. CASE ~(p < n) /\ ~(p >= PagerMaxPages)
  <2>1. d = Db(p + 1, result)
    BY <1>4, BTreeAssumption DEF GetPage, Db
  <2>2. Shaped(FreshPage(w))
    BY DEF Shaped, FreshPage, Fields
  <2>3. \A q \in 0 .. p : Shaped(result[q])
    BY <1>1, <2>2 DEF Shapes
  <2>4. DOMAIN result = 0 .. (p + 1) - 1 /\ p + 1 \in Nat
    OBVIOUS
  <2>5. \A q \in 0 .. n - 1 : result[q] = pages[q]
    BY <1>1, <1>4
  <2>. HIDE DEF d, result
  <2>6. Shapes(p + 1, result)
    BY <2>3, <2>4 DEF Shapes
  <2>. QED
    BY <1>4, <2>1, <2>5, <2>6 DEF d
<1>. QED
  BY <1>2, <1>3, <1>4

(* One child more in the new node, the others as they were. *)
Moved(n, pages, new, result) ==
  /\ Shapes(n, result)
  /\ result[new].num = pages[new].num + 1
  /\ result[new].root = pages[new].root
  /\ \A q \in 0 .. n - 1 : q # new => SameNode(result[q], pages[q])

LEMMA MoveToEmpty ==
  ASSUME NEW n, NEW pages, Shapes(n, pages), NEW new \in 0 .. n - 1, NEW child,
         pages[new].num = 0, pages[new].link = InvalidPage
  PROVE  \E result : /\ MoveChild(Db(n, pages), new, child) = Db(n, result)
                     /\ Moved(n, pages, new, result)
                     /\ result[new].link = child
<1>. DEFINE page == [pages[new] EXCEPT !.num = @ + 1]
            full == [page EXCEPT !.link = child]
            with == [pages EXCEPT ![new] = full]
            result == [with EXCEPT ![child] = [@ EXCEPT !.parent = new]]
<1>1. /\ Shaped(full) /\ full.num = pages[new].num + 1 /\ full.link = child
      /\ full.root = pages[new].root
  BY DEF Shapes, Shaped, Fields
<1>2. AddChild(Db(n, pages), new, child) = Db(n, with)
  <2>1. AddChild(Db(n, pages), new, child) = SetPage(Db(n, pages), new, full)
    BY DEF AddChild, Db
  <2>. QED
    BY <2>1, SetPageDb
<1>. HIDE DEF page, full
<1>3. /\ Shapes(n, with) /\ with[new] = full
      /\ \A q \in 0 .. n - 1 : q # new => with[q] = pages[q]
  BY <1>1, SetShaped DEF Shapes
<1>4. HasRoom(Db(n, pages).pages[new])
  BY DEF HasRoom, Db, InternalMaxCells
<1>5. MoveChild(Db(n, pages), new, child) = SetParent(Db(n, with), child, new)
  BY <1>2, <1>4 DEF MoveChild, Db
<1>. HIDE DEF with
<1>6. MoveChild(Db(n, pages), new, child) = Db(n, result)
  BY <1>5, SetParentDb
<1>7. Shapes(n, result) /\ \A q \in 0 .. n - 1 : SameNode(result[q], with[q])
  BY <1>3, ParentShaped
<1>. HIDE DEF result
<1>8. Moved(n, pages, new, result) /\ result[new].link = child
  BY <1>1, <1>3, <1>7 DEF Moved, SameNode
<1>. QED
  BY <1>6, <1>8

LEMMA MoveToOthers ==
  ASSUME NEW n, NEW pages, Shapes(n, pages), NEW new \in 0 .. n - 1, NEW child,
         pages[new].num = 1, pages[new].link # InvalidPage
  PROVE  LET d == MoveChild(Db(n, pages), new, child)
         IN  \/ d = Exited
             \/ \E result : d = Db(n, result) /\ Moved(n, pages, new, result)
<1>. DEFINE d == MoveChild(Db(n, pages), new, child)
            node == pages[new]
            childMax == MaxKey(pages, child)
            rightMax == MaxKey(pages, node.link)
            full == IF childMax > rightMax THEN AppendCell(node, child, rightMax)
                    ELSE InsertCell(node, FindChild(node, childMax), child, childMax)
            with == [pages EXCEPT ![new] = full]
            result == [with EXCEPT ![child] = [@ EXCEPT !.parent = new]]
<1>1. Shaped(node) /\ node.num = 1
  BY DEF Shapes
<1>2. AddChild(Db(n, pages), new, child) \in {Exited, SetPage(Db(n, pages), new, full)}
  BY DEF AddChild, Db
<1>3. Shaped(full) /\ full.num = node.num + 1 /\ full.root = node.root
  <2>. HIDE DEF node, childMax, rightMax
  <2>1. CASE childMax > rightMax
    BY <1>1, <2>1 DEF Shaped, Fields, AppendCell
  <2>2. CASE ~(childMax > rightMax)
    BY <1>1, <2>2 DEF Shaped, Fields, InsertCell
  <2>. QED
    BY <2>1, <2>2
<1>. HIDE DEF full
<1>4. /\ Shapes(n, with) /\ with[new] = full
      /\ \A q \in 0 .. n - 1 : q # new => with[q] = pages[q]
  BY <1>3, SetShaped DEF Shapes
<1>5. HasRoom(Db(n, pages).pages[new])
  BY DEF HasRoom, Db, InternalMaxCells
<1>6. SetPage(Db(n, pages), new, full) = Db(n, with)
  BY SetPageDb
<1>. HIDE DEF with, node
<1>7. d = Exited \/ d = SetParent(Db(n, with), child, new)
  <2>1. CASE AddChild(Db(n, pages), new, child) = Exited
    BY <1>5, <2>1 DEF MoveChild, Exited, Closed
  <2>2. CASE AddChild(Db(n, pages), new, child) = Db(n, with)
    BY <1>5, <2>2 DEF MoveChild, Db
  <2>. QED
    BY <1>2, <1>6, <2>1, <2>2
<1>8. d = Exited \/ d = Db(n, result)
  BY <1>7, SetParentDb
<1>9. Shapes(n, result) /\ \A q \in 0 .. n - 1 : SameNode(result[q], with[q])
  BY <1>4, ParentShaped
<1>. HIDE DEF result, d
<1>10. Moved(n, pages, new, result)
  BY <1>3, <1>4, <1>9 DEF Moved, SameNode, node
<1>. QED
  BY <1>8, <1>10 DEF d

LEMMA DropLink ==
  ASSUME NEW n, NEW pages, Shapes(n, pages), NEW p \in 0 .. n - 1, NEW link
  PROVE  LET result == [pages EXCEPT ![p] = [@ EXCEPT !.link = link]]
         IN  /\ Shapes(n, result)
             /\ result[p].num = pages[p].num /\ result[p].link = link
             /\ result[p].kids = pages[p].kids /\ result[p].root = pages[p].root
             /\ \A q \in 0 .. n - 1 : q # p => result[q] = pages[q]
<1>. DEFINE page == [pages[p] EXCEPT !.link = link]
            result == [pages EXCEPT ![p] = page]
<1>1. /\ Shaped(page) /\ page.num = pages[p].num /\ page.link = link
      /\ page.kids = pages[p].kids /\ page.root = pages[p].root
  BY DEF Shapes, Shaped, Fields
<1>. HIDE DEF page
<1>2. /\ Shapes(n, result) /\ result[p] = page
      /\ \A q \in 0 .. n - 1 : q # p => result[q] = pages[q]
  BY <1>1, SetShaped DEF Shapes
<1>. QED
  BY <1>1, <1>2 DEF page

LEMMA DropCount ==
  ASSUME NEW n, NEW pages, Shapes(n, pages), NEW p \in 0 .. n - 1, NEW num
  PROVE  LET result == [pages EXCEPT ![p] = [@ EXCEPT !.num = num]]
         IN  /\ Shapes(n, result)
             /\ result[p].num = num /\ result[p].root = pages[p].root
             /\ \A q \in 0 .. n - 1 : q # p => result[q] = pages[q]
<1>. DEFINE page == [pages[p] EXCEPT !.num = num]
            result == [pages EXCEPT ![p] = page]
<1>1. Shaped(page) /\ page.num = num /\ page.root = pages[p].root
  BY DEF Shapes, Shaped, Fields
<1>. HIDE DEF page
<1>2. /\ Shapes(n, result) /\ result[p] = page
      /\ \A q \in 0 .. n - 1 : q # p => result[q] = pages[q]
  BY <1>1, SetShaped DEF Shapes
<1>. QED
  BY <1>1, <1>2 DEF page

(* The right child of the old node goes to the new, empty one. *)
LEMMA RightChildMoves ==
  ASSUME NEW n, NEW pages, Shapes(n, pages), NEW old \in 0 .. n - 1,
         NEW new \in 0 .. n - 1, old # new,
         pages[new].num = 0, pages[new].link = InvalidPage
  PROVE  \E result :
           /\ MoveRightChild(Db(n, pages), old, new) = Db(n, result)
           /\ Shapes(n, result)
           /\ result[old].num = pages[old].num /\ result[old].link = InvalidPage
           /\ result[old].root = pages[old].root
           /\ result[new].num = 1 /\ result[new].link = pages[old].link
           /\ result[new].root = pages[new].root
<1>1. PICK with : /\ MoveChild(Db(n, pages), new, pages[old].link) = Db(n, with)
                  /\ Moved(n, pages, new, with)
                  /\ with[new].link = pages[old].link
  BY MoveToEmpty
<1>. DEFINE result == [with EXCEPT ![old] = [@ EXCEPT !.link = InvalidPage]]
<1>2. Db(n, pages).pages = pages /\ Db(n, with).fate = "runs"
  BY DEF Db
<1>3. MoveRightChild(Db(n, pages), old, new) = Db(n, result)
  <2>1. MoveRightChild(Db(n, pages), old, new)
          = [Db(n, with) EXCEPT !.pages[old].link = InvalidPage]
    BY <1>1, <1>2 DEF MoveRightChild
  <2>. QED
    BY <2>1 DEF Db
<1>4. /\ Shapes(n, with) /\ with[new].num = 1 /\ with[new].root = pages[new].root
      /\ SameNode(with[old], pages[old])
  BY <1>1 DEF Moved
<1>5. /\ Shapes(n, result)
      /\ result[old].num = with[old].num /\ result[old].link = InvalidPage
      /\ result[old].root = with[old].root
      /\ \A q \in 0 .. n - 1 : q # old => result[q] = with[q]
  BY <1>4, DropLink
<1>. HIDE DEF result
<1>. QED
  BY <1>1, <1>3, <1>4, <1>5 DEF SameNode

(* The first split empties both halves to two cells, if it gets that far. *)
LEMMA FirstSplit ==
  ASSUME NEW n, NEW pages, Shapes(n, pages), NEW old \in 0 .. n - 1,
         NEW new \in 0 .. n - 1, old # new, NEW childMax,
         pages[old].num = InternalMaxCells + 1, ~pages[old].root,
         pages[old].link # InvalidPage,
         pages[new].num = 0, pages[new].link = InvalidPage, ~pages[new].root
  PROVE  LET split == SplitNode(Db(n, pages), old, new, childMax)
         IN  \/ split.db = Exited
             \/ \E result :
                  /\ split.db = Db(n, result) /\ Shapes(n, result)
                  /\ split.dest \in {old, new}
                  /\ result[split.dest].num = 2 /\ ~result[split.dest].root
<1>. DEFINE split == SplitNode(Db(n, pages), old, new, childMax)
<1>0. /\ \A d, q : /\ (d.fate # "runs" => CloseOldNode(d, q) = d)
                   /\ (d.fate # "runs" => MoveUpperCell(d, q, new) = d)
      /\ Exited.fate # "runs"
      /\ \A pgs : Db(n, pgs).fate = "runs" /\ Db(n, pgs).pages = pgs
  BY DEF CloseOldNode, MoveUpperCell, Exited, Closed, Db
<1>1. PICK p1 : /\ MoveRightChild(Db(n, pages), old, new) = Db(n, p1)
                /\ Shapes(n, p1)
                /\ p1[old].num = 4 /\ p1[old].link = InvalidPage
                /\ ~p1[old].root /\ ~p1[new].root
                /\ p1[new].num = 1 /\ p1[new].link # InvalidPage
  <2>1. \E result :
           /\ MoveRightChild(Db(n, pages), old, new) = Db(n, result)
           /\ Shapes(n, result)
           /\ result[old].num = pages[old].num /\ result[old].link = InvalidPage
           /\ result[old].root = pages[old].root
           /\ result[new].num = 1 /\ result[new].link = pages[old].link
           /\ result[new].root = pages[new].root
    BY RightChildMoves
  <2>. QED
    BY <2>1 DEF InternalMaxCells
<1>. DEFINE d2 == MoveUpperCell(Db(n, p1), old, new)
            d3 == CloseOldNode(d2, old)
<1>2. /\ split.db = d3 /\ split.dest \in {old, new}
      /\ Db(n, pages).fate = "runs"
  BY <1>0, <1>1 DEF SplitNode, Destination
<1>3. \/ d2 = Exited
      \/ \E p2 : /\ d2 = Db(n, p2) /\ Shapes(n, p2)
                 /\ p2[old].num = 3 /\ p2[new].num = 2
                 /\ ~p2[old].root /\ ~p2[new].root
  <2>. DEFINE child == Child(p1[old], UpperCell)
              d == MoveChild(Db(n, p1), new, child)
  <2>1. CASE ChildFails(p1[old], UpperCell) \/ d = Exited
    <3>1. d2 = Exited
      BY <1>0, <2>1 DEF MoveUpperCell
    <3>. QED
      BY <3>1
  <2>2. CASE ~ChildFails(p1[old], UpperCell) /\ d # Exited
    <3>1. PICK q : d = Db(n, q) /\ Moved(n, p1, new, q)
      BY <1>1, <2>2, MoveToOthers
    <3>. DEFINE left == q[old].num - 1
                p2 == [q EXCEPT ![old] = [@ EXCEPT !.num = left]]
    <3>2. d2 = Db(n, p2)
      <4>1. d2 = [Db(n, q) EXCEPT !.pages[old].num = @ - 1]
        BY <1>0, <2>2, <3>1 DEF MoveUpperCell
      <4>. QED
        BY <4>1 DEF Db
    <3>3. /\ Shapes(n, q) /\ q[new].num = 2 /\ ~q[new].root
          /\ q[old].num = 4 /\ ~q[old].root
      BY <1>1, <3>1 DEF Moved, SameNode
    <3>4. left = 3
      BY <3>3
    <3>. HIDE DEF left
    <3>5. /\ Shapes(n, p2)
          /\ p2[old].num = left /\ p2[old].root = q[old].root
          /\ \A r \in 0 .. n - 1 : r # old => p2[r] = q[r]
      BY <3>3, DropCount
    <3>. HIDE DEF p2, d2
    <3>. QED
      BY <3>2, <3>3, <3>4, <3>5
  <2>. QED
    BY <2>1, <2>2
<1>. HIDE DEF d2, split
<1>4. CASE d2 = Exited
  BY <1>0, <1>2, <1>4 DEF split
<1>5. CASE d2 # Exited
  <2>1. PICK p2 : /\ d2 = Db(n, p2) /\ Shapes(n, p2)
                  /\ p2[old].num = 3 /\ p2[new].num = 2
                  /\ ~p2[old].root /\ ~p2[new].root
    BY <1>3, <1>5
  <2>. DEFINE node == [p2[old] EXCEPT !.link = Child(p2[old], p2[old].num - 1),
                                      !.num = @ - 1]
              p3 == [p2 EXCEPT ![old] = node]
  <2>2. d3 = Exited \/ d3 = Db(n, p3)
    <3>1. d3 = Exited \/ d3 = SetPage(Db(n, p2), old, node)
      BY <1>0, <2>1 DEF CloseOldNode
    <3>. QED
      BY <3>1, SetPageDb
  <2>3. Shaped(node) /\ node.num = 2 /\ ~node.root
    BY <2>1 DEF Shapes, Shaped, Fields
  <2>. HIDE DEF node
  <2>4. /\ Shapes(n, p3) /\ p3[old] = node
        /\ \A q \in 0 .. n - 1 : q # old => p3[q] = p2[q]
    BY <2>1, <2>3, SetShaped DEF Shapes
  <2>. HIDE DEF p3, d3
  <2>5. \A q \in {old, new} : p3[q].num = 2 /\ ~p3[q].root
    BY <2>1, <2>3, <2>4
  <2>. QED
    BY <1>2, <2>2, <2>4, <2>5 DEF split
<1>. QED
  BY <1>4, <1>5

(* The second split looks for a third cell in a node that has two, and whose
   right child it has just moved away: btree_node_internal_child ends the
   process. *)
LEMMA SecondSplit ==
  ASSUME NEW n, NEW pages, Shapes(n, pages), NEW old \in 0 .. n - 1,
         NEW new \in 0 .. n - 1, old # new, NEW childMax, pages[old].num = 2,
         pages[new].num = 0, pages[new].link = InvalidPage
  PROVE  SplitNode(Db(n, pages), old, new, childMax).db = Exited
<1>1. PICK p1 : /\ MoveRightChild(Db(n, pages), old, new) = Db(n, p1)
                /\ p1[old].num = 2 /\ p1[old].link = InvalidPage
  <2>1. \E result :
           /\ MoveRightChild(Db(n, pages), old, new) = Db(n, result)
           /\ Shapes(n, result)
           /\ result[old].num = pages[old].num /\ result[old].link = InvalidPage
           /\ result[old].root = pages[old].root
           /\ result[new].num = 1 /\ result[new].link = pages[old].link
           /\ result[new].root = pages[new].root
    BY RightChildMoves
  <2>. QED
    BY <2>1
<1>2. Db(n, p1).fate = "runs" /\ Db(n, p1).pages = p1 /\ Db(n, pages).fate = "runs"
  BY DEF Db
<1>3. ChildFails(p1[old], UpperCell)
  BY <1>1 DEF ChildFails, UpperCell, InternalMaxCells
<1>4. MoveUpperCell(Db(n, p1), old, new) = Exited
  BY <1>2, <1>3 DEF MoveUpperCell
<1>5. CloseOldNode(Exited, old) = Exited
  BY DEF CloseOldNode, Exited, Closed
<1>. QED
  BY <1>1, <1>2, <1>4, <1>5 DEF SplitNode, Destination

(* The greatest number of a child is a number, whatever the fourth cell holds. *)
LEMMA LastChild ==
  ASSUME NEW node, node.kids \in [CellIndex -> Nat], node.link \in Nat,
         node.num = InternalMaxCells + 1
  PROVE  LET adopted == {Child(node, i) : i \in 0 .. node.num}
         IN  (CHOOSE p \in adopted : \A q \in adopted : q <= p) \in Nat
<1>. DEFINE adopted == {Child(node, i) : i \in 0 .. node.num}
            kids == node.kids
<1>1. 0 .. node.num = {0, 1, 2, 3, 4} /\ CellIndex = {0, 1, 2, 3}
  BY DEF InternalMaxCells, CellIndex
<1>2. adopted = {kids[0], kids[1], kids[2], kids[3], node.link}
  <2>1. /\ Child(node, 0) = kids[0] /\ Child(node, 1) = kids[1]
        /\ Child(node, 2) = kids[2] /\ Child(node, 3) = kids[3]
        /\ Child(node, 4) = node.link
    BY DEF Child, InternalMaxCells
  <2>. QED
    BY <1>1, <2>1
<1>3. /\ kids[0] \in Nat /\ kids[1] \in Nat /\ kids[2] \in Nat /\ kids[3] \in Nat
      /\ node.link \in Nat
  BY <1>1
<1>. HIDE DEF adopted, kids
<1>4. \E p \in adopted : \A q \in adopted : q <= p
  <2>. DEFINE top(a, b) == IF a >= b THEN a ELSE b
              m1 == top(kids[0], kids[1])
              m2 == top(m1, kids[2])
              m3 == top(m2, kids[3])
              m4 == top(m3, node.link)
  <2>1. /\ m1 \in {kids[0], kids[1]} /\ m1 \in Nat
        /\ kids[0] <= m1 /\ kids[1] <= m1
    BY <1>3
  <2>. HIDE DEF m1
  <2>2. m2 \in {m1, kids[2]} /\ m2 \in Nat /\ m1 <= m2 /\ kids[2] <= m2
    BY <1>3, <2>1
  <2>. HIDE DEF m2
  <2>3. m3 \in {m2, kids[3]} /\ m3 \in Nat /\ m2 <= m3 /\ kids[3] <= m3
    BY <1>3, <2>2
  <2>. HIDE DEF m3
  <2>4. m4 \in {m3, node.link} /\ m4 \in Nat /\ m3 <= m4 /\ node.link <= m4
    BY <1>3, <2>3
  <2>. HIDE DEF m4
  <2>5. m4 \in adopted
    BY <1>2, <2>1, <2>2, <2>3, <2>4
  <2>6. \A q \in adopted : q <= m4
    BY <1>2, <1>3, <2>1, <2>2, <2>3, <2>4
  <2>. QED
    BY <2>5, <2>6
<1>5. adopted \subseteq Nat
  BY <1>2, <1>3
<1>. QED
  BY <1>4, <1>5 DEF adopted

(* The root hands its children to its copy, or fails to find one. *)
LEMMA ChildrenAdopted ==
  ASSUME NEW n, NEW pages, Shapes(n, pages), NEW left \in 0 .. n - 1, NEW w,
         pages[left].kids \in [CellIndex -> Nat], pages[left].link \in Nat,
         pages[left].num = InternalMaxCells + 1
  PROVE  LET d == AdoptChildren(Db(n, pages), left, w)
         IN  \/ d \in Lost
             \/ \E m, result : /\ d = Db(m, result) /\ Shapes(m, result)
                               /\ m \in Nat /\ m >= n
                               /\ \A q \in 0 .. n - 1 : SameNode(result[q], pages[q])
<1>. DEFINE node == Db(n, pages).pages[left]
            adopted == {Child(node, i) : i \in 0 .. node.num}
            last == CHOOSE p \in adopted : \A q \in adopted : q <= p
            d1 == GetPage(Db(n, pages), last, w)
            d == AdoptChildren(Db(n, pages), left, w)
            fails == \E i \in 0 .. node.num : ChildFails(node, i)
<1>1. node = pages[left]
  BY DEF Db
<1>2. last \in Nat
  <2>1. /\ node.kids \in [CellIndex -> Nat] /\ node.link \in Nat
        /\ node.num = InternalMaxCells + 1
    BY <1>1
  <2>. HIDE DEF node
  <2>. QED
    BY <2>1, LastChild
<1>3. d = IF fails THEN Exited
          ELSE IF d1.fate # "runs" THEN d1
          ELSE [d1 EXCEPT !.pages =
                  [p \in DOMAIN d1.pages |->
                     IF p \in adopted THEN [d1.pages[p] EXCEPT !.parent = left]
                                      ELSE d1.pages[p]]]
  BY Zenon DEF AdoptChildren
<1>. HIDE DEF last, fails, adopted, d
<1>4. \/ d1 \in Lost
      \/ \E m, result :
           /\ d1 = Db(m, result) /\ Shapes(m, result)
           /\ m = IF last < n THEN n ELSE last + 1
           /\ \A q \in 0 .. n - 1 : result[q] = pages[q]
  BY <1>2, GetPageShaped
<1>. HIDE DEF d1
<1>5. CASE fails \/ d1 \in Lost
  <2>1. d \in Lost
    BY <1>3, <1>5 DEF Lost, Exited, Outside, Closed
  <2>. QED
    BY <2>1 DEF d
<1>6. CASE ~fails /\ d1 \notin Lost
  <2>1. PICK m, p1 : /\ d1 = Db(m, p1) /\ Shapes(m, p1)
                     /\ m = IF last < n THEN n ELSE last + 1
                     /\ \A q \in 0 .. n - 1 : p1[q] = pages[q]
    BY <1>4, <1>6
  <2>. DEFINE p2 == [p \in 0 .. m - 1 |->
                       IF p \in adopted THEN [p1[p] EXCEPT !.parent = left]
                       ELSE p1[p]]
  <2>2. d = Db(m, p2)
    <3>1. DOMAIN p1 = 0 .. m - 1 /\ d1.fate = "runs" /\ d1.pages = p1
      BY <2>1 DEF Shapes, Db
    <3>2. d = [d1 EXCEPT !.pages = p2]
      BY <1>3, <1>6, <3>1
    <3>. HIDE DEF p2
    <3>. QED
      BY <2>1, <3>2 DEF Db
  <2>3. m \in Nat /\ m >= n /\ n \in Nat
    BY <1>2, <2>1 DEF Shapes
  <2>4. ASSUME NEW p \in 0 .. m - 1
        PROVE  Shaped(p2[p]) /\ SameNode(p2[p], p1[p])
    BY <2>1 DEF Shapes, Shaped, Fields, SameNode
  <2>5. DOMAIN p2 = 0 .. m - 1
    OBVIOUS
  <2>. HIDE DEF p2
  <2>6. Shapes(m, p2)
    BY <2>3, <2>4, <2>5 DEF Shapes
  <2>7. ASSUME NEW q \in 0 .. n - 1 PROVE SameNode(p2[q], pages[q])
    <3>1. q \in 0 .. m - 1 /\ p1[q] = pages[q]
      BY <2>1, <2>3
    <3>. QED
      BY <2>4, <3>1
  <2>. QED
    BY <2>2, <2>3, <2>6, <2>7 DEF d
<1>. QED
  BY <1>5, <1>6

(* The copy below the new root holds what the root held, and its new sibling
   is empty. *)
LEMMA FullRootCopied ==
  ASSUME NEW n, NEW pages, Shapes(n, pages), n > 0, NEW w,
         pages[Root].type = "internal", pages[Root].num = InternalMaxCells + 1,
         pages[Root].kids \in [CellIndex -> Nat], pages[Root].link \in Nat
  PROVE  LET d == NewRoot(Db(n, pages), n, w)
         IN  \/ d \in Lost
             \/ \E m, result :
                  /\ d = Db(m, result) /\ Shapes(m, result)
                  /\ n \in 0 .. m - 1 /\ n + 1 \in 0 .. m - 1
                  /\ result[Root].kids[0] = n + 1
                  /\ result[n].num = 0 /\ result[n].link = InvalidPage
                  /\ ~result[n].root
                  /\ result[n + 1].num = InternalMaxCells + 1
                  /\ result[n + 1].link = pages[Root].link
                  /\ ~result[n + 1].root
<1>. DEFINE d == NewRoot(Db(n, pages), n, w)
            d1 == GetPage(Db(n, pages), n, w)
            left == d1.num_pages
            d2 == GetPage(d1, left, w)
            old == d2.pages[Root]
            d3 == IF old.type = "internal"
                  THEN SetPage(d2, n, InternalInit(d2.pages[n])) ELSE d2
            d4 == SetPage(d3, left, CopyRoot(old))
            d5 == IF old.type = "internal" THEN AdoptChildren(d4, left, w) ELSE d4
            root == RootPage(d5.pages[Root], left, MaxKey(d5.pages, left), n, w)
<1>1. d = IF d2.fate # "runs" THEN d2
          ELSE IF d5.fate # "runs" THEN d5
          ELSE SetParent(SetParent(SetPage(d5, Root, root), left, Root), n, Root)
  BY Zenon DEF NewRoot
<1>2. n \in Nat /\ Root = 0 /\ Root \in 0 .. n - 1
  BY DEF Shapes, Root
<1>3. \A lost \in Lost : lost.fate # "runs" /\ \A q : GetPage(lost, q, w) = lost
  BY DEF Lost, Exited, Outside, Closed, GetPage
<1>4. \/ d1 \in Lost
      \/ \E m, result :
           /\ d1 = Db(m, result) /\ Shapes(m, result)
           /\ m = IF n < n THEN n ELSE n + 1
           /\ \A q \in 0 .. n - 1 : result[q] = pages[q]
  BY <1>2, GetPageShaped
<1>. HIDE DEF d, root, d5, d4, d3
<1>5. CASE d1 \in Lost
  <2>1. d2 \in Lost
    BY <1>3, <1>5
  <2>. HIDE DEF d2
  <2>. QED
    BY <1>1, <1>3, <2>1 DEF d
<1>6. CASE d1 \notin Lost
  <2>1. PICK p1 : /\ d1 = Db(n + 1, p1) /\ Shapes(n + 1, p1)
                  /\ \A q \in 0 .. n - 1 : p1[q] = pages[q]
    BY <1>2, <1>4, <1>6
  <2>2. left = n + 1
    BY <2>1 DEF Db
  <2>3. \/ d2 \in Lost
        \/ \E m, result :
             /\ d2 = Db(m, result) /\ Shapes(m, result)
             /\ m = IF n + 1 < n + 1 THEN n + 1 ELSE (n + 1) + 1
             /\ \A q \in 0 .. (n + 1) - 1 : result[q] = p1[q]
    <3>1. GetPage(Db(n + 1, p1), n + 1, w) = d2
      BY <2>1, <2>2
    <3>2. n + 1 \in Nat
      BY <1>2
    <3>. HIDE DEF d2
    <3>. QED
      BY <2>1, <3>1, <3>2, GetPageShaped
  <2>. HIDE DEF left, d1, d2
  <2>4. CASE d2 \in Lost
    BY <1>1, <1>3, <2>4 DEF d
  <2>5. CASE d2 \notin Lost
    <3>1. PICK p2 : /\ d2 = Db(n + 2, p2) /\ Shapes(n + 2, p2)
                    /\ \A q \in 0 .. n - 1 : p2[q] = pages[q]
      <4>1. PICK m, p2 :
               /\ d2 = Db(m, p2) /\ Shapes(m, p2)
               /\ m = IF n + 1 < n + 1 THEN n + 1 ELSE (n + 1) + 1
               /\ \A q \in 0 .. (n + 1) - 1 : p2[q] = p1[q]
        BY <2>3, <2>5
      <4>2. m = n + 2 /\ \A q \in 0 .. n - 1 : q \in 0 .. (n + 1) - 1
        BY <1>2, <4>1
      <4>. QED
        BY <2>1, <4>1, <4>2
    <3>2. old = pages[Root] /\ d2.fate = "runs" /\ d2.pages = p2
      BY <1>2, <3>1 DEF Db
    <3>. DEFINE empty == InternalInit(p2[n])
                copy == CopyRoot(old)
                p3 == [p2 EXCEPT ![n] = empty]
                p4 == [p3 EXCEPT ![n + 1] = copy]
    <3>3. d4 = Db(n + 2, p4)
      <4>1. d3 = Db(n + 2, p3)
        BY <3>1, <3>2, SetPageDb DEF d3
      <4>. HIDE DEF p3, copy
      <4>. QED
        BY <2>2, <4>1, SetPageDb DEF d4, copy
    <3>4. /\ Shaped(empty) /\ empty.num = 0 /\ empty.link = InvalidPage
          /\ ~empty.root
      <4>1. Shaped(p2[n])
        BY <1>2, <3>1 DEF Shapes
      <4>. QED
        BY <4>1 DEF Shaped, Fields, InternalInit
    <3>5. /\ Shaped(copy) /\ copy.num = InternalMaxCells + 1 /\ ~copy.root
          /\ copy.link = pages[Root].link /\ copy.kids = pages[Root].kids
      <4>1. Shaped(pages[Root])
        BY <1>2 DEF Shapes
      <4>. QED
        BY <3>2, <4>1 DEF Shaped, Fields, CopyRoot
    <3>. HIDE DEF empty, copy
    <3>6. Shapes(n + 2, p3) /\ p3[n] = empty
      BY <1>2, <3>1, <3>4, SetShaped DEF Shapes
    <3>7. Shapes(n + 2, p4) /\ p4[n + 1] = copy /\ p4[n] = empty
      <4>. HIDE DEF p3
      <4>1. Shapes(n + 2, p4)
        BY <3>5, <3>6, SetShaped
      <4>2. n \in 0 .. (n + 2) - 1 /\ n + 1 \in 0 .. (n + 2) - 1 /\ n # n + 1
        BY <1>2
      <4>. QED
        BY <3>6, <4>1, <4>2 DEF Shapes
    <3>. HIDE DEF p3, p4, old
    <3>8. \/ d5 \in Lost
          \/ \E m, result :
               /\ d5 = Db(m, result) /\ Shapes(m, result)
               /\ m \in Nat /\ m >= n + 2
               /\ \A q \in 0 .. (n + 2) - 1 : SameNode(result[q], p4[q])
      <4>1. d5 = AdoptChildren(Db(n + 2, p4), n + 1, w)
        BY <2>2, <3>2, <3>3 DEF d5
      <4>2. n + 1 \in 0 .. (n + 2) - 1
        BY <1>2
      <4>. QED
        BY <3>5, <3>7, <4>1, <4>2, ChildrenAdopted
    <3>9. CASE d5 \in Lost
      BY <1>1, <1>3, <3>2, <3>9 DEF d
    <3>10. CASE d5 \notin Lost
      <4>1. PICK m, p5 : /\ d5 = Db(m, p5) /\ Shapes(m, p5)
                         /\ m \in Nat /\ m >= n + 2
                         /\ \A q \in 0 .. (n + 2) - 1 : SameNode(p5[q], p4[q])
        BY <3>8, <3>10
      <4>2. /\ n \in 0 .. (n + 2) - 1 /\ n + 1 \in 0 .. (n + 2) - 1
            /\ n \in 0 .. m - 1 /\ n + 1 \in 0 .. m - 1 /\ Root \in 0 .. m - 1
            /\ n # Root /\ n + 1 # Root
        BY <1>2, <4>1
      <4>3. /\ p5[n].num = 0 /\ p5[n].link = InvalidPage /\ ~p5[n].root
            /\ p5[n + 1].num = InternalMaxCells + 1 /\ ~p5[n + 1].root
            /\ p5[n + 1].link = pages[Root].link
        BY <3>4, <3>5, <3>7, <4>1, <4>2 DEF SameNode
      <4>4. Shaped(root) /\ root.kids[0] = n + 1
        <5>1. d5.pages[Root] = p5[Root] /\ Shaped(p5[Root])
          BY <4>1, <4>2 DEF Db, Shapes
        <5>2. Shaped(RootCells(p5[Root], w))
          BY <5>1 DEF RootCells, Shaped, Fields
        <5>3. 0 \in CellIndex
          BY DEF CellIndex, InternalMaxCells
        <5>. DEFINE cells == RootCells(p5[Root], w)
                    top == MaxKey(d5.pages, left)
        <5>4. root = [cells EXCEPT
                        !.type = "internal", !.root = TRUE, !.num = 1, !.link = n,
                        !.kids[0] = left, !.seps[0] = top]
          BY <5>1 DEF root, RootPage
        <5>. HIDE DEF cells, top
        <5>. QED
          BY <2>2, <5>2, <5>3, <5>4 DEF Shaped, Fields, cells
      <4>. DEFINE p6 == [p5 EXCEPT ![Root] = root]
                  p7 == [p6 EXCEPT ![n + 1] = [@ EXCEPT !.parent = Root]]
                  p8 == [p7 EXCEPT ![n] = [@ EXCEPT !.parent = Root]]
      <4>5. d = Db(m, p8)
        <5>1. d = SetParent(SetParent(SetPage(d5, Root, root), n + 1, Root), n, Root)
          <6>1. d5.fate = "runs"
            BY <4>1 DEF Db
          <6>. QED
            BY <1>1, <2>2, <3>2, <6>1
        <5>2. SetPage(d5, Root, root) = Db(m, p6)
          BY <4>1, SetPageDb
        <5>. HIDE DEF p6
        <5>3. SetParent(Db(m, p6), n + 1, Root) = Db(m, p7)
          BY SetParentDb
        <5>. HIDE DEF p7
        <5>4. SetParent(Db(m, p7), n, Root) = Db(m, p8)
          BY SetParentDb
        <5>. QED
          BY <5>1, <5>2, <5>3, <5>4
      <4>6. /\ Shapes(m, p6) /\ p6[Root] = root
            /\ p6[n] = p5[n] /\ p6[n + 1] = p5[n + 1]
        BY <4>1, <4>2, <4>4, SetShaped DEF Shapes
      <4>. HIDE DEF p6
      <4>7. Shapes(m, p7) /\ \A q \in 0 .. m - 1 : SameNode(p7[q], p6[q])
        BY <4>6, ParentShaped
      <4>. HIDE DEF p7
      <4>8. Shapes(m, p8) /\ \A q \in 0 .. m - 1 : SameNode(p8[q], p7[q])
        BY <4>7, ParentShaped
      <4>. HIDE DEF p8
      <4>9. /\ p8[Root].kids[0] = n + 1
            /\ p8[n].num = 0 /\ p8[n].link = InvalidPage /\ ~p8[n].root
            /\ p8[n + 1].num = InternalMaxCells + 1 /\ ~p8[n + 1].root
            /\ p8[n + 1].link = pages[Root].link
        BY <4>2, <4>3, <4>4, <4>6, <4>7, <4>8 DEF SameNode
      <4>. QED
        BY <4>2, <4>5, <4>8, <4>9 DEF d
    <3>. QED
      BY <3>9, <3>10
  <2>. QED
    BY <2>4, <2>5
<1>. QED
  BY <1>5, <1>6

(* btree_node_internal_split_and_insert of a root that is full: the split of
   its copy comes as far as calling itself, and that call ends the process. *)
LEMMA FullRootExits ==
  ASSUME NEW n \in Nat, NEW pages \in UpTo(n), NEW child, NEW w,
         RootShape(n, pages[Root]), pages[Root].num = InternalMaxCells,
         \A p \in 1 .. n : BelowRoot(pages[p])
  PROVE  SplitAndInsert([Db(n + 1, pages) EXCEPT !.pages[Root].num = @ + 1],
                        Root, child, w)
           \in Lost
<1>. DEFINE root == [pages[Root] EXCEPT !.num = InternalMaxCells + 1]
            full == [pages EXCEPT ![Root] = root]
            d == [Db(n + 1, pages) EXCEPT !.pages[Root].num = @ + 1]
            once == SplitOnce(d, Root, child, w)
            again == SplitAgain(once, child, w)
<1>1. /\ n = 5 /\ Root \in 0 .. n /\ pages[Root] \in Page
      /\ pages[Root].type = "internal" /\ pages[Root].root
  BY DEF RootShape, UpTo, Root, InternalMaxCells
<1>2. d = Db(n + 1, full)
  <2>1. d = [Db(n + 1, pages) EXCEPT !.pages = [pages EXCEPT ![Root] =
                [pages[Root] EXCEPT !.num = pages[Root].num + 1]]]
    BY DEF Db
  <2>2. pages[Root].num + 1 = InternalMaxCells + 1
    OBVIOUS
  <2>. HIDE DEF d
  <2>. QED
    BY <2>1, <2>2 DEF Db
<1>3. Shapes(n + 1, pages)
  <2>1. ASSUME NEW q \in 0 .. n PROVE Shaped(pages[q])
    <3>1. pages[q] \in Page
      BY DEF UpTo
    <3>. QED
      BY <3>1 DEF Page, Shaped, Fields
  <2>2. DOMAIN pages = 0 .. n /\ n + 1 \in Nat /\ (n + 1) - 1 = n
    BY DEF UpTo
  <2>. QED
    BY <2>1, <2>2 DEF Shapes
<1>4. /\ Shaped(root) /\ root.type = "internal" /\ root.root
      /\ root.num = InternalMaxCells + 1
      /\ root.kids \in [CellIndex -> Nat] /\ root.link = pages[Root].link
      /\ root.link \in Nat
  BY <1>1 DEF Page, Shaped, Fields
<1>5. root.link \in 1 .. n - 1 /\ root.link # InvalidPage
  <2>1. Child(pages[Root], pages[Root].num) = pages[Root].link
    BY DEF Child
  <2>2. pages[Root].num \in 0 .. pages[Root].num
    BY DEF InternalMaxCells
  <2>3. Child(pages[Root], pages[Root].num) \in 1 .. n - 1
    BY <2>2 DEF RootShape
  <2>. QED
    BY <1>1, <1>4, <2>1, <2>3, BTreeAssumption DEF InternalMaxCells
<1>. HIDE DEF root, d
<1>6. Shapes(n + 1, full) /\ full[Root] = root
  <2>1. DOMAIN pages = 0 .. n
    BY DEF UpTo
  <2>. QED
    BY <1>1, <1>3, <1>4, <2>1, SetShaped
<1>. HIDE DEF full
<1>. DEFINE e == NewRoot(Db(n + 1, full), n + 1, w)
            childMax == MaxKey(d.pages, child)
<1>7. once = SplitCopy(e, n + 1, childMax)
  <2>1. d.num_pages = n + 1 /\ d.pages[Root].root
    BY <1>2, <1>4, <1>6 DEF Db
  <2>. QED
    BY <1>2, <2>1 DEF SplitOnce
<1>8. \/ e \in Lost
      \/ \E m, result :
           /\ e = Db(m, result) /\ Shapes(m, result)
           /\ n + 1 \in 0 .. m - 1 /\ n + 1 + 1 \in 0 .. m - 1
           /\ result[Root].kids[0] = n + 1 + 1
           /\ result[n + 1].num = 0 /\ result[n + 1].link = InvalidPage
           /\ ~result[n + 1].root
           /\ result[n + 1 + 1].num = InternalMaxCells + 1
           /\ result[n + 1 + 1].link = full[Root].link
           /\ ~result[n + 1 + 1].root
  <2>1. n + 1 > 0
    BY <1>1
  <2>. QED
    BY <1>4, <1>6, <2>1, FullRootCopied
<1>9. \A lost \in Lost : lost.fate # "runs"
  BY DEF Lost, Exited, Outside, Closed
<1>. HIDE DEF e, childMax, once
<1>10. again.db \in Lost
  <2>1. CASE e \in Lost
    <3>1. once.db \in Lost
      BY <1>7, <1>9, <2>1 DEF SplitCopy, SplitNode
    <3>. QED
      BY <1>9, <3>1 DEF SplitAgain
  <2>2. CASE e \notin Lost
    <3>1. PICK m, p1 :
             /\ e = Db(m, p1) /\ Shapes(m, p1)
             /\ n + 1 \in 0 .. m - 1 /\ n + 1 + 1 \in 0 .. m - 1
             /\ p1[Root].kids[0] = n + 1 + 1
             /\ p1[n + 1].num = 0 /\ p1[n + 1].link = InvalidPage
             /\ ~p1[n + 1].root
             /\ p1[n + 1 + 1].num = InternalMaxCells + 1
             /\ p1[n + 1 + 1].link = root.link
             /\ ~p1[n + 1 + 1].root
      BY <1>6, <1>8, <2>2
    <3>. DEFINE old == n + 1 + 1
                new == n + 1
    <3>2. once = SplitNode(Db(m, p1), old, new, childMax)
      BY <1>7, <3>1 DEF SplitCopy, Db
    <3>3. /\ old \in 0 .. m - 1 /\ new \in 0 .. m - 1 /\ old # new
          /\ m \in Nat
      BY <1>1, <3>1 DEF Shapes
    <3>4. /\ p1[old].num = InternalMaxCells + 1 /\ ~p1[old].root
          /\ p1[old].link # InvalidPage
          /\ p1[new].num = 0 /\ p1[new].link = InvalidPage /\ ~p1[new].root
      BY <1>5, <3>1
    <3>. HIDE DEF old, new
    <3>5. \/ once.db \in Lost
          \/ \E result :
               /\ once.db = Db(m, result) /\ Shapes(m, result)
               /\ once.dest \in {old, new}
               /\ result[once.dest].num = 2 /\ ~result[once.dest].root
      BY <3>1, <3>2, <3>3, <3>4, FirstSplit DEF Lost
    <3>6. CASE once.db \in Lost
      BY <1>9, <3>6 DEF SplitAgain
    <3>7. CASE once.db \notin Lost
      <4>1. PICK p2 : /\ once.db = Db(m, p2) /\ Shapes(m, p2)
                      /\ once.dest \in {old, new}
                      /\ p2[once.dest].num = 2 /\ ~p2[once.dest].root
        BY <3>5, <3>7
      <4>. DEFINE dest == once.dest
                  d3 == GetPage(Db(m, p2), m, w)
                  max == MaxKey(p2, child)
      <4>2. again = SplitNode(InitInternal(d3, m), dest, m, max)
        <5>1. again = SplitOnce(Db(m, p2), dest, child, w)
          BY <4>1 DEF SplitAgain, Db
        <5>2. /\ Db(m, p2).num_pages = m /\ Db(m, p2).pages = p2
          BY DEF Db
        <5>. HIDE DEF again
        <5>. QED
          BY <4>1, <5>1, <5>2 DEF SplitOnce
      <4>3. \/ d3 \in Lost
            \/ \E k, result :
                 /\ d3 = Db(k, result) /\ Shapes(k, result)
                 /\ k = IF m < m THEN m ELSE m + 1
                 /\ \A q \in 0 .. m - 1 : result[q] = p2[q]
        BY <3>3, <4>1, GetPageShaped
      <4>. HIDE DEF d3, max, again
      <4>4. CASE d3 \in Lost
        BY <1>9, <4>2, <4>4 DEF InitInternal, SplitNode
      <4>5. CASE d3 \notin Lost
        <5>1. PICK p3 : /\ d3 = Db(m + 1, p3) /\ Shapes(m + 1, p3)
                        /\ \A q \in 0 .. m - 1 : p3[q] = p2[q]
          BY <3>3, <4>3, <4>5
        <5>. DEFINE empty == InternalInit(p3[m])
                    p4 == [p3 EXCEPT ![m] = empty]
        <5>2. InitInternal(d3, m) = Db(m + 1, p4)
          <6>1. d3.fate = "runs" /\ d3.pages = p3
            BY <5>1 DEF Db
          <6>2. InitInternal(d3, m) = SetPage(Db(m + 1, p3), m, empty)
            BY <5>1, <6>1 DEF InitInternal
          <6>. HIDE DEF empty
          <6>. QED
            BY <6>2, SetPageDb
        <5>3. /\ m \in 0 .. (m + 1) - 1 /\ dest \in 0 .. (m + 1) - 1
              /\ dest \in 0 .. m - 1 /\ dest # m
          BY <3>3, <4>1
        <5>4. Shaped(empty) /\ empty.num = 0 /\ empty.link = InvalidPage
          <6>1. Shaped(p3[m])
            BY <5>1, <5>3 DEF Shapes
          <6>. QED
            BY <6>1 DEF Shaped, Fields, InternalInit
        <5>. HIDE DEF empty
        <5>5. Shapes(m + 1, p4) /\ p4[m] = empty /\ p4[dest] = p2[dest]
          BY <5>1, <5>3, <5>4, SetShaped DEF Shapes
        <5>. HIDE DEF p4, dest
        <5>6. p4[dest].num = 2
          BY <4>1, <5>5 DEF dest
        <5>. QED
          BY <4>2, <5>2, <5>3, <5>4, <5>5, <5>6, SecondSplit DEF Lost
      <4>. QED
        BY <4>4, <4>5
    <3>. QED
      BY <3>6, <3>7
  <2>. QED
    BY <2>1, <2>2
<1>11. SplitAndInsert(d, Root, child, w) = IF again.db.fate = "runs" THEN Runaway
                                           ELSE again.db
  BY DEF SplitAndInsert, once
<1>. QED
  BY <1>9, <1>10, <1>11 DEF d

LEMMA InternalInsertResult ==
  ASSUME NEW n \in Nat, NEW pages \in UpTo(n), NEW w,
         RootNode(n, pages[Root]),
         \A p \in 1 .. n : BelowRoot(pages[p])
  PROVE  LET d == InternalInsert(Db(n + 1, pages), Root, n, w)
         IN  \/ /\ d \in Lost
                /\ InvalidPage \notin Words => pages[Root].num = InternalMaxCells
             \/ /\ d = Db(n + 1, WithRoot(pages, Bigger(pages, n)))
                /\ Sound(n + 1, WithRoot(pages, Bigger(pages, n)))
                /\ pages[Root].num < InternalMaxCells
<1>. USE DEF UpTo
<1>. DEFINE d == InternalInsert(Db(n + 1, pages), Root, n, w)
<1>1. Db(n + 1, pages).pages = pages
  BY DEF Db
<1>2. pages[Root].num \in 1 .. InternalMaxCells
  BY DEF RootShape, RootNode
<1>3. CASE pages[Root].num = InternalMaxCells
  <2>1. ~HasRoom(Db(n + 1, pages).pages[Root])
    BY <1>1, <1>3 DEF HasRoom, InternalMaxCells
  <2>2. d = SplitAndInsert([Db(n + 1, pages) EXCEPT !.pages[Root].num = @ + 1],
                           Root, n, w)
    BY <2>1 DEF InternalInsert
  <2>3. d \in Lost
    BY <1>3, <2>2, FullRootExits DEF RootNode
  <2>. QED
    BY <1>3, <2>3
<1>4. CASE pages[Root].num < InternalMaxCells
  <2>1. d = AddChild(Db(n + 1, pages), Root, n)
    BY <1>1, <1>4 DEF InternalInsert, HasRoom
  <2>2. \/ d = Exited /\ InvalidPage \in Words
        \/ /\ d = Db(n + 1, WithRoot(pages, Bigger(pages, n)))
           /\ Bigger(pages, n) \in Page
           /\ RootNode(n + 1, Bigger(pages, n))
    BY <1>4, <2>1, AddChildResult DEF BelowRoot
  <2>. HIDE DEF d
  <2>3. ASSUME NEW node \in Page, RootNode(n + 1, node)
        PROVE  Sound(n + 1, WithRoot(pages, node))
    <3>. DEFINE result == WithRoot(pages, node)
    <3>1. /\ result = [p \in 0 .. n |-> result[p]]
          /\ result[Root] = node
          /\ \A p \in 1 .. n : result[p] = pages[p]
      <4>1. Root \in 0 .. n /\ \A p \in 1 .. n : p \in 0 .. n /\ p # Root
        BY DEF Root
      <4>. QED
        BY <4>1 DEF WithRoot
    <3>. HIDE DEF result
    <3>2. \A p \in 0 .. n : result[p] \in Page
      <4>1. \A p \in 0 .. n : p = Root \/ p \in 1 .. n
        BY DEF Root
      <4>. QED
        BY <2>3, <3>1, <4>1
    <3>3. result \in [0 .. n -> Page]
      BY <3>1, <3>2
    <3>4. (n + 1) - 1 = n /\ n + 1 \in Nat \ {0}
      OBVIOUS
    <3>. QED
      BY <2>3, <3>1, <3>3, <3>4 DEF Sound, result
  <2>. QED
    BY <1>4, <2>2, <2>3 DEF Lost, d
<1>. QED
  BY <1>2, <1>3, <1>4 DEF InternalMaxCells

-----------------------------------------------------------------------------
(* An insert *)

LEMMA FewPages ==
  ASSUME NEW n, NEW pages, Sound(n, pages)
  PROVE  n \in 1 .. 5 /\ n < PagerMaxPages
BY SmallPages DEF Sound, RootLeaf, RootShape, RootNode, InternalMaxCells

LEMMA WithRootType ==
  ASSUME NEW n \in Nat, NEW pages \in UpTo(n), NEW page \in Page
  PROVE  /\ WithRoot(pages, page) \in UpTo(n)
         /\ WithRoot(pages, page)[Root] = page
         /\ \A p \in 1 .. n : WithRoot(pages, page)[p] = pages[p]
BY DEF WithRoot, Root, UpTo

LEMMA RootSplitResult ==
  ASSUME NEW n \in Nat, NEW pages, Sound(n, pages), NEW p \in 0 .. n - 1,
         pages[p].type = "leaf", pages[p].root,
         pages[p].num = LeafMaxCells,
         NEW pos \in 0 .. LeafMaxCells, NEW key \in Nat, NEW w \in Words
  PROVE  LET d == LeafSplitAndInsert(Db(n, pages), p, pos, key, w)
         IN  \E result :
               /\ d = Db(3, result) /\ Sound(3, result)
               /\ Heightened(SplitPages(n, pages, p, pos, key, w), result)
<1>. DEFINE d == LeafSplitAndInsert(Db(n, pages), p, pos, key, w)
            split == SplitPages(n, pages, p, pos, key, w)
<1>1. n = 1 /\ p = 0 /\ n < PagerMaxPages
  BY LeafFacts, FewPages DEF Root
<1>2. pages \in UpTo(n - 1) /\ n \in Nat /\ w \in Nat
  BY BTreeAssumption DEF Sound
<1>3. Len(pages[p].cells) = LeafMaxCells
  BY LeafFacts
<1>4. SplitLeaf(Db(n, pages), p, pos, key, w) = Db(n + 1, split)
  BY <1>1, <1>2, SplitLeafResult
<1>5. /\ split \in UpTo(n)
      /\ split[p].type = "leaf" /\ split[p].num = LeftSplitCount
      /\ Len(split[p].cells) >= LeftSplitCount
      /\ split[n].type = "leaf" /\ ~split[n].root
      /\ split[n].num = RightSplitCount
      /\ Len(split[n].cells) = RightSplitCount
  BY <1>1, <1>2, <1>3, SplitPagesType
<1>. HIDE DEF split
<1>6. d = NewRoot(Db(n + 1, split), n, w)
  <2>1. /\ Db(n, pages).pages = pages /\ Db(n, pages).num_pages = n
        /\ Db(n + 1, split).fate = "runs"
    BY DEF Db
  <2>. QED
    BY <1>4, <2>1 DEF LeafSplitAndInsert
<1>7. d = NewRoot(Db(2, split), 1, w)
  BY <1>1, <1>6
<1>. HIDE DEF d
<1>8. \E result : /\ NewRoot(Db(2, split), 1, w) = Db(3, result)
                  /\ Sound(3, result) /\ Heightened(split, result)
  BY <1>1, <1>5, SplitCounts, NewRootOfLeaf
<1>. QED
  BY <1>7, <1>8 DEF d, split

(* The pages after child p was split and the root took page n: the separator of
   p first becomes the greatest key p has left. *)
Updated(split, p, oldMax) ==
  WithRoot(split, UpdateKey(split[Root], oldMax, MaxKey(split, p)))

ChildSplit(n, pages, p, pos, key, w) ==
  LET updated == Updated(SplitPages(n, pages, p, pos, key, w), p,
                         Last(pages[p].cells))
  IN  WithRoot(updated, Bigger(updated, n))

LEMMA ChildSplitResult ==
  ASSUME NEW n \in Nat, NEW pages, Sound(n, pages), NEW p \in 0 .. n - 1,
         pages[p].type = "leaf", ~pages[p].root,
         pages[p].num = LeafMaxCells,
         NEW pos \in 0 .. LeafMaxCells, NEW key \in Nat, NEW w \in Words
  PROVE  LET d == LeafSplitAndInsert(Db(n, pages), p, pos, key, w)
         IN  \/ /\ d \in Lost /\ pages[Root].type = "internal"
                /\ InvalidPage \notin Words => pages[Root].num = InternalMaxCells
             \/ LET result == ChildSplit(n, pages, p, pos, key, w)
                IN  /\ d = Db(n + 1, result) /\ Sound(n + 1, result)
                    /\ pages[Root].num < InternalMaxCells
<1>. DEFINE d == LeafSplitAndInsert(Db(n, pages), p, pos, key, w)
            split == SplitPages(n, pages, p, pos, key, w)
            parent == UpdateKey(split[Root], Last(pages[p].cells),
                                MaxKey(split, p))
            updated == WithRoot(split, parent)
<1>1. p \in 1 .. n - 1 /\ pages[p].parent = Root /\ n < PagerMaxPages
  BY LeafFacts, FewPages DEF Root
<1>2. /\ pages \in UpTo(n - 1) /\ n \in Nat /\ w \in Nat
      /\ n + 1 \in Nat
  BY BTreeAssumption DEF Sound
<1>3. RootNode(n, pages[Root])
  BY <1>1 DEF Sound, RootLeaf
<1>4. \A q \in 1 .. n - 1 : BelowRoot(pages[q])
  BY DEF Sound
<1>5. Len(pages[p].cells) = LeafMaxCells
  BY LeafFacts
<1>6. SplitLeaf(Db(n, pages), p, pos, key, w) = Db(n + 1, split)
  BY <1>1, <1>2, SplitLeafResult
<1>7. /\ split \in UpTo(n)
      /\ split[p].type = "leaf" /\ ~split[p].root
      /\ split[p].parent = Root /\ split[p].num = LeftSplitCount
      /\ Len(split[p].cells) = LeftSplitCount
      /\ split[n].type = "leaf" /\ ~split[n].root
      /\ split[n].parent = Root /\ split[n].num = RightSplitCount
      /\ Len(split[n].cells) = RightSplitCount
      /\ \A q \in 0 .. n - 1 : q # p => split[q] = pages[q]
  BY SMTT(30), <1>1, <1>2, <1>5, SplitPagesType
<1>. HIDE DEF split
<1>8. \A q \in 1 .. n : BelowRoot(split[q])
  <2>1. BelowRoot(split[p]) /\ BelowRoot(split[n])
    BY <1>7, SplitCounts DEF BelowRoot
  <2>2. \A q \in 1 .. n : q = n \/ q = p \/ (q \in 1 .. n - 1 /\ q # p)
    BY <1>2
  <2>3. \A q \in 1 .. n - 1 : q # p => split[q] = pages[q]
    BY <1>7
  <2>. QED
    BY <1>4, <2>1, <2>2, <2>3
<1>9. split[Root] = pages[Root] /\ split[Root] \in Page /\ split[p] \in Page
  <2>1. Root \in 0 .. n - 1 /\ Root # p /\ Root \in 0 .. n /\ p \in 0 .. n
    BY <1>1, <1>2 DEF Root
  <2>. QED
    BY <1>7, <2>1 DEF UpTo
<1>10. MaxKey(split, p) \in Nat
  <2>1. split[p].cells \in Seq(Nat) /\ Len(split[p].cells) > 0
    BY SMTT(30), <1>7, <1>9, PageType, SplitCounts
  <2>. QED
    BY <1>7, <2>1, MaxKeyOfLeaf
<1>11. /\ parent \in Page /\ RootNode(n, parent)
       /\ parent.num = pages[Root].num
  BY <1>3, <1>9, <1>10, UpdateKeyType
<1>12. d = InternalInsert(SetPage(Db(n + 1, split), Root, parent), Root, n, w)
  <2>1. /\ Db(n, pages).pages = pages /\ Db(n, pages).num_pages = n
        /\ Db(n + 1, split).fate = "runs" /\ Db(n + 1, split).pages = split
    BY DEF Db
  <2>. QED
    BY <1>1, <1>6, <2>1 DEF LeafSplitAndInsert
<1>. HIDE DEF parent
<1>13. SetPage(Db(n + 1, split), Root, parent) = Db(n + 1, updated)
  BY SetRootDb
<1>14. /\ updated \in UpTo(n)
       /\ updated[Root] = parent
       /\ \A q \in 1 .. n : updated[q] = split[q]
  BY <1>2, <1>7, <1>11, WithRootType
<1>. HIDE DEF updated, d
<1>15. \/ /\ d \in Lost
          /\ InvalidPage \notin Words => updated[Root].num = InternalMaxCells
       \/ /\ d = Db(n + 1, WithRoot(updated, Bigger(updated, n)))
          /\ Sound(n + 1, WithRoot(updated, Bigger(updated, n)))
          /\ updated[Root].num < InternalMaxCells
  BY <1>2, <1>8, <1>11, <1>12, <1>13, <1>14, InternalInsertResult
<1>16. pages[Root].type = "internal"
  BY <1>3 DEF RootShape, RootNode
<1>. QED
  BY <1>11, <1>14, <1>15, <1>16
  DEF d, ChildSplit, Updated, updated, parent, split

WithRow(pages, p, pos, key) ==
  LET page == pages[p]
      new == [page EXCEPT !.num = @ + 1, !.cells = InsertAt(@, pos + 1, key)]
  IN  [pages EXCEPT ![p] = new]

LEMMA RoomyLeafResult ==
  ASSUME NEW n \in Nat, NEW pages, Sound(n, pages), NEW p \in 0 .. n - 1,
         pages[p].type = "leaf", pages[p].num < LeafMaxCells,
         NEW pos \in 0 .. Len(pages[p].cells), NEW key \in Nat, NEW w
  PROVE  LET result == WithRow(pages, p, pos, key)
         IN  /\ LeafInsert(Db(n, pages), p, pos, key, w) = Db(n, result)
             /\ Sound(n, result)
             /\ result[p].cells = InsertAt(pages[p].cells, pos + 1, key)
             /\ result[p].link = pages[p].link /\ result[p].type = pages[p].type
<1>. DEFINE page == pages[p]
            cells == InsertAt(page.cells, pos + 1, key)
            new == [page EXCEPT !.num = @ + 1, !.cells = cells]
            result == [pages EXCEPT ![p] = new]
<1>1. /\ page \in Page /\ page.num = Len(page.cells)
      /\ page.num \in 0 .. LeafMaxCells - 1 /\ page.cells \in Seq(Nat)
  BY SMTT(30), LeafFacts, SplitCounts
<1>2. cells \in Seq(Nat) /\ Len(cells) = page.num + 1
  BY <1>1, Inserted
<1>3. LeafInsert(Db(n, pages), p, pos, key, w) = SetPage(Db(n, pages), p, new)
  <2>1. Db(n, pages).pages = pages
    BY DEF Db
  <2>2. ~(page.num >= LeafMaxCells)
    BY <1>1, SplitCounts
  <2>. QED
    BY <2>1, <2>2 DEF LeafInsert
<1>. HIDE DEF cells
<1>4. new \in Page
  <2>1. page.num + 1 \in Nat
    BY <1>1
  <2>. QED
    BY <1>1, <1>2, <2>1 DEF Page
<1>5. /\ new.type = page.type /\ new.root = page.root
      /\ new.parent = page.parent
      /\ new.num = page.num + 1 /\ new.cells = cells
      /\ new.link = page.link
  BY <1>1 DEF Page
<1>11. result = WithRow(pages, p, pos, key)
  BY DEF WithRow, cells
<1>. HIDE DEF new
<1>10. /\ new.num \in 1 .. LeafMaxCells /\ new.num \in 0 .. LeafMaxCells
       /\ new.num = Len(new.cells)
  <2>1. page.num + 1 \in 1 .. LeafMaxCells /\ page.num + 1 \in 0 .. LeafMaxCells
    BY <1>1, SplitCounts
  <2>2. Len(new.cells) = page.num + 1
    BY <1>2, <1>5
  <2>. QED
    BY <1>5, <2>1, <2>2
<1>6. /\ n \in Nat \ {0} /\ pages \in UpTo(n - 1)
      /\ RootLeaf(n, pages[Root]) \/ RootNode(n, pages[Root])
      /\ \A q \in 1 .. n - 1 : BelowRoot(pages[q])
  BY DEF Sound
<1>7. /\ result \in UpTo(n - 1)
      /\ result[p] = new
      /\ \A q \in 0 .. n - 1 : q # p => result[q] = pages[q]
  BY <1>4, <1>6 DEF UpTo
<1>8. SetPage(Db(n, pages), p, new) = Db(n, result)
  BY SetPageDb
<1>. HIDE DEF result
<1>9. Sound(n, result)
  <2>1. CASE p = Root
    <3>1. RootLeaf(n, pages[Root])
      BY <1>6, <2>1 DEF RootShape, RootNode
    <3>2. RootLeaf(n, result[Root])
      <4>1. page.type = "leaf" /\ page.root /\ n = 1
        BY <2>1, <3>1 DEF RootLeaf
      <4>2. result[Root] = new
        BY <1>7, <2>1
      <4>3. new.type = "leaf" /\ new.root
        BY <1>5, <4>1
      <4>. QED
        BY <1>10, <4>1, <4>2, <4>3 DEF RootLeaf
    <3>3. n = 1
      BY <3>1 DEF RootLeaf
    <3>. QED
      BY <1>6, <1>7, <3>2, <3>3 DEF Sound
  <2>2. CASE p # Root
    <3>1. p \in 1 .. n - 1 /\ Root \in 0 .. n - 1
      BY <1>6, <2>2 DEF Root
    <3>2. result[Root] = pages[Root]
      BY <1>7, <2>2, <3>1
    <3>3. BelowRoot(result[p])
      <4>1. BelowRoot(page)
        BY <1>6, <3>1
      <4>. QED
        BY <1>5, <1>10, <1>7, <4>1 DEF BelowRoot
    <3>4. \A q \in 1 .. n - 1 : BelowRoot(result[q])
      BY <1>6, <1>7, <3>3
    <3>. QED
      BY <1>6, <1>7, <3>2, <3>4 DEF Sound
  <2>. QED
    BY <2>1, <2>2
<1>. QED
  BY <1>3, <1>5, <1>7, <1>8, <1>9, <1>11 DEF result, cells

Full(pages) ==
  /\ pages[Root].type = "internal"
  /\ InvalidPage \notin Words => pages[Root].num = InternalMaxCells
  /\ \E p \in Leaves(pages) : pages[p].num = LeafMaxCells

LEMMA LeafInsertResult ==
  ASSUME NEW n \in Nat, NEW pages, Sound(n, pages), NEW p \in 0 .. n - 1,
         pages[p].type = "leaf", NEW pos \in 0 .. Len(pages[p].cells),
         NEW key \in Nat, NEW w \in Words
  PROVE  LET d == LeafInsert(Db(n, pages), p, pos, key, w)
         IN  (d \in Lost /\ Full(pages)) \/ SoundDb(d)
<1>. DEFINE d == LeafInsert(Db(n, pages), p, pos, key, w)
<1>1. /\ pages[p].num = Len(pages[p].cells)
      /\ pages[p].num \in 0 .. LeafMaxCells
  BY LeafFacts
<1>2. CASE pages[p].num < LeafMaxCells
  <2>. DEFINE result == WithRow(pages, p, pos, key)
  <2>1. d = Db(n, result) /\ Sound(n, result)
    <3>. HIDE DEF d, result
    <3>1. \A new : /\ LeafInsert(Db(n, pages), p, pos, key, new) = Db(n, WithRow(pages, p, pos, key))
                   /\ Sound(n, WithRow(pages, p, pos, key))
      BY <1>2, RoomyLeafResult
    <3>. QED  BY <3>1 DEF d, result
  <2>. HIDE DEF result, d
  <2>. QED
    BY <2>1 DEF SoundDb, d
<1>3. CASE pages[p].num = LeafMaxCells
  <2>1. pos \in 0 .. LeafMaxCells
    BY <1>1, <1>3
  <2>2. d = LeafSplitAndInsert(Db(n, pages), p, pos, key, w)
    <3>1. Db(n, pages).pages = pages
      BY DEF Db
    <3>2. pages[p].num >= LeafMaxCells
      BY <1>3, SplitCounts
    <3>. QED
      BY <3>1, <3>2 DEF LeafInsert
  <2>. HIDE DEF d
  <2>3. CASE pages[p].root
    <3>1. \E result : d = Db(3, result) /\ Sound(3, result)
      <4>. DEFINE e == LeafSplitAndInsert(Db(n, pages), p, pos, key, w)
      <4>1. \E result : e = Db(3, result) /\ Sound(3, result)
        BY <1>3, <2>1, <2>3, SplitCounts, RootSplitResult
      <4>. QED
        BY <2>2, <4>1
    <3>. QED
      BY <3>1 DEF SoundDb, d
  <2>4. CASE ~pages[p].root
    <3>1. \/ /\ d \in Lost /\ pages[Root].type = "internal"
             /\ InvalidPage \notin Words =>
                  pages[Root].num = InternalMaxCells
          \/ \E result : d = Db(n + 1, result) /\ Sound(n + 1, result)
      <4>. DEFINE e == LeafSplitAndInsert(Db(n, pages), p, pos, key, w)
      <4>1. \/ /\ e \in Lost /\ pages[Root].type = "internal"
               /\ InvalidPage \notin Words =>
                    pages[Root].num = InternalMaxCells
            \/ \E result : e = Db(n + 1, result) /\ Sound(n + 1, result)
        BY <1>3, <2>1, <2>4, SplitCounts, ChildSplitResult
      <4>. QED
        BY <2>2, <4>1
    <3>2. p \in Leaves(pages)
      BY DEF Leaves, Sound, UpTo
    <3>. QED
      BY <1>3, <3>1, <3>2 DEF SoundDb, Full, d
  <2>. QED
    BY <2>3, <2>4
<1>. QED
  BY <1>1, <1>2, <1>3, SplitCounts

-----------------------------------------------------------------------------
(* The steps of the specification *)

LEMMA Fates ==
  /\ \A lost \in Lost : lost.fate \in {"exits", "outside"}
  /\ Closed.fate = "closed"
  /\ \A n, pages : /\ Db(n, pages).fate = "runs"
                   /\ Db(n, pages).num_pages = n
                   /\ Db(n, pages).pages = pages
BY DEF Lost, Exited, Outside, Closed, Db

LEMMA RunningIsSound ==
  ASSUME Inv, Running
  PROVE  \E n, pages : n \in Nat /\ db = Db(n, pages) /\ Sound(n, pages)
<1>1. db \notin Lost \cup {Closed}
  BY Fates DEF Running
<1>2. PICK n, pages : db = Db(n, pages) /\ Sound(n, pages)
  BY <1>1 DEF Inv, SoundDb
<1>3. n \in Nat
  BY <1>2 DEF Sound
<1>. QED
  BY <1>2, <1>3

LEMMA InsertResult ==
  ASSUME Inv, NEW key \in Keys, NEW w \in Words, Insert(key, w)
  PROVE  (db' \in Lost /\ Full(db.pages)) \/ SoundDb(db')
<1>1. PICK n, pages : n \in Nat /\ db = Db(n, pages) /\ Sound(n, pages)
  BY RunningIsSound DEF Insert
<1>2. db.pages = pages
  BY <1>1, Fates
<1>. DEFINE leaf == FindLeaf(pages, key)
<1>3. leaf \in 0 .. n - 1 /\ pages[leaf].type = "leaf"
  BY <1>1, FindLeafFinds
<1>4. pages[leaf].cells \in Seq(Nat)
  BY <1>1, <1>3, LeafFacts
<1>. HIDE DEF leaf
<1>5. PICK pos \in LeafPositions(pages[leaf], key) :
        db' = db \/ db' = LeafInsert(db, leaf, pos, key, w)
  BY <1>2 DEF Insert, leaf
<1>6. pos \in 0 .. Len(pages[leaf].cells) /\ key \in Nat
  BY <1>4, <1>5, LeafPositionRange, BTreeAssumption
<1>7. CASE db' = db
  BY <1>1, <1>7 DEF SoundDb
<1>8. CASE db' = LeafInsert(db, leaf, pos, key, w)
  BY <1>1, <1>2, <1>3, <1>6, <1>8, LeafInsertResult
<1>. QED
  BY <1>5, <1>7, <1>8

LEMMA NewFile ==
  ASSUME NEW w \in Words
  PROVE  LET d == GetPage([Closed EXCEPT !.fate = "runs"], Root, w)
         IN  SoundDb(SetPage(d, Root, [LeafInit(d.pages[Root]) EXCEPT !.root = TRUE]))
<1>. DEFINE empty == [Closed EXCEPT !.fate = "runs"]
            d == GetPage(empty, Root, w)
            pages == [q \in 0 .. 0 |-> FreshPage(w)]
            root == [LeafInit(FreshPage(w)) EXCEPT !.root = TRUE]
<1>1. empty = Db(0, NoPages)
  BY DEF Closed, Db
<1>2. d = Db(1, pages)
  <2>1. GetPage(Db(0, NoPages), 0, w) =
          Db(0 + 1, [q \in 0 .. 0 |-> IF q < 0 THEN NoPages[q]
                                      ELSE FreshPage(w)])
    BY SmallPages DEF GetPage, Db
  <2>2. d = GetPage(Db(0, NoPages), 0, w) /\ 0 + 1 = 1
    BY <1>1 DEF Root
  <2>4. [q \in 0 .. 0 |-> IF q < 0 THEN NoPages[q] ELSE FreshPage(w)] = pages
    OBVIOUS
  <2>. QED
    BY <2>1, <2>2, <2>4
<1>3. d.pages = pages /\ pages[Root] = FreshPage(w)
  BY <1>2, Fates DEF Root
<1>4. root \in Page /\ RootLeaf(1, root)
  <2>1. w \in Nat
    BY BTreeAssumption
  <2>. DEFINE leaf == LeafInit(FreshPage(w))
  <2>2. /\ leaf \in Page /\ leaf.type = "leaf"
        /\ leaf.num = 0 /\ leaf.cells = <<>>
    BY <2>1, NewLeafPage
  <2>. HIDE DEF leaf
  <2>3. root = [leaf EXCEPT !.root = TRUE]
    BY DEF leaf
  <2>. HIDE DEF root
  <2>4. /\ root \in Page /\ root.type = "leaf" /\ root.root
        /\ root.num = 0 /\ root.cells = <<>>
    BY <2>2, <2>3 DEF Page
  <2>5. Len(<<>>) = 0
    OBVIOUS
  <2>. QED
    BY <2>2, <2>4, <2>5, SplitCounts DEF RootLeaf
<1>. HIDE DEF root, pages
<1>5. SetPage(Db(1, pages), Root, root) = Db(1, WithRoot(pages, root))
  BY SetRootDb
<1>6. /\ WithRoot(pages, root) \in UpTo(0)
      /\ WithRoot(pages, root)[Root] = root
  BY <1>4 DEF WithRoot, UpTo, Root, pages
<1>7. Sound(1, WithRoot(pages, root))
  <2>1. 1 - 1 = 0 /\ 1 .. 0 = {}
    OBVIOUS
  <2>. QED
    BY <1>4, <1>6, <2>1 DEF Sound
<1>. QED
  BY <1>2, <1>3, <1>5, <1>7 DEF SoundDb, root

LEMMA OpenResult ==
  ASSUME Inv, NEW w \in Words, Open(w)
  PROVE  SoundDb(db')
<1>1. CASE disk = EmptyFile
  <2>1. disk.num_pages = 0
    BY <1>1 DEF EmptyFile
  <2>. QED
    BY <2>1, NewFile DEF Open
<1>2. CASE disk # EmptyFile
  <2>1. PICK n, pages : /\ disk = [num_pages |-> n, pages |-> pages]
                        /\ Sound(n, pages)
    BY <1>2 DEF Inv
  <2>2. disk.num_pages = n /\ disk.pages = pages /\ n # 0
    BY <2>1 DEF Sound
  <2>3. db' = Db(n, pages)
    BY <2>2 DEF Open, Db
  <2>. QED
    BY <2>1, <2>3 DEF SoundDb
<1>. QED
  BY <1>1, <1>2

LEMMA Inductive ==
  ASSUME Inv, [Next]_vars
  PROVE  Inv'
<1>1. ASSUME NEW w \in Words, Open(w)
      PROVE  Inv'
  BY <1>1, OpenResult DEF Open, Inv
<1>2. ASSUME NEW key \in Keys, NEW w \in Words, Insert(key, w)
      PROVE  Inv'
  BY <1>2, InsertResult DEF Insert, Inv
<1>3. CASE Select \/ UNCHANGED vars
  BY <1>3 DEF Select, vars, Inv
<1>4. CASE Close
  <2>1. PICK n, pages : n \in Nat /\ db = Db(n, pages) /\ Sound(n, pages)
    BY <1>4, RunningIsSound DEF Close
  <2>2. disk' = [num_pages |-> n, pages |-> pages] /\ db' = Closed
    BY <1>4, <2>1, Fates DEF Close
  <2>. QED
    BY <2>1, <2>2 DEF Inv
<1>5. CASE Kill
  BY <1>5 DEF Kill, Inv
<1>. QED
  BY <1>1, <1>2, <1>3, <1>4, <1>5 DEF Next

(* Every open database and every saved one is sound. *)
THEOREM AlwaysSound == Spec => []Inv
<1>1. Init => Inv
  BY DEF Init, Inv
<1>2. Inv /\ [Next]_vars => Inv'
  BY Inductive
<1>. QED
  BY <1>1, <1>2, PTL DEF Spec

-----------------------------------------------------------------------------
(* What follows for users of the tree *)

LEMMA SoundIsTree ==
  ASSUME NEW n, NEW pages, Sound(n, pages)
  PROVE  IsTree(pages)
<1>1. /\ n \in Nat \ {0} /\ DOMAIN pages = 0 .. n - 1
      /\ RootLeaf(n, pages[Root]) \/ RootNode(n, pages[Root])
      /\ \A p \in 1 .. n - 1 : BelowRoot(pages[p])
  BY DEF Sound, UpTo
<1>2. DOMAIN pages \ {Root} = 1 .. n - 1
  BY <1>1 DEF Root
<1>3. CASE RootLeaf(n, pages[Root])
  <2>1. 1 .. n - 1 = {}
    BY <1>1, <1>3 DEF RootLeaf
  <2>. QED
    BY <1>2, <1>3, <2>1 DEF IsTree, RootLeaf
<1>4. CASE RootNode(n, pages[Root])
  <2>1. Cardinality(1 .. n - 1) = pages[Root].num + 1
    <3>1. n - 1 = pages[Root].num + 1 /\ n - 1 \in Nat /\ n - 1 >= 1
      BY <1>4 DEF RootShape, RootNode, InternalMaxCells
    <3>2. Cardinality(1 .. n - 1) = (n - 1) - 1 + 1
      BY <3>1, FS_Interval
    <3>. QED
      BY <3>1, <3>2
  <2>. QED
    BY <1>1, <1>2, <1>4, <2>1 DEF IsTree, RootShape, RootNode, BelowRoot
<1>. QED
  BY <1>1, <1>3, <1>4

(* TreeShape, of btree_node_leaf_insert and all it calls: in memory and in the
   file there is always one root and below it only leaves, each with exactly
   one pointer to it. *)
THEOREM TreeIsKept == Spec => []TreeShape
<1>1. Inv => TreeShape
  <2>1. ASSUME Inv, Running
        PROVE  IsTree(db.pages)
    BY <2>1, RunningIsSound, SoundIsTree, Fates
  <2>2. ASSUME Inv, disk.num_pages > 0
        PROVE  IsTree(disk.pages)
    <3>1. disk # EmptyFile
      BY <2>2 DEF EmptyFile
    <3>2. PICK n, pages : /\ disk = [num_pages |-> n, pages |-> pages]
                          /\ Sound(n, pages)
      BY <2>2, <3>1 DEF Inv
    <3>. QED
      BY <3>2, SoundIsTree
  <2>. QED
    BY <2>1, <2>2 DEF TreeShape
<1>. QED
  BY <1>1, AlwaysSound, PTL

(* PagesOK, the store of TypeOK: num_pages is the number of pages there are,
   and num_cells of a leaf the number of its cells. *)
THEOREM PagesAreOK == Spec => []PagesOK
<1>1. ASSUME NEW n, NEW pages, Sound(n, pages), NEW store,
             store.num_pages = n, store.pages = pages
      PROVE  StoreOK(store)
  <2>1. ASSUME NEW p \in Leaves(pages)
        PROVE  pages[p].num = Len(pages[p].cells)
    <3>1. p \in 0 .. n - 1 /\ pages[p].type = "leaf"
      BY <1>1, <2>1 DEF Leaves, Sound, UpTo
    <3>. QED
      BY <1>1, <3>1, LeafFacts
  <2>. QED
    BY <1>1, <2>1 DEF StoreOK, Sound, UpTo
<1>2. ASSUME NEW store, store.num_pages = 0, store.pages = NoPages
      PROVE  StoreOK(store)
  <2>1. DOMAIN NoPages = {} /\ 0 .. 0 - 1 = {}
    BY DEF NoPages
  <2>2. NoPages \in [0 .. 0 - 1 -> Page]
    BY <2>1 DEF NoPages
  <2>. QED
    BY <1>2, <2>1, <2>2 DEF StoreOK, Leaves
<1>3. Inv => StoreOK(db)
  <2>1. \A d \in Lost \cup {Closed} : d.num_pages = 0 /\ d.pages = NoPages
    BY DEF Lost, Exited, Outside, Closed
  <2>. QED
    BY <1>1, <1>2, <2>1, Fates DEF Inv, SoundDb
<1>4. Inv => StoreOK(disk)
  BY <1>1, <1>2 DEF Inv, EmptyFile
<1>. QED
  BY <1>3, <1>4, AlwaysSound, PTL DEF PagesOK

(* ExitOnlyWhenFull, of statement_execute_insert: the process survives every
   insert that finds room in the leaf or in the root above it.  The words in
   memory nobody wrote to must not be BTREE_NODE_INTERNAL_INVALID_PAGE_NUM:
   btree_node_internal_child looks at the cell it is about to fill, and ends
   the process if by chance it reads that value there. *)
THEOREM SurvivesWhileThereIsRoom ==
  ASSUME InvalidPage \notin Words
  PROVE  Spec => ExitOnlyWhenFull
<1>. DEFINE Step ==
       Running /\ db'.fate \in {"exits", "outside", "recurses"} =>
         /\ db.pages[Root].type = "internal"
         /\ db.pages[Root].num = InternalMaxCells
         /\ \E p \in Leaves(db.pages) : db.pages[p].num = LeafMaxCells
<1>1. Inv /\ [Next]_vars => [Step]_vars
  <2>. SUFFICES ASSUME Inv, Next, Running, db'.fate \in {"exits", "outside", "recurses"}
                PROVE  Full(db.pages)
    BY DEF Full
  <2>1. ~SoundDb(db') /\ db' # Closed
    BY Fates DEF SoundDb
  <2>2. CASE \E w \in Words : Open(w)
    BY <2>2 DEF Open
  <2>3. CASE \E key \in Keys, w \in Words : Insert(key, w)
    BY <2>1, <2>3, InsertResult
  <2>4. CASE Select
    BY <2>4 DEF Select, Running
  <2>5. CASE Close \/ Kill
    BY <2>1, <2>5 DEF Close, Kill
  <2>. QED
    BY <2>2, <2>3, <2>4, <2>5 DEF Next
<1>. QED
  BY <1>1, AlwaysSound, PTL DEF Spec, ExitOnlyWhenFull

(* NoRunaway, of btree_node_internal_split_and_insert: it calls itself on every
   path, but never a third time.  The second call always meets a node whose
   right child it has just moved away, and btree_node_internal_child ends the
   process there. *)
THEOREM RecursionEnds == Spec => []NoRunaway
<1>1. Inv => NoRunaway
  BY Fates DEF Inv, SoundDb, NoRunaway
<1>. QED
  BY <1>1, AlwaysSound, PTL

-----------------------------------------------------------------------------
(* What an insert finds in memory nobody wrote to *)

(* Sound, without what it says of the words nobody wrote. *)
Tree(n, pages) ==
  /\ n \in Nat \ {0}
  /\ pages \in UpTo(n - 1)
  /\ RootLeaf(n, pages[Root]) \/ RootShape(n, pages[Root])
  /\ \A p \in 1 .. n - 1 : BelowRoot(pages[p])

(* Two pages that hold the same where something was written. *)
SamePage(a, b) ==
  /\ a.type = b.type /\ a.root = b.root
  /\ a.num = b.num /\ a.link = b.link
  /\ ~a.root => a.parent = b.parent
  /\ a.type = "leaf" => a.cells = b.cells
  /\ a.type # "leaf" =>
       \A j \in 0 .. a.num - 1 : a.kids[j] = b.kids[j] /\ a.seps[j] = b.seps[j]

Alike(n, a, b) == \A q \in 0 .. n - 1 : SamePage(a[q], b[q])

(* The word a new child of the root overwrites is InvalidPage. *)
FindsInvalid(pages) ==
  /\ pages[Root].type = "internal"
  /\ pages[Root].kids[pages[Root].num] = InvalidPage

(* The outcomes of one insert into two such databases. *)
SameOutcome(a, b, c, d) ==
  \/ Outcome(c) = Outcome(d)
  \/ FindsInvalid(a) /\ Outcome(c) = Ended
  \/ FindsInvalid(b) /\ Outcome(d) = Ended

LEMMA SameIsWritten ==
  ASSUME NEW a, NEW b, SamePage(a, b)
  PROVE  Written(a) = Written(b)
<1>. DEFINE body(page) == [j \in 0 .. page.num - 1 |->
                             <<page.kids[j], page.seps[j]>>]
<1>1. a.type # "leaf" => body(a) = body(b)
  BY DEF SamePage
<1>. HIDE DEF body
<1>2. /\ a.type = b.type /\ a.root = b.root
      /\ a.num = b.num /\ a.link = b.link
      /\ ~a.root => a.parent = b.parent
      /\ a.type = "leaf" => a.cells = b.cells
  BY DEF SamePage
<1>3. \A page : Written(page) =
        [ type |-> page.type, root |-> page.root, num |-> page.num,
          link |-> page.link, parent |-> IF page.root THEN 0 ELSE page.parent,
          body |-> IF page.type = "leaf" THEN page.cells ELSE body(page) ]
  BY DEF Written, body
<1>. QED
  BY <1>1, <1>2, <1>3

LEMMA AlikeOutcome ==
  ASSUME NEW n, NEW a, NEW b, DOMAIN a = 0 .. n - 1, DOMAIN b = 0 .. n - 1,
         Alike(n, a, b)
  PROVE  Outcome(Db(n, a)) = Outcome(Db(n, b))
<1>1. \A q \in 0 .. n - 1 : Written(a[q]) = Written(b[q])
  BY SameIsWritten DEF Alike
<1>2. [p \in DOMAIN a |-> Written(a[p])] = [p \in DOMAIN b |-> Written(b[p])]
  BY <1>1
<1>3. ASSUME NEW pages
      PROVE  Outcome(Db(n, pages)) =
               [runs |-> TRUE,
                pages |-> [p \in DOMAIN pages |-> Written(pages[p])]]
  <2>. DEFINE d == Db(n, pages)
  <2>1. d.fate = "runs" /\ d.pages = pages
    BY Fates
  <2>. HIDE DEF d
  <2>2. Outcome(d) = [runs |-> TRUE,
                      pages |-> [p \in DOMAIN d.pages |-> Written(d.pages[p])]]
    BY <2>1, Zenon DEF Outcome
  <2>. QED
    BY <2>1, <2>2 DEF d
<1>. QED
  BY <1>2, <1>3

LEMMA LostOutcome ==
  ASSUME NEW d \in Lost
  PROVE  Outcome(d) = Ended
BY Fates DEF Outcome

(* A leaf with room is filled whatever memory holds. *)
LEMMA RoomyLeafAlike ==
  ASSUME NEW n, NEW a \in UpTo(n - 1), NEW b \in UpTo(n - 1), Alike(n, a, b),
         NEW p \in 0 .. n - 1, a[p].num < LeafMaxCells, a[p].type = "leaf",
         a[p].num \in Nat, NEW pos, NEW key, NEW v, NEW w
  PROVE  Outcome(LeafInsert(Db(n, a), p, pos, key, v))
           = Outcome(LeafInsert(Db(n, b), p, pos, key, w))
<1>1. SamePage(a[p], b[p]) /\ a[p] \in Page /\ b[p] \in Page
  BY DEF Alike, UpTo
<1>2. ~(a[p].num >= LeafMaxCells) /\ ~(b[p].num >= LeafMaxCells)
  BY <1>1, SplitCounts DEF SamePage
<1>3. /\ LeafInsert(Db(n, a), p, pos, key, v) = Db(n, WithRow(a, p, pos, key))
      /\ LeafInsert(Db(n, b), p, pos, key, w) = Db(n, WithRow(b, p, pos, key))
  <2>. SUFFICES ASSUME NEW pages, ~(pages[p].num >= LeafMaxCells), NEW x
                PROVE  LeafInsert(Db(n, pages), p, pos, key, x)
                         = Db(n, WithRow(pages, p, pos, key))
    BY <1>2
  <2>. DEFINE page == pages[p]
              new == [page EXCEPT !.num = @ + 1,
                                  !.cells = InsertAt(@, pos + 1, key)]
  <2>1. LeafInsert(Db(n, pages), p, pos, key, x) = SetPage(Db(n, pages), p, new)
    <3>1. Db(n, pages).pages = pages
      BY Fates
    <3>. QED
      BY <3>1 DEF LeafInsert
  <2>. HIDE DEF new
  <2>2. SetPage(Db(n, pages), p, new) = Db(n, [pages EXCEPT ![p] = new])
    BY SetPageDb
  <2>. QED
    BY <2>1, <2>2 DEF WithRow, new
<1>. DEFINE row(page) ==
       [page EXCEPT !.num = @ + 1, !.cells = InsertAt(@, pos + 1, key)]
<1>4. SamePage(row(a[p]), row(b[p]))
  BY <1>1 DEF SamePage, Page
<1>5. \A pages : WithRow(pages, p, pos, key) = [pages EXCEPT ![p] = row(pages[p])]
  BY DEF WithRow
<1>. HIDE DEF row
<1>6. /\ DOMAIN WithRow(a, p, pos, key) = 0 .. n - 1
      /\ DOMAIN WithRow(b, p, pos, key) = 0 .. n - 1
      /\ Alike(n, WithRow(a, p, pos, key), WithRow(b, p, pos, key))
  BY <1>4, <1>5 DEF Alike, UpTo
<1>. QED
  BY <1>3, <1>6, AlikeOutcome

(* The two halves of a leaf are the same. *)
LEMMA SplitsAlike ==
  ASSUME NEW n \in Nat, NEW a \in UpTo(n - 1), NEW b \in UpTo(n - 1),
         Alike(n, a, b), NEW p \in 0 .. n - 1, a[p].type = "leaf",
         Len(a[p].cells) = LeafMaxCells,
         NEW pos \in 0 .. LeafMaxCells, NEW key \in Nat,
         NEW v \in Nat, NEW w \in Nat
  PROVE  LET s == SplitPages(n, a, p, pos, key, v)
             t == SplitPages(n, b, p, pos, key, w)
         IN  /\ \A q \in 0 .. n - 1 : SamePage(s[q], t[q])
             /\ ~a[p].root => Alike(n + 1, s, t)
             /\ s[n].type = t[n].type /\ s[n].cells = t[n].cells
             /\ s[n].link = t[n].link
<1>. DEFINE s == SplitPages(n, a, p, pos, key, v)
            t == SplitPages(n, b, p, pos, key, w)
<1>1. SamePage(a[p], b[p]) /\ a[p] \in Page /\ b[p] \in Page
  BY DEF Alike, UpTo
<1>2. b[p].type = "leaf" /\ Len(b[p].cells) = LeafMaxCells
  BY <1>1 DEF SamePage
<1>3. /\ LowerHalf(a[p], pos, key) = LowerHalf(b[p], pos, key)
      /\ UpperHalf(a[p], pos, key) = UpperHalf(b[p], pos, key)
  BY <1>1 DEF SamePage, LowerHalf, UpperHalf
<1>4. ASSUME NEW q \in 0 .. n - 1
      PROVE  SamePage(s[q], t[q])
  <2>1. CASE q = p
    <3>. DEFINE lower == LowerHalf(a[p], pos, key)
    <3>1. /\ s[q] = OldLeaf(a[p], lower, n) /\ t[q] = OldLeaf(b[p], lower, n)
      BY <1>3, <2>1 DEF SplitPages
    <3>. HIDE DEF lower, s, t
    <3>2. SamePage(OldLeaf(a[p], lower, n), OldLeaf(b[p], lower, n))
      BY <1>1 DEF SamePage, OldLeaf, Page
    <3>. QED
      BY <3>1, <3>2
  <2>2. CASE q # p
    BY <2>2 DEF SplitPages, Alike
  <2>. QED
    BY <2>1, <2>2
<1>5. /\ s \in UpTo(n) /\ s[n].type = "leaf" /\ ~s[n].root
      /\ s[n].parent = a[p].parent /\ s[n].num = RightSplitCount
      /\ s[n].cells = UpperHalf(a[p], pos, key)
      /\ s[n].link = a[p].link
  BY SMTT(30), SplitPagesType
<1>6. /\ t \in UpTo(n) /\ t[n].type = "leaf" /\ ~t[n].root
      /\ t[n].parent = b[p].parent /\ t[n].num = RightSplitCount
      /\ t[n].cells = UpperHalf(b[p], pos, key)
      /\ t[n].link = b[p].link
  BY SMTT(30), <1>2, SplitPagesType
<1>. HIDE DEF s, t
<1>7. s[n].root = t[n].root
  <2>1. s[n] \in Page /\ t[n] \in Page
    BY <1>5, <1>6 DEF UpTo
  <2>2. s[n].root \in BOOLEAN /\ t[n].root \in BOOLEAN
    BY <2>1, PageType
  <2>. QED
    BY <1>5, <1>6, <2>2
<1>8. s[n].cells = t[n].cells /\ s[n].link = t[n].link
  BY <1>1, <1>3, <1>5, <1>6 DEF SamePage
<1>9. ~a[p].root => SamePage(s[n], t[n])
  BY <1>1, <1>5, <1>6, <1>7, <1>8 DEF SamePage
<1>10. \A q \in 0 .. (n + 1) - 1 : q \in 0 .. n - 1 \/ q = n
  OBVIOUS
<1>11. ~a[p].root => Alike(n + 1, s, t)
  BY <1>4, <1>9, <1>10 DEF Alike
<1>. QED
  BY <1>4, <1>5, <1>6, <1>8, <1>11 DEF s, t

(* Two leaves below a root. *)
LEMMA BelowRootAlike ==
  ASSUME NEW a \in Page, NEW b \in Page, BelowRoot(a), BelowRoot(b),
         a.cells = b.cells, a.link = b.link
  PROVE  SamePage(a, b)
<1>1. a.root = b.root
  BY PageType DEF BelowRoot
<1>. QED
  BY <1>1 DEF BelowRoot, SamePage

(* A new root that took over the cells of the same two leaves. *)
LEMMA HeightenedAlike ==
  ASSUME NEW s, NEW t, NEW a, NEW b, Sound(3, a), Sound(3, b),
         Heightened(s, a), Heightened(t, b),
         SamePage(s[0], t[0]), s[0].type = "leaf",
         s[1].cells = t[1].cells, s[1].link = t[1].link
  PROVE  Alike(3, a, b)
<1>1. /\ a \in [0 .. 2 -> Page] /\ b \in [0 .. 2 -> Page]
      /\ \A q \in 1 .. 2 : BelowRoot(a[q]) /\ BelowRoot(b[q])
  BY DEF Sound, UpTo
<1>2. RootShape(3, a[Root]) /\ RootShape(3, b[Root])
  BY DEF Sound, RootLeaf, RootNode
<1>3. /\ a[1].cells = b[1].cells /\ a[1].link = b[1].link
      /\ a[2].cells = b[2].cells /\ a[2].link = b[2].link
  BY DEF Heightened, SamePage
<1>4. SamePage(a[1], b[1]) /\ SamePage(a[2], b[2])
  BY <1>1, <1>3, BelowRootAlike
<1>5. SamePage(a[0], b[0])
  <2>1. /\ a[0].type = "internal" /\ b[0].type = "internal"
        /\ a[0].root /\ b[0].root
        /\ a[0].num = 1 /\ b[0].num = 1 /\ a[0].link = 1 /\ b[0].link = 1
        /\ a[0].kids[0] = 2 /\ b[0].kids[0] = 2
        /\ a[0].seps[0] = b[0].seps[0]
    BY <1>2, <1>3 DEF Heightened, RootShape, Root
  <2>2. a[0].root = b[0].root
    <3>1. a[0] \in Page /\ b[0] \in Page
      BY <1>1
    <3>2. a[0].root \in BOOLEAN /\ b[0].root \in BOOLEAN
      BY <3>1, PageType
    <3>. QED
      BY <2>1, <3>2
  <2>3. \A j \in 0 .. a[0].num - 1 : j = 0
    BY <2>1
  <2>. QED
    BY <2>1, <2>2, <2>3 DEF SamePage
<1>6. \A q \in 0 .. 3 - 1 : q \in {0, 1, 2}
  OBVIOUS
<1>. QED
  BY <1>4, <1>5, <1>6 DEF Alike

LEMMA RootSplitAlike ==
  ASSUME NEW n \in Nat, NEW a, NEW b, Sound(n, a), Sound(n, b), Alike(n, a, b),
         NEW p \in 0 .. n - 1, a[p].type = "leaf", a[p].root,
         a[p].num = LeafMaxCells,
         NEW pos \in 0 .. LeafMaxCells, NEW key \in Nat,
         NEW v \in Words, NEW w \in Words
  PROVE  Outcome(LeafSplitAndInsert(Db(n, a), p, pos, key, v))
           = Outcome(LeafSplitAndInsert(Db(n, b), p, pos, key, w))
<1>. DEFINE s == SplitPages(n, a, p, pos, key, v)
            t == SplitPages(n, b, p, pos, key, w)
            c == LeafSplitAndInsert(Db(n, a), p, pos, key, v)
            d == LeafSplitAndInsert(Db(n, b), p, pos, key, w)
<1>1. n = 1 /\ p = 0 /\ Len(a[p].cells) = LeafMaxCells
  BY LeafFacts DEF Root
<1>2. v \in Nat /\ w \in Nat /\ a \in UpTo(n - 1) /\ b \in UpTo(n - 1)
  BY BTreeAssumption DEF Sound
<1>3. b[p].type = "leaf" /\ b[p].root /\ b[p].num = LeafMaxCells
  BY DEF Alike, SamePage
<1>4. PICK x : c = Db(3, x) /\ Sound(3, x) /\ Heightened(s, x)
  BY RootSplitResult
<1>5. PICK y : d = Db(3, y) /\ Sound(3, y) /\ Heightened(t, y)
  BY <1>3, RootSplitResult
<1>6. /\ \A q \in 0 .. n - 1 : SamePage(s[q], t[q])
      /\ s[n].cells = t[n].cells /\ s[n].link = t[n].link
  BY <1>1, <1>2, SplitsAlike
<1>7. s[p].type = "leaf"
  BY SMTT(30), <1>1, <1>2, SplitPagesType
<1>. HIDE DEF s, t, c, d
<1>8. Alike(3, x, y)
  BY <1>1, <1>4, <1>5, <1>6, <1>7, HeightenedAlike
<1>9. DOMAIN x = 0 .. 3 - 1 /\ DOMAIN y = 0 .. 3 - 1
  BY <1>4, <1>5 DEF Sound, UpTo
<1>10. Outcome(Db(3, x)) = Outcome(Db(3, y))
  BY <1>8, <1>9, AlikeOutcome
<1>. QED
  BY <1>4, <1>5, <1>10 DEF c, d

(* The greatest key of a leaf, whatever the cells hold. *)
LEMMA MaxKeyHere ==
  ASSUME NEW pages, NEW p, pages[p].type = "leaf"
  PROVE  MaxKey(pages, p) = Last(pages[p].cells)
BY DEF MaxKey, StepRight

(* A full leaf below the root is split, and the root handed the new one. *)
HandsOver(n, pages, p, pos, key, w) ==
  LET split == SplitPages(n, pages, p, pos, key, w)
      updated == Updated(split, p, Last(pages[p].cells))
  IN  /\ LeafSplitAndInsert(Db(n, pages), p, pos, key, w)
           = InternalInsert(Db(n + 1, updated), Root, n, w)
      /\ updated \in UpTo(n)
      /\ updated[Root] = UpdateKey(pages[Root], Last(pages[p].cells),
                                   Last(LowerHalf(pages[p], pos, key)))
      /\ RootShape(n, updated[Root])
      /\ updated[Root].num = pages[Root].num
      /\ updated[Root].kids = pages[Root].kids
      /\ \A q \in 1 .. n : updated[q] = split[q] /\ BelowRoot(updated[q])

LEMMA UpdateKeyShape ==
  ASSUME NEW n, NEW page \in Page, RootShape(n, page), NEW oldKey,
         NEW newKey \in Nat
  PROVE  LET node == UpdateKey(page, oldKey, newKey)
         IN  /\ node \in Page /\ RootShape(n, node)
             /\ node.num = page.num /\ node.kids = page.kids
             /\ node.link = page.link
<1>. DEFINE index == FindChild(page, oldKey)
            seps == [page.seps EXCEPT ![index] = newKey]
            node == [page EXCEPT !.seps = seps]
<1>1. UpdateKey(page, oldKey, newKey) = node
  BY DEF UpdateKey
<1>2. seps \in [CellIndex -> Nat]
  <2>1. page.seps \in [CellIndex -> Nat]
    BY PageType
  <2>. HIDE DEF index
  <2>. QED
    BY <2>1
<1>. HIDE DEF seps
<1>3. node \in Page
  BY <1>2 DEF Page
<1>4. /\ node.type = page.type /\ node.root = page.root
      /\ node.num = page.num /\ node.link = page.link /\ node.kids = page.kids
  BY DEF Page
<1>. HIDE DEF node
<1>5. \A i : Child(node, i) = Child(page, i)
  BY <1>4 DEF Child
<1>6. RootShape(n, node)
  BY <1>4, <1>5 DEF RootShape
<1>. QED
  BY <1>1, <1>3, <1>4, <1>6

LEMMA LeafIsHanded ==
  ASSUME NEW n, NEW pages, Tree(n, pages), NEW p \in 1 .. n - 1,
         pages[p].num = LeafMaxCells,
         NEW pos \in 0 .. LeafMaxCells, NEW key \in Nat, NEW w \in Nat
  PROVE  HandsOver(n, pages, p, pos, key, w)
<1>. DEFINE split == SplitPages(n, pages, p, pos, key, w)
            lower == LowerHalf(pages[p], pos, key)
<1>1. /\ n \in Nat /\ pages \in UpTo(n - 1) /\ p \in 0 .. n - 1 /\ p # Root
      /\ RootShape(n, pages[Root]) /\ n < PagerMaxPages
      /\ pages[p] \in Page /\ pages[Root] \in Page
      /\ \A q \in 1 .. n - 1 : BelowRoot(pages[q])
  <2>1. n \in Nat /\ pages \in UpTo(n - 1) /\ p \in 0 .. n - 1 /\ p # Root
    BY DEF Tree, Root
  <2>2. RootShape(n, pages[Root])
    BY DEF Tree, RootLeaf
  <2>3. n < PagerMaxPages
    BY <2>2, SmallPages DEF RootShape, InternalMaxCells
  <2>. QED
    BY <2>1, <2>2, <2>3 DEF Tree, UpTo, Root
<1>2. /\ pages[p].type = "leaf" /\ ~pages[p].root /\ pages[p].parent = Root
      /\ Len(pages[p].cells) = LeafMaxCells
  BY <1>1 DEF BelowRoot
<1>3. SplitLeaf(Db(n, pages), p, pos, key, w) = Db(n + 1, split)
  BY <1>1, SplitLeafResult
<1>4. /\ split \in UpTo(n)
      /\ split[p].type = "leaf" /\ ~split[p].root
      /\ split[p].parent = Root /\ split[p].num = LeftSplitCount
      /\ split[p].cells = lower /\ Len(split[p].cells) = LeftSplitCount
      /\ split[n].type = "leaf" /\ ~split[n].root
      /\ split[n].parent = Root /\ split[n].num = RightSplitCount
      /\ Len(split[n].cells) = RightSplitCount
      /\ \A q \in 0 .. n - 1 : q # p => split[q] = pages[q]
  BY SMTT(30), <1>1, <1>2, SplitPagesType
<1>5. lower \in Seq(Nat) /\ Len(lower) = LeftSplitCount
  BY <1>1, <1>2, Halves
<1>. HIDE DEF split, lower
<1>6. \A q \in 1 .. n : BelowRoot(split[q])
  <2>1. BelowRoot(split[p]) /\ BelowRoot(split[n])
    BY <1>4, SplitCounts DEF BelowRoot
  <2>2. \A q \in 1 .. n : q = n \/ q = p \/ (q \in 1 .. n - 1 /\ q # p)
    BY <1>1
  <2>3. \A q \in 1 .. n - 1 : q # p => split[q] = pages[q]
    BY <1>4
  <2>. QED
    BY <1>1, <2>1, <2>2, <2>3
<1>7. split[Root] = pages[Root]
  BY <1>1, <1>4 DEF Root
<1>8. MaxKey(split, p) = Last(lower) /\ Last(lower) \in Nat
  BY <1>4, <1>5, MaxKeyHere, LastCell, SplitCounts
<1>. DEFINE d == LeafSplitAndInsert(Db(n, pages), p, pos, key, w)
            parent == UpdateKey(split[Root], Last(pages[p].cells),
                                MaxKey(split, p))
            updated == WithRoot(split, parent)
<1>9. d = InternalInsert(SetPage(Db(n + 1, split), Root, parent), Root, n, w)
  <2>1. /\ Db(n, pages).pages = pages /\ Db(n, pages).num_pages = n
        /\ Db(n + 1, split).fate = "runs" /\ Db(n + 1, split).pages = split
    BY Fates
  <2>. QED
    BY <1>2, <1>3, <2>1 DEF LeafSplitAndInsert
<1>10. /\ parent \in Page /\ RootShape(n, parent)
       /\ parent.num = pages[Root].num /\ parent.kids = pages[Root].kids
  BY <1>1, <1>7, <1>8, UpdateKeyShape
<1>11. parent = UpdateKey(pages[Root], Last(pages[p].cells), Last(lower))
  BY <1>7, <1>8
<1>. HIDE DEF parent
<1>12. SetPage(Db(n + 1, split), Root, parent) = Db(n + 1, updated)
  BY SetRootDb
<1>13. /\ updated \in UpTo(n) /\ updated[Root] = parent
       /\ \A q \in 1 .. n : updated[q] = split[q]
  BY <1>1, <1>4, <1>10, WithRootType
<1>14. updated = Updated(split, p, Last(pages[p].cells))
  BY DEF Updated, updated, parent
<1>. HIDE DEF updated, d
<1>. QED
  BY <1>6, <1>9, <1>10, <1>11, <1>12, <1>13, <1>14
  DEF HandsOver, d, split, lower

LEMMA FullRootLost ==
  ASSUME NEW n, NEW pages, Tree(n, pages), NEW p \in 1 .. n - 1,
         pages[p].num = LeafMaxCells, pages[Root].num = InternalMaxCells,
         NEW pos \in 0 .. LeafMaxCells, NEW key \in Nat, NEW w \in Nat
  PROVE  LeafSplitAndInsert(Db(n, pages), p, pos, key, w) \in Lost
<1>. DEFINE split == SplitPages(n, pages, p, pos, key, w)
            updated == Updated(split, p, Last(pages[p].cells))
<1>1. /\ LeafSplitAndInsert(Db(n, pages), p, pos, key, w)
           = InternalInsert(Db(n + 1, updated), Root, n, w)
      /\ updated \in UpTo(n) /\ RootShape(n, updated[Root])
      /\ updated[Root].num = InternalMaxCells
      /\ \A q \in 1 .. n : BelowRoot(updated[q])
  <2>1. HandsOver(n, pages, p, pos, key, w)
    BY LeafIsHanded
  <2>. QED  BY <2>1 DEF HandsOver
<1>. HIDE DEF split, updated
<1>2. ~HasRoom(Db(n + 1, updated).pages[Root])
  BY <1>1, Fates DEF HasRoom, InternalMaxCells
<1>3. InternalInsert(Db(n + 1, updated), Root, n, w)
        = SplitAndInsert([Db(n + 1, updated) EXCEPT !.pages[Root].num = @ + 1],
                         Root, n, w)
  BY <1>2 DEF InternalInsert
<1>4. n \in Nat
  BY DEF Tree
<1>. QED
  BY <1>1, <1>3, <1>4, FullRootExits

(* Two roots that hold the same are searched alike and updated alike. *)
LEMMA RootsAlike ==
  ASSUME NEW n, NEW a \in Page, NEW b \in Page, SamePage(a, b),
         RootShape(n, a)
  PROVE  /\ \A key : FindChild(a, key) = FindChild(b, key)
         /\ \A i \in 0 .. a.num : Child(a, i) = Child(b, i)
         /\ \A old : \A new \in Nat :
              SamePage(UpdateKey(a, old, new), UpdateKey(b, old, new))
<1>1. /\ a.num \in 1 .. InternalMaxCells /\ b.num = a.num /\ a.link = b.link
      /\ \A j \in 0 .. a.num - 1 : a.kids[j] = b.kids[j] /\ a.seps[j] = b.seps[j]
  BY DEF SamePage, RootShape
<1>2. ASSUME NEW key
      PROVE  FindChild(a, key) = FindChild(b, key)
  <2>1. {j \in CellIndex : j < a.num /\ a.seps[j] < key}
          = {j \in CellIndex : j < b.num /\ b.seps[j] < key}
    BY <1>1 DEF CellIndex, InternalMaxCells
  <2>. QED
    BY <2>1 DEF FindChild
<1>3. \A i \in 0 .. a.num : Child(a, i) = Child(b, i)
  BY <1>1 DEF Child, InternalMaxCells
<1>4. ASSUME NEW old, NEW new \in Nat
      PROVE  SamePage(UpdateKey(a, old, new), UpdateKey(b, old, new))
  <2>. DEFINE i == FindChild(a, old)
              x == UpdateKey(a, old, new)
              y == UpdateKey(b, old, new)
  <2>1. /\ x = [a EXCEPT !.seps = [a.seps EXCEPT ![i] = new]]
        /\ y = [b EXCEPT !.seps = [b.seps EXCEPT ![i] = new]]
    BY <1>2 DEF UpdateKey
  <2>2. a.seps \in [CellIndex -> Nat] /\ b.seps \in [CellIndex -> Nat]
    BY PageType
  <2>3. \A j \in 0 .. a.num - 1 : j \in CellIndex
    BY <1>1 DEF CellIndex, InternalMaxCells
  <2>. HIDE DEF i, x, y
  <2>4. /\ x.type = a.type /\ x.root = a.root /\ x.num = a.num /\ x.link = a.link
        /\ x.parent = a.parent /\ x.cells = a.cells /\ x.kids = a.kids
        /\ x.seps = [a.seps EXCEPT ![i] = new]
    BY <2>1 DEF Page
  <2>5. /\ y.type = b.type /\ y.root = b.root /\ y.num = b.num /\ y.link = b.link
        /\ y.parent = b.parent /\ y.cells = b.cells /\ y.kids = b.kids
        /\ y.seps = [b.seps EXCEPT ![i] = new]
    BY <2>1 DEF Page
  <2>6. \A j \in 0 .. a.num - 1 : x.seps[j] = y.seps[j]
    BY <1>1, <2>2, <2>3, <2>4, <2>5
  <2>7. SamePage(x, y)
    BY <1>1, <2>4, <2>5, <2>6 DEF SamePage
  <2>. QED
    BY <2>7 DEF x, y
<1>. QED
  BY <1>2, <1>3, <1>4

(* With one child more they are alike again. *)
LEMMA CellsAlike ==
  ASSUME NEW a \in Page, NEW b \in Page, SamePage(a, b), a.type = "internal",
         a.num \in 0 .. InternalMaxCells - 1, NEW index \in 0 .. a.num,
         NEW child, NEW max
  PROVE  /\ SamePage(AppendCell(a, child, max), AppendCell(b, child, max))
         /\ SamePage(InsertCell(a, index, child, max),
                     InsertCell(b, index, child, max))
<1>. DEFINE k == a.num
<1>1. /\ a.type = b.type /\ a.root = b.root /\ b.num = k /\ a.link = b.link
      /\ ~a.root => a.parent = b.parent
      /\ \A j \in 0 .. k - 1 : a.kids[j] = b.kids[j] /\ a.seps[j] = b.seps[j]
  BY DEF SamePage
<1>2. /\ a.kids \in [CellIndex -> Nat] /\ a.seps \in [CellIndex -> Nat]
      /\ b.kids \in [CellIndex -> Nat] /\ b.seps \in [CellIndex -> Nat]
  BY PageType
<1>3. k \in 0 .. 2 /\ CellIndex = 0 .. 3
  BY DEF InternalMaxCells, CellIndex
<1>. DEFINE GrownFrom(page, x) ==
       /\ x.type = page.type /\ x.root = page.root /\ x.parent = page.parent
       /\ x.num = page.num + 1
<1>4. ASSUME NEW x, NEW y, GrownFrom(a, x), GrownFrom(b, y), x.link = y.link,
             \A j \in 0 .. k : x.kids[j] = y.kids[j] /\ x.seps[j] = y.seps[j]
      PROVE  SamePage(x, y)
  <2>1. \A j \in 0 .. (k + 1) - 1 : j \in 0 .. k
    BY <1>3
  <2>. QED
    BY <1>1, <1>4, <2>1 DEF SamePage
<1>5. SamePage(AppendCell(a, child, max), AppendCell(b, child, max))
  <2>. DEFINE kids(page) == [page.kids EXCEPT ![page.num] = page.link]
              seps(page) == [page.seps EXCEPT ![page.num] = max]
              x == AppendCell(a, child, max)
              y == AppendCell(b, child, max)
  <2>1. \A j \in 0 .. k : kids(a)[j] = kids(b)[j] /\ seps(a)[j] = seps(b)[j]
    BY <1>1, <1>2, <1>3
  <2>2. /\ x = [a EXCEPT !.num = @ + 1, !.link = child,
                         !.kids = kids(a), !.seps = seps(a)]
        /\ y = [b EXCEPT !.num = @ + 1, !.link = child,
                         !.kids = kids(b), !.seps = seps(b)]
    BY DEF AppendCell
  <2>. HIDE DEF kids, seps, x, y
  <2>3. /\ GrownFrom(a, x) /\ x.link = child
        /\ x.kids = kids(a) /\ x.seps = seps(a)
    BY <2>2 DEF Page
  <2>4. /\ GrownFrom(b, y) /\ y.link = child
        /\ y.kids = kids(b) /\ y.seps = seps(b)
    BY <2>2 DEF Page
  <2>. HIDE DEF GrownFrom
  <2>5. SamePage(x, y)
    BY <1>4, <2>1, <2>3, <2>4
  <2>. QED
    BY <2>5 DEF x, y
<1>6. SamePage(InsertCell(a, index, child, max), InsertCell(b, index, child, max))
  <2>. DEFINE shift(page, cells, new) ==
                [j \in CellIndex |-> CASE j = index -> new
                                       [] index < j /\ j <= page.num -> cells[j - 1]
                                       [] OTHER -> cells[j]]
              x == InsertCell(a, index, child, max)
              y == InsertCell(b, index, child, max)
  <2>1. ASSUME NEW f, NEW g, NEW new, \A j \in 0 .. k - 1 : f[j] = g[j],
               NEW j \in 0 .. k
        PROVE  shift(a, f, new)[j] = shift(b, g, new)[j]
    <3>1. j \in CellIndex
      BY <1>3
    <3>2. CASE j = index
      BY <3>1, <3>2
    <3>3. CASE index < j
      <4>1. j - 1 \in 0 .. k - 1 /\ j # index /\ j <= a.num /\ j <= b.num
        BY <1>1, <1>3, <3>3
      <4>. QED
        BY <2>1, <3>1, <3>3, <4>1
    <3>4. CASE j < index
      <4>1. j \in 0 .. k - 1 /\ j # index /\ ~(index < j)
        BY <1>3, <3>4
      <4>. QED
        BY <2>1, <3>1, <4>1
    <3>. QED
      BY <3>2, <3>3, <3>4
  <2>2. /\ x = [a EXCEPT !.num = @ + 1, !.kids = shift(a, a.kids, child),
                         !.seps = shift(a, a.seps, max)]
        /\ y = [b EXCEPT !.num = @ + 1, !.kids = shift(b, b.kids, child),
                         !.seps = shift(b, b.seps, max)]
    BY DEF InsertCell
  <2>. HIDE DEF shift, x, y
  <2>3. \A j \in 0 .. k :
          /\ shift(a, a.kids, child)[j] = shift(b, b.kids, child)[j]
          /\ shift(a, a.seps, max)[j] = shift(b, b.seps, max)[j]
    BY <1>1, <2>1
  <2>4. /\ GrownFrom(a, x) /\ x.link = a.link
        /\ x.kids = shift(a, a.kids, child) /\ x.seps = shift(a, a.seps, max)
    BY <2>2 DEF Page
  <2>5. /\ GrownFrom(b, y) /\ y.link = b.link
        /\ y.kids = shift(b, b.kids, child) /\ y.seps = shift(b, b.seps, max)
    BY <2>2 DEF Page
  <2>. HIDE DEF GrownFrom
  <2>6. SamePage(x, y)
    BY <1>1, <1>4, <2>3, <2>4, <2>5
  <2>. QED
    BY <2>6 DEF x, y
<1>. QED
  BY <1>5, <1>6

(* A root with room takes a child by what it holds and by the greatest keys of
   two of its children, or finds InvalidPage where the child is to go. *)
LEMMA AddChildAlike ==
  ASSUME NEW n \in Nat, NEW a \in UpTo(n), NEW b \in UpTo(n),
         Alike(n + 1, a, b), RootShape(n, a[Root]), RootShape(n, b[Root]),
         a[Root].num < InternalMaxCells,
         \A q \in 1 .. n : BelowRoot(a[q]) /\ BelowRoot(b[q])
  PROVE  SameOutcome(a, b, AddChild(Db(n + 1, a), Root, n),
                           AddChild(Db(n + 1, b), Root, n))
<1>. DEFINE k == a[Root].num
            childMax == MaxKey(a, n)
            rightMax == MaxKey(a, a[Root].link)
            at(pages) == IF MaxKey(pages, n) > MaxKey(pages, pages[Root].link)
                         THEN pages[Root].num
                         ELSE FindChild(pages[Root], MaxKey(pages, n))
            grown(page) == [page EXCEPT !.num = @ + 1]
            fails(pages) == ChildFails(grown(pages[Root]), at(pages))
            add(pages) == AddChild(Db(n + 1, pages), Root, n)
            full(pages) == WithRoot(pages, Bigger(pages, n))
<1>1. /\ k \in 1 .. 2 /\ n = k + 2 /\ b[Root].num = k
      /\ a[Root].link = b[Root].link
      /\ a[Root] \in Page /\ b[Root] \in Page /\ SamePage(a[Root], b[Root])
      /\ a[Root].type = "internal" /\ b[Root].type = "internal"
  <2>1. Root \in 0 .. n /\ Root \in 0 .. (n + 1) - 1
    BY DEF Root
  <2>. QED
    BY <2>1 DEF RootShape, InternalMaxCells, UpTo, Alike, SamePage
<1>2. /\ a[Root].link \in 1 .. n - 1
      /\ \A j \in 0 .. k - 1 : a[Root].kids[j] \in 1 .. n - 1
      /\ \A j \in 0 .. k - 1 : b[Root].kids[j] \in 1 .. n - 1
  <2>1. /\ Child(a[Root], k) = a[Root].link
        /\ \A j \in 0 .. k - 1 : /\ Child(a[Root], j) = a[Root].kids[j]
                                 /\ Child(b[Root], j) = b[Root].kids[j]
    BY <1>1 DEF Child
  <2>2. \A i \in 0 .. k : Child(a[Root], i) \in 1 .. n - 1
                          /\ Child(b[Root], i) \in 1 .. n - 1
    BY <1>1 DEF RootShape
  <2>. QED
    BY <1>1, <2>1, <2>2
<1>3. \A q \in 1 .. n : MaxKey(a, q) = MaxKey(b, q)
  <2>. TAKE q \in 1 .. n
  <2>1. q \in 0 .. (n + 1) - 1 /\ a[q].type = "leaf" /\ b[q].type = "leaf"
    BY DEF BelowRoot
  <2>2. a[q].cells = b[q].cells
    BY <2>1 DEF Alike, SamePage
  <2>. QED
    BY <2>1, <2>2, MaxKeyHere
<1>4. n \in 1 .. n /\ a[Root].link \in 1 .. n
  BY <1>1, <1>2
<1>5. FindChild(a[Root], childMax) = FindChild(b[Root], childMax)
  BY <1>1, RootsAlike
<1>6. at(a) = at(b) /\ at(a) \in 0 .. k
  <2>1. FindChild(a[Root], childMax) \in 0 .. k
    BY <1>1, FindChildRange DEF InternalMaxCells
  <2>2. at(a) = at(b)
    BY <1>1, <1>3, <1>4, <1>5
  <2>. QED
    BY <1>1, <2>1, <2>2
<1>7. /\ fails(a) => at(a) = k /\ a[Root].kids[k] = InvalidPage
      /\ fails(b) => at(a) = k /\ b[Root].kids[k] = InvalidPage
  <2>. DEFINE i == at(a)
  <2>. HIDE DEF at, k
  <2>1. ASSUME NEW page \in Page, page.num = k, ChildFails(grown(page), i),
               \A j \in 0 .. k - 1 : page.kids[j] \in 1 .. n - 1
        PROVE  i = k /\ page.kids[k] = InvalidPage
    <3>1. grown(page).num = k + 1 /\ grown(page).kids = page.kids
      BY <2>1 DEF Page
    <3>. HIDE DEF grown, i
    <3>2. page.kids[i] = InvalidPage
      BY <1>1, <1>6, <2>1, <3>1 DEF ChildFails, i
    <3>3. i \notin 0 .. k - 1
      BY <1>1, <2>1, <3>2, SmallPages
    <3>. QED
      BY <1>1, <1>6, <3>2, <3>3 DEF i
  <2>. QED
    BY <1>1, <1>2, <1>6, <2>1 DEF k
<1>8. ASSUME NEW pages, pages[Root].link # InvalidPage
      PROVE  add(pages) = IF fails(pages) THEN Exited
                          ELSE Db(n + 1, full(pages))
  <2>1. Db(n + 1, pages).pages = pages
    BY Fates
  <2>2. add(pages) = IF fails(pages) THEN Exited
                     ELSE SetPage(Db(n + 1, pages), Root, Bigger(pages, n))
    BY <1>8, <2>1 DEF AddChild, Bigger
  <2>. HIDE DEF add, fails
  <2>. QED
    BY <2>2, SetRootDb
<1>9. a[Root].link # InvalidPage /\ b[Root].link # InvalidPage
  BY <1>1, <1>2, SmallPages
<1>10. Alike(n + 1, full(a), full(b))
       /\ DOMAIN full(a) = 0 .. n /\ DOMAIN full(b) = 0 .. n
  <2>1. SamePage(Bigger(a, n), Bigger(b, n))
    <3>. DEFINE index == FindChild(a[Root], childMax)
    <3>1. index \in 0 .. k
      BY <1>1, FindChildRange DEF InternalMaxCells
    <3>2. /\ SamePage(AppendCell(a[Root], n, rightMax),
                      AppendCell(b[Root], n, rightMax))
          /\ SamePage(InsertCell(a[Root], index, n, childMax),
                      InsertCell(b[Root], index, n, childMax))
      BY <1>1, <3>1, CellsAlike DEF InternalMaxCells
    <3>3. /\ Bigger(a, n) = IF childMax > rightMax
                            THEN AppendCell(a[Root], n, rightMax)
                            ELSE InsertCell(a[Root], index, n, childMax)
          /\ Bigger(b, n) = IF childMax > rightMax
                            THEN AppendCell(b[Root], n, rightMax)
                            ELSE InsertCell(b[Root], index, n, childMax)
      BY <1>1, <1>3, <1>4, <1>5 DEF Bigger
    <3>. QED
      BY <3>2, <3>3
  <2>2. \A q \in 0 .. (n + 1) - 1 : q \in 0 .. n
    OBVIOUS
  <2>. QED
    BY <2>1, <2>2 DEF Alike, WithRoot, UpTo
<1>. HIDE DEF fails, add, full, at
<1>11. ~fails(a) /\ ~fails(b) => Outcome(add(a)) = Outcome(add(b))
  <2>1. (n + 1) - 1 = n
    OBVIOUS
  <2>2. Outcome(Db(n + 1, full(a))) = Outcome(Db(n + 1, full(b)))
    BY <1>10, <2>1, AlikeOutcome
  <2>. QED
    BY <1>8, <1>9, <2>2
<1>12. /\ fails(a) => FindsInvalid(a) /\ Outcome(add(a)) = Ended
       /\ fails(b) => FindsInvalid(b) /\ Outcome(add(b)) = Ended
  BY <1>1, <1>7, <1>8, <1>9, LostOutcome DEF FindsInvalid, Lost
<1>. QED
  BY <1>11, <1>12 DEF SameOutcome, add

LEMMA ChildSplitAlike ==
  ASSUME NEW n, NEW a, NEW b, Tree(n, a), Tree(n, b), Alike(n, a, b),
         NEW p \in 1 .. n - 1, a[p].num = LeafMaxCells,
         NEW pos \in 0 .. LeafMaxCells, NEW key \in Nat,
         NEW v \in Words, NEW w \in Words
  PROVE  SameOutcome(a, b, LeafSplitAndInsert(Db(n, a), p, pos, key, v),
                           LeafSplitAndInsert(Db(n, b), p, pos, key, w))
<1>. DEFINE s == SplitPages(n, a, p, pos, key, v)
            t == SplitPages(n, b, p, pos, key, w)
            x == Updated(s, p, Last(a[p].cells))
            y == Updated(t, p, Last(b[p].cells))
            c == LeafSplitAndInsert(Db(n, a), p, pos, key, v)
            d == LeafSplitAndInsert(Db(n, b), p, pos, key, w)
<1>1. /\ n \in Nat /\ v \in Nat /\ w \in Nat /\ p \in 0 .. n - 1
      /\ Root \in 0 .. n - 1
      /\ a \in UpTo(n - 1) /\ b \in UpTo(n - 1)
      /\ RootShape(n, a[Root]) /\ RootShape(n, b[Root])
      /\ BelowRoot(a[p]) /\ BelowRoot(b[p])
  BY BTreeAssumption DEF Tree, RootLeaf, Root
<1>2. /\ SamePage(a[p], b[p]) /\ SamePage(a[Root], b[Root])
      /\ a[p] \in Page /\ b[p] \in Page /\ a[Root] \in Page /\ b[Root] \in Page
  BY <1>1 DEF Alike, UpTo
<1>3. /\ b[p].num = LeafMaxCells /\ a[p].cells = b[p].cells
      /\ a[p].type = "leaf" /\ ~a[p].root /\ Len(a[p].cells) = LeafMaxCells
      /\ a[Root].num = b[Root].num
  BY <1>1, <1>2 DEF SamePage, BelowRoot
<1>4. HandsOver(n, a, p, pos, key, v) /\ HandsOver(n, b, p, pos, key, w)
  BY <1>1, <1>3, LeafIsHanded
<1>5. Alike(n + 1, s, t)
  BY <1>1, <1>3, SplitsAlike
<1>6. CASE a[Root].num = InternalMaxCells
  <2>1. c \in Lost /\ d \in Lost
    BY <1>1, <1>3, <1>6, FullRootLost
  <2>2. Outcome(c) = Outcome(d)
    BY <2>1, LostOutcome
  <2>. HIDE DEF c, d
  <2>. QED
    BY <2>2 DEF SameOutcome, c, d
<1>7. CASE a[Root].num < InternalMaxCells
  <2>. DEFINE last == Last(a[p].cells)
              new == Last(LowerHalf(a[p], pos, key))
  <2>1. /\ c = InternalInsert(Db(n + 1, x), Root, n, v)
        /\ x \in UpTo(n) /\ x[Root] = UpdateKey(a[Root], last, new)
        /\ RootShape(n, x[Root])
        /\ x[Root].num = a[Root].num /\ x[Root].kids = a[Root].kids
        /\ \A q \in 1 .. n : x[q] = s[q] /\ BelowRoot(x[q])
    BY <1>4 DEF HandsOver
  <2>2. /\ d = InternalInsert(Db(n + 1, y), Root, n, w)
        /\ y \in UpTo(n) /\ y[Root] = UpdateKey(b[Root], last, new)
        /\ RootShape(n, y[Root])
        /\ y[Root].num = b[Root].num /\ y[Root].kids = b[Root].kids
        /\ \A q \in 1 .. n : y[q] = t[q] /\ BelowRoot(y[q])
    BY <1>3, <1>4 DEF HandsOver, LowerHalf
  <2>3. new \in Nat
    <3>. DEFINE lower == LowerHalf(a[p], pos, key)
    <3>1. lower \in Seq(Nat) /\ Len(lower) = LeftSplitCount
      BY <1>2, <1>3, Halves
    <3>. HIDE DEF lower
    <3>2. Last(lower) \in Nat
      BY <3>1, LastCell, SplitCounts
    <3>. QED
      BY <3>2 DEF lower
  <2>. HIDE DEF s, t, x, y, c, d, last, new
  <2>4. Alike(n + 1, x, y)
    <3>1. SamePage(x[Root], y[Root])
      BY <1>1, <1>2, <2>1, <2>2, <2>3, RootsAlike
    <3>2. ASSUME NEW q \in 1 .. n
          PROVE  SamePage(x[q], y[q])
      BY <1>1, <1>5, <2>1, <2>2 DEF Alike
    <3>3. \A q \in 0 .. (n + 1) - 1 : q = Root \/ q \in 1 .. n
      BY <1>1 DEF Root
    <3>. QED
      BY <3>1, <3>2, <3>3 DEF Alike
  <2>5. SameOutcome(x, y, AddChild(Db(n + 1, x), Root, n),
                          AddChild(Db(n + 1, y), Root, n))
    BY <1>1, <1>7, <2>1, <2>2, <2>4, AddChildAlike
  <2>6. /\ c = AddChild(Db(n + 1, x), Root, n)
        /\ d = AddChild(Db(n + 1, y), Root, n)
    BY <1>3, <1>7, <2>1, <2>2, Fates DEF InternalInsert, HasRoom
  <2>7. /\ FindsInvalid(x) => FindsInvalid(a)
        /\ FindsInvalid(y) => FindsInvalid(b)
    BY <1>1, <2>1, <2>2 DEF FindsInvalid, RootShape
  <2>8. SameOutcome(a, b, c, d)
    BY <2>5, <2>6, <2>7 DEF SameOutcome
  <2>. QED
    BY <2>8 DEF c, d
<1>8. a[Root].num \in 1 .. InternalMaxCells
  BY <1>1 DEF RootShape
<1>. QED
  BY <1>6, <1>7, <1>8 DEF InternalMaxCells

LEMMA LeafInsertAlike ==
  ASSUME NEW n, NEW a, NEW b, Tree(n, a), Tree(n, b), Alike(n, a, b),
         NEW p \in 0 .. n - 1, a[p].type = "leaf",
         NEW pos \in 0 .. Len(a[p].cells), NEW key \in Nat,
         NEW v \in Words, NEW w \in Words
  PROVE  SameOutcome(a, b, LeafInsert(Db(n, a), p, pos, key, v),
                           LeafInsert(Db(n, b), p, pos, key, w))
<1>. DEFINE c == LeafInsert(Db(n, a), p, pos, key, v)
            d == LeafInsert(Db(n, b), p, pos, key, w)
<1>1. /\ n \in Nat /\ a \in UpTo(n - 1) /\ b \in UpTo(n - 1) /\ Root = 0
      /\ a[p] \in Page /\ SamePage(a[p], b[p]) /\ SamePage(a[Root], b[Root])
  BY DEF Tree, UpTo, Alike, Root
<1>2. \/ p = Root /\ RootLeaf(n, a[Root])
      \/ p \in 1 .. n - 1 /\ BelowRoot(a[p])
  <2>1. CASE p = Root
    BY <2>1 DEF Tree, RootShape
  <2>2. CASE p # Root
    BY <1>1, <2>2 DEF Tree
  <2>. QED
    BY <2>1, <2>2
<1>3. /\ a[p].num = Len(a[p].cells) /\ a[p].num \in 0 .. LeafMaxCells
      /\ b[p].num = a[p].num
  BY <1>1, <1>2, SplitCounts DEF RootLeaf, BelowRoot, SamePage
<1>4. CASE a[p].num < LeafMaxCells
  <2>1. Outcome(c) = Outcome(d)
    BY <1>1, <1>3, <1>4, RoomyLeafAlike
  <2>. HIDE DEF c, d
  <2>. QED
    BY <2>1 DEF SameOutcome, c, d
<1>5. CASE a[p].num = LeafMaxCells
  <2>1. pos \in 0 .. LeafMaxCells
    BY <1>3, <1>5
  <2>. DEFINE x == LeafSplitAndInsert(Db(n, a), p, pos, key, v)
              y == LeafSplitAndInsert(Db(n, b), p, pos, key, w)
  <2>2. c = x /\ d = y
    BY <1>3, <1>5, SplitCounts, Fates DEF LeafInsert
  <2>3. CASE p = Root /\ RootLeaf(n, a[Root])
    <3>1. Sound(n, a) /\ Sound(n, b)
      <4>1. RootLeaf(n, b[Root])
        BY <1>1, <2>3 DEF RootLeaf, SamePage
      <4>. QED
        BY <2>3, <4>1 DEF Sound, Tree
    <3>2. a[p].root
      BY <2>3 DEF RootLeaf
    <3>3. Outcome(x) = Outcome(y)
      BY <1>1, <1>5, <2>1, <3>1, <3>2, RootSplitAlike
    <3>. HIDE DEF c, d, x, y
    <3>. QED
      BY <2>2, <3>3 DEF SameOutcome, c, d
  <2>4. CASE p \in 1 .. n - 1
    <3>1. SameOutcome(a, b, x, y)
      BY <1>5, <2>1, <2>4, ChildSplitAlike
    <3>. HIDE DEF c, d, x, y
    <3>. QED
      BY <2>2, <3>1 DEF c, d
  <2>. QED
    BY <1>2, <2>3, <2>4
<1>. QED
  BY <1>3, <1>4, <1>5, SplitCounts

(* Another word where nobody wrote one. *)
LEMMA RefillPage ==
  ASSUME NEW page \in Page, NEW w \in Nat,
         page.type = "internal" => page.num \in 1 .. InternalMaxCells
  PROVE  LET refilled == Refill(page, w)
         IN  /\ refilled \in Page /\ SamePage(page, refilled)
             /\ refilled.cells = page.cells
             /\ \A j \in CellIndex : j >= page.num => refilled.kids[j] = w
<1>. DEFINE refill(cells) == [j \in CellIndex |->
                                IF page.type = "internal" /\ j < page.num
                                THEN cells[j] ELSE w]
            parent == IF page.root THEN w ELSE page.parent
            kids == refill(page.kids)
            seps == refill(page.seps)
            refilled == [page EXCEPT !.parent = parent, !.kids = kids, !.seps = seps]
<1>1. Refill(page, w) = refilled
  BY DEF Refill
<1>2. /\ page.parent \in Nat /\ page.num \in Nat
      /\ page.type \in {"leaf", "internal"}
      /\ page.kids \in [CellIndex -> Nat] /\ page.seps \in [CellIndex -> Nat]
  BY PageType
<1>3. /\ kids \in [CellIndex -> Nat] /\ seps \in [CellIndex -> Nat]
      /\ parent \in Nat
      /\ ~page.root => parent = page.parent
  BY <1>2
<1>4. \A j \in CellIndex : j >= page.num => kids[j] = w
  BY <1>2 DEF CellIndex, InternalMaxCells
<1>5. page.type # "leaf" =>
        \A j \in 0 .. page.num - 1 :
          kids[j] = page.kids[j] /\ seps[j] = page.seps[j]
  BY <1>2 DEF CellIndex, InternalMaxCells
<1>. HIDE DEF kids, seps, parent
<1>6. refilled \in Page
  BY <1>3 DEF Page
<1>7. /\ refilled.type = page.type /\ refilled.root = page.root
      /\ refilled.num = page.num /\ refilled.link = page.link
      /\ refilled.cells = page.cells /\ refilled.parent = parent
      /\ refilled.kids = kids /\ refilled.seps = seps
  BY DEF Page
<1>. HIDE DEF refilled
<1>8. SamePage(page, refilled)
  BY <1>3, <1>5, <1>7 DEF SamePage
<1>. QED
  BY <1>1, <1>4, <1>6, <1>7, <1>8

LEMMA TreeSizes ==
  ASSUME NEW n, NEW pages, Tree(n, pages), NEW p \in 0 .. n - 1
  PROVE  /\ pages[p] \in Page
         /\ pages[p].type = "internal" =>
              p = Root /\ pages[p].num \in 1 .. InternalMaxCells
BY DEF Tree, UpTo, RootLeaf, RootShape, BelowRoot, Root

LEMMA RefilledTree ==
  ASSUME NEW n, NEW pages, Tree(n, pages), NEW w \in Nat
  PROVE  LET refilled == Refilled(pages, w)
         IN  /\ Tree(n, refilled) /\ Alike(n, pages, refilled)
             /\ FindsInvalid(refilled) => w = InvalidPage
             /\ \A key : LET p == FindLeaf(pages, key)
                         IN  /\ FindLeaf(refilled, key) = p
                             /\ p \in 0 .. n - 1 /\ pages[p].type = "leaf"
                             /\ refilled[p].cells = pages[p].cells
<1>. DEFINE refilled == Refilled(pages, w)
<1>1. /\ n \in Nat /\ DOMAIN pages = 0 .. n - 1 /\ Root \in 0 .. n - 1
      /\ \A q \in 1 .. n - 1 : q \in 0 .. n - 1 /\ BelowRoot(pages[q])
  BY DEF Tree, UpTo, Root
<1>2. refilled = [q \in 0 .. n - 1 |-> Refill(pages[q], w)]
  BY <1>1 DEF Refilled
<1>3. ASSUME NEW q \in 0 .. n - 1
      PROVE  /\ pages[q] \in Page
             /\ refilled[q] \in Page /\ SamePage(pages[q], refilled[q])
             /\ refilled[q].cells = pages[q].cells
             /\ \A j \in CellIndex : j >= pages[q].num => refilled[q].kids[j] = w
  <2>1. refilled[q] = Refill(pages[q], w)
    BY <1>2
  <2>. HIDE DEF refilled
  <2>. QED
    BY <2>1, TreeSizes, RefillPage
<1>4. refilled \in UpTo(n - 1)
  BY <1>2, <1>3 DEF UpTo
<1>. HIDE DEF refilled
<1>5. Alike(n, pages, refilled)
  BY <1>3 DEF Alike
<1>6. \A q \in 1 .. n - 1 : BelowRoot(refilled[q])
  BY <1>1, <1>3 DEF BelowRoot, SamePage
<1>7. CASE RootLeaf(n, pages[Root])
  <2>1. RootLeaf(n, refilled[Root])
    BY <1>1, <1>3, <1>7 DEF RootLeaf, SamePage
  <2>2. ~FindsInvalid(refilled)
    BY <2>1 DEF RootLeaf, FindsInvalid
  <2>3. \A key : /\ FindLeaf(pages, key) = Root
                 /\ FindLeaf(refilled, key) = Root
    BY <1>7, <2>1 DEF RootLeaf, FindLeaf, StepDown
  <2>. QED
    BY <1>1, <1>3, <1>4, <1>5, <1>6, <1>7, <2>1, <2>2, <2>3
    DEF Tree, RootLeaf, refilled
<1>8. CASE RootShape(n, pages[Root])
  <2>. DEFINE root == pages[Root]
              other == refilled[Root]
  <2>1. /\ root \in Page /\ other \in Page /\ SamePage(root, other)
        /\ root.num \in 1 .. InternalMaxCells /\ other.num = root.num
        /\ root.type = "internal" /\ other.type = "internal"
    BY <1>1, <1>3, <1>8 DEF RootShape, SamePage
  <2>2. /\ \A key : FindChild(root, key) = FindChild(other, key)
        /\ \A i \in 0 .. root.num : Child(root, i) = Child(other, i)
    BY <1>8, <2>1, RootsAlike
  <2>3. RootShape(n, other)
    BY <1>8, <2>1, <2>2 DEF RootShape, SamePage
  <2>4. FindsInvalid(refilled) => w = InvalidPage
    <3>1. root.num \in CellIndex
      BY <2>1 DEF CellIndex, InternalMaxCells
    <3>2. other.kids[root.num] = w
      BY <1>1, <1>3, <2>1, <3>1 DEF InternalMaxCells
    <3>. QED
      BY <2>1, <3>2 DEF FindsInvalid
  <2>5. ASSUME NEW key
        PROVE  LET p == FindLeaf(pages, key)
               IN  /\ FindLeaf(refilled, key) = p
                   /\ p \in 0 .. n - 1 /\ pages[p].type = "leaf"
    <3>. DEFINE next == Child(root, FindChild(root, key))
    <3>1. FindChild(root, key) \in 0 .. root.num
      BY <2>1, FindChildRange DEF InternalMaxCells
    <3>2. next \in 1 .. n - 1 /\ Child(other, FindChild(other, key)) = next
      BY <1>8, <2>2, <3>1 DEF RootShape
    <3>. HIDE DEF next, root, other
    <3>3. /\ StepDown(pages, Root, key) = next
          /\ StepDown(refilled, Root, key) = next
      BY <2>1, <3>2 DEF StepDown, next, root, other
    <3>4. pages[next].type = "leaf" /\ refilled[next].type = "leaf"
      BY <1>1, <1>6, <3>2 DEF BelowRoot
    <3>5. FindLeaf(pages, key) = next /\ FindLeaf(refilled, key) = next
      BY <3>3, <3>4 DEF FindLeaf, StepDown
    <3>. QED
      BY <1>1, <3>2, <3>4, <3>5
  <2>. QED
    BY <1>1, <1>3, <1>4, <1>5, <1>6, <2>3, <2>4, <2>5 DEF Tree, refilled
<1>. QED
  BY <1>7, <1>8 DEF Tree

LEMMA InvIsAlike == Inv => GarbageNeverDecides
<1>. DEFINE other(x) == [db EXCEPT !.pages = Refilled(@, x)]
            holds(f, u, g) ==
              /\ DOMAIN g = DOMAIN f
              /\ \A pos \in DOMAIN f :
                   \/ g[pos] = f[pos]
                   \/ u = InvalidPage /\ g[pos] = Ended
<1>. SUFFICES ASSUME Inv, Running, NEW key \in Keys,
                     NEW v \in Words \cup {InvalidPage}, v # InvalidPage,
                     NEW u \in Words \cup {InvalidPage},
                     NEW x \in Words, NEW y \in Words
              PROVE  holds(Outcomes(other(v), key, x), u,
                           Outcomes(other(u), key, y))
  <2>. HIDE DEF holds, other
  <2>1. ASSUME Inv, Running, NEW key \in Keys,
               NEW a \in {<<v, Outcomes(other(v), key, w)>> :
                            v \in Words \cup {InvalidPage}, w \in Words},
               NEW b \in {<<v, Outcomes(other(v), key, w)>> :
                            v \in Words \cup {InvalidPage}, w \in Words},
               a[1] # InvalidPage
        PROVE  holds(a[2], b[1], b[2])
    <3>1. PICK v \in Words \cup {InvalidPage}, x \in Words :
            a = <<v, Outcomes(other(v), key, x)>>
      OBVIOUS
    <3>2. PICK u \in Words \cup {InvalidPage}, y \in Words :
            b = <<u, Outcomes(other(u), key, y)>>
      OBVIOUS
    <3>3. a[1] = v /\ b[1] = u
      BY <3>1, <3>2
    <3>4. a[2] = Outcomes(other(v), key, x) /\ b[2] = Outcomes(other(u), key, y)
      BY <3>1, <3>2
    <3>. QED
      BY <2>1, <3>3, <3>4
  <2>. USE DEF holds, other
  <2>. QED
    BY <2>1 DEF GarbageNeverDecides
<1>1. PICK n, pages : n \in Nat /\ db = Db(n, pages) /\ Sound(n, pages)
  BY RunningIsSound
<1>2. Tree(n, pages)
  BY <1>1 DEF Sound, Tree, RootNode
<1>. DEFINE a == Refilled(pages, v)
            b == Refilled(pages, u)
            leaf == FindLeaf(pages, key)
<1>3. other(v) = Db(n, a) /\ other(u) = Db(n, b)
  BY <1>1 DEF Db
<1>4. v \in Nat /\ u \in Nat /\ key \in Nat
  BY BTreeAssumption, SmallPages
<1>5. /\ Tree(n, a) /\ Alike(n, pages, a) /\ ~FindsInvalid(a)
      /\ FindLeaf(a, key) = leaf /\ a[leaf].cells = pages[leaf].cells
      /\ leaf \in 0 .. n - 1 /\ pages[leaf].type = "leaf"
  BY <1>2, <1>4, RefilledTree
<1>6. /\ Tree(n, b) /\ Alike(n, pages, b)
      /\ FindsInvalid(b) => u = InvalidPage
      /\ FindLeaf(b, key) = leaf /\ b[leaf].cells = pages[leaf].cells
  <2>1. Tree(n, b) /\ Alike(n, pages, b) /\ (FindsInvalid(b) => u = InvalidPage)
    BY <1>2, <1>4, RefilledTree
  <2>2. \A k : /\ FindLeaf(b, k) = FindLeaf(pages, k)
              /\ b[FindLeaf(pages, k)].cells = pages[FindLeaf(pages, k)].cells
    BY <1>2, <1>4, RefilledTree
  <2>. QED  BY <2>1, <2>2
<1>. HIDE DEF other, a, b, leaf
<1>7. Alike(n, a, b)
  BY <1>5, <1>6 DEF Alike, SamePage
<1>8. a[leaf].type = "leaf" /\ a[leaf].cells \in Seq(Nat)
  <2>1. a[leaf].type = "leaf"
    BY <1>5 DEF Alike, SamePage
  <2>2. a[leaf] \in Page
    BY <1>5, TreeSizes
  <2>. QED
    BY <2>1, <2>2, PageType
<1>. DEFINE positions == LeafPositions(a[leaf], key)
            c(pos) == LeafInsert(Db(n, a), leaf, pos, key, x)
            d(pos) == LeafInsert(Db(n, b), leaf, pos, key, y)
<1>9. LeafPositions(b[leaf], key) = positions
  BY <1>5, <1>6 DEF LeafPositions, NumBelow
<1>10. /\ Outcomes(other(v), key, x) = [pos \in positions |-> Outcome(c(pos))]
       /\ Outcomes(other(u), key, y) = [pos \in positions |-> Outcome(d(pos))]
  BY <1>3, <1>5, <1>6, <1>9, Fates DEF Outcomes
<1>11. ASSUME NEW pos \in positions
       PROVE  SameOutcome(a, b, c(pos), d(pos))
  <2>1. pos \in 0 .. Len(a[leaf].cells)
    BY <1>8, LeafPositionRange
  <2>. QED
    BY <1>4, <1>5, <1>6, <1>7, <1>8, <2>1, LeafInsertAlike
<1>. HIDE DEF positions, c, d
<1>12. ASSUME NEW pos \in positions
       PROVE  \/ Outcome(d(pos)) = Outcome(c(pos))
              \/ u = InvalidPage /\ Outcome(d(pos)) = Ended
  BY <1>5, <1>6, <1>11 DEF SameOutcome
<1>. QED
  BY <1>10, <1>12

(* GarbageNeverDecides, of statement_execute_insert: for every size of a leaf,
   whatever the words in memory nobody wrote to are, those earlier pages have
   kept included, no insert writes anything else for them, or ends the process
   over them, except where the word that a new child overwrites is InvalidPage
   (btree_node_leaf_insert, btree_node_new_root, btree_node_internal_child). *)
THEOREM GarbageIsHarmless == Spec => []GarbageNeverDecides
BY InvIsAlike, AlwaysSound, PTL
=============================================================================
