-------------------------------- MODULE BTree --------------------------------
(***************************************************************************)
(* The database as one session after another sees it: statements insert    *)
(* into and scan the B-tree of src/btree.c, through src/cursor.c and       *)
(* src/statement.c, in the pages src/pager.c hands out, and                *)
(* src/database.c saves the pages when a session ends in order.            *)
(*                                                                         *)
(* The program is one thread and runs a statement to its end before it     *)
(* reads the next one, so a statement is one action.  Inside it the model  *)
(* follows the calls in their order: every operator below takes the        *)
(* database a function was called on and yields the one it leaves.  What   *)
(* can stop in the middle is the process: `fate' says whether it still     *)
(* runs, and from the first exit(EXIT_FAILURE) on nothing changes.         *)
(* Saving is one action: how it goes page by page, and what a close leaves *)
(* that is cut short or fails, is for the modules Repl and Pager.          *)
(***************************************************************************)
EXTENDS Node

CONSTANTS
  PagerMaxPages,  \* PAGER_MAX_PAGES, 100 in the build
  Keys,           \* the ids clients insert
  Words           \* what memory nobody wrote to may hold

(* The pages of the largest tree, a full root and its children, and the two
   the split of that root asks for are far fewer than the pager handles. *)
ASSUME BTreeAssumption ==
  /\ PagerMaxPages \in Nat
  /\ PagerMaxPages > InternalMaxCells + 3
  /\ InvalidPage > PagerMaxPages
  /\ Keys \subseteq Nat
  /\ Words \subseteq Nat
  /\ Words # {}

VARIABLES
  db,    \* the open database: its pages, num_pages of the pager, its fate
  disk,  \* the pages of the file, as the last orderly close left them
  reply  \* what the last statement answered

vars == <<db, disk, reply>>

Root == 0  \* database->root_page_num

NoPages == [p \in {} |-> FreshPage(0)]
Closed == [num_pages |-> 0, pages |-> NoPages, fate |-> "closed"]
(* exit(EXIT_FAILURE) takes the pages with it: none of them was written. *)
Exited == [Closed EXCEPT !.fate = "exits"]
(* An access past the array of the pager: undefined, and nothing further is
   said of that process. *)
Outside == [Closed EXCEPT !.fate = "outside"]
(* More calls of a function to itself than the model follows. *)
Runaway == [Closed EXCEPT !.fate = "recurses"]
EmptyFile == [num_pages |-> 0, pages |-> NoPages]
Reply(kind, rows) == [kind |-> kind, rows |-> rows]

-----------------------------------------------------------------------------
(* Pages *)

SetPage(d, p, page) == [d EXCEPT !.pages[p] = page]
SetParent(d, p, parent) == [d EXCEPT !.pages[p].parent = parent]

(* pager_get_page of a page that may be new.  A page past the end of the file
   is memory from malloc, and every page number below it counts from now on.
   Number PagerMaxPages passes the check and is past the array. *)
GetPage(d, p, w) ==
  IF d.fate # "runs" \/ p < d.num_pages THEN d
  ELSE IF p > PagerMaxPages THEN Exited
  ELSE IF p = PagerMaxPages THEN Outside
  ELSE [ num_pages |-> p + 1,
         pages |-> [q \in 0 .. p |-> IF q < d.num_pages THEN d.pages[q]
                                    ELSE FreshPage(w)],
         fate |-> "runs" ]

(* Both functions below call themselves on the child they reach.  Two steps
   are enough for every tree there is: TreeShape says that the children of an
   internal node are leaves. *)
StepDown(pages, p, key) ==  \* cursor_find_key, btree_node_internal_find
  IF pages[p].type = "leaf" THEN p
  ELSE Child(pages[p], FindChild(pages[p], key))

FindLeaf(pages, key) == StepDown(pages, StepDown(pages, Root, key), key)

StepRight(pages, p) ==  \* btree_node_get_max_key
  IF pages[p].type = "leaf" THEN p ELSE pages[p].link

MaxKey(pages, p) ==
  Last(pages[StepRight(pages, StepRight(pages, p))].cells)

-----------------------------------------------------------------------------
(* Growing the tree by one level *)

(* An old root that was internal hands its children to its copy.  The loop
   runs to num_keys, which counts one cell too many by then: the child it
   finds in that cell is a word of the row that once lay there. *)
AdoptChildren(d, left, w) ==
  LET node == d.pages[left]
      adopted == {Child(node, i) : i \in 0 .. node.num}
      last == CHOOSE p \in adopted : \A q \in adopted : q <= p
      d1 == GetPage(d, last, w)
  IN  IF \E i \in 0 .. node.num : ChildFails(node, i) THEN Exited
      ELSE IF d1.fate # "runs" THEN d1
      ELSE [d1 EXCEPT !.pages =
              [p \in DOMAIN d1.pages |->
                 IF p \in adopted THEN [d1.pages[p] EXCEPT !.parent = left]
                                  ELSE d1.pages[p]]]

(* The leaf that was the root leaves the keys of its cells behind in the root
   page; in the copy only the cells in use count.  The words the root finds
   in its unused internal cells are the text of the leaf's first row. *)
CopyRootAsRoot(page) ==  \* a mutant: the copy still claims to be the root
  IF page.type = "internal" THEN page
  ELSE [page EXCEPT !.cells = SubSeq(@, 1, page.num)]

CopyRoot(page) ==
  IF page.type = "internal" THEN [page EXCEPT !.root = FALSE]
  ELSE [page EXCEPT !.root = FALSE, !.cells = SubSeq(@, 1, page.num)]

RootCells(page, w) ==
  IF page.type = "internal" THEN page
  ELSE [page EXCEPT !.kids = [j \in CellIndex |-> w],
                    !.seps = [j \in CellIndex |-> w]]

RootPage(page, left, leftMax, right, w) ==
  [RootCells(page, w) EXCEPT
     !.type = "internal", !.root = TRUE, !.num = 1, !.link = right,
     !.kids[0] = left, !.seps[0] = leftMax]

(* btree_node_new_root *)
NewRoot(d, right, w) ==
  LET d1 == GetPage(d, right, w)
      left == d1.num_pages
      d2 == GetPage(d1, left, w)
      old == d2.pages[Root]
      d3 == IF old.type = "internal"
            THEN SetPage(d2, right, InternalInit(d2.pages[right])) ELSE d2
      d4 == SetPage(d3, left, CopyRoot(old))
      d5 == IF old.type = "internal" THEN AdoptChildren(d4, left, w) ELSE d4
      root == RootPage(d5.pages[Root], left, MaxKey(d5.pages, left), right, w)
  IN  IF d2.fate # "runs" THEN d2
      ELSE IF d5.fate # "runs" THEN d5
      ELSE SetParent(SetParent(SetPage(d5, Root, root), left, Root), right, Root)

-----------------------------------------------------------------------------
(* A new child for an internal node *)

(* The child after all others: the former right child moves into a cell. *)
AppendCellWithoutChild(node, child, rightMax) ==  \* a mutant: its child is not set
  [node EXCEPT !.num = @ + 1, !.link = child, !.seps[node.num] = rightMax]

AppendCell(node, child, rightMax) ==
  [node EXCEPT !.num = @ + 1, !.link = child,
               !.kids[node.num] = node.link, !.seps[node.num] = rightMax]

(* A child in between: the cells from index on move one place up. *)
InsertCell(node, index, child, childMax) ==
  LET shift(cells, new) ==
        [j \in CellIndex |-> CASE j = index -> new
                               [] index < j /\ j <= node.num -> cells[j - 1]
                               [] OTHER -> cells[j]]
  IN  [node EXCEPT !.num = @ + 1, !.kids = shift(@, child),
                   !.seps = shift(@, childMax)]

HasRoomLess(node) == node.num < InternalMaxCells - 1  \* a mutant: off by one
HasRoom(node) == node.num < InternalMaxCells

(* btree_node_internal_insert into a node that has room.  num_keys is counted
   up on every path, the one of a node without any child included. *)
AddChild(d, parent, child) ==
  LET node == d.pages[parent]
      grown == [node EXCEPT !.num = @ + 1]
      childMax == MaxKey(d.pages, child)
      rightMax == MaxKey(d.pages, node.link)
      index == FindChild(node, childMax)
  IN  IF node.link = InvalidPage
      THEN SetPage(d, parent, [grown EXCEPT !.link = child])
      ELSE IF ChildFails(grown, IF childMax > rightMax THEN node.num ELSE index)
      THEN Exited
      ELSE SetPage(d, parent, IF childMax > rightMax
                              THEN AppendCell(node, child, rightMax)
                              ELSE InsertCell(node, index, child, childMax))

(* Move one child of a node being split to its new sibling, which is empty at
   first and has room for the two children that are moved. *)
MoveChild(d, new, child) ==
  LET d1 == AddChild(d, new, child)
  IN  IF ~HasRoom(d.pages[new]) THEN Runaway
      ELSE IF d1.fate # "runs" THEN d1
      ELSE SetParent(d1, child, new)

(* The loop over the upper cells runs from InternalMaxCells - 1 down to the
   cell after InternalMaxCells \div 2, which is one cell. *)
LowerUpperCell == InternalMaxCells - 2  \* a mutant: off by one
UpperCell == InternalMaxCells - 1

MoveUpperCell(d, old, new) ==
  LET node == d.pages[old]
      i == UpperCell
      d1 == MoveChild(d, new, Child(node, i))
  IN  IF d.fate # "runs" THEN d
      ELSE IF ChildFails(node, i) THEN Exited
      ELSE IF d1.fate # "runs" THEN d1
      ELSE [d1 EXCEPT !.pages[old].num = @ - 1]

(* The node keeps its lower cells; the last of them becomes its right child. *)
CloseOldNode(d, old) ==
  LET node == d.pages[old]
  IN  IF d.fate # "runs" THEN d
      ELSE IF node.num = 0 \/ ChildFails(node, node.num - 1) THEN Exited
      ELSE SetPage(d, old, [node EXCEPT !.link = Child(node, node.num - 1),
                                        !.num = @ - 1])

(* The right child goes first and leaves the node without one for a while. *)
MoveRightChild(d, old, new) ==
  LET d1 == MoveChild(d, new, d.pages[old].link)
  IN  IF d1.fate # "runs" THEN d1
      ELSE [d1 EXCEPT !.pages[old].link = InvalidPage]

(* The split proper, after the new node exists.  dest is the half that is to
   take the child. *)
Destination(d, old, new, childMax) ==
  [db |-> d, dest |-> IF d.fate = "runs" /\ childMax < MaxKey(d.pages, old)
                      THEN old ELSE new]

SplitNode(d, old, new, childMax) ==
  IF d.fate # "runs" THEN [db |-> d, dest |-> old]
  ELSE Destination(CloseOldNode(MoveUpperCell(MoveRightChild(d, old, new),
                                              old, new), old),
                   old, new, childMax)

(* A root is split in its copy below a new root. *)
SplitCopy(d, new, childMax) ==
  SplitNode(d, IF d.fate = "runs" THEN d.pages[Root].kids[0] ELSE Root,
            new, childMax)

InitInternal(d, p) ==
  IF d.fate # "runs" THEN d ELSE SetPage(d, p, InternalInit(d.pages[p]))

(* btree_node_internal_split_and_insert up to the call it makes of itself. *)
SplitOnce(d, parent, child, w) ==
  LET new == d.num_pages
      childMax == MaxKey(d.pages, child)
  IN  IF d.pages[parent].root THEN SplitCopy(NewRoot(d, new, w), new, childMax)
      ELSE SplitNode(InitInternal(GetPage(d, new, w), new), parent, new, childMax)

(* The child is not handed to btree_node_internal_insert but to the function
   itself once more, on every path: it has no way to return, and nothing of
   what the source does after the call is ever done.  It can only end the
   process; the model follows two calls, and NoRunaway says that is enough. *)
SplitAgain(split, child, w) ==
  IF split.db.fate # "runs" THEN split
  ELSE SplitOnce(split.db, split.dest, child, w)

SplitAndInsert(d, parent, child, w) ==
  LET again == SplitAgain(SplitOnce(d, parent, child, w), child, w).db
  IN  IF again.fate = "runs" THEN Runaway ELSE again

(* btree_node_internal_insert.  num_keys is counted up before the node is known
   to have room, and the split finds it like that. *)
InternalInsert(d, parent, child, w) ==
  IF HasRoom(d.pages[parent]) THEN AddChild(d, parent, child)
  ELSE SplitAndInsert([d EXCEPT !.pages[parent].num = @ + 1], parent, child, w)

-----------------------------------------------------------------------------
(* A new row for a leaf *)

(* The new leaf takes the upper cells, and its place in the chain and in the
   tree from the old one. *)
NewLeafUnlinked(fresh, old, upper) ==  \* a mutant: the chain ends here
  [LeafInit(fresh) EXCEPT !.parent = old.parent,
                          !.cells = upper, !.num = RightSplitCount]

NewLeaf(fresh, old, upper) ==
  [LeafInit(fresh) EXCEPT !.parent = old.parent, !.link = old.link,
                          !.cells = upper, !.num = RightSplitCount]

(* The old leaf keeps the lower cells.  In a root the others stay behind as
   bytes, past the cells that count. *)
OldLeaf(old, lower, new) ==
  [old EXCEPT !.link = new, !.num = LeftSplitCount,
              !.cells = IF old.root
                        THEN lower \o SubSeq(@, LeftSplitCount + 1, LeafMaxCells)
                        ELSE lower]

(* The cells, the new row among them, are divided in their order between the
   leaf and a new one. *)
SplitLeaf(d, p, pos, key, w) ==
  LET old == d.pages[p]
      new == d.num_pages
      cells == InsertAt(old.cells, pos + 1, key)
      lower == SubSeq(cells, 1, LeftSplitCount)
      upper == SubSeq(cells, LeftSplitCount + 1, LeafMaxCells + 1)
      d1 == GetPage(d, new, w)
  IN  IF d1.fate # "runs" THEN d1
      ELSE SetPage(SetPage(d1, new, NewLeaf(d1.pages[new], old, upper)),
                   p, OldLeaf(old, lower, new))

(* btree_node_leaf_split_and_insert *)
LeafSplitAndInsert(d, p, pos, key, w) ==
  LET old == d.pages[p]
      new == d.num_pages
      d1 == SplitLeaf(d, p, pos, key, w)
      parent == UpdateKey(d1.pages[old.parent],
                          Last(old.cells), MaxKey(d1.pages, p))
  IN  IF d1.fate # "runs" THEN d1
      ELSE IF old.root THEN NewRoot(d1, new, w)
      ELSE InternalInsert(SetPage(d1, old.parent, parent), old.parent, new, w)

LeafInsertUncounted(d, p, pos, key, w) ==  \* a mutant: num_cells stays
  IF d.pages[p].num >= LeafMaxCells THEN LeafSplitAndInsert(d, p, pos, key, w)
  ELSE SetPage(d, p, [d.pages[p] EXCEPT !.cells = InsertAt(@, pos + 1, key)])

(* btree_node_leaf_insert *)
LeafInsert(d, p, pos, key, w) ==
  IF d.pages[p].num >= LeafMaxCells THEN LeafSplitAndInsert(d, p, pos, key, w)
  ELSE SetPage(d, p, [d.pages[p] EXCEPT !.num = @ + 1,
                                        !.cells = InsertAt(@, pos + 1, key)])

(* The duplicate check of statement_execute_insert looks at the root page,
   whatever page the cursor is on. *)
NeverDuplicate(pages, pos, key) == FALSE  \* a mutant: no check
LooksDuplicate(pages, pos, key) ==
  pos < pages[Root].num /\ LeafKey(pages[Root], pos) = key

-----------------------------------------------------------------------------
(* Scanning *)

(* The pages from p on along leaf_next. *)
LeafChain(pages, p) ==
  LET chain[n \in 1 .. Cardinality(DOMAIN pages)] ==
        IF n = 1 THEN <<p>>
        ELSE LET next == pages[Last(chain[n - 1])].link
             IN  IF next = 0 THEN chain[n - 1] ELSE Append(chain[n - 1], next)
  IN  chain[Cardinality(DOMAIN pages)]

(* The rows a scan that starts at cell pos of leaf p prints. *)
RowsFrom(pages, p, pos) ==
  LET chain == LeafChain(pages, p)
      rows == FlattenSeq([i \in DOMAIN chain |-> pages[chain[i]].cells])
  IN  SubSeq(rows, pos + 1, Len(rows))

(* cursor_start looks for key 0. *)
Scans(pages) ==
  LET p == FindLeaf(pages, 0)
  IN  {RowsFrom(pages, p, pos) : pos \in LeafPositions(pages[p], 0)}

-----------------------------------------------------------------------------
(* Statements and sessions *)

Running == db.fate = "runs"

Init ==
  /\ db = Closed
  /\ disk = EmptyFile
  /\ reply = Reply("none", <<>>)

(* database_open.  A file with pages in it is trusted as it is. *)
Open(w) ==
  /\ ~Running
  /\ db' = IF disk.num_pages = 0
           THEN LET d == GetPage([Closed EXCEPT !.fate = "runs"], Root, w)
                IN  SetPage(d, Root,
                            [LeafInit(d.pages[Root]) EXCEPT !.root = TRUE])
           ELSE [num_pages |-> disk.num_pages, pages |-> disk.pages,
                 fate |-> "runs"]
  /\ reply' = Reply("none", <<>>)
  /\ UNCHANGED disk

(* statement_execute_insert *)
Insert(key, w) ==
  /\ Running
  /\ LET leaf == FindLeaf(db.pages, key)
     IN \E pos \in LeafPositions(db.pages[leaf], key) :
          IF LooksDuplicate(db.pages, pos, key)
          THEN /\ reply' = Reply("duplicate", <<key>>)
               /\ UNCHANGED db
          ELSE /\ db' = LeafInsert(db, leaf, pos, key, w)
               /\ reply' = IF db'.fate = "runs" THEN Reply("inserted", <<key>>)
                                                ELSE Reply("none", <<>>)
  /\ UNCHANGED disk

(* statement_execute_select *)
Select ==
  /\ Running
  /\ \E rows \in Scans(db.pages) : reply' = Reply("rows", rows)
  /\ UNCHANGED <<db, disk>>

(* database_close, on .exit and at the end of the input *)
Close ==
  /\ Running
  /\ disk' = [num_pages |-> db.num_pages, pages |-> db.pages]
  /\ db' = Closed
  /\ reply' = Reply("none", <<>>)

(* The process is killed between two statements: nothing handles a signal. *)
Kill ==
  /\ Running
  /\ db' = Closed
  /\ reply' = Reply("none", <<>>)
  /\ UNCHANGED disk

Next ==
  \/ \E w \in Words : Open(w)
  \/ \E key \in Keys, w \in Words : Insert(key, w)
  \/ Select
  \/ Close
  \/ Kill

Spec == Init /\ [][Next]_vars

-----------------------------------------------------------------------------
(* What the tree holds *)

Leaves(pages) == {p \in DOMAIN pages : pages[p].type = "leaf"}

Cells(pages) ==
  {c \in Leaves(pages) \X (1 .. LeafMaxCells) :
     c[2] \in DOMAIN pages[c[1]].cells}

Copies(pages, key) ==
  Cardinality({c \in Cells(pages) : pages[c[1]].cells[c[2]] = key})

StoredKeys(pages) == {pages[c[1]].cells[c[2]] : c \in Cells(pages)}

UniqueKeys(pages) == Cardinality(StoredKeys(pages)) = Cardinality(Cells(pages))

(* The part of a page that was written for the type it has now.  A root's     *)
(* parent is never written.                                                   *)
Written(page) ==
  [ type |-> page.type, root |-> page.root, num |-> page.num,
    link |-> page.link, parent |-> IF page.root THEN 0 ELSE page.parent,
    body |-> IF page.type = "leaf" THEN page.cells
             ELSE [j \in 0 .. page.num - 1 |-> <<page.kids[j], page.seps[j]>>] ]

(* The same page with another word wherever nobody wrote one. *)
Refill(page, w) ==
  LET refill(cells) ==
        [j \in CellIndex |-> IF page.type = "internal" /\ j < page.num
                             THEN cells[j] ELSE w]
  IN  [page EXCEPT !.parent = IF page.root THEN w ELSE @,
                   !.kids = refill(@), !.seps = refill(@)]

Refilled(pages, w) == [p \in DOMAIN pages |-> Refill(pages[p], w)]

(* What an insert leaves for anyone who reads only what was written. *)
Ended == [runs |-> FALSE, pages |-> <<>>]
Outcome(d) ==
  IF d.fate # "runs" THEN Ended
  ELSE [runs |-> TRUE, pages |-> [p \in DOMAIN d.pages |-> Written(d.pages[p])]]

Outcomes(d, key, w) ==
  LET leaf == FindLeaf(d.pages, key)
  IN  [pos \in LeafPositions(d.pages[leaf], key) |->
         Outcome(LeafInsert(d, leaf, pos, key, w))]

-----------------------------------------------------------------------------
(* Properties *)

(* Types, and the cells a leaf counts in num_cells are the cells it has. *)
StoreOK(store) ==
  /\ store.num_pages \in Nat
  /\ store.pages \in [0 .. store.num_pages - 1 -> Page]
  /\ \A p \in Leaves(store.pages) :
       store.pages[p].num = Len(store.pages[p].cells)

PagesOK == StoreOK(db) /\ StoreOK(disk)

TypeOK ==
  /\ db.fate \in {"closed", "runs", "exits", "outside", "recurses"}
  /\ PagesOK
  /\ reply \in [kind : {"none", "inserted", "duplicate", "rows"},
                rows : Seq(Nat)]

(* A root, and every other page a leaf below it: reached through exactly one
   child pointer, not empty and naming the root as its parent. *)
IsTree(pages) ==
  LET root == pages[Root]
      below == DOMAIN pages \ {Root}
  IN  /\ root.root
      /\ IF root.type = "leaf" THEN below = {}
         ELSE /\ root.num \in 1 .. InternalMaxCells
              /\ Cardinality(below) = root.num + 1
              /\ below = {Child(root, i) : i \in 0 .. root.num}
      /\ \A p \in below : /\ pages[p].type = "leaf" /\ ~pages[p].root
                          /\ pages[p].parent = Root
                          /\ pages[p].num \in 1 .. LeafMaxCells

(* Whatever was inserted, duplicates included, the pages in memory and those
   in the file form such a tree: no statement the process survives leaves a
   page without a parent, a page with two, or a third level
   (btree_node_new_root, btree_node_internal_insert). *)
TreeShape ==
  /\ Running => IsTree(db.pages)
  /\ disk.num_pages > 0 => IsTree(disk.pages)

(* The links thread all the leaves: one leaf is the first, and from it the
   chain visits every leaf once and stops, so a scan ends (cursor_advance). *)
OneChain ==
  Running =>
    LET leaves == Leaves(db.pages)
    IN  \E first \in leaves :
          LET chain == LeafChain(db.pages, first)
          IN  Range(chain) = leaves /\ Len(chain) = Cardinality(leaves)

(* Both binary searches are only ever given sorted arrays, duplicates or not:
   what they promise otherwise, module NodeSearch does not say. *)
AllSorted == Running => \A p \in DOMAIN db.pages : NodeSorted(db.pages[p])

(* A separator is the greatest key of the leaf on its left, also after that
   leaf was split and after equal keys were spread over several leaves
   (btree_node_internal_update_key, btree_node_internal_insert). *)
SeparatorIsMax ==
  Running /\ db.pages[Root].type = "internal" =>
    \A i \in 0 .. db.pages[Root].num - 1 :
      db.pages[Root].seps[i] = MaxKey(db.pages, db.pages[Root].kids[i])

(* As long as no key is stored twice, the search for a stored key ends in the
   leaf that holds it (btree_node_internal_find). *)
SearchFindsRow ==
  Running /\ UniqueKeys(db.pages) =>
    \A key \in StoredKeys(db.pages) :
      key \in Range(db.pages[FindLeaf(db.pages, key)].cells)

(* As long as no key is stored twice, a scan prints every row, once, in the
   order of the keys (statement_execute_select). *)
ScanIsComplete ==
  Running /\ UniqueKeys(db.pages) =>
    \A rows \in Scans(db.pages) :
      /\ Range(rows) = StoredKeys(db.pages)
      /\ \A i, j \in DOMAIN rows : i < j => rows[i] < rows[j]

(* As long as no word in unwritten memory is InvalidPage, an insert ends the
   process, or leads it past the array of the pager, only when the root has no
   room for a child and a leaf has none for a row (every exit of src/btree.c,
   pager_get_page).  What InvalidPage does, module MCPromises says. *)
ExitOnlyWhenFull ==
  [][ Running /\ db'.fate \in {"exits", "outside", "recurses"} =>
        /\ db.pages[Root].type = "internal"
        /\ db.pages[Root].num = InternalMaxCells
        /\ \E p \in Leaves(db.pages) : db.pages[p].num = LeafMaxCells ]_vars

(* The split of an internal node always reaches an exit: the calls it makes of
   itself are at most two deep (btree_node_internal_split_and_insert). *)
NoRunaway == db.fate # "recurses"

(* Two databases that differ only in words nobody wrote are told apart by an
   insert in one case: the word that a new child overwrites was InvalidPage,
   and the process ends over it.  Otherwise what is written, and whether the
   process goes on, is the same, whatever earlier pages have kept (the bytes a
   new root finds in its unused cells, its own parent) and whatever the memory
   of this insert holds (pager_get_page, btree_node_new_root,
   btree_node_internal_insert). *)
GarbageNeverDecides ==
  Running =>
    \A key \in Keys :
      LET after == {<<v, Outcomes([db EXCEPT !.pages = Refilled(@, v)], key, w)>> :
                      v \in Words \cup {InvalidPage}, w \in Words}
      IN  \A a, b \in after :
            a[1] # InvalidPage =>
              /\ DOMAIN b[2] = DOMAIN a[2]
              /\ \A pos \in DOMAIN a[2] :
                   \/ b[2][pos] = a[2][pos]
                   \/ b[1] = InvalidPage /\ b[2][pos] = Ended
=============================================================================
