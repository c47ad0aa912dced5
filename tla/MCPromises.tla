----------------------------- MODULE MCPromises -----------------------------
(***************************************************************************)
(* What comments and messages of the source say of the database and the    *)
(* program does not do.  Each property has a run in which TLC finds the    *)
(* shortest session that contradicts it.                                   *)
(***************************************************************************)
EXTENDS MCBTree

(* "statement failed: duplicate key" (src/gnaro.c:129): a key that is stored
   is refused, so no key is ever stored twice. *)
NoDuplicateStored == Running => UniqueKeys(db.pages)

(* The same message the other way round: only a stored key is refused. *)
RefusedIsStored ==
  reply.kind = "duplicate" => Head(reply.rows) \in StoredKeys(db.pages)

(* "Get cell 0 of the leftmost leaf node" (src/cursor.c:10): a scan starts at
   the first row there is, so it prints as many rows as are stored. *)
ScanStartsLeftmost ==
  Running => \A rows \in Scans(db.pages) :
               Len(rows) = Cardinality(Cells(db.pages))

(* "PAGER_MAX_PAGES is the maximum number of pages that can be handled"
   (include/pager.h:7): a database with fewer pages takes another row. *)
GrowsToMaxPages ==
  [][Running /\ db'.fate \in {"exits", "recurses"} =>
       db.num_pages >= PagerMaxPages]_vars

(* "right child %d of node is an invalid page" (src/btree.c:372): an insert
   into a tree with room is only ended over a child that really is invalid.
   The cell a new child is about to be written to is read, and judged, too. *)
InvalidChildIsReal ==
  [][ Running /\ db.pages[Root].type = "internal"
        /\ HasRoom(db.pages[Root])
        /\ (\A i \in 0 .. db.pages[Root].num : ~ChildFails(db.pages[Root], i))
      => db'.fate # "exits" ]_vars
=============================================================================
