------------------------------- MODULE MCBTree -------------------------------
(***************************************************************************)
(* The questions TLC answers about BTree on small instances.  A leaf holds *)
(* three rows instead of thirteen, an internal node as many children as in *)
(* the build; with that ten rows fill the tree.                            *)
(***************************************************************************)
EXTENDS BTree

BagOf(pages) == [k \in Keys |-> Copies(pages, k)]

Client == INSTANCE Table WITH
  LeafRows <- LeafMaxCells,
  rows <- BagOf(db.pages),
  saved <- BagOf(disk.pages),
  up <- Running

(* Every session is one of the bag of rows: no statement loses or doubles a
   row, splits included, an answer says what was done, an orderly end saves
   all of it and any other end nothing. *)
ImplementsTable == Client!Spec

-----------------------------------------------------------------------------
(* Parts of the behaviour, to reach larger trees *)

OpenNew == disk.num_pages = 0 /\ \E w \in Words : Open(w)

(* One session of inserts: every tree the keys can build.  The session ends
   for good when an insert ends the process. *)
OneSession ==
  Init /\ [][ \/ OpenNew /\ db.fate = "closed"
              \/ \E key \in Keys, w \in Words : Insert(key, w) ]_vars

(* The same with clients that never use an id twice, so that all keys are
   different up to the point where the tree is full. *)
FreshKeys ==
  Init /\ [][ \/ OpenNew /\ db.fate = "closed"
              \/ \E key \in Keys \ StoredKeys(db.pages), w \in Words :
                   Insert(key, w) ]_vars
=============================================================================
