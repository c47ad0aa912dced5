-------------------------------- MODULE Table --------------------------------
(***************************************************************************)
(* What the database promises a client, without pages, nodes or cursors: a *)
(* bag of rows that insert adds to, select shows and an orderly end of the *)
(* session saves.  Module BTree implements it; this is what is left of the *)
(* promise of a table with one row per id once the program's own behaviour *)
(* with duplicate ids is taken into account.                               *)
(***************************************************************************)
EXTENDS Naturals, Sequences, FiniteSets

CONSTANTS
  Keys,       \* the ids of the rows
  LeafRows    \* how many rows fit on one page

VARIABLES
  rows,   \* how many rows of each id the open session holds
  saved,  \* the same of the file
  up,     \* a session is open
  reply   \* the last answer

vars == <<rows, saved, up, reply>>

Empty == [k \in Keys |-> 0]
Stored == {k \in Keys : rows[k] > 0}
Unique == \A k \in Keys : rows[k] <= 1
All == UNION {{k} \X (1 .. rows[k]) : k \in Keys}
OnePage == Cardinality(All) <= LeafRows
NoReply == reply' = [kind |-> "none", rows |-> <<>>]

Init ==
  /\ rows = Empty
  /\ saved = Empty
  /\ up = FALSE
  /\ reply = [kind |-> "none", rows |-> <<>>]

Start ==
  /\ ~up
  /\ up' = TRUE
  /\ rows' = saved
  /\ NoReply
  /\ UNCHANGED saved

(* While the rows fit on one page an id is taken exactly if it is not stored. *)
Add(k) ==
  /\ up
  /\ reply' = [kind |-> "inserted", rows |-> <<k>>]
  /\ OnePage => k \notin Stored
  /\ rows' = [rows EXCEPT ![k] = @ + 1]
  /\ UNCHANGED <<saved, up>>

Reject(k) ==
  /\ up
  /\ reply' = [kind |-> "duplicate", rows |-> <<k>>]
  /\ OnePage => k \in Stored
  /\ UNCHANGED <<rows, saved, up>>

(* No row is shown more often than it is stored; when the ids are unique, all
   the rows are shown in their order. *)
Show ==
  LET shown == reply'.rows
  IN  /\ up
      /\ reply'.kind = "rows"
      /\ \A k \in Keys :
           Cardinality({i \in DOMAIN shown : shown[i] = k}) <= rows[k]
      /\ Unique => /\ {shown[i] : i \in DOMAIN shown} = Stored
                   /\ \A i, j \in DOMAIN shown : i < j => shown[i] < shown[j]
      /\ UNCHANGED <<rows, saved, up>>

(* The session ends in order and its rows are saved, or it dies and none is. *)
Stop ==
  /\ up
  /\ up' = FALSE
  /\ NoReply
  /\ saved' = rows
  /\ rows' = Empty

Die ==
  /\ up
  /\ up' = FALSE
  /\ NoReply
  /\ rows' = Empty
  /\ UNCHANGED saved

Next ==
  \/ Start
  \/ \E k \in Keys : Add(k) \/ Reject(k)
  \/ Show
  \/ Stop
  \/ Die

Spec == Init /\ [][Next]_vars
=============================================================================
