------------------------------ MODULE PageStore ------------------------------
(***************************************************************************)
(* What the pager promises the tree above it and the sessions that come    *)
(* after: numbered pages that can be changed and added to, and that are    *)
(* saved one at a time, each as a whole, when the session ends.  A session *)
(* that ends in order has saved all of them; one that breaks off may have  *)
(* saved some and others not.  Module Pager implements it as long as a     *)
(* write is never cut short.                                               *)
(***************************************************************************)
EXTENDS Naturals, Sequences

CONSTANT Content  \* what a page may hold

VARIABLES
  mem,    \* the pages as the session sees them, none outside a session
  saved,  \* the pages as the next session will see them
  up,
  ended   \* how the last session ended: "none", "orderly" or "broken"

vars == <<mem, saved, up, ended>>

Init == mem = <<>> /\ saved = <<>> /\ ~up /\ ended = "none"

(* The first session finds no page and makes one. *)
Begin ==
  /\ ~up /\ up'
  /\ \/ saved # <<>> /\ mem' = saved
     \/ saved = <<>> /\ \E c \in Content : mem' = <<c>>
  /\ UNCHANGED <<saved, ended>>

Change ==
  /\ up
  /\ \E p \in 1 .. Len(mem) + 1, c \in Content :
       mem' = [q \in 1 .. (IF p > Len(mem) THEN p ELSE Len(mem)) |->
                 IF q = p THEN c ELSE mem[q]]
  /\ UNCHANGED <<saved, up, ended>>

SaveOne ==
  /\ up
  /\ \E p \in 1 .. Len(saved) + 1 :
       /\ p <= Len(mem)
       /\ saved' = [q \in 1 .. (IF p > Len(saved) THEN p ELSE Len(saved)) |->
                      IF q = p THEN mem[p] ELSE saved[q]]
  /\ UNCHANGED <<mem, up, ended>>

(* Only a session that ends in order promises that all of it is there. *)
Finish ==
  up /\ saved = mem /\ ~up' /\ mem' = <<>> /\ ended' = "orderly" /\ UNCHANGED saved

Break == up /\ ~up' /\ mem' = <<>> /\ ended' = "broken" /\ UNCHANGED saved

Next == Begin \/ Change \/ SaveOne \/ Finish \/ Break

Spec == Init /\ [][Next]_vars
=============================================================================
