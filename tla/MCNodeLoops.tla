----------------------------- MODULE MCNodeLoops ----------------------------
(***************************************************************************)
(* The loops within one node, each on its own: the searches of every       *)
(* sorted node of MCNodeSearch, and the moves of module CellLoops.         *)
(***************************************************************************)
EXTENDS MCNodeSearch, CellLoops

(* While one kind of loop runs the other one has ended, on a single cell or
   on none. *)
NoSearch ==
  /\ node = LeafNode(<<>>) /\ key = 0
  /\ min_index = 0 /\ max_index = 0 /\ answer = 0 /\ returned = TRUE

NoMove ==
  /\ op = "shift" /\ done = TRUE
  /\ before = [k \in Index |-> NewCell] /\ page = before /\ fresh = before
  /\ count = 1 /\ cell_num = 0 /\ i = 0

NodeLoops ==
  /\ \/ Init /\ NoMove
     \/ LoopsInit /\ NoSearch
  /\ [][\/ Next /\ UNCHANGED loop_vars
        \/ LoopsNext /\ UNCHANGED vars]_<<vars, loop_vars>>
  /\ WF_vars(Next)
=============================================================================
