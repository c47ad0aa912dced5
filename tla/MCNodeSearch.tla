---------------------------- MODULE MCNodeSearch ----------------------------
(***************************************************************************)
(* Every sorted node of up to LeafMaxCells cells, or of up to              *)
(* InternalMaxCells separators, over a few keys, equal ones included.      *)
(***************************************************************************)
EXTENDS NodeSearch

MaxKeyInNode == 6  \* bound on the keys in a node

Sorted(seq) == \A i, j \in DOMAIN seq : i < j => seq[i] <= seq[j]

SortedSeqs(n) == {seq \in [1 .. n -> {1, 3, MaxKeyInNode}] : Sorted(seq)}

LeafNode(seq) ==
  [FreshPage(0) EXCEPT !.num = Len(seq), !.cells = seq]

(* Cells past num_keys keep an old word: the greatest key, or the least. *)
InternalNode(seq, old) ==
  [FreshPage(0) EXCEPT
     !.type = "internal", !.num = Len(seq),
     !.seps = [j \in CellIndex |-> IF j < Len(seq) THEN seq[j + 1] ELSE old]]

SmallNodes ==
  {LeafNode(seq) : seq \in UNION {SortedSeqs(n) : n \in 0 .. LeafMaxCells}}
  \cup {InternalNode(seq, old) :
          seq \in UNION {SortedSeqs(n) : n \in 0 .. InternalMaxCells},
          old \in {0, MaxKeyInNode}}
=============================================================================
