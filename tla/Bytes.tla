-------------------------------- MODULE Bytes --------------------------------
(***************************************************************************)
(* Strings of C in buffers.  A buffer is a sequence of bytes as long as    *)
(* its memory, a string in it ends before the first NUL.  What is written  *)
(* past the end of a buffer is not in it, so that a string that does not   *)
(* fit is one without an end.                                              *)
(***************************************************************************)
EXTENDS Integers, Sequences, Functions

CONSTANT NUL  \* the byte that ends a string

Zeros(size) == [k \in 1 .. size |-> NUL]

(* memcpy of a piece behind the first `at' bytes *)
Overwritten(bytes, at, piece) ==
  SubSeq(SubSeq(bytes, 1, at) \o piece \o SubSeq(bytes, at + Len(piece) + 1, Len(bytes)),
         1, Len(bytes))

HasEnd(bytes) == NUL \in Range(bytes)

strlen(bytes) ==
  CHOOSE k \in 0 .. Len(bytes) :
    /\ k < Len(bytes) => bytes[k + 1] = NUL
    /\ \A m \in 1 .. k : bytes[m] # NUL

String(bytes) == SubSeq(bytes, 1, strlen(bytes))

(* strcpy writes the end as well. *)
Copied(bytes, piece) == Overwritten(bytes, 0, Append(piece, NUL))
=============================================================================
