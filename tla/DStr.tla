-------------------------------- MODULE DStr --------------------------------
(***************************************************************************)
(* The growing string of lib/argtable/argtable3.c (arg_dstr_t) in which    *)
(* the usage and the errors are put together before they are printed.      *)
(* mem is the heap: the blocks that are allocated, and their bytes.        *)
(***************************************************************************)
EXTENDS Bytes

CONSTANTS
  ARG_DSTR_SIZE, START_VSNBUFF,
  HalfBuffer,  \* the first append buffer has twice this size, 200
  TooBig,      \* an append buffer above this size is not kept, 500
  Block,       \* the addresses of the heap
  Piece,       \* the texts that are appended or set
  FormatSize,  \* the lengths of the formats
  MaxText      \* bound on the length of a text

Nowhere == "nowhere"  \* NULL
Sbuf == "sbuf"        \* the buffer within the structure
Caller == "caller"    \* memory that the caller keeps

DStrAssumption ==
  /\ ARG_DSTR_SIZE \in Nat /\ START_VSNBUFF \in Nat \ {0}
  /\ HalfBuffer \in Nat \ {0} /\ TooBig \in Nat /\ MaxText \in Nat
  /\ FormatSize \subseteq Nat
  /\ {Nowhere, Sbuf, Caller} \cap Block = {}
  /\ \A piece \in Piece : piece \in Seq(Range(piece)) /\ NUL \notin Range(piece)

VARIABLES
  exists,       \* between arg_dstr_create and arg_dstr_destroy
  mem,          \* of every allocated block: its bytes
  sbuf, kept,   \* the bytes of the structure's buffer and of the caller's text
  data,         \* where the string is
  free_proc,    \* "static" (a null pointer) or "dynamic"
  append_data, append_data_size, append_used,
  n, buff, out, \* arg_dstr_catf: the size tried, its buffer, the whole output
  text          \* what was appended since it was set, for the properties

string == <<sbuf, kept, data, free_proc>>
append == <<append_data, append_data_size, append_used>>
format == <<n, buff, out>>
vars == <<exists, mem, string, append, format, text>>

-----------------------------------------------------------------------------
(* Memory *)

At(where) ==
  IF where = Sbuf THEN sbuf ELSE IF where = Caller THEN kept ELSE mem[where]

Without(blocks) == Restrict(mem, DOMAIN mem \ blocks)
Stored(heap, b, bytes) == [c \in DOMAIN heap \cup {b} |-> IF c = b THEN bytes ELSE heap[c]]

(* A block that malloc may give; when it has none, the program ends (s_panic). *)
Fresh(heap) ==
  IF Block \subseteq DOMAIN heap THEN {} ELSE {CHOOSE b \in Block : b \notin DOMAIN heap}

(* The block arg_dstr_free and arg_dstr_set give back, if any *)
Owned == IF free_proc = "dynamic" THEN {data} ELSE {}
AppendBlock == IF append_data # Nowhere /\ append_data_size > 0 THEN {append_data} ELSE {}

-----------------------------------------------------------------------------
Init ==
  /\ exists = FALSE
  /\ mem = <<>>
  /\ sbuf = Zeros(ARG_DSTR_SIZE + 1) /\ kept = <<>>
  /\ data = Sbuf /\ free_proc = "static"
  /\ append_data = Nowhere /\ append_data_size = 0 /\ append_used = 0
  /\ text = <<>>
  /\ n = 0 /\ buff = Nowhere /\ out = <<>>

Idle == exists /\ buff = Nowhere

(* A structure that is cleared *)
Clear ==
  /\ sbuf' = Zeros(ARG_DSTR_SIZE + 1) /\ kept' = <<>>
  /\ data' = Sbuf /\ free_proc' = "static"
  /\ append_data' = Nowhere /\ append_data_size' = 0 /\ append_used' = 0
  /\ text' = <<>>

(* arg_dstr_create *)
Create ==
  /\ ~exists
  /\ exists' = TRUE
  /\ Clear
  /\ UNCHANGED <<mem, format>>

(* arg_dstr_free and arg_dstr_reset, as arg_dstr_destroy calls them *)
Destroy ==
  /\ Idle
  /\ mem' = Without(Owned \cup AppendBlock)
  /\ exists' = FALSE
  /\ Clear
  /\ UNCHANGED format

(* arg_dstr_reset on its own; append_used stays what it was. *)
Reset ==
  /\ Idle
  /\ mem' = Without(Owned \cup AppendBlock)
  /\ data' = Sbuf /\ free_proc' = "static"
  /\ sbuf' = [sbuf EXCEPT ![1] = NUL]
  /\ append_data' = Nowhere /\ append_data_size' = 0
  /\ text' = <<>>
  /\ UNCHANGED <<exists, kept, append_used, format>>

-----------------------------------------------------------------------------
(* arg_dstr_set *)

(* What is left when the old text and the append buffer are given back. *)
KeepingOld(heap) == heap  \* a mutant: the old text is not given back
GivenBack(heap) == Restrict(heap, DOMAIN heap \ (Owned \cup AppendBlock))

SetAppend ==
  /\ append_data' = IF AppendBlock = {} THEN append_data ELSE Nowhere
  /\ append_data_size' = IF AppendBlock = {} THEN append_data_size ELSE 0
  /\ UNCHANGED <<exists, append_used, format>>

(* No text *)
SetNull ==
  /\ Idle
  /\ sbuf' = [sbuf EXCEPT ![1] = NUL]
  /\ data' = Sbuf /\ free_proc' = "static"
  /\ mem' = GivenBack(mem)
  /\ text' = <<>>
  /\ SetAppend /\ UNCHANGED kept

(* ARG_DSTR_VOLATILE: the text is copied, into a block when it is long. *)
SetVolatile(str) ==
  /\ Idle
  /\ IF Len(str) > ARG_DSTR_SIZE
     THEN \E b \in Fresh(mem) :
            /\ data' = b /\ free_proc' = "dynamic"
            /\ mem' = GivenBack(Stored(mem, b, Append(str, NUL)))
            /\ UNCHANGED sbuf
     ELSE /\ sbuf' = Copied(sbuf, str)
          /\ data' = Sbuf /\ free_proc' = "static"
          /\ mem' = GivenBack(mem)
  /\ text' = str
  /\ SetAppend /\ UNCHANGED kept

(* ARG_DSTR_STATIC: the caller keeps the text. *)
SetStatic(str) ==
  /\ Idle
  /\ kept' = Append(str, NUL)
  /\ data' = Caller /\ free_proc' = "static"
  /\ mem' = GivenBack(mem)
  /\ text' = str
  /\ SetAppend /\ UNCHANGED sbuf

(* ARG_DSTR_DYNAMIC: the caller gives away a block of its own. *)
SetDynamic(str) ==
  /\ Idle
  /\ \E b \in Fresh(mem) :
       /\ data' = b /\ free_proc' = "dynamic"
       /\ mem' = GivenBack(Stored(mem, b, Append(str, NUL)))
  /\ text' = str
  /\ SetAppend /\ UNCHANGED <<sbuf, kept>>

-----------------------------------------------------------------------------
(* setup_append_buf *)

(* A buffer that another text has replaced is given back when it is big. *)
Dropped == IF data # append_data /\ append_data_size > TooBig THEN {append_data} ELSE {}

Used ==
  IF data # append_data \/ At(data)[append_used + 1] # NUL
  THEN strlen(At(data)) ELSE append_used

Space(total) == IF total < HalfBuffer THEN 2 * HalfBuffer ELSE 2 * total

Cleared(size) == Zeros(size)

Replaced(block) == IF block # Nowhere THEN {block} ELSE {}

(* arg_dstr_cat and arg_dstr_catc: a larger buffer if there is no room for
   new_space bytes, the text moved into it, and the piece behind the text.  The
   end of the text is not written: it is a zero that was there before.
   `after' are the blocks that are given back next. *)
Attach(piece, new_space, after) ==
  LET old == String(At(data))
      total == new_space + Used
      block == IF Dropped = {} THEN append_data ELSE Nowhere
      size == IF Dropped = {} THEN append_data_size ELSE 0
      grows == total >= size
      bytes == IF grows THEN Copied(Cleared(Space(total)), old)
               ELSE IF data # append_data THEN Copied(mem[block], old) ELSE mem[block]
  IN  \E b \in IF grows THEN Fresh(Without(Dropped)) ELSE {block} :
        /\ mem' = Restrict(
                    Stored(mem, b, Overwritten(bytes, strlen(bytes), piece)),
                    {b} \cup (DOMAIN mem \ (Owned \cup Dropped \cup after
                                \cup (IF grows THEN Replaced(block) ELSE {}))))
        /\ append_data' = b /\ data' = b
        /\ append_data_size' = IF grows THEN Space(total) ELSE size
        /\ append_used' = Used
        /\ free_proc' = "static"
        /\ text' = text \o piece
        /\ UNCHANGED <<exists, sbuf, kept>>

Cat(str) ==
  /\ Idle /\ Len(text) + Len(str) <= MaxText
  /\ Attach(str, Len(str) + 1, {})
  /\ UNCHANGED format

Catc(c) ==
  /\ Idle /\ Len(text) < MaxText
  /\ Attach(<<c>>, 2, {})
  /\ UNCHANGED format

-----------------------------------------------------------------------------
(* arg_dstr_catf *)

(* vsnprintf cuts the output to n bytes and tells how long it would be. *)
Try(output, size) == Copied(Zeros(size + 2), SubSeq(output, 1, IF Len(output) < size
                                                               THEN Len(output) ELSE size))

Catf(output, length) ==
  /\ Idle /\ Len(text) + Len(output) <= MaxText
  /\ n' = IF 2 * length < START_VSNBUFF THEN START_VSNBUFF ELSE 2 * length
  /\ out' = output
  /\ \E b \in Fresh(mem) :
       buff' = b /\ mem' = Stored(mem, b, Try(output, n'))
  /\ UNCHANGED <<exists, string, append, text>>

AsLongAsOutput == Len(out)  \* a mutant: room for the output, and no more
Larger == IF Len(out) > n THEN Len(out) ELSE n + n

(* It may have been cut off: once more, in a larger buffer. *)
CatfAgain ==
  /\ buff # Nowhere
  /\ strlen(mem[buff]) >= n
  /\ n' = Larger
  /\ \E b \in Fresh(Without({buff})) :
       buff' = b /\ mem' = Stored(Without({buff}), b, Try(out, n'))
  /\ UNCHANGED <<exists, string, append, out, text>>

CatfEnd ==
  /\ buff # Nowhere
  /\ strlen(mem[buff]) < n
  /\ Attach(String(mem[buff]), strlen(mem[buff]) + 1, {buff})
  /\ n' = 0 /\ buff' = Nowhere /\ out' = <<>>

Next ==
  \/ Create \/ Destroy \/ Reset
  \/ SetNull
  \/ \E str \in Piece : SetVolatile(str) \/ SetStatic(str) \/ SetDynamic(str)
  \/ \E str \in Piece : Cat(str)
  \/ \E str \in Piece : \E c \in Range(str) : Catc(c)
  \/ \E str \in Piece, length \in FormatSize : Catf(str, length)
  \/ CatfAgain \/ CatfEnd

(* Only the loop of arg_dstr_catf goes on by itself. *)
Spec == Init /\ [][Next]_vars /\ WF_vars(CatfAgain \/ CatfEnd)

-----------------------------------------------------------------------------
(* Properties *)

(* Types; the size that is remembered is that of the append buffer. *)
TypeOK ==
  /\ exists \in BOOLEAN
  /\ DOMAIN mem \subseteq Block
  /\ Len(sbuf) = ARG_DSTR_SIZE + 1
  /\ data \in {Sbuf, Caller} \cup DOMAIN mem
  /\ free_proc \in {"static", "dynamic"}
  /\ append_data \in {Nowhere} \cup DOMAIN mem
  /\ append_data_size = IF append_data = Nowhere THEN 0 ELSE Len(mem[append_data])
  /\ append_used \in Nat /\ n \in Nat
  /\ buff \in {Nowhere} \cup DOMAIN mem

(* Whatever was appended and however the buffers changed, the text is all of
   it in its order, and its end lies within the buffer, although appending
   never writes an end (arg_dstr_cat, arg_dstr_catc, setup_append_buf). *)
ReadsAsWritten ==
  exists => String(At(data)) = text /\ HasEnd(At(data))

(* Every block on the heap has one owner, who will give it back: none is lost
   and none is given back twice (arg_dstr_set, arg_dstr_free, arg_dstr_reset,
   setup_append_buf). *)
EveryBlockHasItsOwner ==
  /\ DOMAIN mem = Owned \cup AppendBlock \cup ({buff} \ {Nowhere})
  /\ Owned \cap AppendBlock = {} /\ buff \notin Owned \cup AppendBlock

(* An append buffer that is not the text is never kept: the branch that gives
   back big ones and the one that copies a text into it are dead code. *)
AppendBufferIsTheText == append_data # Nowhere => data = append_data

(* The search for a size that holds the output ends (arg_dstr_catf). *)
FormattingEnds == buff # Nowhere ~> buff = Nowhere
=============================================================================
