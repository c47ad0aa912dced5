------------------------------ MODULE Formatted ------------------------------
(***************************************************************************)
(* Wrapping a description into a column: arg_print_formatted_ds of         *)
(* lib/argtable/argtable3.c, which arg_print_glossary_gnu uses.  A line is *)
(* what it takes of the text, without the blanks it is indented by, and a  *)
(* step is one turn of the outer loop.  Positions count from 0, as in the  *)
(* source.                                                                 *)
(***************************************************************************)
EXTENDS Integers, Sequences, FiniteSets

CONSTANTS
  MaxText,          \* bound on the length of the text
  lmargin, rmargin

FormattedAssumption ==
  MaxText \in Nat /\ lmargin \in Nat /\ rmargin \in Nat /\ lmargin <= rmargin

VARIABLES
  text,                  \* of "x", "blank" and "newline"
  line_start, line_end,
  lines                  \* [from, to]

vars == <<text, line_start, line_end, lines>>

colwidth == rmargin - lmargin + 1
textlen == Len(text)

At(p) == IF p < textlen THEN text[p + 1] ELSE "end"
isspace(p) == At(p) \in {"blank", "newline"}

Least(set) == CHOOSE p \in set : \A q \in set : p <= q
Greatest(set) == CHOOSE p \in set : \A q \in set : q <= p

Init ==
  /\ text \in UNION {[1 .. n -> {"x", "blank", "newline"}] : n \in 0 .. MaxText}
  /\ line_start = 0 /\ line_end = textlen
  /\ lines = <<>>

-----------------------------------------------------------------------------
(* Where the line begins, and where it ends when the rest does not fit *)

Eaten == Least({p \in line_start .. textlen : At(p) # "blank"})

(* The last white space that fits *)
LastSpace(start) ==
  Greatest({p \in start .. start + colwidth : p = start \/ isspace(p)})

(* Back to the last character in front of it, unless the line is empty *)
LastWord(start, p) ==
  IF At(start) = "newline" THEN p
  ELSE Greatest({q \in start .. p : q = start \/ ~isspace(q)})

Wrapped(start) ==
  LET space == LastSpace(start)
  IN  IF space = start THEN start + colwidth ELSE LastWord(start, space) + 1

TooLong(start) == line_end - start > colwidth

(* The line stops at a newline, which is skipped. *)
Newlines(start, end) == {p \in start .. end - 1 : At(p) = "newline"}

PutLineOnly(start, end) ==  \* a mutant: what is behind a newline is skipped too
  LET broken == Newlines(start, end) # {}
      to == IF broken THEN Least(Newlines(start, end)) ELSE end
  IN  /\ lines' = Append(lines, [from |-> start, to |-> to])
      /\ line_start' = end

PutLine(start, end) ==
  LET broken == Newlines(start, end) # {}
      to == IF broken THEN Least(Newlines(start, end)) ELSE end
  IN  /\ lines' = Append(lines, [from |-> start, to |-> to])
      /\ line_start' = IF broken THEN to + 1 ELSE to

Line ==
  /\ line_end > line_start
  /\ Len(lines) <= MaxText  \* a bound, which is never reached
  /\ LET start == Eaten
         end == IF TooLong(start) THEN Wrapped(start) ELSE line_end
     IN  PutLine(start, end)
  /\ line_end' = textlen
  /\ UNCHANGED text

Next == Line

(* A loop that waits for nothing *)
Spec == Init /\ [][Next]_vars /\ WF_vars(Next)

Done == line_end <= line_start

-----------------------------------------------------------------------------
(* Properties *)

(* Every word is printed, in order and once: the lines follow each other, and
   what lies between them and behind them is white space. *)
NothingIsLost ==
  /\ \A k \in DOMAIN lines : lines[k].from <= lines[k].to
  /\ \A k \in 2 .. Len(lines) : lines[k - 1].to <= lines[k].from
  /\ \A p \in 0 .. line_start - 1 :
       ~isspace(p) => \E k \in DOMAIN lines : p \in lines[k].from .. lines[k].to - 1

(* No line is wider than the column, and none goes on behind a newline. *)
WithinColumn ==
  \A k \in DOMAIN lines :
    /\ lines[k].to - lines[k].from <= colwidth
    /\ Newlines(lines[k].from, lines[k].to) = {}

(* "Too long lines will be wrapped in the middle of a word": only a word that
   does not fit into a line of its own is broken, and then the line is full. *)
BrokenOnlyIfTooLong ==
  \A k \in DOMAIN lines :
    lines[k].to < textlen /\ ~isspace(lines[k].to)
      /\ lines[k].from < lines[k].to /\ ~isspace(lines[k].to - 1) =>
    /\ lines[k].to - lines[k].from = colwidth
    /\ \A p \in lines[k].from .. lines[k].to : ~isspace(p)

(* Every text comes to its end. *)
Ends == <>Done

=============================================================================
