------------------------------ MODULE OptionText ------------------------------
(***************************************************************************)
(* How the text of one option, -d|--database=<string>, is put together for *)
(* the usage, the glossary and the error messages in a buffer of 200 bytes *)
(* on the stack (arg_cat, arg_cat_option, arg_cat_optionv and their        *)
(* callers in lib/argtable/argtable3.c).  The value that is shown may be   *)
(* a word that was typed, of any length.                                   *)
(*                                                                         *)
(* The functions are the sequence of calls they make; a step is one call.  *)
(***************************************************************************)
EXTENDS Bytes, SequencesExt

CONSTANTS
  Size,     \* of the buffer, 200
  Options   \* [shorts, longs, datatype, optvalue]; no datatype is NoText

NoText == <<"no text">>

(* What is put around and between the names and the value *)
Signs == {"-", "[", "]", "=", "|", ",", " "}

(* Names and values are texts of letters, and a long name is not empty. *)
OptionTextAssumption ==
  /\ Size \in Nat /\ Size > 5
  /\ NUL \notin Signs
  /\ \A o \in Options :
       /\ o.shorts # <<>> \/ o.longs # <<>> \/ o.datatype # NoText
       /\ o.longs \in Seq(Range(o.longs)) /\ <<>> \notin Range(o.longs)
       /\ \A text \in Range(o.longs) \cup {o.shorts, o.datatype} :
            text \in Seq(Range(text)) /\ NUL \notin Range(text)

VARIABLES
  option, style,  \* what is shown, and by which function
  calls,          \* the calls that are still to be made
  syntax,         \* the buffer
  dest, ndest     \* the bytes in front of the pointer, the count behind it

vars == <<option, style, calls, syntax, dest, ndest>>

Room == Size - 1   \* sizeof(syntax) - 1

-----------------------------------------------------------------------------
(* The calls *)

Cat(piece) == <<[function |-> "arg_cat", piece |-> piece]>>
Ncat(piece) == <<[function |-> "strncat", piece |-> piece]>>

Value(o) ==
  IF o.datatype = NoText THEN <<>>
  ELSE IF o.optvalue THEN Cat(<<"[">>) \o Cat(o.datatype) \o Cat(<<"]">>)
  ELSE Cat(o.datatype)

(* One way to give the option: a short one if there is, else a long one. *)
arg_cat_option(o) ==
  IF o.shorts # <<>>
  THEN Cat(<<"-", o.shorts[1]>>)
         \o (IF o.datatype # NoText THEN Cat(<<" ">>) ELSE <<>>) \o Value(o)
  ELSE IF o.longs # <<>>
  THEN Cat(<<"-", "-">>) \o Ncat(o.longs[1])
         \o (IF o.datatype # NoText THEN Cat(<<"=">>) ELSE <<>>) \o Value(o)
  ELSE Value(o)

(* All ways to give it, with the separator between them *)
arg_cat_optionv(o, separator) ==
  FlattenSeq([k \in DOMAIN o.shorts |->
                Cat(<<"-", o.shorts[k]>>)
                  \o (IF k < Len(o.shorts) THEN Cat(separator) ELSE <<>>)])
    \o (IF o.shorts # <<>> /\ o.longs # <<>> THEN Cat(separator) ELSE <<>>)
    \o FlattenSeq([k \in DOMAIN o.longs |->
                     Cat(<<"-", "-">>) \o Ncat(o.longs[k])
                       \o (IF k < Len(o.longs) THEN Cat(separator) ELSE <<>>)])
    \o (IF o.datatype = NoText THEN <<>>
        ELSE IF o.longs # <<>> THEN Cat(<<"=">>)
        ELSE IF o.shorts # <<>> THEN Cat(<<" ">>) ELSE <<>>)
    \o Value(o)

(* arg_print_syntax_ds, arg_print_option_ds and arg_print_syntaxv_ds,
   arg_print_glossary_ds, arg_print_glossary_gnu_ds *)
Styles == {"syntax", "option", "glossary", "gnu"}

SeparatorOf(s) == IF s = "option" THEN <<"|">> ELSE <<",", " ">>

CallsOf(o, s) ==
  IF s = "syntax" THEN arg_cat_option(o) ELSE arg_cat_optionv(o, SeparatorOf(s))

(* The GNU glossary moves long options behind the place of short ones. *)
Indent(o, s) ==
  IF s = "gnu" /\ o.shorts = <<>> /\ o.longs # <<>>
  THEN <<" ", " ", " ", " ">> ELSE <<>>

Init ==
  /\ option \in Options /\ style \in Styles
  /\ calls = CallsOf(option, style)
  /\ syntax = Copied(Zeros(Size), Indent(option, style))
  /\ dest = 0 /\ ndest = Room

-----------------------------------------------------------------------------
Least(a, b) == IF a < b THEN a ELSE b

(* arg_cat looks for the end of the text first: strncat did not move dest. *)
Behind == SubSeq(syntax, dest + 1, dest + ndest - 1)
AtDest == dest                       \* a mutant: that is left out
AtEnd == dest + strlen(Behind)

Rest(length) == dest + ndest - (AtEnd + length)

(* arg_cat: at most one less than ndest characters, and their end *)
ArgCat ==
  /\ calls # <<>>
  /\ Head(calls).function = "arg_cat"
  /\ LET piece == Head(calls).piece
         length == Least(Len(piece), dest + ndest - 1 - AtEnd)
     IN  /\ syntax' = Overwritten(syntax, AtEnd, Append(SubSeq(piece, 1, length), NUL))
         /\ dest' = AtEnd + length
         /\ ndest' = Rest(length)
  /\ calls' = Tail(calls)
  /\ UNCHANGED <<option, style>>

(* strncat: at most ndest characters, and their end behind them *)
Strncat ==
  /\ calls # <<>>
  /\ Head(calls).function = "strncat"
  /\ LET piece == Head(calls).piece
         at == dest + strlen(SubSeq(syntax, dest + 1, Size))
     IN  syntax' = Overwritten(syntax, at,
                     Append(SubSeq(piece, 1, Least(Len(piece), ndest)), NUL))
  /\ calls' = Tail(calls)
  /\ UNCHANGED <<option, style, dest, ndest>>

Next == ArgCat \/ Strncat

Spec == Init /\ [][Next]_vars

-----------------------------------------------------------------------------
(* Properties *)

(* Types; the pointer and the count always add up to the room there is, and
   the count never becomes zero, so that `end - 1' lies in the buffer. *)
TypeOK ==
  /\ option \in Options /\ style \in Styles
  /\ Len(syntax) = Size
  /\ dest \in 0 .. Size - 2
  /\ dest + ndest = Size - 1

(* Nothing is written outside of the buffer: after every call the text ends
   within it.  strncat may write one byte more than it is told; that is the
   byte which the callers hold back with `sizeof(syntax) - 1'. *)
InBuffer == HasEnd(syntax)

Joined(pieces, separator) ==
  FlattenSeq([k \in DOMAIN pieces |->
                IF k = 1 THEN pieces[k] ELSE separator \o pieces[k]])

Ways(o) == [k \in DOMAIN o.shorts |-> <<"-", o.shorts[k]>>]
             \o [k \in DOMAIN o.longs |-> <<"-", "-">> \o o.longs[k]]

ShownWays(o, s) == IF s = "syntax" /\ Ways(o) # <<>> THEN <<Ways(o)[1]>> ELSE Ways(o)

(* What the reader should see *)
WholeText(o, s) ==
  LET ways == ShownWays(o, s)
      before == IF o.datatype = NoText \/ ways = <<>> THEN <<>>
                ELSE IF Len(ways[Len(ways)]) > 2 THEN <<"=">> ELSE <<" ">>
      value == IF o.datatype = NoText THEN <<>>
               ELSE IF o.optvalue THEN <<"[">> \o o.datatype \o <<"]">> ELSE o.datatype
  IN  Indent(o, s) \o Joined(ways, SeparatorOf(s)) \o before \o value

(* A text that fits is shown as a whole, although two functions append to it
   and only one of them moves the pointer; of one that does not, as much as
   fits (arg_cat: "Does not append more than *pndest chars ... so as to
   prevent buffer overruns"). *)
WholeIfItFits ==
  calls = <<>> =>
    LET whole == WholeText(option, style)
    IN  IF Len(whole) < Size - 1 THEN String(syntax) = whole
        ELSE strlen(syntax) \in {Size - 2, Size - 1}
=============================================================================
