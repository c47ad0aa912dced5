------------------------------ MODULE MCArgtable ------------------------------
(***************************************************************************)
(* The parts of lib/argtable/argtable3.c below the parser, each on its     *)
(* own: `part' says which one a behaviour is about, and the others rest.   *)
(***************************************************************************)
EXTENDS Permute, SequencesExt, FiniteSets

CONSTANTS
  Tables,                                                     \* Usage
  NUL, Size, Options,                                         \* OptionText
  ARG_DSTR_SIZE, START_VSNBUFF, HalfBuffer, TooBig, Block,    \* DStr
  Piece, FormatSize, MaxText,
  MaxParagraph, lmargin, rmargin,                             \* Formatted
  Keys, Values, Hash, Primes, MaxMinSize, MaxEntries,         \* HashTable
  MinSize, Nothing                                            \* Registry

VARIABLES
  part,
  table, tabindex, format1, format2, suffix, ds, loop,        \* Usage
  option, style, calls, syntax, dest, ndest,                  \* OptionText
  exists, mem, sbuf, kept, data, free_proc, append_data,      \* DStr
  append_data_size, append_used, n, buff, out, text,
  paragraph, line_start, line_end, lines,                     \* Formatted
  h, itr, answer                                              \* Registry

U == INSTANCE Usage WITH pc <- loop
O == INSTANCE OptionText
D == INSTANCE DStr
F == INSTANCE Formatted WITH text <- paragraph, MaxText <- MaxParagraph
R == INSTANCE Registry

NoText == <<"no text">>  \* as in OptionText
AnOption == [shorts |-> <<"d">>, longs |-> <<>>, datatype |-> NoText, optvalue |-> FALSE]

ASSUME ArgtableAssumption ==
  /\ U!UsageAssumption /\ O!OptionTextAssumption /\ AnOption \in Options
  /\ D!DStrAssumption /\ F!FormattedAssumption
  /\ R!HashTableAssumption /\ R!RegistryAssumption

-----------------------------------------------------------------------------
(* Inputs *)

(* Usage: all tables of up to two entries, and tables of three switches *)
MCEntry ==
  { e \in [short : BOOLEAN, value : BOOLEAN, glossary : BOOLEAN,
           mincount : 0 .. 2, maxcount : 0 .. 5] :
      e.maxcount - e.mincount \in 0 .. 3 /\ (e.glossary <=> e.short) }

MCSwitch == { e \in MCEntry : e.short /\ ~e.value /\ e.maxcount <= 1 }

MCTables == UNION {[1 .. m -> MCEntry] : m \in 0 .. 2} \cup [1 .. 3 -> MCSwitch]

(* OptionText: zero to two short and long names, and values of every length
   around the size of a small buffer *)
MaxValue == 16

MCOptions ==
  { o \in [shorts : { <<>>, <<"d">>, <<"d", "v">> },
           longs : { <<>>, <<<<"d", "a">>>>, <<<<"d", "a">>, <<"v", "e", "r">>>>,
                     <<[k \in 1 .. 9 |-> "n"], <<"m", "m">>>> },
           datatype : {NoText} \cup {[k \in 1 .. m |-> "x"] : m \in 1 .. MaxValue},
           optvalue : BOOLEAN] :
      o.shorts # <<>> \/ o.longs # <<>> \/ o.datatype # NoText }

(* DStr: a few letters, in buffers small enough for every branch *)
MCPiece == { <<>>, <<"x">>, <<"y", "x", "y">> }

(* HashTable: three sizes; of the keys two share a bucket in all of them. *)
SmallPrimes == <<1, 3, 5>>
SmallHash == [k \in Keys |-> CASE k = "k1" -> 1 [] k = "k2" -> 3 [] k = "k3" -> 31]

-----------------------------------------------------------------------------
Parts == {"permute", "usage", "option text", "string", "paragraph", "table", "registry"}

(* What a part is like while another one is looked at *)
PermuteRests ==
  /\ start = 1 /\ end = 2 /\ opt_end = 3
  /\ nargv = [[k \in 1 .. MaxLength |-> k] EXCEPT ![1] = 2, ![2] = 1]
  /\ a = 1 /\ b = 1 /\ i = 1 /\ j = 0 /\ pos = 3 /\ pc = "done"

UsageRests ==
  /\ table = <<>> /\ tabindex = 1 /\ format1 = <<>> /\ format2 = <<>> /\ suffix = <<>>
  /\ ds = <<U!Newline>> /\ loop = "done"

OptionRests ==
  /\ option = AnOption /\ style = "option" /\ calls = <<>>
  /\ syntax = [k \in 1 .. Size |-> IF k = 1 THEN "-" ELSE IF k = 2 THEN "d" ELSE NUL]
  /\ dest = 2 /\ ndest = Size - 3

ParagraphRests ==
  /\ paragraph = <<>> /\ line_start = 0 /\ line_end = 0 /\ lines = <<>>

usagevars == <<table, tabindex, format1, format2, suffix, ds, loop>>
optionvars == <<option, style, calls, syntax, dest, ndest>>
stringvars == <<exists, mem, sbuf, kept, data, free_proc, append_data,
                append_data_size, append_used, n, buff, out, text>>
paragraphvars == <<paragraph, line_start, line_end, lines>>
tablevars == <<h, itr, answer>>

PartsInit ==
  /\ part \in Parts
  /\ IF part = "permute" THEN Init ELSE PermuteRests
  /\ IF part = "usage" THEN U!Init ELSE UsageRests
  /\ IF part = "option text" THEN O!Init ELSE OptionRests
  /\ IF part = "paragraph" THEN F!Init ELSE ParagraphRests
  /\ IF part = "registry" THEN R!RegistryInit ELSE R!Init /\ answer = Nothing
  /\ D!Init

(* Of the table alone the values do not matter. *)
OneValue == \A e \in DOMAIN h'.entries : h'.entries[e].v = "v1"

PartsNext ==
  /\ UNCHANGED part
  /\ IF part = "permute" THEN Next ELSE UNCHANGED vars
  /\ IF part = "usage" THEN U!Next ELSE UNCHANGED usagevars
  /\ IF part = "option text" THEN O!Next ELSE UNCHANGED optionvars
  /\ IF part = "string" THEN D!Next ELSE UNCHANGED stringvars
  /\ IF part = "paragraph" THEN F!Next ELSE UNCHANGED paragraphvars
  /\ IF part = "table" THEN R!Next /\ OneValue /\ UNCHANGED answer
     ELSE IF part = "registry" THEN R!RegistryNext ELSE UNCHANGED tablevars

allvars ==
  <<part, vars, usagevars, optionvars, stringvars, paragraphvars, tablevars>>

(* The loops that wait for nothing *)
PartsSpec ==
  /\ PartsInit /\ [][PartsNext]_allvars
  /\ WF_vars(Next) /\ WF_paragraphvars(F!Next)
  /\ WF_stringvars(D!CatfAgain \/ D!CatfEnd)

-----------------------------------------------------------------------------
(* The properties of the parts; Permute's have their own names here. *)

(* The usage line tells the table: every bracket that is opened is closed, also
   when the group of switches begins in one loop and ends in another, and an
   option that is no switch stands outside of brackets as often as the parser
   wants it and inside as often as it may be given; the dots that stand for
   more than those are not compared (arg_print_gnuswitch_ds,
   arg_print_syntax_ds). *)
UsageTellsTheTable == U!BracketsMatch /\ U!ShowsWhatIsWanted

(* The text of an option ends within its buffer, is whole if it fits and fills
   the buffer if it does not, although of the two functions that append to it
   only one moves the pointer and counts the room down (arg_cat,
   arg_cat_optionv, arg_cat_option). *)
OptionTextIsWhole == O!TypeOK /\ O!InBuffer /\ O!WholeIfItFits

(* However its buffers changed, a string reads as what was set and appended,
   and every block of memory has one owner that will give it back; an append
   buffer that is not the text is never kept (arg_dstr_set, arg_dstr_cat,
   arg_dstr_catf, arg_dstr_free, setup_append_buf). *)
StringIsSound ==
  /\ D!TypeOK /\ D!ReadsAsWritten
  /\ D!EveryBlockHasItsOwner /\ D!AppendBufferIsTheText

(* Wrapping prints every word once and in its order, no line is wider than the
   column, and only a word wider than the column is broken
   (arg_print_formatted_ds). *)
ParagraphIsWhole ==
  F!NothingIsLost /\ F!WithinColumn /\ F!BrokenOnlyIfTooLong

(* Through growth, removals and walks every entry of the table is in one chain,
   the one its key is looked for in, no pointer leads to a block that was given
   back, the iterator knows what points to its entry, and the table grows before
   it is too full (arg_hashtable_insert, _expand, _remove, _itr_remove). *)
TableIsSound ==
  /\ R!TypeOK /\ R!EveryEntryOnce
  /\ R!IteratorKnowsItsPlace /\ R!GrowsInTime

(* Every loop ends: the gcd and the cycles of permute_args, the search for a
   size that holds a formatted text (arg_dstr_catf), and the lines of a text
   that is wrapped (arg_print_formatted_ds). *)
EveryLoopEnds == Returns /\ D!FormattingEnds /\ F!Ends

-----------------------------------------------------------------------------
IsRegistry == part = "registry"

NameOf(e) == h.entries[e].k

NamesBehind ==
  {NameOf(e) : e \in Range(Tail(R!ChainFrom(h, itr.e)))
                 \cup UNION {Range(R!Chain(h, c)) :
                               c \in itr.index + 1 .. R!tablelength(h) - 1}}

Promised ==
  INSTANCE Commands WITH
    Names <- Keys, Procs <- Values,
    commands <- IF IsRegistry
                THEN [k \in {NameOf(e) : e \in DOMAIN h.entries} |->
                        h.entries[R!Search(h, k)].v]
                ELSE <<>>,
    walk <- IF ~IsRegistry \/ itr.e = 0 THEN [at |-> Nothing, left |-> {}]
            ELSE [at |-> NameOf(itr.e), left |-> NamesBehind]

(* The registry does what module Commands promises: a name has the procedure
   registered last however the table has grown since, and a walk comes to
   every name exactly once (arg_cmd_register, arg_cmd_info, arg_cmd_itr_create
   and _advance). *)
ImplementsCommands == Promised!Spec
=============================================================================
