-------------------------------- MODULE Usage --------------------------------
(***************************************************************************)
(* The usage line and the glossary that --help prints: the three loops of  *)
(* arg_print_gnuswitch_ds, arg_print_syntax_ds and arg_print_glossary_ds   *)
(* over the table of options (lib/argtable/argtable3.c).  The text of an   *)
(* option itself is module OptionText; here it is the option's index.      *)
(***************************************************************************)
EXTENDS Integers, Sequences, SequencesExt, FiniteSets

CONSTANT Tables  \* sequences of [short, value, glossary, mincount, maxcount]

UsageAssumption ==
  \A table \in Tables : \A i \in DOMAIN table :
    table[i].mincount \in Nat /\ table[i].maxcount - table[i].mincount \in Nat

(* What a text is made of besides the entries, which are their index *)
Space == 0
Dash == -1
Open == -2
Close == -3
Dots == -4
Newline == -5

VARIABLES
  table, tabindex,
  format1, format2, suffix,  \* what goes in front of the next switch, and behind
  ds,                        \* the text so far
  pc                         \* the loop: "mandatory", "optional", ..., "done"

formats == <<format1, format2, suffix>>
vars == <<table, tabindex, formats, ds, pc>>

Init ==
  /\ table \in Tables /\ tabindex = 1
  /\ format1 = <<Space, Dash>> /\ format2 = <<Space, Open, Dash>> /\ suffix = <<>>
  /\ ds = <<>>
  /\ pc = "mandatory"

InTable == tabindex \in DOMAIN table
Entry == table[tabindex]

(* A short option without a value; they are run together: -vx[y] *)
IsSwitch(e) == e.short /\ ~e.value

Skip == tabindex' = tabindex + 1 /\ UNCHANGED <<table, pc>>

To(loop) == pc' = loop /\ tabindex' = 1 /\ UNCHANGED table

MandatorySwitch ==
  /\ pc = "mandatory" /\ InTable
  /\ IF IsSwitch(Entry) /\ Entry.mincount > 0
     THEN /\ ds' = ds \o format1 \o <<tabindex>>
          /\ format1' = <<>> /\ format2' = <<Open>> /\ UNCHANGED suffix
     ELSE UNCHANGED <<ds, formats>>
  /\ Skip

MandatoryDone == pc = "mandatory" /\ ~InTable /\ To("optional") /\ UNCHANGED <<ds, formats>>

OptionalSwitch ==
  /\ pc = "optional" /\ InTable
  /\ IF IsSwitch(Entry) /\ Entry.mincount = 0
     THEN /\ ds' = ds \o format2 \o <<tabindex>>
          /\ format2' = <<>> /\ suffix' = <<Close>> /\ UNCHANGED format1
     ELSE UNCHANGED <<ds, formats>>
  /\ Skip

OptionalDone ==
  /\ pc = "optional" /\ ~InTable
  /\ ds' = ds \o suffix
  /\ To("rest") /\ UNCHANGED formats

Times(n, piece) == FlattenSeq([k \in 1 .. n |-> piece])

(* Each as often as it must be given, and in brackets as often as it may. *)
OtherTextAll ==  \* a mutant: switches are not skipped
  LET more == Entry.maxcount - Entry.mincount
      optional == <<Space, Open, tabindex, Close>>
  IN  Times(Entry.mincount, <<Space, tabindex>>)
        \o (IF more <= 2 THEN Times(more, optional) ELSE Append(optional, Dots))

OtherText ==
  LET more == Entry.maxcount - Entry.mincount
      optional == <<Space, Open, tabindex, Close>>
  IN  IF IsSwitch(Entry) THEN <<>>
      ELSE Times(Entry.mincount, <<Space, tabindex>>)
             \o (IF more <= 2 THEN Times(more, optional) ELSE Append(optional, Dots))

OtherOption ==
  /\ pc = "rest" /\ InTable
  /\ ds' = ds \o OtherText
  /\ Skip /\ UNCHANGED formats

RestDone ==
  /\ pc = "rest" /\ ~InTable
  /\ ds' = Append(ds, Newline)
  /\ To("glossary") /\ UNCHANGED formats

GlossaryLine ==
  /\ pc = "glossary" /\ InTable
  /\ ds' = IF Entry.glossary THEN ds \o <<tabindex, Newline>> ELSE ds
  /\ Skip /\ UNCHANGED formats

GlossaryDone == pc = "glossary" /\ ~InTable /\ To("done") /\ UNCHANGED <<ds, formats>>

Next ==
  \/ MandatorySwitch \/ MandatoryDone \/ OptionalSwitch \/ OptionalDone
  \/ OtherOption \/ RestDone \/ GlossaryLine \/ GlossaryDone

Spec == Init /\ [][Next]_vars

-----------------------------------------------------------------------------
(* Properties *)

Count(text, token) == Cardinality({k \in DOMAIN text : text[k] = token})
Depth(text, k) == Count(SubSeq(text, 1, k), Open) - Count(SubSeq(text, 1, k), Close)

UsageLine == SubSeq(ds, 1, (CHOOSE k \in DOMAIN ds : ds[k] = Newline
                                /\ \A j \in 1 .. k - 1 : ds[j] # Newline))

ShownAt(text, i, depth) ==
  Cardinality({k \in DOMAIN text : text[k] = i /\ Depth(text, k) = depth})

(* Brackets are opened and closed in turn, although the loop that opens one
   does not know whether the one before has begun the group of switches and
   another loop may follow it (arg_print_gnuswitch_ds). *)
BracketsMatch ==
  pc \in {"rest", "glossary", "done"} =>
    /\ Depth(ds, Len(ds)) = 0
    /\ \A k \in DOMAIN ds : Depth(ds, k) \in {0, 1}

(* The line tells what the parser wants: an option stands outside of brackets
   as often as it must be given, inside as often as it may (twice at most,
   "..." for more); a switch, which is shown by another loop, once, in or out
   of the brackets; and nothing is shown by two loops. *)
ShowsWhatIsWanted ==
  pc \in {"glossary", "done"} =>
    \A i \in DOMAIN table :
      LET more == table[i].maxcount - table[i].mincount
          must == ShownAt(UsageLine, i, 0)
          may == ShownAt(UsageLine, i, 1)
      IN  IF IsSwitch(table[i])
          THEN must = (IF table[i].mincount > 0 THEN 1 ELSE 0) /\ may = 1 - must
          ELSE must = table[i].mincount /\ may = IF more > 2 THEN 1 ELSE more
=============================================================================
