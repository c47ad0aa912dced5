----------------------------- MODULE CommandLine -----------------------------
(***************************************************************************)
(* From the words behind the program's name to the options of main: the    *)
(* parser of lib/argtable/argtable3.c as src/gnaro.c uses it (arg_parse,   *)
(* its own getopt_long, the scan and check functions of the entries), and  *)
(* what main does with the outcome.                                        *)
(*                                                                         *)
(* A word is the sequence of its characters, because options can be run    *)
(* together, abbreviated and joined with their value.  Indices into argv   *)
(* are those of the source: word 1 is the first after the program's name.  *)
(* A step is one turn of getopt_internal or of a loop of the parser.       *)
(***************************************************************************)
EXTENDS Integers, Sequences, SequencesExt, FiniteSets, FiniteSetsExt

CONSTANTS
  Calls,      \* [table, words]: the tables and the words arg_parse may be given
  MaxErrors   \* maxcount of the terminator, ARGTABLE_ARG_MAX = 20 in main

Char == {"-", "=", ":", "a", "b", "d", "e", "f", "g", "h", "v"}

Word == Seq(Char)
EntryType == [shorts : Seq(Char), longs : Seq(Word), value : BOOLEAN,
              mincount : Nat, maxcount : Nat]

(* An entry has options, or else takes words that are none. *)
IsTagged(entry) == entry.shorts # <<>> \/ entry.longs # <<>>

ASSUME CommandLineAssumption ==
  /\ MaxErrors \in Nat \ {0}
  /\ \A call \in Calls :
       /\ call \in [table : Seq(EntryType), words : Seq(Word)]
       /\ \A i \in DOMAIN call.table :
            ~IsTagged(call.table[i]) => call.table[i].value

VARIABLES
  Table,            \* the entries before the terminator, in order
  posixly_correct,  \* the environment asks for options before operands only
  given,     \* the words as they were typed
  argv,      \* the parser's copy, which it reorders
  optind,    \* the index of the next word
  place,     \* what is left of the word that is being read
  nonopt_start, nonopt_end,  \* the operands that were skipped, or -1
  count, sval,  \* of each entry: how often it was given, and the values
  errors,    \* the errors, in the order they were found
  tentative, \* the untagged entry that last refused a word, or 0
  tabindex,  \* the entry an untagged word is tried with, or that is checked
  pc         \* "tagged", "untagged", "unused", "check", "parsed" or what main does

getopt == <<argv, optind, place, nonopt_start, nonopt_end>>
result == <<count, sval, errors>>
arguments == <<Table, posixly_correct, given>>
vars == <<arguments, getopt, result, tentative, tabindex, pc>>

Entries == DOMAIN Table
Tagged(i) == IsTagged(Table[i])

ProgramName == <<"g">>
WordBefore(words, i) == IF i = 1 THEN ProgramName ELSE words[i - 1]

(* arg_litn and arg_strn; the count may not end below where it begins *)
Lit(shorts, longs, mincount, maxcount) ==
  [shorts |-> shorts, longs |-> longs, value |-> FALSE, mincount |-> mincount,
   maxcount |-> IF maxcount < mincount THEN mincount ELSE maxcount]

Str(shorts, longs, mincount, maxcount) ==
  [Lit(shorts, longs, mincount, maxcount) EXCEPT !.value = TRUE]

-----------------------------------------------------------------------------
(* What options there are *)

(* The names alloc_longoptions lists for an entry.  All of them lead to the same
   entry, so that of the first option in the list only the entry is told. *)
LongOptions(i) == Range(Table[i].longs)

(* find_shortoption, 0 for none; a colon is never an option. *)
EntriesWith(c) == {i \in Entries : c \in Range(Table[i].shorts)}
ShortEntry(c) == IF c = ":" \/ EntriesWith(c) = {} THEN 0 ELSE Min(EntriesWith(c))

(* The loop of parse_long_options: an exact name wins, otherwise the first one
   that begins like this, unless others do that belong to another entry. *)
LongEntry(name) ==
  LET exact == {i \in Entries : name \in LongOptions(i)}
      partial == {i \in Entries : \E long \in LongOptions(i) : IsPrefix(name, long)}
  IN  IF exact # {} THEN Min(exact)
      ELSE IF Cardinality(partial) = 1 THEN Min(partial) ELSE 0

(* The name and the value of --name=value *)
HasEqual(word) == "=" \in Range(word)
Equal(word) == Min({k \in DOMAIN word : word[k] = "="})
NameOf(word) == IF HasEqual(word) THEN SubSeq(word, 1, Equal(word) - 1) ELSE word
ValueOf(word) == SubSeq(word, Equal(word) + 1, Len(word))

-----------------------------------------------------------------------------
(* Errors and counts *)

Error(kind, of, word) == [kind |-> kind, of |-> of, word |-> word]

RegisterInPlace(list, error) ==  \* a mutant: the last error keeps its owner
  IF Len(list) < MaxErrors THEN Append(list, error)
  ELSE [list EXCEPT ![MaxErrors].kind = "limit"]

(* arg_register_error: the last place tells that there were more. *)
Register(list, error) ==
  IF Len(list) < MaxErrors THEN Append(list, error)
  ELSE [list EXCEPT ![MaxErrors] = Error("limit", 0, <<>>)]

Fail(error) == errors' = Register(errors, error) /\ UNCHANGED <<count, sval>>

(* arg_lit_scanfn and arg_str_scanfn; `found' are the errors so far. *)
Scan(i, word, found) ==
  IF count[i] < Table[i].maxcount
  THEN /\ count' = [count EXCEPT ![i] = @ + 1]
       /\ sval' = [sval EXCEPT ![i] = IF Table[i].value THEN Append(@, word) ELSE @]
       /\ errors' = found
  ELSE /\ errors' = Register(found, Error("maxcount", i, word))
       /\ UNCHANGED <<count, sval>>

-----------------------------------------------------------------------------
(* Moving operands behind the options *)

(* What permute_args makes of the vector: the two blocks change places.  The
   cycles it moves the words in are module Permute. *)
Exchange(words, start, end, opt_end) ==
  SubSeq(words, 1, start - 1) \o SubSeq(words, end, opt_end - 1)
    \o SubSeq(words, start, end - 1) \o SubSeq(words, opt_end, Len(words))

(* The operands that were skipped go behind the options up to word i. *)
Permuted(i) ==
  IF nonopt_end # -1 THEN Exchange(argv, nonopt_start, nonopt_end, i) ELSE argv

Init ==
  /\ posixly_correct \in BOOLEAN
  /\ \E call \in Calls : Table = call.table /\ given = call.words
  /\ argv = given
  /\ optind = 1 /\ place = <<>>
  /\ nonopt_start = -1 /\ nonopt_end = -1
  /\ count = [i \in Entries |-> 0]
  /\ sval = [i \in Entries |-> <<>>]
  /\ errors = <<>>
  /\ tentative = 0
  /\ tabindex = 1
  /\ pc = "tagged"

-----------------------------------------------------------------------------
(* getopt_internal *)

AtWord == pc = "tagged" /\ place = <<>>
InWord == pc = "tagged" /\ place # <<>>
Same == UNCHANGED <<arguments, tentative, tabindex>>

IsOperand(word) == ~(Len(word) > 1 /\ Head(word) = "-")
IsEnd(word) == word = <<"-", "-">>

EndOfVector ==
  /\ AtWord
  /\ optind > Len(argv)
  /\ argv' = Permuted(optind)
  /\ optind' = IF nonopt_end # -1 THEN optind - (nonopt_end - nonopt_start)
               ELSE IF nonopt_start # -1 THEN nonopt_start ELSE optind
  /\ nonopt_start' = -1 /\ nonopt_end' = -1
  /\ pc' = "untagged"
  /\ UNCHANGED <<place, result>> /\ Same

(* Operands are skipped; when options lie between them and the next one, they
   go behind those first. *)
SkipOnly ==  \* a mutant: the second block of operands is forgotten
  /\ AtWord /\ ~posixly_correct
  /\ optind <= Len(argv)
  /\ IsOperand(argv[optind])
  /\ nonopt_start' = IF nonopt_start = -1 THEN optind ELSE nonopt_start
  /\ optind' = optind + 1
  /\ UNCHANGED <<argv, place, nonopt_end, result, pc>> /\ Same

SkipOperand ==
  /\ AtWord /\ ~posixly_correct
  /\ optind <= Len(argv)
  /\ IsOperand(argv[optind])
  /\ argv' = Permuted(optind)
  /\ nonopt_start' = IF nonopt_start = -1 THEN optind
                     ELSE IF nonopt_end # -1
                     THEN optind - (nonopt_end - nonopt_start) ELSE nonopt_start
  /\ nonopt_end' = -1
  /\ optind' = optind + 1
  /\ UNCHANGED <<place, result, pc>> /\ Same

StopAtOperand ==
  /\ AtWord /\ posixly_correct
  /\ optind <= Len(argv)
  /\ IsOperand(argv[optind])
  /\ pc' = "untagged"
  /\ UNCHANGED <<getopt, result>> /\ Same

AfterNext ==  \* a mutant: a block of operands ends behind the option
  IF nonopt_start # -1 /\ nonopt_end = -1 THEN optind + 1 ELSE nonopt_end

AfterOperands == IF nonopt_start # -1 /\ nonopt_end = -1 THEN optind ELSE nonopt_end

EnterWord ==
  /\ AtWord
  /\ optind <= Len(argv)
  /\ ~IsOperand(argv[optind]) /\ ~IsEnd(argv[optind])
  /\ nonopt_end' = AfterOperands
  /\ place' = Tail(argv[optind])
  /\ UNCHANGED <<argv, optind, nonopt_start, result, pc>> /\ Same

(* "--": all that follows are operands. *)
EndOfOptions ==
  /\ AtWord
  /\ optind <= Len(argv)
  /\ IsEnd(argv[optind])
  /\ argv' = IF AfterOperands # -1
             THEN Exchange(argv, nonopt_start, AfterOperands, optind + 1) ELSE argv
  /\ optind' = IF AfterOperands # -1
               THEN optind + 1 - (AfterOperands - nonopt_start) ELSE optind + 1
  /\ nonopt_start' = -1 /\ nonopt_end' = -1
  /\ pc' = "untagged"
  /\ UNCHANGED <<place, result>> /\ Same

(* A dash is left of a word that began with short options: the parser is told
   that a value is missing, and not that it should go on to the next word. *)
LoneDash ==
  /\ InWord
  /\ place = <<"-">>
  /\ place' = <<>>
  /\ Fail(Error("missarg", 0, WordBefore(argv, optind)))
  /\ UNCHANGED <<argv, optind, nonopt_start, nonopt_end, pc>> /\ Same

-----------------------------------------------------------------------------
(* parse_long_options, and what arg_parse_tagged does with its answer *)

AtLong == InWord /\ Head(place) = "-" /\ Len(place) > 1

Long(consumed) ==
  /\ optind' = optind + consumed
  /\ place' = <<>>
  /\ UNCHANGED <<argv, nonopt_start, nonopt_end, pc>> /\ Same

BadLongAgain ==  \* a mutant: the word is read again
  /\ AtLong
  /\ LongEntry(NameOf(Tail(place))) = 0
  /\ Fail(Error("longopt", 0, argv[optind]))
  /\ Long(0)

(* No such option, several of them, or one that takes no value has got one. *)
IsLong ==
  LET i == LongEntry(NameOf(Tail(place)))
  IN  i # 0 /\ (HasEqual(place) => Table[i].value)

BadLong ==
  /\ AtLong
  /\ ~IsLong
  /\ Fail(Error("longopt", 0, argv[optind]))
  /\ Long(1)

LongFlag ==
  /\ AtLong /\ ~HasEqual(place)
  /\ LET i == LongEntry(Tail(place))
     IN  i # 0 /\ ~Table[i].value /\ Scan(i, <<>>, errors)
  /\ Long(1)

(* --name=value; an empty value is an error, and counts as a value. *)
LongJoined ==
  /\ AtLong /\ HasEqual(place)
  /\ LET i == LongEntry(NameOf(Tail(place)))
         word == ValueOf(place)
     IN  /\ i # 0 /\ Table[i].value
         /\ Scan(i, word, IF word # <<>> THEN errors
                          ELSE Register(errors, Error("missarg", 0, argv[optind])))
  /\ Long(1)

LongValue ==
  /\ AtLong /\ ~HasEqual(place)
  /\ LET i == LongEntry(Tail(place))
     IN  /\ i # 0 /\ Table[i].value
         /\ IF optind < Len(argv)
            THEN /\ LET word == argv[optind + 1]
                    IN  Scan(i, word, IF word # <<>> THEN errors
                           ELSE Register(errors, Error("missarg", 0, word)))
                 /\ Long(2)
            ELSE /\ Fail(Error("missarg", 0, argv[optind]))
                 /\ Long(1)

-----------------------------------------------------------------------------
(* Short options, one after the other *)

AtShort == InWord /\ Head(place) # "-"

(* The word is done with its last character. *)
Short ==
  /\ place' = Tail(place)
  /\ optind' = IF Len(place) = 1 THEN optind + 1 ELSE optind
  /\ UNCHANGED <<argv, nonopt_start, nonopt_end, pc>> /\ Same

BadShort ==
  /\ AtShort
  /\ ShortEntry(Head(place)) = 0
  /\ Fail(Error("short", 0, <<Head(place)>>))
  /\ Short

ShortFlag ==
  /\ AtShort
  /\ LET i == ShortEntry(Head(place))
     IN  i # 0 /\ ~Table[i].value /\ Scan(i, <<>>, errors)
  /\ Short

ValueReadAgain ==  \* a mutant: the value is read as an option as well
  /\ AtShort
  /\ LET i == ShortEntry(Head(place))
     IN  /\ i # 0 /\ Table[i].value
         /\ IF Len(place) > 1 THEN Scan(i, Tail(place), errors) /\ Long(1)
            ELSE IF optind < Len(argv)
            THEN Scan(i, argv[optind + 1], errors) /\ Long(1)
            ELSE Fail(Error("missarg", 0, argv[optind])) /\ Long(1)

(* The value is the rest of the word, or else the next one. *)
ShortValue ==
  /\ AtShort
  /\ LET i == ShortEntry(Head(place))
     IN  /\ i # 0 /\ Table[i].value
         /\ IF Len(place) > 1 THEN Scan(i, Tail(place), errors) /\ Long(1)
            ELSE IF optind < Len(argv)
            THEN Scan(i, argv[optind + 1], errors) /\ Long(2)
            ELSE Fail(Error("missarg", 0, argv[optind])) /\ Long(1)

-----------------------------------------------------------------------------
(* arg_parse_untagged *)

GoesOn == UNCHANGED <<arguments, argv, place, nonopt_start, nonopt_end>>

(* "if no errors so far then perform post-parse checks" *)
AfterWords == IF errors = <<>> THEN "check" ELSE "parsed"

NoMoreWords ==
  /\ pc \in {"untagged", "unused"}
  /\ optind > Len(argv)
  /\ pc' = AfterWords
  /\ tabindex' = 1
  /\ UNCHANGED <<optind, result, tentative>> /\ GoesOn

AtEntry == pc = "untagged" /\ optind <= Len(argv) /\ tabindex \in Entries

SkipTagged ==
  /\ AtEntry
  /\ Tagged(tabindex)
  /\ tabindex' = tabindex + 1
  /\ UNCHANGED <<optind, result, tentative, pc>> /\ GoesOn

(* A word an untagged entry has room for; otherwise the next entry is tried,
   and the refusal is remembered until one takes the word. *)
TakeWord ==
  /\ AtEntry
  /\ ~Tagged(tabindex)
  /\ IF count[tabindex] < Table[tabindex].maxcount
     THEN /\ Scan(tabindex, argv[optind], errors)
          /\ optind' = optind + 1
          /\ tentative' = 0
          /\ UNCHANGED tabindex
     ELSE /\ tentative' = tabindex
          /\ tabindex' = tabindex + 1
          /\ UNCHANGED <<optind, result>>
  /\ UNCHANGED pc /\ GoesOn

(* All entries were tried: the refusal becomes an error after all. *)
NoMoreEntries ==
  /\ pc = "untagged" /\ optind <= Len(argv) /\ tabindex \notin Entries
  /\ pc' = "unused"
  /\ IF tentative # 0
     THEN Fail(Error("maxcount", tentative, argv[optind])) /\ optind' = optind + 1
     ELSE UNCHANGED <<result, optind>>
  /\ UNCHANGED <<tentative, tabindex>> /\ GoesOn

UnusedWord ==
  /\ pc = "unused"
  /\ optind <= Len(argv)
  /\ Fail(Error("nomatch", 0, argv[optind]))
  /\ optind' = optind + 1
  /\ UNCHANGED <<tentative, tabindex, pc>> /\ GoesOn

-----------------------------------------------------------------------------
(* arg_parse_check, one entry after the other *)

MissingOfGiven(i) ==  \* a mutant: entries that were never given are not checked
  count[i] > 0 /\ count[i] < Table[i].mincount

Missing(i) == count[i] < Table[i].mincount

Check ==
  /\ pc = "check" /\ tabindex \in Entries
  /\ errors' = IF Missing(tabindex)
               THEN Register(errors, Error("mincount", tabindex, <<>>)) ELSE errors
  /\ tabindex' = tabindex + 1
  /\ UNCHANGED <<arguments, getopt, count, sval, tentative, pc>>

AllChecked ==
  /\ pc = "check" /\ tabindex \notin Entries
  /\ pc' = "parsed"
  /\ UNCHANGED <<arguments, getopt, result, tentative, tabindex>>

Next ==
  \/ EndOfVector \/ SkipOperand \/ StopAtOperand \/ EnterWord \/ EndOfOptions
  \/ LoneDash
  \/ BadLong \/ LongFlag \/ LongJoined \/ LongValue
  \/ BadShort \/ ShortFlag \/ ShortValue
  \/ NoMoreWords \/ SkipTagged \/ TakeWord \/ NoMoreEntries \/ UnusedWord
  \/ Check \/ AllChecked

(* One thread that waits for nothing. *)
Spec == Init /\ [][Next]_vars /\ WF_vars(Next)

-----------------------------------------------------------------------------
(* Properties *)

Times(words, word) == Cardinality({k \in DOMAIN words : words[k] = word})

(* Types; a block of operands that was skipped lies before the next word. *)
TypeOK ==
  /\ [table |-> Table, words |-> given] \in Calls
  /\ argv \in Seq(Word) /\ Len(argv) = Len(given)
  /\ place \in Word
  /\ optind \in 1 .. Len(argv) + 1
  /\ nonopt_start \in {-1} \cup 1 .. Len(argv)
  /\ nonopt_end \in {-1} \cup 1 .. Len(argv)
  /\ nonopt_end # -1 => nonopt_start \in 1 .. nonopt_end - 1
                         /\ nonopt_end <= optind
  /\ tabindex \in 1 .. Len(Table) + 1
  /\ pc \in {"tagged", "untagged", "unused", "check", "parsed",
             "usage", "errors", "repl"}

(* Blocks are exchanged only when neither is empty: for an empty one gcd would
   divide by zero (permute_args and its three calls in getopt_internal). *)
BlocksAreNotEmpty ==
  AtWord /\ nonopt_end # -1 /\ (optind > Len(argv) \/ IsOperand(argv[optind])) =>
    nonopt_start < nonopt_end /\ nonopt_end < optind

(* However the operands are moved about, no word is lost and none appears
   twice (permute_args, getopt_internal). *)
NoWordLost == \A k \in DOMAIN given : Times(argv, given[k]) = Times(given, given[k])

(* No entry is given more often than it may be, and the array of errors is
   never left: how many there were at least can be told from its last place
   (arg_lit_scanfn, arg_str_scanfn, arg_register_error). *)
WithinArrays ==
  /\ Len(errors) <= MaxErrors
  /\ \A k \in DOMAIN errors : errors[k].kind = "limit" => k = MaxErrors
  /\ \A i \in Entries :
       /\ count[i] <= Table[i].maxcount
       /\ Table[i].value => Len(sval[i]) = count[i]

(* The parser stays within its words and its arrays, also while it moves
   operands about: no word is lost, no block it exchanges is empty, and no entry
   has more values than it has room for (getopt_internal, permute_args,
   arg_register_error, arg_str_scanfn). *)
ParserIsSound == TypeOK /\ BlocksAreNotEmpty /\ NoWordLost /\ WithinArrays

(* A parse that reports no error has used every word, and found every entry
   as often as it must be there (arg_parse). *)
NoErrorIsComplete ==
  pc \in {"parsed", "repl"} /\ errors = <<>> =>
    /\ optind = Len(argv) + 1
    /\ \A i \in Entries : count[i] \in Table[i].mincount .. Table[i].maxcount

(* A dash somewhere behind the options that a word begins with *)
DashBehindOptions(word) ==
  /\ ~IsOperand(word) /\ Len(word) > 2
  /\ word[2] # "-" /\ Last(word) = "-"

(* Whatever is typed, the parser returns: each turn takes something from the
   words (getopt_internal).  The exception is a word like -v-, whose last dash
   is read for ever (LoneDash, when no option takes the dash as its value). *)
Terminates ==
  <>(\/ pc \notin {"tagged", "untagged", "unused", "check"}
     \/ InWord /\ place = <<"-">> /\ DashBehindOptions(argv[optind]))
=============================================================================
