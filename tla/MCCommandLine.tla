---------------------------- MODULE MCCommandLine ----------------------------
(***************************************************************************)
(* The command line of the program, with every combination of a few words. *)
(* The parser moves operands while it reads; to know what it should find,  *)
(* the words are read a second time here, from left to right and by the    *)
(* rules a user knows.                                                     *)
(***************************************************************************)
EXTENDS Main

(* Options with and without a value, next to it and apart from it, run
   together, abbreviated, ambiguous; operands and the end of options. *)
FewWords ==
  { <<"-", "d">>, <<"-", "-", "d", "a", "=", "a">>, <<"-", "v">>, <<"-", "v", "d">>,
    <<"-", "-", "h">>, <<"-", "-">>, <<"a">>, <<"-">> }

SmallWords ==
  FewWords \cup
  { <<"-", "d", "a">>, <<"-", "-", "d", "a">>, <<"-", "-", "v", "e">>,
    <<"-", "-", "v", "e", "a">> }

(* Options that do not exist or lack something, in all positions. *)
OddWords ==
  { <<"-", "d">>, <<"-", "-", "d">>, <<"-", "e", "v">>, <<"-", ":">>,
    <<"-", "-", "h", "e", "=", "a">>, <<"-", "-", "d", "a", "=">>,
    <<"-", "-", "=", "a">>, <<"-", "v", "-", "v", "e", "b">>, <<"-", "-", "-">>,
    <<"-", "v", "-">>, <<>>, <<"b">> }

(* Not the table of the program: entries that take words without options, a
   short option that two entries claim, and a name that begins another one. *)
OtherTable ==
  << Lit(<<"v", "e">>, <<<<"d">>>>, 0, 2),
     Str(<<>>, <<>>, 1, 1),
     Str(<<"d", "v">>, <<<<"d", "a">>, <<"d", "e">>>>, 2, 1),
     Str(<<>>, <<>>, 0, 1) >>

OtherWords ==
  { <<"-", "v", "-">>, <<"-", "e", "d", "b">>, <<"-", "-", "d">>,
    <<"-", "-", "d", "e">>, <<"a">>, <<"b">>, <<"-", "-">> }

UpTo(n, words) == UNION {[1 .. m -> words] : m \in 0 .. n}

MCCalls ==
  [table : {argtable},
   words : UpTo(3, SmallWords) \cup [1 .. 4 -> FewWords] \cup UpTo(3, OddWords)]
  \cup [table : {OtherTable}, words : UpTo(4, OtherWords)]

-----------------------------------------------------------------------------
(* Reading from left to right *)

NoReading == [operands |-> <<>>, values |-> [i \in Entries |-> <<>>],
              times |-> [i \in Entries |-> 0], waits |-> 0, ended |-> FALSE]

Given(reading, i, word) ==
  [reading EXCEPT !.times[i] = @ + 1, !.waits = 0, !.values[i] = Append(@, word)]

Flag(reading, i) == [reading EXCEPT !.times[i] = @ + 1]
Waits(reading, i) == [reading EXCEPT !.waits = i]

ReadLong(reading, word) ==
  LET i == LongEntry(NameOf(word))
  IN  IF i = 0 THEN reading
      ELSE IF Table[i].value
      THEN IF HasEqual(word) THEN Given(reading, i, ValueOf(word))
                             ELSE Waits(reading, i)
      ELSE IF HasEqual(word) THEN reading ELSE Flag(reading, i)

RECURSIVE ReadShorts(_, _)
ReadShorts(reading, rest) ==
  IF rest = <<>> THEN reading
  ELSE IF Head(rest) = "-" THEN ReadLong(reading, Tail(rest))
  ELSE LET i == ShortEntry(Head(rest))
       IN  IF i = 0 THEN ReadShorts(reading, Tail(rest))
           ELSE IF ~Table[i].value THEN ReadShorts(Flag(reading, i), Tail(rest))
           ELSE IF Len(rest) > 1 THEN Given(reading, i, Tail(rest))
           ELSE Waits(reading, i)

ReadWord(reading, word) ==
  IF reading.waits # 0 THEN Given(reading, reading.waits, word)
  ELSE IF reading.ended \/ IsOperand(word)
  THEN [reading EXCEPT !.operands = Append(@, word),
                       !.ended = @ \/ posixly_correct]
  ELSE IF IsEnd(word) THEN [reading EXCEPT !.ended = TRUE]
  ELSE ReadShorts(reading, Tail(word))

Reading == FoldLeft(ReadWord, NoReading, given)

AsOften(i, times) == IF times > Table[i].maxcount THEN Table[i].maxcount ELSE times

(* When the options are read, the operands are what is left of the vector, in
   the order they were typed, wherever options and their values stood between
   them (getopt_internal, permute_args). *)
OperandsLast ==
  pc = "untagged" /\ tabindex = 1 /\ (Tagged(1) \/ optind = Len(argv) + 1) =>
    SubSeq(argv, optind, Len(argv)) = Reading.operands

(* Every option counts as often as it was typed, up to its maximum, and the
   first values of an option are the ones it has. *)
CountedAsTyped ==
  pc = "untagged" /\ tabindex = 1 =>
    \A i \in Entries : Tagged(i) =>
      /\ count[i] = AsOften(i, Reading.times[i])
      /\ Table[i].value => sval[i] = SubSeq(Reading.values[i], 1, count[i])

(* The file that is opened is the one that was typed, exactly once. *)
OpensWhatWasTyped ==
  pc = "repl" => sval[Database] = Reading.values[Database]
                 /\ Len(sval[Database]) = 1

(* "special case: '--help' takes precedence over error reporting"
   (src/gnaro.c:40): whoever asked for help gets neither errors nor a session. *)
HelpWins == pc \in {"errors", "repl"} => Reading.times[Help] = 0

(* No word is taken for an option and for a value, or for neither, and main
   acts on what was typed: the options are those a reader from left to right
   finds, help goes first, and the session is that of the one file that was
   named (parse_long_options, getopt_internal, the scan functions, main). *)
OptionsAsTyped == CountedAsTyped /\ OpensWhatWasTyped /\ HelpWins
=============================================================================
