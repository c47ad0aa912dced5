------------------------------ MODULE Statement ------------------------------
(***************************************************************************)
(* From a line of input to a statement (src/input.c, statement_prepare in  *)
(* src/statement.c) and from a row to its bytes and back (src/row.c).      *)
(* Nothing here has state; module Repl reads lines with it.                *)
(*                                                                         *)
(* A line is its words, a blank behind the last of them or none, and the   *)
(* newline it ends with or, at the end of the input, does not.  A word is  *)
(* what the program can tell about it: the keyword it begins with, the     *)
(* number at its beginning (0 if there is none) and its length.            *)
(***************************************************************************)
EXTENDS Integers, Sequences, SequencesExt

CONSTANTS
  IntMax,        \* INT_MAX, 2^31 - 1 in the build
  LongMax,       \* LONG_MAX, 2^63 - 1 in the build
  UsernameSize,  \* ROW_COLUMN_USERNAME_SIZE, 32 in the build
  EmailSize      \* ROW_COLUMN_EMAIL_SIZE, 255 in the build

ASSUME StatementAssumption ==
  /\ IntMax \in Nat /\ LongMax \in Nat /\ LongMax >= IntMax
  /\ UsernameSize \in Nat \ {0} /\ EmailSize \in Nat \ {0}

Keyword == {"insert", "select", ".exit", ".btree", ".", "none"}

KeywordLength ==
  [k \in Keyword |-> CASE k \in {"insert", "select", ".btree"} -> 6
                       [] k = ".exit" -> 5
                       [] k = "." -> 1
                       [] OTHER -> 0]

Word == [begins : Keyword, number : Int, length : Nat \ {0}]
Line == [words : Seq(Word), blank : BOOLEAN, newline : BOOLEAN]

-----------------------------------------------------------------------------
(* Reading a line *)

(* A word without its last character; what is left of a keyword is none.  The
   number is kept: no word that is read as one is ever the last of its line. *)
Shortened(word) ==
  [word EXCEPT
     !.length = @ - 1,
     !.begins = IF word.length > KeywordLength[@] THEN @
                ELSE IF word.begins \in {".exit", ".btree"} THEN "." ELSE "none"]

WithoutLastCharacter(line) ==
  IF line.blank \/ line.words = <<>> THEN [line EXCEPT !.blank = FALSE]
  ELSE [line EXCEPT
          !.words = IF Last(@).length = 1 THEN Front(@)
                    ELSE Append(Front(@), Shortened(Last(@)))]

(* input_read cuts off the last character of what getline returns, be it a
   newline or not. *)
Buffer(line) == IF line.newline THEN line ELSE WithoutLastCharacter(line)

(* strcmp with a keyword *)
IsJust(buffer, keyword) ==
  /\ Len(buffer.words) = 1 /\ ~buffer.blank
  /\ buffer.words[1].begins = keyword
  /\ buffer.words[1].length = KeywordLength[keyword]

(* strncmp with "insert", which stops after six characters *)
StartsWithInsert(buffer) ==
  buffer.words # <<>> /\ buffer.words[1].begins = "insert"

IsMeta(buffer) ==
  buffer.words # <<>> /\ buffer.words[1].begins \in {".", ".exit", ".btree"}

-----------------------------------------------------------------------------
(* Preparing a statement *)

(* atoi: strtol, which stops at the ends of long, and of that the low bits. *)
Ints == 2 * (IntMax + 1)  \* 2^32 in the build: how many values an int has

AtoiUnsigned(number) == number % Ints  \* a mutant: the sign bit counts

Saturated(number) ==
  IF number > LongMax THEN LongMax
  ELSE IF number < -LongMax - 1 THEN -LongMax - 1 ELSE number

InInt(number) == number \in -IntMax - 1 .. IntMax

Atoi(number) ==
  LET low == Saturated(number) % Ints
  IN  IF low <= IntMax THEN low ELSE low - Ints

NoRow == [id |-> 0, username |-> 0, email |-> 0]

Prepared(result, row) == [result |-> result, row |-> row]

FitsWithEnd(username, email) ==  \* a mutant: off by one
  username <= UsernameSize + 1 /\ email <= EmailSize + 1
Fits(username, email) == username <= UsernameSize /\ email <= EmailSize

(* statement_prepare_insert: the words after the first one, the fourth and
   all that follow it unread.  A row is its id and the lengths of its texts. *)
PrepareInsert(words) ==
  IF Len(words) < 4 THEN Prepared("syntax_error", NoRow)
  ELSE IF Atoi(words[2].number) < 0 THEN Prepared("negative_id", NoRow)
  ELSE IF ~Fits(words[3].length, words[4].length)
       THEN Prepared("string_too_long", NoRow)
  ELSE Prepared("insert", [id |-> Atoi(words[2].number),
                           username |-> words[3].length,
                           email |-> words[4].length])

(* statement_prepare *)
Prepare(buffer) ==
  IF StartsWithInsert(buffer) THEN PrepareInsert(buffer.words)
  ELSE IF IsJust(buffer, "select") THEN Prepared("select", NoRow)
  ELSE Prepared("unrecognized", NoRow)

-----------------------------------------------------------------------------
(* The bytes of a row *)

TextSizes == <<UsernameSize + 1, EmailSize + 1>>

(* A text in memory: its characters and the NUL. *)
Text(length) == [k \in 1 .. length + 1 |-> IF k <= length THEN "c" ELSE "NUL"]

(* strncpy into a column: as much of the text as there is room for, and NULs
   in the rest. *)
Column(text, size) ==
  [k \in 1 .. size |-> IF k <= Len(text) THEN text[k] ELSE "NUL"]

(* row_serialize, the texts one after the other *)
RowSerialize(row) ==
  Column(Text(row.username), TextSizes[1])
    \o Column(Text(row.email), TextSizes[2])

(* What row_print shows of a text that begins at byte k of the row. *)
PrintedFrom(bytes, k) ==
  LET ends == {j \in k .. Len(bytes) : bytes[j] = "NUL"}
  IN  IF ends = {} THEN Len(bytes) - k + 1
      ELSE (CHOOSE j \in ends : \A l \in ends : j <= l) - k

(* row_deserialize and row_print *)
RowPrinted(id, bytes) ==
  [id |-> id, username |-> PrintedFrom(bytes, 1),
   email |-> PrintedFrom(bytes, TextSizes[1] + 1)]
=============================================================================
