-------------------------------- MODULE Repl --------------------------------
(***************************************************************************)
(* The read-eval-print loop of src/gnaro.c over the database of module     *)
(* BTree: a line of input is a step, and so is each of the ways a session  *)
(* begins and ends.  The status a process leaves is all the shell that     *)
(* started it learns.                                                      *)
(*                                                                         *)
(* database_close is a step for each page it writes.  Between two of them  *)
(* the process may be killed, a write may fail, or store only a part of    *)
(* the page, which the code takes for success.  So `file' is the file as   *)
(* it is, and `disk' of module BTree the file as a close left it that      *)
(* wrote every page whole; where they differ, no session begins here.      *)
(***************************************************************************)
EXTENDS BTree, Statement

CONSTANTS
  Lines,    \* the lines that may be typed
  MaxLines  \* bound on the lines of a session

ASSUME ReplAssumption ==
  /\ Lines \subseteq Line
  /\ MaxLines \in Nat
  /\ 0 .. IntMax \subseteq Keys

VARIABLES
  running,   \* the process has not ended
  status,    \* what the last process ended with: an exit status or a signal
  typed,     \* the last line
  prepared,  \* what the line was understood as
  answer,    \* the message it got
  lines,     \* the lines read in the session
  reported,  \* history: how many rows of each id were reported as inserted
  file,      \* the pages in the file
  closing,   \* the process is in database_close
  saved,     \* the pages its loop is through with
  short,     \* one of them was not written whole
  found      \* history: the file as the session found it

shown == <<typed, prepared, answer, lines>>
saving == <<file, closing, saved, short>>
vars_ == <<vars, running, status, shown, reported, saving, found>>

NoLine == [words |-> <<>>, blank |-> FALSE, newline |-> TRUE]
Nothing == Prepared("nothing", NoRow)
None == [k \in Keys |-> 0]

ReplInit ==
  /\ Init
  /\ running = FALSE
  /\ status = "none"
  /\ typed = NoLine
  /\ prepared = Nothing
  /\ answer = "none"
  /\ lines = 0
  /\ reported = None
  /\ file = disk
  /\ closing = FALSE
  /\ saved = 0
  /\ short = FALSE
  /\ found = file

(* Nothing is left of the input buffer. *)
ForgetLine ==
  /\ typed' = NoLine
  /\ prepared' = Nothing
  /\ answer' = "none"
  /\ lines' = 0

(* The end of main, or of the process. *)
Ends(with) ==
  /\ running' = FALSE
  /\ status' = with
  /\ closing' = FALSE
  /\ ForgetLine
  /\ UNCHANGED <<reported, file, saved, short, found>>

BeginsWith(result) ==
  /\ ~running
  /\ status' = result
  /\ found' = file
  /\ reported' = None
  /\ saved' = 0
  /\ short' = FALSE
  /\ UNCHANGED <<shown, file, closing>>

(* main up to the loop *)
StartSession(w) ==
  /\ file = disk
  /\ Open(w)
  /\ running' = TRUE
  /\ BeginsWith("none")

(* The file cannot be opened: the cleanup closes the database all the same
   and follows a null pointer. *)
CannotOpen ==
  /\ BeginsWith("SIGSEGV")
  /\ UNCHANGED <<vars, running>>

-----------------------------------------------------------------------------
(* A line *)

AtPrompt == running /\ ~closing

Reads(line) ==
  /\ AtPrompt
  /\ lines < MaxLines
  /\ lines' = lines + 1
  /\ typed' = line
  /\ UNCHANGED <<saving, found>>

Says(message) ==
  /\ answer' = message
  /\ UNCHANGED <<running, status>>

(* .btree, and meta commands there are not; what .btree prints is left out *)
Meta(line) ==
  /\ Reads(line)
  /\ IsMeta(Buffer(line)) /\ ~IsJust(Buffer(line), ".exit")
  /\ Says(IF IsJust(Buffer(line), ".btree") THEN "tree" ELSE "unrecognized command")
  /\ prepared' = Nothing
  /\ UNCHANGED <<vars, reported>>

(* A line that is no statement *)
NotPrepared(line) ==
  /\ Reads(line)
  /\ ~IsMeta(Buffer(line))
  /\ prepared' = Prepare(Buffer(line))
  /\ prepared'.result \notin {"insert", "select"}
  /\ Says(prepared'.result)
  /\ UNCHANGED <<vars, reported>>

ExecuteSelect(line) ==
  /\ Reads(line)
  /\ prepared' = Prepare(Buffer(line))
  /\ prepared'.result = "select"
  /\ Select
  /\ Says("statement executed")
  /\ UNCHANGED reported

(* An access past the array of the pager, or a stack that has no end, may be
   stopped by the platform. *)
Aftermath(fate) == IF fate = "exits" THEN {"1"} ELSE {"1", "SIGSEGV"}

(* An insert that ends the process takes the session with it. *)
ExecuteInsert(line, w) ==
  /\ AtPrompt
  /\ LET statement == Prepare(Buffer(line))
         id == statement.row.id
     IN  /\ statement.result = "insert"
         /\ Insert(id, w)
         /\ IF db'.fate # "runs" THEN \E with \in Aftermath(db'.fate) : Ends(with)
            ELSE /\ Reads(line)
                 /\ prepared' = statement
                 /\ Says(IF reply'.kind = "duplicate" THEN "duplicate key"
                         ELSE "statement executed")
                 /\ reported' = IF reply'.kind = "duplicate" THEN reported
                                ELSE [reported EXCEPT ![id] = @ + 1]

-----------------------------------------------------------------------------
(* The end of a session *)

(* The jump to the cleanup, from .exit and when there is no line to read *)
Cleanup ==
  /\ AtPrompt
  /\ closing' = TRUE
  /\ ForgetLine
  /\ UNCHANGED <<vars, running, status, reported, file, saved, short, found>>

Exit(line) ==
  /\ IsJust(Buffer(line), ".exit")
  /\ Cleanup

EndOfInput == Cleanup

(* A page that was not written whole, of which no row is counted. *)
Torn == [FreshPage(0) EXCEPT !.type = "torn"]

PutLastPage(to, p, page) ==  \* a mutant: the file ends behind the page
  [ num_pages |-> p + 1,
    pages |-> [q \in 0 .. p |-> IF q = p THEN page ELSE to.pages[q]] ]

(* The file with a page where it belongs; the pages are written in order. *)
PutPage(to, p, page) ==
  [ num_pages |-> IF p < to.num_pages THEN to.num_pages ELSE p + 1,
    pages |-> [q \in DOMAIN to.pages \cup {p} |->
                 IF q = p THEN page ELSE to.pages[q]] ]

MorePages == saved < db.num_pages

(* A turn of the loop of database_close.  A page that is not in the cache is
   left out by the code; it is the one in the file (module Pager). *)
FlushPage ==
  /\ closing /\ MorePages
  /\ \/ /\ file' = PutPage(file, saved, db.pages[saved])
        /\ UNCHANGED short
     \/ /\ file' = PutPage(file, saved, Torn)
        /\ short' = TRUE
  /\ saved' = saved + 1
  /\ UNCHANGED <<vars, running, status, shown, closing, reported, found>>

FinishEarly ==  \* a mutant: the last page is left out
  /\ closing /\ saved + 1 >= db.num_pages
  /\ IF short THEN Kill ELSE Close
  /\ Ends("0")

(* All pages are written, as far as the code can tell, and main returns 0. *)
FinishClose ==
  /\ closing /\ ~MorePages
  /\ IF short THEN Kill ELSE Close
  /\ Ends("0")

(* A read or write that fails is an exit, whatever was written before it. *)
TransferFails ==
  /\ running
  /\ Kill
  /\ Ends("1")

Killed ==
  /\ running
  /\ Kill
  /\ Ends("SIGKILL")

ReplNext ==
  \/ \E w \in Words : StartSession(w)
  \/ CannotOpen
  \/ EndOfInput
  \/ FlushPage
  \/ FinishClose
  \/ TransferFails
  \/ Killed
  \/ \E line \in Lines :
       \/ Meta(line)
       \/ Exit(line)
       \/ NotPrepared(line)
       \/ ExecuteSelect(line)
       \/ \E w \in Words : ExecuteInsert(line, w)

ReplSpec == ReplInit /\ [][ReplNext]_vars_

-----------------------------------------------------------------------------
Rows(pages) == [k \in Keys |-> Copies(pages, k)]

(* Types; the process runs as long as its database is open, and an id that is
   accepted is one a column of that width holds as it is. *)
ReplTypeOK ==
  /\ running = Running
  /\ closing \in BOOLEAN /\ short \in BOOLEAN
  /\ closing => running
  /\ saved \in Nat
  /\ status \in {"none", "0", "1", "SIGSEGV", "SIGKILL"}
  /\ typed \in Line
  /\ prepared.result \in {"nothing", "insert", "select", "syntax_error",
                          "negative_id", "string_too_long", "unrecognized"}
  /\ prepared.row.id \in Keys
  /\ lines \in 0 .. MaxLines
  /\ reported \in [Keys -> Nat]

(* What the exit status tells about the file.  0: if every write stored the
   whole page, the file holds what it held and every row the session reported
   as inserted, no more and no less, and another session may open it.  Of a
   session that ended with something else the file knows nothing, reported
   rows or not, if no page was written yet; once one was, the status does not
   tell whether others were (main, database_close, pager_flush, every exit of
   src/btree.c). *)
StatusTellsSaved ==
  ~running =>
    /\ status = "0" /\ ~short =>
         /\ Rows(file.pages) = [k \in Keys |-> Rows(found.pages)[k] + reported[k]]
         /\ file = disk
    /\ status # "0" /\ saved = 0 => file = found

(* A close may be cut short after any page.  What the file holds by then is a
   tree, with every row it held before and none but those reported since, as
   long as the session added no page: it changed leaves then, each in its
   place, and every one is the old or the new one.  A session that split a leaf
   has no such luck (database_close, btree_node_leaf_insert). *)
CutShortIsATree ==
  closing /\ ~short /\ db.num_pages = found.num_pages =>
    /\ IsTree(file.pages)
    /\ \A k \in Keys :
         /\ Rows(found.pages)[k] <= Rows(file.pages)[k]
         /\ Rows(file.pages)[k] <= Rows(found.pages)[k] + reported[k]

(* Every text that is accepted, one as long as its column included, comes
   back from the bytes of the row as it was typed: neither column runs into
   the next (statement_prepare_insert, row_serialize, row_print). *)
RowComesBack ==
  prepared.result = "insert" =>
    RowPrinted(prepared.row.id, RowSerialize(prepared.row)) = prepared.row

(* A line that ends in a newline, with an id an int can hold, means what was
   typed: the row that is stored is the one in the line, and an id that is
   refused is less than zero.  Without the newline, or with a longer number,
   neither is so (input_read, atoi in statement_prepare_insert). *)
MeansWhatWasTyped ==
  LET words == typed.words
  IN  typed.newline /\ Len(words) > 1 /\ InInt(words[2].number) =>
        /\ prepared.result = "insert" =>
             prepared.row = [id |-> words[2].number, username |-> words[3].length,
                             email |-> words[4].length]
        /\ prepared.result = "negative_id" => words[2].number < 0

(* What is typed is what comes back: the line becomes the row it says, and the
   row its bytes and itself again. *)
StoredAsTyped == MeansWhatWasTyped /\ RowComesBack
=============================================================================
