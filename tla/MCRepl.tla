------------------------------- MODULE MCRepl -------------------------------
(***************************************************************************)
(* Sessions at the prompt.  An int has four bits and a long six, a column  *)
(* two or three characters, so that every boundary is within reach.        *)
(***************************************************************************)
EXTENDS Repl

W(begins, number, length) ==
  [begins |-> begins, number |-> number, length |-> length]
L(words) == [words |-> words, blank |-> FALSE, newline |-> TRUE]

Plain(length) == W("none", 0, length)
IdOf(n) == W("none", n, 2)
InsertLine(n, username, email) ==
  L(<<W("insert", 0, 6), IdOf(n), Plain(username), Plain(email)>>)

(* Ids at the ends of int and of long, texts at the ends of their columns,
   keywords with something behind them, lines that lack a word or the newline. *)
SmallLines ==
  {InsertLine(n, 1, 1) : n \in {-1, 0, 1, 7, 8, 17, 33}}
  \cup {InsertLine(1, UsernameSize, EmailSize),
        InsertLine(1, UsernameSize + 1, 1), InsertLine(1, 1, EmailSize + 1),
        L(<<W("insert", 0, 9), IdOf(1), Plain(1), Plain(1)>>),
        L(<<W("insert", 0, 6), IdOf(1), Plain(1)>>),
        [InsertLine(1, 1, 2) EXCEPT !.newline = FALSE],
        [InsertLine(1, 1, 1) EXCEPT !.newline = FALSE],
        L(<<W("select", 0, 6)>>),
        [L(<<W("select", 0, 6)>>) EXCEPT !.blank = TRUE],
        [L(<<W("select", 0, 6)>>) EXCEPT !.newline = FALSE],
        L(<<>>), L(<<W(".exit", 0, 5)>>), L(<<W(".btree", 0, 6)>>),
        L(<<W(".exit", 0, 6)>>),
        [L(<<W(".exit", 0, 5)>>) EXCEPT !.newline = FALSE]}

(* A session that types inserts until the tree is full and the process ends
   over one of them, or until it leaves, and sessions of one or two over what
   it left. *)
FillingLines ==
  {InsertLine(n, 1, 1) : n \in {1, 3, 5, 7}} \cup {L(<<W(".exit", 0, 5)>>)}

AllLines == SmallLines \cup FillingLines

VARIABLE script  \* "short": any lines, and sessions again; "filling"

PromptInit == ReplInit /\ script \in {"short", "filling"}

MaxShort == 5  \* bound on the lines of a short session
MaxFound == 4  \* bound on the pages those sessions find

PromptNext ==
  /\ ReplNext
  /\ IF script = "short" THEN lines' <= MaxShort /\ typed' \in SmallLines \cup {NoLine}
     ELSE /\ typed' \in FillingLines \cup {NoLine}
          /\ disk # EmptyFile => disk.num_pages <= MaxFound /\ lines' <= 2
  /\ UNCHANGED script

Prompt == PromptInit /\ [][PromptNext]_<<vars_, script>>
=============================================================================
