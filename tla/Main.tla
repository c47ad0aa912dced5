-------------------------------- MODULE Main --------------------------------
(***************************************************************************)
(* main of src/gnaro.c around the parser: the table of options it declares *)
(* and what it does once they are read.  The long names are abbreviated so *)
(* that they agree and differ in the same places: "he" is help, "da" is    *)
(* database, "vea" and "veb" are version and verbosity.                    *)
(***************************************************************************)
EXTENDS CommandLine

Help == 1
Version == 2
Database == 3
Verbosity == 4

argtable ==
  << Lit(<<>>, <<<<"h", "e">>>>, 0, 1),
     Lit(<<>>, <<<<"v", "e", "a">>>>, 0, 1),
     Str(<<"d">>, <<<<"d", "a">>>>, 1, 1),
     Lit(<<"v">>, <<<<"v", "e", "b">>>>, 0, 1) >>

(* Asking for help comes before the errors. *)
Decide ==
  /\ pc = "parsed" /\ Table = argtable
  /\ pc' = IF count[Help] > 0 THEN "usage"
           ELSE IF errors # <<>> THEN "errors" ELSE "repl"
  /\ UNCHANGED <<arguments, getopt, result, tentative, tabindex>>

MainNext == Next \/ Decide

MainSpec == Init /\ [][MainNext]_vars /\ WF_vars(MainNext)

-----------------------------------------------------------------------------
(* What arg_print_errors writes: errorfn of the entry an error belongs to, of
   the terminator for an error that belongs to none.  A function that does not
   know the error writes what comes before its switch statement. *)

arg_end_errorfn(error) ==
  <<"progname",
    CASE error.kind = "limit" -> "too many errors to display"
      [] error.kind = "nomatch" -> "unexpected argument"
      [] error.kind = "missarg" -> "option requires an argument"
      [] error.kind = "longopt" -> "invalid option"
      [] OTHER -> "invalid option -c",
    "newline">>

arg_lit_errorfn(error) ==
  CASE error.kind = "mincount" -> <<"progname", "missing option", "newline", "newline">>
    [] error.kind = "maxcount" -> <<"progname", "extraneous option", "newline">>
    [] OTHER -> <<>>

arg_str_errorfn(error) ==
  CASE error.kind = "mincount" -> <<"progname", "missing option", "newline">>
    [] error.kind = "maxcount" -> <<"progname", "excess option", "newline">>
    [] OTHER -> <<"progname">>

ErrorText(error) ==
  IF error.of = 0 THEN arg_end_errorfn(error)
  ELSE IF Table[error.of].value THEN arg_str_errorfn(error) ELSE arg_lit_errorfn(error)

(* Every error that was found is told in a line of its own, with a reason: the
   function that is called for it knows it.  The error that tells that there
   were more takes the place of one that may belong to an entry
   (arg_register_error, arg_print_errors_ds). *)
EveryErrorIsTold ==
  \A k \in DOMAIN errors :
    LET text == ErrorText(errors[k])
    IN  Len(text) > 2 /\ text[1] = "progname" /\ text[3] = "newline"
=============================================================================
