------------------------------ MODULE Commands -------------------------------
(***************************************************************************)
(* What the registry of commands promises (arg_cmd_... in lib/argtable/    *)
(* argtable3.c): one procedure for a name, the last that was registered,   *)
(* and a walk that comes to every name once, in some order.                *)
(***************************************************************************)
EXTENDS FiniteSets, Functions

CONSTANTS Names, Procs, Nothing

VARIABLES
  commands,  \* the procedures by their names
  walk,      \* the name the walk is at and those it has still to come to
  answer     \* what was found last

vars == <<commands, walk, answer>>

NoWalk == [at |-> Nothing, left |-> {}]

Init == commands = <<>> /\ walk = NoWalk /\ answer = Nothing

Register(name, proc) ==
  /\ commands' = [n \in DOMAIN commands \cup {name} |->
                    IF n = name THEN proc ELSE commands[n]]
  /\ walk' = NoWalk
  /\ UNCHANGED answer

Unregister(name) ==
  /\ commands' = Restrict(commands, DOMAIN commands \ {name})
  /\ walk' = NoWalk
  /\ UNCHANGED answer

Look(name) ==
  /\ answer' = IF name \in DOMAIN commands THEN commands[name] ELSE Nothing
  /\ UNCHANGED <<commands, walk>>

(* To one of the names, or to the end when there is none *)
Goes(names) ==
  walk' \in IF names = {} THEN {NoWalk}
            ELSE {[at |-> n, left |-> names \ {n}] : n \in names}

Begin == Goes(DOMAIN commands) /\ UNCHANGED <<commands, answer>>

(* The walk goes on from a name; which ones are behind it is not said. *)
Seek(name) ==
  /\ name \in DOMAIN commands
  /\ walk' \in {[at |-> name, left |-> names] :
                  names \in SUBSET (DOMAIN commands \ {name})}
  /\ UNCHANGED <<commands, answer>>

Advance == walk # NoWalk /\ Goes(walk.left) /\ UNCHANGED <<commands, answer>>

Next ==
  \/ \E name \in Names :
       Unregister(name) \/ Look(name) \/ Seek(name)
         \/ \E proc \in Procs : Register(name, proc)
  \/ Begin \/ Advance

Spec == Init /\ [][Next]_vars
=============================================================================
