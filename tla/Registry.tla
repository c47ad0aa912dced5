------------------------------ MODULE Registry -------------------------------
(***************************************************************************)
(* The registry of commands of lib/argtable/argtable3.c (arg_cmd_...) over *)
(* its hash table: keys are the names, values the procedures.              *)
(***************************************************************************)
EXTENDS HashTable

CONSTANTS
  MinSize,  \* the size arg_cmd_init asks for, 32 in the code
  Nothing   \* no command

RegistryAssumption == MinSize \in 0 .. MaxMinSize /\ Nothing \notin Keys

VARIABLE answer  \* what arg_cmd_info found last

vars_ == <<vars, answer>>

(* arg_cmd_init *)
RegistryInit == h = NewTable(MinSize) /\ itr = NoItr /\ answer = Nothing

Replaced(t, name, proc) == Inserted(Removed(t, name), name, proc)
Added(t, name, proc) == Inserted(t, name, proc)  \* a mutant: the old one stays

(* arg_cmd_register: the command there was is removed first. *)
Registered(t, name, proc) ==
  IF Search(t, name) # NULL THEN Replaced(t, name, proc) ELSE Inserted(t, name, proc)

Register(name, proc) ==
  /\ Search(h, name) # NULL \/ h.entrycount < MaxEntries
  /\ h' = Registered(h, name, proc)
  /\ itr' = NoItr
  /\ UNCHANGED answer

Unregister(name) == RemoveKey(name) /\ UNCHANGED answer

(* arg_cmd_info, also in arg_cmd_dispatch *)
Info(name) ==
  /\ answer' = IF Search(h, name) = NULL THEN Nothing ELSE h.entries[Search(h, name)].v
  /\ UNCHANGED vars

Walk == (ItrCreate \/ ItrAdvance) /\ UNCHANGED answer

Seek(name) == ItrSearch(name) /\ UNCHANGED answer

RegistryNext ==
  \/ \E name \in Keys :
       Unregister(name) \/ Info(name) \/ Seek(name)
         \/ \E proc \in Values : Register(name, proc)
  \/ Walk

RegistrySpec == RegistryInit /\ [][RegistryNext]_vars_
=============================================================================
