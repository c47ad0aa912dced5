------------------------------- MODULE Permute -------------------------------
(***************************************************************************)
(* How permute_args (lib/argtable/argtable3.c) exchanges two neighbouring  *)
(* blocks of the argument vector in place: it follows the cycles of the    *)
(* rotation, as many as the greatest common divisor of the lengths, one    *)
(* assignment after the other.  CommandLine takes the result as one step.  *)
(***************************************************************************)
EXTENDS Integers, Sequences

CONSTANT MaxLength  \* bound on the words of the vector

ASSUME PermuteAssumption == MaxLength \in Nat

VARIABLES
  start, end, opt_end,  \* the blocks are start .. end - 1 and end .. opt_end - 1
  nargv,                \* the vector; a word is the index it has at first
  a, b,                 \* of gcd; b is ncycle when gcd returns
  i, j, pos,            \* the cycle, the words moved in it, the current one
  pc

blocks == <<start, end, opt_end>>
vars == <<blocks, nargv, a, b, i, j, pos, pc>>

nnonopts == end - start
nopts == opt_end - end
cyclelen == (opt_end - start) \div b
cstart == end + i

(* getopt_internal calls it for two blocks that are not empty, with words in
   front of them and behind. *)
Init ==
  /\ start \in 1 .. MaxLength /\ end \in 1 .. MaxLength
  /\ opt_end \in 1 .. MaxLength + 1
  /\ start < end /\ end < opt_end
  /\ nargv = [k \in 1 .. MaxLength |-> k]
  /\ a = nnonopts /\ b = nopts
  /\ i = 0 /\ j = 0 /\ pos = 0
  /\ pc = "gcd"

DivideToZero ==  \* a mutant: the last remainder is returned, not what left it
  /\ pc = "gcd"
  /\ IF b # 0
     THEN a' = b /\ b' = a % b /\ UNCHANGED <<pos, pc>>
     ELSE pc' = "cycles" /\ pos' = cstart /\ UNCHANGED <<a, b>>
  /\ UNCHANGED <<blocks, nargv, i, j>>

(* One turn of the loop in gcd, or its last look at the remainder *)
Divide ==
  /\ pc = "gcd"
  /\ IF a % b # 0
     THEN a' = b /\ b' = a % b /\ UNCHANGED <<pos, pc>>
     ELSE pc' = "cycles" /\ pos' = cstart /\ UNCHANGED <<a, b>>
  /\ UNCHANGED <<blocks, nargv, i, j>>

OneFurther == IF pos > end THEN pos - nnonopts ELSE pos + nopts  \* a mutant
Follow == IF pos >= end THEN pos - nnonopts ELSE pos + nopts

(* The word at the start of the cycle waits there until its place is found. *)
Move ==
  /\ pc = "cycles"
  /\ i < b /\ j < cyclelen
  /\ pos' = Follow
  /\ nargv' = [nargv EXCEPT ![pos'] = nargv[cstart], ![cstart] = nargv[pos']]
  /\ j' = j + 1
  /\ UNCHANGED <<blocks, a, b, i, pc>>

NextCycleHere ==  \* a mutant: the next cycle goes on from where this one ended
  /\ pc = "cycles"
  /\ i < b /\ j = cyclelen
  /\ i' = i + 1
  /\ j' = 0
  /\ UNCHANGED <<blocks, nargv, a, b, pos, pc>>

NextCycle ==
  /\ pc = "cycles"
  /\ i < b /\ j = cyclelen
  /\ i' = i + 1
  /\ pos' = end + i'
  /\ j' = 0
  /\ UNCHANGED <<blocks, nargv, a, b, pc>>

Return ==
  /\ pc = "cycles"
  /\ i = b
  /\ pc' = "done"
  /\ UNCHANGED <<blocks, nargv, a, b, i, j, pos>>

Next == Divide \/ Move \/ NextCycle \/ Return

(* A function that is called once and waits for nothing *)
Spec == Init /\ [][Next]_vars /\ WF_vars(Next)

-----------------------------------------------------------------------------
(* Properties *)

(* Types: the divisor never becomes zero, and never exceeds the length of the
   second block, so that a cycle begins in it. *)
TypeOK ==
  /\ start \in Nat /\ end \in Nat /\ opt_end \in Nat
  /\ nargv \in [1 .. MaxLength -> 1 .. MaxLength]
  /\ a \in Nat \ {0} /\ b \in 1 .. nopts
  /\ i \in 0 .. b /\ j \in Nat
  /\ pc \in {"gcd", "cycles", "done"}

(* No word outside of the two blocks is touched: the position never leaves
   them (permute_args, `pos -= nnonopts', `pos += nopts'). *)
StaysInside ==
  /\ pc = "cycles" /\ i < b => pos \in start .. opt_end - 1
  /\ \A k \in 1 .. MaxLength : k < start \/ k >= opt_end => nargv[k] = k

(* What CommandLine takes for granted: in the end the blocks have changed
   places, and the words of each are in the order they had. *)
Exchanged ==
  pc = "done" =>
    SubSeq(nargv, start, opt_end - 1)
      = [k \in 1 .. nopts |-> end + k - 1] \o [k \in 1 .. nnonopts |-> start + k - 1]

(* gcd ends, and so does every cycle. *)
Returns == <>(pc = "done")
=============================================================================
