------------------------------ MODULE HashTable ------------------------------
(***************************************************************************)
(* The hash table of lib/argtable/argtable3.c (arg_hashtable_create and    *)
(* the functions behind it): buckets that are chains of entries, a table   *)
(* that grows with the number of its entries, and an iterator that may     *)
(* remove where it stands.  An entry is a block of memory, given back when *)
(* it is freed.                                                            *)
(*                                                                         *)
(* The iterator is used until the table is changed other than through it:  *)
(* an insert or a remove ends the walk, as callers have to.                *)
(***************************************************************************)
EXTENDS Naturals, Sequences, FiniteSets, SequencesExt

CONSTANTS
  Keys, Values,
  Hash,        \* enhanced_hash of every key
  Primes,      \* primes, the sizes of tables
  MaxMinSize,  \* the largest size that may be asked for, 2^30 in the code
  MaxEntries   \* bound on the entries

HashTableAssumption ==
  /\ Hash \in [Keys -> Nat]
  /\ Primes \in Seq(Nat \ {0}) /\ Primes # <<>>
  /\ \A p \in 1 .. Len(Primes) - 1 : Primes[p] + 2 <= Primes[p + 1]
  /\ MaxMinSize \in Nat /\ MaxMinSize < Last(Primes)
  /\ MaxEntries \in Nat

NULL == 0

VARIABLES
  h,   \* the table; primeindex counts from 1, and is 0 when there is no table
  itr  \* the iterator; e is NULL at the end, and when there is none

vars == <<h, itr>>

Blocks == 1 .. MaxEntries
NoTable == [primeindex |-> 0, database |-> <<>>, entrycount |-> 0, entries |-> <<>>]
NoItr == [e |-> NULL, parent |-> NULL, index |-> 0]

-----------------------------------------------------------------------------
(* A table *)

tablelength(t) == Primes[t.primeindex]
Buckets(t) == 0 .. tablelength(t) - 1
index_for(length, k) == Hash[k] % length

(* ceil(size * 0.65); the float is a little less, which no prime notices. *)
loadlimit(size) == (65 * size + 99) \div 100

(* The entries of a chain, from e on. *)
ChainFrom(t, e) ==
  LET chain[f \in DOMAIN t.entries \cup {NULL}] ==
        IF f = NULL THEN <<>> ELSE <<f>> \o chain[t.entries[f].next]
  IN  chain[e]
Chain(t, b) == ChainFrom(t, t.database[b])

(* Where a key is looked for, and the first entry of it there *)
ChainOf(t, k) == Chain(t, index_for(tablelength(t), k))
Search(t, k) ==
  LET chain == ChainOf(t, k)
      found == {p \in DOMAIN chain : t.entries[chain[p]].k = k}
  IN  IF found = {} THEN NULL
      ELSE chain[CHOOSE p \in found : \A q \in found : p <= q]

(* The entry before e in its chain, NULL for the head *)
Before(t, e) ==
  LET chain == ChainOf(t, t.entries[e].k)
  IN  IF Head(chain) = e THEN NULL
      ELSE chain[CHOOSE p \in 1 .. Len(chain) - 1 : chain[p + 1] = e]

-----------------------------------------------------------------------------
(* Changing it *)

NewTable(minsize) ==
  LET larger == {p \in DOMAIN Primes : Primes[p] > minsize}
      least == CHOOSE p \in larger : \A q \in larger : p <= q
  IN  [NoTable EXCEPT
         !.primeindex = least,
         !.database = [b \in 0 .. Primes[least] - 1 |-> NULL]]

(* An entry becomes the head of the chain it belongs to. *)
Pushed(t, e) ==
  LET b == index_for(tablelength(t), t.entries[e].k)
  IN  [t EXCEPT !.entries[e].next = t.database[b], !.database[b] = e]

(* arg_hashtable_expand: entry by entry from the heads of the old chains. *)
Expanded(t) ==
  IF t.primeindex = Len(Primes) THEN t
  ELSE LET size == Primes[t.primeindex + 1]
           old == FlattenSeq([b \in 1 .. tablelength(t) |-> Chain(t, b - 1)])
           bare == [t EXCEPT !.primeindex = @ + 1,
                             !.database = [b \in 0 .. size - 1 |-> NULL]]
           moved[m \in 0 .. Len(old)] ==
             IF m = 0 THEN bare ELSE Pushed(moved[m - 1], old[m])
       IN  moved[Len(old)]

IsFull(t) == t.entrycount + 1 > loadlimit(tablelength(t))

(* arg_hashtable_insert *)
Inserted(t, k, v) ==
  LET room == IF IsFull(t) THEN Expanded(t) ELSE t
      free == Blocks \ DOMAIN t.entries
      e == CHOOSE f \in free : \A g \in free : f <= g
      entries == [f \in DOMAIN t.entries \cup {e} |->
                    IF f = e THEN [k |-> k, v |-> v, next |-> NULL]
                    ELSE room.entries[f]]
  IN  Pushed([room EXCEPT !.entries = entries, !.entrycount = @ + 1], e)

(* What was before e in the chain now points behind it. *)
Unlinked(t, e, before, b) ==
  IF before = NULL THEN [t EXCEPT !.database[b] = t.entries[e].next]
  ELSE [t EXCEPT !.entries[before].next = t.entries[e].next]

Freed(t, e) ==
  [t EXCEPT !.entries = [f \in DOMAIN @ \ {e} |-> @[f]], !.entrycount = @ - 1]

(* arg_hashtable_remove: the first entry with the key *)
Removed(t, k) ==
  LET e == Search(t, k)
  IN  IF e = NULL THEN t
      ELSE Freed(Unlinked(t, e, Before(t, e), index_for(tablelength(t), k)), e)

-----------------------------------------------------------------------------
(* The iterator *)

FirstFrom(t, b) ==
  LET used == {c \in Buckets(t) : c >= b /\ t.database[c] # NULL}
  IN  IF used = {} THEN tablelength(t) ELSE CHOOSE c \in used : \A d \in used : c <= d

AtBucket(t, b) ==
  [e |-> IF b < tablelength(t) THEN t.database[b] ELSE NULL,
   parent |-> NULL, index |-> b]

(* arg_hashtable_itr_advance *)
Advanced(t, i) ==
  IF t.entries[i.e].next # NULL
  THEN [i EXCEPT !.parent = i.e, !.e = t.entries[i.e].next]
  ELSE AtBucket(t, FirstFrom(t, i.index + 1))

-----------------------------------------------------------------------------
Init == h = NoTable /\ itr = NoItr

Exists == h.primeindex # 0

Create(minsize) ==
  /\ ~Exists
  /\ h' = IF minsize > MaxMinSize THEN NoTable ELSE NewTable(minsize)
  /\ UNCHANGED itr

Destroy == Exists /\ h' = NoTable /\ itr' = NoItr

Insert(k, v) ==
  /\ Exists /\ h.entrycount < MaxEntries
  /\ h' = Inserted(h, k, v)
  /\ itr' = NoItr

RemoveKey(k) ==
  /\ Exists
  /\ h' = Removed(h, k)
  /\ itr' = NoItr

Change(k, v) ==
  /\ Exists
  /\ h' = IF Search(h, k) = NULL THEN h ELSE [h EXCEPT !.entries[Search(h, k)].v = v]
  /\ UNCHANGED itr

ItrCreate ==
  /\ Exists
  /\ itr' = AtBucket(h, IF h.entrycount = 0 THEN tablelength(h) ELSE FirstFrom(h, 0))
  /\ UNCHANGED h

ItrAdvance ==
  /\ Exists /\ itr.e # NULL
  /\ itr' = Advanced(h, itr)
  /\ UNCHANGED h

ItrSearch(k) ==
  /\ Exists
  /\ LET e == Search(h, k)
     IN  itr' = IF e = NULL THEN itr
                ELSE [e |-> e, parent |-> Before(h, e),
                      index |-> index_for(tablelength(h), k)]
  /\ UNCHANGED h

(* The iterator goes on; the entry before it is not the one that is freed. *)
KeptParent(i) == i  \* a mutant: the parent is not corrected
Corrected(i) == IF i.parent = itr.e THEN [i EXCEPT !.parent = itr.parent] ELSE i

ItrRemove ==
  /\ Exists /\ itr.e # NULL
  /\ LET unlinked == Unlinked(h, itr.e, itr.parent, itr.index)
     IN  /\ h' = Freed(unlinked, itr.e)
         /\ itr' = Corrected(Advanced(unlinked, itr))

Next ==
  \/ \E minsize \in 0 .. MaxMinSize + 1 : Create(minsize)
  \/ Destroy
  \/ \E k \in Keys, v \in Values : Insert(k, v) \/ Change(k, v)
  \/ \E k \in Keys : RemoveKey(k) \/ ItrSearch(k)
  \/ ItrCreate \/ ItrAdvance \/ ItrRemove

Spec == Init /\ [][Next]_vars

-----------------------------------------------------------------------------
Pointer == DOMAIN h.entries \cup {NULL}

(* Types: no pointer leads to a block that was freed, and tables have the
   sizes of the list, also the one that is made for the largest size that may
   be asked for (arg_hashtable_create). *)
TypeOK ==
  /\ h.primeindex \in 0 .. Len(Primes)
  /\ DOMAIN h.entries \subseteq Blocks
  /\ \A e \in DOMAIN h.entries :
       h.entries[e] \in [k : Keys, v : Values, next : Pointer]
  /\ Exists => h.database \in [Buckets(h) -> Pointer]
  /\ itr.e \in Pointer /\ itr.parent \in Pointer

(* After any sequence of inserts, removals, growth and walks every entry is in
   exactly one chain, the one its key is looked for in, and the count is the
   number of entries (arg_hashtable_expand, _remove, _itr_remove). *)
EveryEntryOnce ==
  Exists =>
    /\ h.entrycount = Cardinality(DOMAIN h.entries)
    /\ \A e \in DOMAIN h.entries, b \in Buckets(h) :
         Cardinality({p \in DOMAIN Chain(h, b) : Chain(h, b)[p] = e})
           = IF b = index_for(tablelength(h), h.entries[e].k) THEN 1 ELSE 0

(* The iterator knows what points to the entry it is at: without it a removal
   would take others out of the table as well (arg_hashtable_itr_remove
   corrects the parent after the advance). *)
IteratorKnowsItsPlace ==
  itr.e # NULL =>
    IF itr.parent = NULL THEN h.database[itr.index] = itr.e
    ELSE itr.parent \in DOMAIN h.entries /\ h.entries[itr.parent].next = itr.e

(* A table is as full as its load limit at most, as long as there is a larger
   one to go to (arg_hashtable_insert, which grows before it adds). *)
GrowsInTime ==
  Exists /\ h.primeindex < Len(Primes) => h.entrycount <= loadlimit(tablelength(h))
=============================================================================
