---------------------------- MODULE RegistryProofs ----------------------------
(***************************************************************************)
(* The hash table and the registry of commands over it (MCArgtable), for   *)
(* every set of keys, every hash, every list of sizes and every number of  *)
(* entries.                                                                *)
(*                                                                         *)
(* A table is sound when there is a family of sequences, one for each      *)
(* bucket, such that every bucket's pointers thread its sequence, no entry *)
(* is in two of them or twice in one, and each is in the one its key is    *)
(* hashed to (WellMade).  The family is the witness that ChainFrom, which  *)
(* follows pointers, comes to an end: a recursion along pointers that form *)
(* a cycle would have no value.  Every operation is shown to turn such a   *)
(* family into another one: an entry in front of a sequence, an entry out  *)
(* of it, or, when the table grows, all sequences dealt out anew.          *)
(***************************************************************************)
EXTENDS MCArgtable, FiniteSetTheorems, FunctionTheorems, SequenceTheorems,
        WellFoundedInduction, TLAPS

-----------------------------------------------------------------------------
(* The least of some numbers: the intervals up to them are finite sets, and
   a smallest one of these is an interval up to the least number. *)

LEMMA LeastNumber ==
  ASSUME NEW T \in SUBSET Nat, T # {}
  PROVE  \E x \in T : \A y \in T : x <= y
<1>1. PICK z \in T : TRUE
  OBVIOUS
<1>. DEFINE upto == {w \in T : w <= z}
            intervals == {0 .. k : k \in upto}
<1>2. IsFiniteSet(0 .. z)
  BY FS_Interval
<1>3. intervals \in SUBSET (SUBSET (0 .. z))
  OBVIOUS
<1>4. intervals # {}
  BY <1>1
<1>5. IsWellFoundedOn(StrictSubsetOrdering(0 .. z), SUBSET (0 .. z))
  BY <1>2, FS_FiniteSubsetsOfFinite, FS_StrictSubsetOrderingWellFounded
<1>6. \E X \in intervals : \A Y \in intervals :
        ~ (<<Y, X>> \in StrictSubsetOrdering(0 .. z))
  <2>. HIDE DEF intervals
  <2>. QED  BY <1>3, <1>4, <1>5, WFMin
<1>7. PICK x \in upto : \A Y \in intervals :
        ~ (<<Y, 0 .. x>> \in StrictSubsetOrdering(0 .. z))
  BY <1>6
<1>8. ASSUME NEW y \in T  PROVE x <= y
  <2>1. CASE y > z
    BY <2>1
  <2>2. CASE y <= z
    <3>1. 0 .. y \in intervals
      BY <2>2
    <3>2. ~ (<<0 .. y, 0 .. x>> \in StrictSubsetOrdering(0 .. z))
      BY <3>1, <1>7
    <3>3. 0 .. y \in SUBSET (0 .. z) /\ 0 .. x \in SUBSET (0 .. z)
      BY <2>2
    <3>4. ~ (0 .. y \subseteq 0 .. x /\ 0 .. y # 0 .. x)
      BY <3>2, <3>3 DEF StrictSubsetOrdering
    <3>5. ASSUME y < x  PROVE FALSE
      <4>1. 0 .. y \subseteq 0 .. x
        BY <3>5
      <4>2. x \in 0 .. x /\ x \notin 0 .. y
        BY <3>5
      <4>. QED  BY <4>1, <4>2, <3>4
    <3>. QED  BY <3>5
  <2>. QED  BY <2>1, <2>2
<1>. QED  BY <1>8

-----------------------------------------------------------------------------
(* Sequences without one of their elements, and with one in front *)

NextIn(s, p) == IF p = Len(s) THEN 0 ELSE s[p + 1]
FirstOf(s) == IF s = <<>> THEN 0 ELSE s[1]
Less(s, p) == [q \in 1 .. Len(s) - 1 |-> IF q < p THEN s[q] ELSE s[q + 1]]

Distinct(s) == \A p, q \in 1 .. Len(s) : s[p] = s[q] => p = q

LEMMA LessIs ==
  ASSUME NEW S, NEW s \in Seq(S), NEW p \in 1 .. Len(s), Distinct(s)
  PROVE  /\ Less(s, p) \in Seq(S \ {s[p]})
         /\ Len(Less(s, p)) = Len(s) - 1
         /\ \A q \in 1 .. Len(s) - 1 : Less(s, p)[q] = IF q < p THEN s[q] ELSE s[q + 1]
<1>1. Len(s) \in Nat /\ Len(s) - 1 \in Nat /\ \A q \in 1 .. Len(s) : s[q] \in S
  BY LenProperties, ElementOfSeq
<1>2. ASSUME NEW q \in 1 .. Len(s) - 1
      PROVE  (IF q < p THEN s[q] ELSE s[q + 1]) \in S \ {s[p]}
  BY <1>1 DEF Distinct
<1>3. Less(s, p) \in [1 .. Len(s) - 1 -> S \ {s[p]}]
  BY <1>2 DEF Less
<1>4. Less(s, p) \in Seq(S \ {s[p]}) /\ Len(Less(s, p)) = Len(s) - 1
  BY <1>1, <1>3, SeqDef, LenProperties
<1>. QED
  BY <1>4 DEF Less

LEMMA InFront ==
  ASSUME NEW S, NEW s \in Seq(S), NEW e
  PROVE  /\ <<e>> \o s \in Seq(S \cup {e})
         /\ Len(<<e>> \o s) = Len(s) + 1
         /\ \A q \in 1 .. Len(s) + 1 : (<<e>> \o s)[q] = IF q = 1 THEN e ELSE s[q - 1]
<1>1. <<e>> \in Seq(S \cup {e}) /\ s \in Seq(S \cup {e}) /\ Len(s) \in Nat
  BY SeqMonotonic, LenProperties
<1>2. Len(<<e>>) = 1 /\ <<e>>[1] = e
  OBVIOUS
<1>. QED
  BY <1>1, <1>2, ConcatProperties

-----------------------------------------------------------------------------
(* Chains: the entries of a bucket, and where their pointers lead *)

EntryType == [k : Keys, v : Values, next : Nat]
IsEntries(en) ==
  /\ DOMAIN en \subseteq R!Blocks
  /\ en \in [DOMAIN en -> EntryType]

BucketOf(pi, en, e) == Hash[en[e].k] % Primes[pi]
LastBucket(pi) == Primes[pi] - 1

(* s is the chain of bucket bk. *)
Linked(pi, en, E, bk, s) ==
  /\ s \in Seq(E)
  /\ \A p \in 1 .. Len(s) : /\ BucketOf(pi, en, s[p]) = bk
                            /\ en[s[p]].next = NextIn(s, p)
  /\ Distinct(s)

IsFunction(f) == f = [x \in DOMAIN f |-> f[x]]

LEMMA ExceptIsFunction ==
  ASSUME NEW f, NEW x, NEW y
  PROVE  IsFunction([f EXCEPT ![x] = y])
BY DEF IsFunction

(* The entries of E are in the chains ch, each in its own. *)
Threaded(pi, db, en, E, ch) ==
  /\ pi \in 1 .. Len(Primes)
  /\ DOMAIN ch = 0 .. LastBucket(pi)
  /\ DOMAIN db = 0 .. LastBucket(pi) /\ IsFunction(db)
  /\ \A bk \in 0 .. LastBucket(pi) :
       Linked(pi, en, E, bk, ch[bk]) /\ db[bk] = FirstOf(ch[bk])
  /\ \A e \in E : BucketOf(pi, en, e) \in 0 .. LastBucket(pi)
                    /\ \E p \in 1 .. Len(ch[BucketOf(pi, en, e)]) :
                         ch[BucketOf(pi, en, e)][p] = e

(* Of two functions of entries that agree on E, what is linked in one is
   linked in the other. *)
Agree(en, en2, E) ==
  \A e \in E : en[e].k = en2[e].k /\ en[e].next = en2[e].next
AgreeOnKeys(en, en2, E) == \A e \in E : en[e].k = en2[e].k

LEMMA LinkedFrame ==
  ASSUME NEW pi, NEW en, NEW en2, NEW E, NEW E2, NEW bk, NEW s,
         Linked(pi, en, E, bk, s), s \in Seq(E2),
         \A p \in 1 .. Len(s) : en[s[p]].k = en2[s[p]].k /\ en[s[p]].next = en2[s[p]].next
  PROVE  Linked(pi, en2, E2, bk, s)
BY DEF Linked, BucketOf

(* A new head *)
LEMMA LinkedPush ==
  ASSUME NEW pi, NEW en, NEW en2, NEW E, NEW bk, NEW s, NEW e,
         Linked(pi, en, E, bk, s), e \notin E,
         Agree(en, en2, E), BucketOf(pi, en2, e) = bk, en2[e].next = FirstOf(s)
  PROVE  Linked(pi, en2, E \cup {e}, bk, <<e>> \o s)
<1>. DEFINE t == <<e>> \o s
<1>1. s \in Seq(E) /\ Len(s) \in Nat /\ \A q \in 1 .. Len(s) : s[q] \in E
  BY LenProperties, ElementOfSeq DEF Linked
<1>2. /\ t \in Seq(E \cup {e}) /\ Len(t) = Len(s) + 1
      /\ \A q \in 1 .. Len(s) + 1 : t[q] = IF q = 1 THEN e ELSE s[q - 1]
  BY <1>1, InFront
<1>3. s # <<>> <=> Len(s) # 0
  BY <1>1, EmptySeq
<1>. HIDE DEF t
<1>4. ASSUME NEW p \in 1 .. Len(t)
      PROVE  BucketOf(pi, en2, t[p]) = bk /\ en2[t[p]].next = NextIn(t, p)
  <2>1. CASE p = 1
    <3>1. t[1] = e
      BY <1>1, <1>2
    <3>2. FirstOf(s) = NextIn(t, 1)
      BY <1>1, <1>2, <1>3 DEF FirstOf, NextIn
    <3>. QED
      BY <2>1, <3>1, <3>2
  <2>2. CASE p # 1
    <3>1. p - 1 \in 1 .. Len(s) /\ t[p] = s[p - 1] /\ s[p - 1] \in E
      BY <1>1, <1>2, <2>2
    <3>2. BucketOf(pi, en, s[p - 1]) = bk /\ en[s[p - 1]].next = NextIn(s, p - 1)
      BY <3>1 DEF Linked
    <3>3. NextIn(s, p - 1) = NextIn(t, p)
      BY <1>1, <1>2, <3>1, <2>2 DEF NextIn
    <3>4. en2[t[p]].k = en[s[p - 1]].k /\ en2[t[p]].next = en[s[p - 1]].next
      BY <3>1 DEF Agree
    <3>. QED
      BY <3>2, <3>3, <3>4 DEF BucketOf
  <2>. QED
    BY <2>1, <2>2
<1>5. Distinct(t)
  <2>. SUFFICES ASSUME NEW p \in 1 .. Len(t), NEW q \in 1 .. Len(t), t[p] = t[q]
                PROVE  p = q
    BY DEF Distinct
  <2>1. ASSUME NEW r \in 2 .. Len(t)  PROVE r - 1 \in 1 .. Len(s) /\ t[r] = s[r - 1]
    BY <1>1, <1>2
  <2>2. t[1] = e
    BY <1>1, <1>2
  <2>3. CASE p = 1 \/ q = 1
    <3>1. ASSUME NEW r \in 1 .. Len(t), r # 1  PROVE t[r] # e
      <4>1. r \in 2 .. Len(t)
        BY <1>1, <1>2, <3>1
      <4>. QED
        BY <1>1, <2>1, <4>1
    <3>. QED
      BY <2>2, <2>3, <3>1
  <2>4. CASE p # 1 /\ q # 1
    <3>1. p \in 2 .. Len(t) /\ q \in 2 .. Len(t)
      BY <1>1, <1>2, <2>4
    <3>2. p - 1 \in 1 .. Len(s) /\ q - 1 \in 1 .. Len(s) /\ s[p - 1] = s[q - 1]
      BY <2>1, <3>1
    <3>3. p - 1 = q - 1
      BY <3>2 DEF Linked, Distinct
    <3>. QED
      BY <3>1, <3>3
  <2>. QED
    BY <2>3, <2>4
<1>. QED
  BY <1>2, <1>4, <1>5 DEF Linked, t

(* One entry less: what was before it points behind it. *)
LEMMA LinkedLess ==
  ASSUME NEW pi, NEW en, NEW en2, NEW E, NEW bk, NEW s, NEW p \in 1 .. Len(s),
         Linked(pi, en, E, bk, s), AgreeOnKeys(en, en2, E),
         \A q \in 1 .. Len(s) :
           en2[s[q]].next = IF q = p - 1 THEN en[s[p]].next ELSE en[s[q]].next
  PROVE  Linked(pi, en2, E \ {s[p]}, bk, Less(s, p))
<1>. DEFINE t == Less(s, p)
<1>1. s \in Seq(E) /\ Len(s) \in Nat /\ (\A q \in 1 .. Len(s) : s[q] \in E) /\ Distinct(s)
  BY LenProperties, ElementOfSeq DEF Linked
<1>2. /\ t \in Seq(E \ {s[p]}) /\ Len(t) = Len(s) - 1
      /\ \A q \in 1 .. Len(s) - 1 : t[q] = IF q < p THEN s[q] ELSE s[q + 1]
  BY <1>1, LessIs
<1>. HIDE DEF t
<1>3. ASSUME NEW q \in 1 .. Len(t)
      PROVE  BucketOf(pi, en2, t[q]) = bk /\ en2[t[q]].next = NextIn(t, q)
  <2>. DEFINE o == IF q < p THEN q ELSE q + 1
  <2>1. o \in 1 .. Len(s) /\ t[q] = s[o] /\ s[o] \in E
    BY <1>1, <1>2
  <2>2. BucketOf(pi, en, s[o]) = bk /\ en[s[o]].next = NextIn(s, o)
    BY <2>1 DEF Linked
  <2>3. en[s[p]].next = NextIn(s, p)
    BY DEF Linked
  <2>4. en2[s[o]].next = IF o = p - 1 THEN NextIn(s, p) ELSE NextIn(s, o)
    BY <2>1, <2>2, <2>3
  <2>5. en2[s[o]].next = NextIn(t, q)
    <3>1. \A r \in 1 .. Len(s) : NextIn(s, r) = IF r = Len(s) THEN 0 ELSE s[r + 1]
      BY DEF NextIn
    <3>2. NextIn(t, q) = IF q = Len(s) - 1 THEN 0 ELSE t[q + 1]
      BY <1>2 DEF NextIn
    <3>3. q # Len(s) - 1 => t[q + 1] = IF q + 1 < p THEN s[q + 1] ELSE s[q + 2]
      BY <1>1, <1>2
    <3>4. CASE q < p
      <4>1. o = q /\ (o = p - 1 <=> ~ (q + 1 < p))
        BY <1>1, <3>4
      <4>. QED
        BY <1>1, <1>2, <2>4, <3>1, <3>2, <3>3, <3>4, <4>1
    <3>5. CASE ~ (q < p)
      <4>1. o = q + 1 /\ o # p - 1 /\ ~ (q + 1 < p) /\ (o = Len(s) <=> q = Len(s) - 1)
        BY <1>1, <3>5
      <4>2. q + 1 + 1 = q + 2
        BY <1>2
      <4>. QED
        BY <1>1, <2>1, <2>4, <3>1, <3>2, <3>3, <4>1, <4>2
    <3>. QED
      BY <3>4, <3>5
  <2>6. en2[s[o]].k = en[s[o]].k
    BY <2>1 DEF AgreeOnKeys
  <2>. QED
    BY <2>1, <2>2, <2>5, <2>6 DEF BucketOf
<1>4. Distinct(t)
  <2>. SUFFICES ASSUME NEW q \in 1 .. Len(t), NEW r \in 1 .. Len(t), t[q] = t[r]
                PROVE  q = r
    BY DEF Distinct
  <2>. QED
    BY <1>1, <1>2 DEF Distinct
<1>. QED
  BY <1>2, <1>3, <1>4 DEF Linked, t

-----------------------------------------------------------------------------
(* The list of an instance's own operators: those of the library are the same
   in it. *)
LEMMA SameCardinality == \A S : R!Cardinality(S) = Cardinality(S)
BY DEF R!Cardinality, Cardinality

LEMMA SameFlattenSeq == \A s : R!FlattenSeq(s) = FlattenSeq(s)
BY DEF R!FlattenSeq, FlattenSeq

LEMMA SizesAre ==
  /\ Primes \in Seq(Nat \ {0}) /\ Len(Primes) \in Nat \ {0}
  /\ Hash \in [Keys -> Nat]
  /\ \A p \in 1 .. Len(Primes) : Primes[p] \in Nat \ {0}
  /\ \A p \in 1 .. Len(Primes) - 1 : Primes[p] + 2 <= Primes[p + 1]
  /\ MaxMinSize \in Nat /\ MaxMinSize < Primes[Len(Primes)]
  /\ MaxEntries \in Nat
  /\ MinSize \in 0 .. MaxMinSize /\ Nothing \notin Keys
<1>1. R!HashTableAssumption /\ R!RegistryAssumption
  BY ArgtableAssumption
<1>2. Primes \in Seq(Nat \ {0}) /\ Primes # <<>>
  BY <1>1 DEF R!HashTableAssumption
<1>3. Len(Primes) \in Nat \ {0} /\ \A p \in 1 .. Len(Primes) : Primes[p] \in Nat \ {0}
  BY <1>2, EmptySeq, LenProperties, ElementOfSeq
<1>4. R!Last(Primes) = Primes[Len(Primes)]
  BY DEF R!Last
<1>. QED
  BY <1>1, <1>2, <1>3, <1>4 DEF R!HashTableAssumption, R!RegistryAssumption

LEMMA BucketIs ==
  ASSUME NEW pi \in 1 .. Len(Primes), NEW k \in Keys
  PROVE  /\ Hash[k] % Primes[pi] \in 0 .. LastBucket(pi)
         /\ LastBucket(pi) \in Nat /\ LastBucket(pi) + 1 = Primes[pi]
<1>1. Hash[k] \in Nat /\ Primes[pi] \in Nat /\ Primes[pi] # 0
  BY SizesAre
<1>2. \A x \in Nat, y \in Nat : y # 0 => x % y \in 0 .. y - 1
  OBVIOUS
<1>3. Hash[k] % Primes[pi] \in 0 .. Primes[pi] - 1
  BY <1>1, <1>2
<1>4. LastBucket(pi) = Primes[pi] - 1
  BY DEF LastBucket
<1>5. \A x \in Nat : x # 0 => x - 1 \in Nat /\ x - 1 + 1 = x
  OBVIOUS
<1>. QED
  BY <1>1, <1>3, <1>4, <1>5

LEMMA EntryIs ==
  ASSUME NEW en, IsEntries(en), NEW e \in DOMAIN en
  PROVE  /\ e \in Nat \ {0} /\ e \in 1 .. MaxEntries
         /\ en[e].k \in Keys /\ en[e].v \in Values /\ en[e].next \in Nat
         /\ en[e] = [k |-> en[e].k, v |-> en[e].v, next |-> en[e].next]
BY SizesAre DEF IsEntries, EntryType, R!Blocks

(* A pointer of an entry that is in a chain leads to an entry of the chain. *)
LEMMA PointerIs ==
  ASSUME NEW pi, NEW en, NEW E, NEW bk, NEW s, Linked(pi, en, E, bk, s),
         NEW p \in 1 .. Len(s)
  PROVE  en[s[p]].next \in E \cup {0}
<1>1. s \in Seq(E) /\ Len(s) \in Nat /\ \A q \in 1 .. Len(s) : s[q] \in E
  BY LenProperties, ElementOfSeq DEF Linked
<1>2. en[s[p]].next = NextIn(s, p)
  BY DEF Linked
<1>. QED
  BY <1>1, <1>2 DEF NextIn

LEMMA FirstIs ==
  ASSUME NEW E, NEW s \in Seq(E)
  PROVE  /\ Len(s) \in Nat /\ \A q \in 1 .. Len(s) : s[q] \in E
         /\ FirstOf(s) \in E \cup {0}
         /\ s = <<>> <=> Len(s) = 0
         /\ 0 \notin E => (FirstOf(s) = 0 <=> s = <<>>)
BY EmptySeq, LenProperties, ElementOfSeq DEF FirstOf

-----------------------------------------------------------------------------
(* What ChainFrom computes *)

(* Every entry's chain from itself on *)
PlaceIn(s, e) == CHOOSE p \in 1 .. Len(s) : s[p] = e
OnFrom(s, e) == SubSeq(s, PlaceIn(s, e), Len(s))

ChainsOf(en) ==
  CHOOSE chain : chain = [f \in DOMAIN en \cup {0} |->
                            IF f = 0 THEN <<>> ELSE <<f>> \o chain[en[f].next]]
GoesOn(en, chain) ==
  chain = [f \in DOMAIN en \cup {0} |->
             IF f = 0 THEN <<>> ELSE <<f>> \o chain[en[f].next]]

LEMMA ChainFromIs ==
  ASSUME NEW t, NEW e
  PROVE  R!ChainFrom(t, e) = ChainsOf(t.entries)[e]
BY DEF R!ChainFrom, ChainsOf, R!NULL

LEMMA PlaceIs ==
  ASSUME NEW E, NEW s \in Seq(E), Distinct(s), NEW p \in 1 .. Len(s)
  PROVE  PlaceIn(s, s[p]) = p
BY DEF PlaceIn, Distinct

LEMMA OnFromGoesOn ==
  ASSUME NEW E, NEW s \in Seq(E), NEW p \in 1 .. Len(s), Distinct(s), 0 \notin E
  PROVE  OnFrom(s, s[p])
           = <<s[p]>> \o (IF NextIn(s, p) = 0 THEN <<>> ELSE OnFrom(s, NextIn(s, p)))
<1>1. Len(s) \in Nat /\ \A q \in 1 .. Len(s) : s[q] \in E
  BY FirstIs
<1>2. OnFrom(s, s[p]) = SubSeq(s, p, Len(s))
  BY PlaceIs DEF OnFrom
<1>3. SubSeq(s, p, Len(s)) = <<s[p]>> \o SubSeq(s, p + 1, Len(s))
  BY <1>1, SubSeqRecursiveFirst
<1>4. CASE p = Len(s)
  <2>1. SubSeq(s, p + 1, Len(s)) = <<>>
    BY <1>1, <1>4, SubSeqEmpty
  <2>. QED
    BY <1>2, <1>3, <1>4, <2>1 DEF NextIn
<1>5. CASE p # Len(s)
  <2>1. p + 1 \in 1 .. Len(s) /\ NextIn(s, p) = s[p + 1] /\ s[p + 1] # 0
    BY <1>1, <1>5 DEF NextIn
  <2>2. OnFrom(s, s[p + 1]) = SubSeq(s, p + 1, Len(s))
    BY <2>1, PlaceIs DEF OnFrom
  <2>. QED
    BY <1>2, <1>3, <2>1, <2>2
<1>. QED
  BY <1>4, <1>5

LEMMA ChainsExist ==
  ASSUME NEW pi, NEW db, NEW en, NEW ch, IsEntries(en),
         Threaded(pi, db, en, DOMAIN en, ch)
  PROVE  GoesOn(en, ChainsOf(en))
<1>. DEFINE home(f) == ch[BucketOf(pi, en, f)]
            chain == [f \in DOMAIN en \cup {0} |->
                        IF f = 0 THEN <<>> ELSE OnFrom(home(f), f)]
<1>1. 0 \notin DOMAIN en
  BY EntryIs
<1>2. ASSUME NEW f \in DOMAIN en
      PROVE  chain[f] = <<f>> \o chain[en[f].next]
  <2>. DEFINE s == home(f)
  <2>1. Linked(pi, en, DOMAIN en, BucketOf(pi, en, f), s)
    BY DEF Threaded
  <2>2. PICK p \in 1 .. Len(s) : s[p] = f
    BY DEF Threaded
  <2>3. s \in Seq(DOMAIN en) /\ Distinct(s) /\ en[f].next = NextIn(s, p)
    BY <2>1, <2>2 DEF Linked
  <2>4. Len(s) \in Nat /\ \A q \in 1 .. Len(s) : s[q] \in DOMAIN en
    BY <2>3, FirstIs
  <2>5. OnFrom(s, f) = <<f>> \o (IF NextIn(s, p) = 0 THEN <<>> ELSE OnFrom(s, NextIn(s, p)))
    BY <1>1, <2>2, <2>3, OnFromGoesOn
  <2>6. CASE NextIn(s, p) = 0
    BY <1>1, <2>3, <2>5, <2>6
  <2>7. CASE NextIn(s, p) # 0
    <3>1. p + 1 \in 1 .. Len(s) /\ NextIn(s, p) = s[p + 1] /\ s[p + 1] \in DOMAIN en
      BY <2>4, <2>7 DEF NextIn
    <3>2. BucketOf(pi, en, s[p + 1]) = BucketOf(pi, en, f)
      BY <2>1, <3>1 DEF Linked
    <3>3. chain[s[p + 1]] = OnFrom(s, s[p + 1])
      BY <1>1, <3>1, <3>2
    <3>. QED
      BY <1>1, <2>3, <2>5, <2>7, <3>1, <3>3
  <2>. QED
    BY <2>6, <2>7
<1>3. chain = [f \in DOMAIN en \cup {0} |->
                 IF f = 0 THEN <<>> ELSE <<f>> \o chain[en[f].next]]
  BY <1>1, <1>2
<1>. QED
  BY <1>3 DEF GoesOn, ChainsOf

(* From any place of a chain on it is the rest of the chain. *)
LEMMA ChainIsRest ==
  ASSUME NEW pi, NEW en, NEW E, NEW bk, NEW s, NEW chain,
         Linked(pi, en, E, bk, s), E \subseteq DOMAIN en, 0 \notin DOMAIN en,
         GoesOn(en, chain)
  PROVE  /\ \A p \in 1 .. Len(s) : chain[s[p]] = SubSeq(s, p, Len(s))
         /\ chain[FirstOf(s)] = s
<1>1. s \in Seq(E) /\ Len(s) \in Nat /\ \A q \in 1 .. Len(s) : s[q] \in E
  BY LenProperties, ElementOfSeq DEF Linked
<1>. DEFINE wrong == {m \in 0 .. Len(s) - 1 :
                        chain[s[Len(s) - m]] # SubSeq(s, Len(s) - m, Len(s))}
<1>2. chain[0] = <<>>
  BY DEF GoesOn
<1>3. ASSUME wrong # {}  PROVE FALSE
  <2>1. PICK m \in wrong : \A m2 \in wrong : m <= m2
    <3>1. wrong \in SUBSET Nat
      BY <1>1
    <3>. HIDE DEF wrong
    <3>. QED
      BY <1>3, <3>1, LeastNumber
  <2>. DEFINE p == Len(s) - m
  <2>2. p \in 1 .. Len(s) /\ m \in Nat /\ s[p] \in E
    BY <1>1
  <2>3. chain[s[p]] = <<s[p]>> \o chain[NextIn(s, p)]
    <3>1. s[p] \in DOMAIN en /\ s[p] # 0
      BY <2>2
    <3>2. en[s[p]].next = NextIn(s, p)
      BY <2>2 DEF Linked
    <3>. QED
      BY <3>1, <3>2 DEF GoesOn
  <2>4. SubSeq(s, p, Len(s)) = <<s[p]>> \o SubSeq(s, p + 1, Len(s))
    BY <1>1, <2>2, SubSeqRecursiveFirst
  <2>5. chain[NextIn(s, p)] = SubSeq(s, p + 1, Len(s))
    <3>1. CASE m = 0
      <4>1. p = Len(s) /\ NextIn(s, p) = 0
        BY <1>1, <2>2, <3>1 DEF NextIn
      <4>2. SubSeq(s, p + 1, Len(s)) = <<>>
        BY <1>1, <4>1, SubSeqEmpty
      <4>. QED
        BY <1>2, <4>1, <4>2
    <3>2. CASE m # 0
      <4>1. m - 1 \in 0 .. Len(s) - 1 /\ m - 1 \notin wrong
        <5>1. m \in 0 .. Len(s) - 1
          OBVIOUS
        <5>2. m - 1 \in 0 .. Len(s) - 1 /\ ~(m <= m - 1)
          BY <1>1, <3>2, <5>1
        <5>3. m - 1 \notin wrong
          <6>. HIDE DEF wrong
          <6>. QED
            BY <2>1, <5>2
        <5>. QED
          BY <5>2, <5>3
      <4>2. chain[s[Len(s) - (m - 1)]] = SubSeq(s, Len(s) - (m - 1), Len(s))
        BY <4>1
      <4>3. Len(s) - (m - 1) = p + 1 /\ p # Len(s)
        BY <1>1, <2>2, <3>2
      <4>. QED
        BY <4>2, <4>3 DEF NextIn
    <3>. QED
      BY <3>1, <3>2
  <2>. QED
    BY <2>1, <2>3, <2>4, <2>5
<1>4. ASSUME NEW p \in 1 .. Len(s)  PROVE chain[s[p]] = SubSeq(s, p, Len(s))
  <2>1. Len(s) - p \in 0 .. Len(s) - 1 /\ Len(s) - (Len(s) - p) = p
    BY <1>1
  <2>. QED
    BY <1>3, <2>1
<1>5. chain[FirstOf(s)] = s
  <2>1. CASE s = <<>>
    BY <1>2, <2>1 DEF FirstOf
  <2>2. CASE s # <<>>
    <3>1. 1 \in 1 .. Len(s) /\ FirstOf(s) = s[1]
      BY <1>1, <2>2, EmptySeq DEF FirstOf
    <3>. QED
      BY <1>1, <1>4, <3>1, SubSeqFull
  <2>. QED
    BY <2>1, <2>2
<1>. QED
  BY <1>4, <1>5

-----------------------------------------------------------------------------
(* Tables *)

Tab(pi, db, ec, en) ==
  [primeindex |-> pi, database |-> db, entrycount |-> ec, entries |-> en]

Made(pi, db, en, ch) == IsEntries(en) /\ Threaded(pi, db, en, DOMAIN en, ch)

LEMMA TabIs ==
  ASSUME NEW pi, NEW db, NEW ec, NEW en
  PROVE  /\ Tab(pi, db, ec, en).primeindex = pi /\ Tab(pi, db, ec, en).database = db
         /\ Tab(pi, db, ec, en).entrycount = ec /\ Tab(pi, db, ec, en).entries = en
         /\ R!tablelength(Tab(pi, db, ec, en)) = Primes[pi]
         /\ R!Buckets(Tab(pi, db, ec, en)) = 0 .. LastBucket(pi)
BY DEF Tab, R!tablelength, R!Buckets, LastBucket

LEMMA ThreadedFrame ==
  ASSUME NEW pi, NEW db, NEW en, NEW en2, NEW E, NEW ch,
         Threaded(pi, db, en, E, ch), Agree(en, en2, E)
  PROVE  Threaded(pi, db, en2, E, ch)
<1>1. \A e \in E : BucketOf(pi, en2, e) = BucketOf(pi, en, e)
  BY DEF BucketOf, Agree
<1>2. ASSUME NEW bk \in 0 .. LastBucket(pi)
      PROVE  Linked(pi, en2, E, bk, ch[bk])
  <2>1. Linked(pi, en, E, bk, ch[bk])
    BY DEF Threaded
  <2>2. \A p \in 1 .. Len(ch[bk]) : ch[bk][p] \in E
    BY <2>1, FirstIs DEF Linked
  <2>3. /\ ch[bk] \in Seq(E)
        /\ \A p \in 1 .. Len(ch[bk]) : /\ en[ch[bk][p]].k = en2[ch[bk][p]].k
                                       /\ en[ch[bk][p]].next = en2[ch[bk][p]].next
    BY <2>1, <2>2 DEF Linked, Agree
  <2>. QED
    BY <2>1, <2>3, LinkedFrame
<1>. QED
  BY <1>1, <1>2 DEF Threaded

LEMMA ThreadedPush ==
  ASSUME NEW pi, NEW db, NEW en, NEW en2, NEW E, NEW ch, NEW e, NEW bk,
         Threaded(pi, db, en, E, ch), e \notin E, Agree(en, en2, E),
         bk \in 0 .. LastBucket(pi), BucketOf(pi, en2, e) = bk, en2[e].next = db[bk]
  PROVE  Threaded(pi, [db EXCEPT ![bk] = e], en2, E \cup {e},
                  [ch EXCEPT ![bk] = <<e>> \o ch[bk]])
<1>. DEFINE ch2 == [ch EXCEPT ![bk] = <<e>> \o ch[bk]]
            db2 == [db EXCEPT ![bk] = e]
<1>1. /\ DOMAIN ch = 0 .. LastBucket(pi) /\ DOMAIN db = 0 .. LastBucket(pi)
      /\ pi \in 1 .. Len(Primes)
  BY DEF Threaded
<1>2. /\ DOMAIN ch2 = 0 .. LastBucket(pi) /\ DOMAIN db2 = 0 .. LastBucket(pi)
      /\ ch2[bk] = <<e>> \o ch[bk] /\ db2[bk] = e
      /\ \A c2 \in 0 .. LastBucket(pi) : c2 # bk => ch2[c2] = ch[c2] /\ db2[c2] = db[c2]
  BY <1>1
<1>0. IsFunction(db2)
  BY ExceptIsFunction
<1>. HIDE DEF ch2, db2
<1>3. \A x \in E : BucketOf(pi, en2, x) = BucketOf(pi, en, x)
  BY DEF BucketOf, Agree
<1>4. \A c2 \in 0 .. LastBucket(pi) : Linked(pi, en, E, c2, ch[c2]) /\ db[c2] = FirstOf(ch[c2])
  BY DEF Threaded
<1>5. Linked(pi, en2, E \cup {e}, bk, ch2[bk])
  BY <1>2, <1>4, LinkedPush
<1>6. /\ Len(ch[bk]) \in Nat
      /\ Len(ch2[bk]) = Len(ch[bk]) + 1
      /\ \A q \in 1 .. Len(ch[bk]) + 1 : ch2[bk][q] = IF q = 1 THEN e ELSE ch[bk][q - 1]
  <2>1. ch[bk] \in Seq(E)
    BY <1>4 DEF Linked
  <2>. QED
    BY <1>2, <2>1, InFront, LenProperties
<1>7. db2[bk] = FirstOf(ch2[bk])
  <2>1. Len(ch2[bk]) # 0 /\ ch2[bk][1] = e
    BY <1>6
  <2>2. ch2[bk] # <<>>
    BY <2>1
  <2>. QED
    BY <1>2, <2>1, <2>2 DEF FirstOf
<1>8. ASSUME NEW c2 \in 0 .. LastBucket(pi), c2 # bk
      PROVE  Linked(pi, en2, E \cup {e}, c2, ch2[c2]) /\ db2[c2] = FirstOf(ch2[c2])
  <2>1. Linked(pi, en, E, c2, ch[c2]) /\ ch2[c2] = ch[c2] /\ db2[c2] = db[c2]
    BY <1>2, <1>4, <1>8
  <2>2. ch[c2] \in Seq(E) /\ ch[c2] \in Seq(E \cup {e})
    BY <2>1, SeqMonotonic DEF Linked
  <2>3. \A p \in 1 .. Len(ch[c2]) : ch[c2][p] \in E
    BY <2>2, FirstIs
  <2>4. \A p \in 1 .. Len(ch[c2]) : /\ en[ch[c2][p]].k = en2[ch[c2][p]].k
                                    /\ en[ch[c2][p]].next = en2[ch[c2][p]].next
    BY <2>3 DEF Agree
  <2>5. Linked(pi, en2, E \cup {e}, c2, ch[c2])
    BY <2>1, <2>2, <2>4, LinkedFrame
  <2>. QED
    BY <1>4, <2>1, <2>5
<1>9. ASSUME NEW x \in E \cup {e}
      PROVE  /\ BucketOf(pi, en2, x) \in 0 .. LastBucket(pi)
             /\ \E p \in 1 .. Len(ch2[BucketOf(pi, en2, x)]) :
                  ch2[BucketOf(pi, en2, x)][p] = x
  <2>1. CASE x = e
    <3>1. 1 \in 1 .. Len(ch2[bk]) /\ ch2[bk][1] = e
      BY <1>6
    <3>. QED
      BY <2>1, <3>1
  <2>2. CASE x # e
    <3>1. x \in E
      BY <2>2
    <3>2. BucketOf(pi, en, x) \in 0 .. LastBucket(pi)
      BY <3>1 DEF Threaded
    <3>3. PICK p \in 1 .. Len(ch[BucketOf(pi, en, x)]) : ch[BucketOf(pi, en, x)][p] = x
      BY <3>1 DEF Threaded
    <3>4. CASE BucketOf(pi, en, x) = bk
      <4>1. p + 1 \in 1 .. Len(ch2[bk]) /\ ch2[bk][p + 1] = x
        BY <1>6, <3>3, <3>4
      <4>. QED
        BY <1>3, <3>1, <3>2, <3>4, <4>1
    <3>5. CASE BucketOf(pi, en, x) # bk
      BY <1>2, <1>3, <3>1, <3>2, <3>3, <3>5
    <3>. QED
      BY <3>4, <3>5
  <2>. QED
    BY <2>1, <2>2
<1>10. ASSUME NEW c2 \in 0 .. LastBucket(pi)
       PROVE  Linked(pi, en2, E \cup {e}, c2, ch2[c2]) /\ db2[c2] = FirstOf(ch2[c2])
  BY <1>5, <1>7, <1>8
<1>11. Threaded(pi, db2, en2, E \cup {e}, ch2)
  BY <1>0, <1>1, <1>2, <1>9, <1>10 DEF Threaded
<1>. QED
  BY <1>11 DEF ch2, db2

(* The entry at place p of a chain is taken out. *)
PassedOver(db, db2, en, en2, E, s, bk, p) ==
  /\ \A x \in E : en2[x].next = IF p # 1 /\ x = s[p - 1] THEN en[s[p]].next ELSE en[x].next
  /\ db2 = IF p = 1 THEN [db EXCEPT ![bk] = en[s[p]].next] ELSE db

LEMMA ThreadedLess ==
  ASSUME NEW pi, NEW db, NEW db2, NEW en, NEW en2, NEW E, NEW ch, NEW bk, NEW p,
         Threaded(pi, db, en, E, ch), bk \in 0 .. LastBucket(pi),
         p \in 1 .. Len(ch[bk]), AgreeOnKeys(en, en2, E),
         PassedOver(db, db2, en, en2, E, ch[bk], bk, p)
  PROVE  Threaded(pi, db2, en2, E \ {ch[bk][p]},
                  [ch EXCEPT ![bk] = Less(ch[bk], p)])
<1>. USE DEF PassedOver
<1>. DEFINE ch2 == [ch EXCEPT ![bk] = Less(ch[bk], p)]
            s == ch[bk]
            e == s[p]
<1>1. /\ DOMAIN ch = 0 .. LastBucket(pi) /\ DOMAIN db = 0 .. LastBucket(pi)
      /\ pi \in 1 .. Len(Primes)
  BY DEF Threaded
<1>2. /\ DOMAIN ch2 = 0 .. LastBucket(pi) /\ DOMAIN db2 = 0 .. LastBucket(pi)
      /\ ch2[bk] = Less(s, p)
      /\ \A c2 \in 0 .. LastBucket(pi) : c2 # bk => ch2[c2] = ch[c2] /\ db2[c2] = db[c2]
  BY <1>1
<1>0. IsFunction(db2)
  <2>1. IsFunction(db)
    BY DEF Threaded
  <2>. QED
    BY <2>1, ExceptIsFunction
<1>. HIDE DEF ch2
<1>3. \A x \in E : BucketOf(pi, en2, x) = BucketOf(pi, en, x)
  BY DEF BucketOf, AgreeOnKeys
<1>4. \A c2 \in 0 .. LastBucket(pi) : Linked(pi, en, E, c2, ch[c2]) /\ db[c2] = FirstOf(ch[c2])
  BY DEF Threaded
<1>5. /\ s \in Seq(E) /\ Len(s) \in Nat /\ (\A q \in 1 .. Len(s) : s[q] \in E) /\ Distinct(s)
      /\ \A q \in 1 .. Len(s) : en[s[q]].next = NextIn(s, q) /\ BucketOf(pi, en, s[q]) = bk
  BY <1>4, FirstIs DEF Linked
<1>6. /\ ch2[bk] \in Seq(E \ {e}) /\ Len(ch2[bk]) = Len(s) - 1
      /\ \A q \in 1 .. Len(s) - 1 : ch2[bk][q] = IF q < p THEN s[q] ELSE s[q + 1]
  <2>. HIDE DEF s
  <2>1. p \in 1 .. Len(s)
    BY DEF s
  <2>2. /\ Less(s, p) \in Seq(E \ {s[p]}) /\ Len(Less(s, p)) = Len(s) - 1
        /\ \A q \in 1 .. Len(s) - 1 : Less(s, p)[q] = IF q < p THEN s[q] ELSE s[q + 1]
    BY <1>5, <2>1, LessIs
  <2>. QED
    BY <1>2, <2>2
<1>7. Linked(pi, en2, E \ {e}, bk, ch2[bk])
  <2>1. \A q \in 1 .. Len(s) :
          en2[s[q]].next = IF q = p - 1 THEN en[s[p]].next ELSE en[s[q]].next
    <3>. SUFFICES ASSUME NEW q \in 1 .. Len(s)
                  PROVE  en2[s[q]].next = IF q = p - 1 THEN en[s[p]].next ELSE en[s[q]].next
      OBVIOUS
    <3>1. s[q] \in E
      BY <1>5
    <3>2. p # 1 /\ s[q] = s[p - 1] <=> q = p - 1
      BY <1>5 DEF Distinct
    <3>. QED
      BY <3>1, <3>2
  <2>2. Linked(pi, en, E, bk, s)
    BY <1>4
  <2>3. p \in 1 .. Len(s)
    OBVIOUS
  <2>4. Linked(pi, en2, E \ {s[p]}, bk, Less(s, p))
    <3>. HIDE DEF s
    <3>. QED
      BY <2>1, <2>2, <2>3, LinkedLess
  <2>. QED
    BY <1>2, <2>4
<1>8. db2[bk] = FirstOf(ch2[bk])
  <2>1. CASE p = 1
    <3>1. db2[bk] = NextIn(s, 1)
      BY <1>1, <1>5, <2>1
    <3>2. CASE Len(s) = 1
      <4>1. Len(ch2[bk]) = 0
        BY <1>6, <3>2
      <4>2. ch2[bk] = <<>>
        BY <1>6, <4>1, FirstIs
      <4>. QED
        BY <3>1, <3>2, <4>2 DEF FirstOf, NextIn
    <3>3. CASE Len(s) # 1
      <4>1. Len(ch2[bk]) # 0 /\ 1 \in 1 .. Len(s) - 1
        <5>1. 1 \in 1 .. Len(s) /\ Len(s) \in Nat
          BY <1>5, <2>1
        <5>2. Len(s) > 1
          <6>1. \A x \in Nat : 1 \in 1 .. x /\ x # 1 => x > 1
            OBVIOUS
          <6>. QED
            BY <3>3, <5>1, <6>1
        <5>. QED
          BY <1>5, <1>6, <5>2
      <4>2. ch2[bk] # <<>> /\ ch2[bk][1] = s[2]
        BY <1>6, <4>1, <2>1
      <4>. QED
        BY <3>1, <3>3, <4>2 DEF FirstOf, NextIn
    <3>. QED
      BY <3>2, <3>3
  <2>2. CASE p # 1
    <3>1. Len(s) # 0 /\ Len(ch2[bk]) # 0 /\ 1 \in 1 .. Len(s) - 1 /\ 1 < p
      BY <1>5, <1>6, <2>2
    <3>2. ch2[bk] # <<>> /\ s # <<>> /\ ch2[bk][1] = s[1]
      BY <1>6, <3>1
    <3>. QED
      BY <1>4, <2>2, <3>2 DEF FirstOf
  <2>. QED
    BY <2>1, <2>2
<1>9. ASSUME NEW c2 \in 0 .. LastBucket(pi), c2 # bk
      PROVE  Linked(pi, en2, E \ {e}, c2, ch2[c2]) /\ db2[c2] = FirstOf(ch2[c2])
  <2>1. Linked(pi, en, E, c2, ch[c2]) /\ ch2[c2] = ch[c2] /\ db2[c2] = db[c2]
    BY <1>2, <1>4, <1>9
  <2>2. ch[c2] \in Seq(E)
    BY <2>1 DEF Linked
  <2>3. /\ DOMAIN ch[c2] = 1 .. Len(ch[c2])
        /\ \A q \in 1 .. Len(ch[c2]) : ch[c2][q] \in E /\ BucketOf(pi, en, ch[c2][q]) = c2
    BY <2>1, <2>2, LenProperties, ElementOfSeq DEF Linked
  <2>4. \A q \in 1 .. Len(s) : BucketOf(pi, en, s[q]) = bk
    BY <1>5
  <2>5. \A q \in 1 .. Len(ch[c2]) : \A r \in 1 .. Len(s) : ch[c2][q] # s[r]
    BY <1>9, <2>3, <2>4
  <2>6. \A q \in 1 .. Len(ch[c2]) : ch[c2][q] \in E \ {e}
    BY <2>3, <2>5
  <2>7. ch[c2] \in Seq(E \ {e})
    <3>1. Len(ch[c2]) \in Nat /\ ch[c2] \in [1 .. Len(ch[c2]) -> E \ {e}]
      BY <2>2, <2>6, LenProperties
    <3>. QED
      BY <3>1, SeqDef
  <2>8. \A q \in 1 .. Len(ch[c2]) : /\ en[ch[c2][q]].k = en2[ch[c2][q]].k
                                    /\ en[ch[c2][q]].next = en2[ch[c2][q]].next
    <3>. SUFFICES ASSUME NEW q \in 1 .. Len(ch[c2])
                  PROVE  /\ en[ch[c2][q]].k = en2[ch[c2][q]].k
                         /\ en[ch[c2][q]].next = en2[ch[c2][q]].next
      OBVIOUS
    <3>1. ch[c2][q] \in E /\ (p # 1 => ch[c2][q] # s[p - 1])
      <4>1. p # 1 => p - 1 \in 1 .. Len(s)
        BY <1>5
      <4>. QED
        BY <2>3, <2>5, <4>1
    <3>. QED
      BY <3>1 DEF AgreeOnKeys
  <2>9. Linked(pi, en2, E \ {e}, c2, ch[c2])
    BY <2>1, <2>7, <2>8, LinkedFrame
  <2>. QED
    BY <1>4, <2>1, <2>9
<1>10. ASSUME NEW x \in E \ {e}
       PROVE  /\ BucketOf(pi, en2, x) \in 0 .. LastBucket(pi)
              /\ \E q \in 1 .. Len(ch2[BucketOf(pi, en2, x)]) :
                   ch2[BucketOf(pi, en2, x)][q] = x
  <2>1. x \in E
    OBVIOUS
  <2>2. BucketOf(pi, en, x) \in 0 .. LastBucket(pi)
    BY <2>1 DEF Threaded
  <2>3. PICK q \in 1 .. Len(ch[BucketOf(pi, en, x)]) : ch[BucketOf(pi, en, x)][q] = x
    BY <2>1 DEF Threaded
  <2>4. CASE BucketOf(pi, en, x) = bk
    <3>1. q \in 1 .. Len(s) /\ s[q] = x /\ q # p
      BY <2>3, <2>4
    <3>2. CASE q < p
      <4>1. q \in 1 .. Len(s) - 1 /\ ch2[bk][q] = x
        BY <1>5, <1>6, <3>1, <3>2
      <4>. QED
        BY <1>3, <1>6, <2>1, <2>2, <2>4, <4>1
    <3>3. CASE q > p
      <4>1. q - 1 \in 1 .. Len(s) - 1 /\ ~(q - 1 < p) /\ q - 1 + 1 = q
        BY <1>5, <3>1, <3>3
      <4>2. ch2[bk][q - 1] = x
        BY <1>6, <3>1, <4>1
      <4>. QED
        BY <1>3, <1>6, <2>1, <2>2, <2>4, <4>1, <4>2
    <3>. QED
      BY <1>5, <3>1, <3>2, <3>3
  <2>5. CASE BucketOf(pi, en, x) # bk
    BY <1>2, <1>3, <2>1, <2>2, <2>3, <2>5
  <2>. QED
    BY <2>4, <2>5
<1>11. ASSUME NEW c2 \in 0 .. LastBucket(pi)
       PROVE  Linked(pi, en2, E \ {e}, c2, ch2[c2]) /\ db2[c2] = FirstOf(ch2[c2])
  BY <1>7, <1>8, <1>9
<1>12. Threaded(pi, db2, en2, E \ {e}, ch2)
  BY <1>0, <1>1, <1>2, <1>10, <1>11 DEF Threaded
<1>. QED
  BY <1>12 DEF ch2

-----------------------------------------------------------------------------
(* What a table is asked for *)

LEMMA MadeIs ==
  ASSUME NEW pi, NEW db, NEW en, NEW ch, Made(pi, db, en, ch)
  PROVE  /\ pi \in 1 .. Len(Primes) /\ LastBucket(pi) \in Nat
         /\ LastBucket(pi) + 1 = Primes[pi]
         /\ DOMAIN ch = 0 .. LastBucket(pi) /\ DOMAIN db = 0 .. LastBucket(pi)
         /\ 0 \notin DOMAIN en /\ IsFunction(db)
         /\ \A bk \in 0 .. LastBucket(pi) :
              /\ Linked(pi, en, DOMAIN en, bk, ch[bk])
              /\ ch[bk] \in Seq(DOMAIN en) /\ Distinct(ch[bk])
              /\ Len(ch[bk]) \in Nat /\ DOMAIN ch[bk] = 1 .. Len(ch[bk])
              /\ db[bk] = FirstOf(ch[bk]) /\ db[bk] \in DOMAIN en \cup {0}
              /\ \A p \in 1 .. Len(ch[bk]) :
                   /\ ch[bk][p] \in DOMAIN en
                   /\ BucketOf(pi, en, ch[bk][p]) = bk
                   /\ en[ch[bk][p]].next = NextIn(ch[bk], p)
<1>1. pi \in 1 .. Len(Primes) /\ DOMAIN ch = 0 .. LastBucket(pi) /\ DOMAIN db = 0 .. LastBucket(pi)
  BY DEF Made, Threaded
<1>2. Primes[pi] \in Nat \ {0}
  BY <1>1, SizesAre
<1>3. LastBucket(pi) \in Nat /\ LastBucket(pi) + 1 = Primes[pi]
  BY <1>2 DEF LastBucket
<1>4. 0 \notin DOMAIN en /\ IsFunction(db)
  BY EntryIs DEF Made, Threaded
<1>5. ASSUME NEW bk \in 0 .. LastBucket(pi)
      PROVE  /\ Linked(pi, en, DOMAIN en, bk, ch[bk])
             /\ ch[bk] \in Seq(DOMAIN en) /\ Distinct(ch[bk])
             /\ Len(ch[bk]) \in Nat /\ DOMAIN ch[bk] = 1 .. Len(ch[bk])
             /\ db[bk] = FirstOf(ch[bk]) /\ db[bk] \in DOMAIN en \cup {0}
             /\ \A p \in 1 .. Len(ch[bk]) :
                  /\ ch[bk][p] \in DOMAIN en
                  /\ BucketOf(pi, en, ch[bk][p]) = bk
                  /\ en[ch[bk][p]].next = NextIn(ch[bk], p)
  <2>1. Linked(pi, en, DOMAIN en, bk, ch[bk]) /\ db[bk] = FirstOf(ch[bk])
    BY DEF Made, Threaded
  <2>2. ch[bk] \in Seq(DOMAIN en) /\ Distinct(ch[bk])
    BY <2>1 DEF Linked
  <2>. QED
    BY <2>1, <2>2, FirstIs, LenProperties DEF Linked
<1>. QED
  BY <1>1, <1>3, <1>4, <1>5

(* Chain and ChainFrom give the chains. *)
LEMMA ChainsAre ==
  ASSUME NEW pi, NEW db, NEW ec, NEW en, NEW ch, Made(pi, db, en, ch),
         NEW bk \in 0 .. LastBucket(pi)
  PROVE  /\ R!Chain(Tab(pi, db, ec, en), bk) = ch[bk]
         /\ \A p \in 1 .. Len(ch[bk]) :
              R!ChainFrom(Tab(pi, db, ec, en), ch[bk][p])
                = SubSeq(ch[bk], p, Len(ch[bk]))
<1>. DEFINE t == Tab(pi, db, ec, en)
<1>1. t.entries = en /\ t.database = db
  BY TabIs
<1>. HIDE DEF t
<1>2. GoesOn(en, ChainsOf(en))
  BY ChainsExist DEF Made
<1>3. /\ Linked(pi, en, DOMAIN en, bk, ch[bk]) /\ 0 \notin DOMAIN en
      /\ db[bk] = FirstOf(ch[bk])
  BY MadeIs
<1>4. /\ \A p \in 1 .. Len(ch[bk]) : ChainsOf(en)[ch[bk][p]] = SubSeq(ch[bk], p, Len(ch[bk]))
      /\ ChainsOf(en)[FirstOf(ch[bk])] = ch[bk]
  <2>. DEFINE s == ch[bk]
              chain == ChainsOf(en)
              E == DOMAIN en
  <2>1. /\ Linked(pi, en, E, bk, s) /\ E \subseteq DOMAIN en /\ 0 \notin DOMAIN en
        /\ GoesOn(en, chain)
    BY <1>2, <1>3
  <2>. HIDE DEF s, chain, E
  <2>2. /\ \A p \in 1 .. Len(s) : chain[s[p]] = SubSeq(s, p, Len(s))
        /\ chain[FirstOf(s)] = s
    BY <2>1, ChainIsRest
  <2>. QED
    BY <2>2 DEF s, chain
<1>5. \A e : R!ChainFrom(t, e) = ChainsOf(en)[e]
  BY <1>1, ChainFromIs
<1>6. R!Chain(t, bk) = R!ChainFrom(t, db[bk])
  BY <1>1 DEF R!Chain
<1>. QED
  BY <1>3, <1>4, <1>5, <1>6 DEF t

(* Search finds the first entry with the key, if there is one. *)
FirstWith(en, s, k, e) ==
  \E p \in 1 .. Len(s) : /\ e = s[p] /\ en[e].k = k
                         /\ \A q \in 1 .. Len(s) : en[s[q]].k = k => p <= q

LEMMA SearchIs ==
  ASSUME NEW pi, NEW db, NEW ec, NEW en, NEW ch, Made(pi, db, en, ch), NEW k \in Keys
  PROVE  LET e == R!Search(Tab(pi, db, ec, en), k)
         IN  \/ e = 0 /\ \A f \in DOMAIN en : en[f].k # k
             \/ FirstWith(en, ch[Hash[k] % Primes[pi]], k, e)
<1>. DEFINE t == Tab(pi, db, ec, en)
            bk == Hash[k] % Primes[pi]
            s == ch[bk]
            found == {p \in DOMAIN s : en[s[p]].k = k}
            e == R!Search(t, k)
<1>1. t.entries = en /\ R!tablelength(t) = Primes[pi]
  BY TabIs
<1>2. bk \in 0 .. LastBucket(pi)
  BY MadeIs, BucketIs
<1>3. R!Chain(t, bk) = s
  BY <1>2, ChainsAre
<1>4. R!ChainOf(t, k) = s
  BY <1>1, <1>3 DEF R!ChainOf, R!index_for
<1>5. DOMAIN s = 1 .. Len(s) /\ Len(s) \in Nat
  BY <1>2, MadeIs
<1>6. e = IF found = {} THEN 0 ELSE s[CHOOSE p \in found : \A q \in found : p <= q]
  BY <1>1, <1>4 DEF R!Search, R!NULL
<1>. HIDE DEF t, s, bk, e
<1>7. CASE found = {}
  <2>1. \A f \in DOMAIN en : en[f].k # k
    <3>. SUFFICES ASSUME NEW f \in DOMAIN en, en[f].k = k  PROVE FALSE
      OBVIOUS
    <3>1. BucketOf(pi, en, f) = bk
      BY DEF BucketOf, bk
    <3>2. PICK p \in 1 .. Len(s) : s[p] = f
      BY <3>1 DEF Made, Threaded, s
    <3>. QED
      BY <1>5, <1>7, <3>2
  <2>. QED
    BY <1>6, <1>7, <2>1 DEF t, e
<1>8. CASE found # {}
  <2>1. found \in SUBSET Nat
    BY <1>5
  <2>2. \E p \in found : \A q \in found : p <= q
    <3>. HIDE DEF found
    <3>. QED
      BY <1>8, <2>1, LeastNumber
  <2>3. PICK p \in found : e = s[p] /\ \A q \in found : p <= q
    BY <1>6, <1>8, <2>2
  <2>4. FirstWith(en, s, k, e)
    BY <1>5, <2>3 DEF FirstWith
  <2>. QED
    BY <2>4 DEF t, e, s, bk
<1>. QED
  BY <1>7, <1>8

(* A key is in the table if there is an entry with it. *)
LEMMA SearchFinds ==
  ASSUME NEW pi, NEW db, NEW ec, NEW en, NEW ch, Made(pi, db, en, ch), NEW k \in Keys,
         R!Search(Tab(pi, db, ec, en), k) # 0
  PROVE  /\ R!Search(Tab(pi, db, ec, en), k) \in DOMAIN en
         /\ en[R!Search(Tab(pi, db, ec, en), k)].k = k
         /\ \E p \in 1 .. Len(ch[Hash[k] % Primes[pi]]) :
              R!Search(Tab(pi, db, ec, en), k) = ch[Hash[k] % Primes[pi]][p]
<1>. DEFINE e == R!Search(Tab(pi, db, ec, en), k)
            s == ch[Hash[k] % Primes[pi]]
<1>1. FirstWith(en, s, k, e)
  BY SearchIs
<1>. HIDE DEF e
<1>2. Hash[k] % Primes[pi] \in 0 .. LastBucket(pi)
  BY MadeIs, BucketIs
<1>3. \A p \in 1 .. Len(s) : s[p] \in DOMAIN en
  BY <1>2, MadeIs
<1>. QED
  BY <1>1, <1>3 DEF FirstWith, e

LEMMA BeforeIs ==
  ASSUME NEW pi, NEW db, NEW ec, NEW en, NEW ch, Made(pi, db, en, ch),
         NEW bk \in 0 .. LastBucket(pi), NEW p \in 1 .. Len(ch[bk])
  PROVE  R!Before(Tab(pi, db, ec, en), ch[bk][p]) = IF p = 1 THEN 0 ELSE ch[bk][p - 1]
<1>. DEFINE t == Tab(pi, db, ec, en)
            s == ch[bk]
<1>1. t.entries = en /\ R!tablelength(t) = Primes[pi]
  BY TabIs
<1>2. /\ Len(s) \in Nat /\ s \in Seq(DOMAIN en) /\ Distinct(s)
      /\ BucketOf(pi, en, s[p]) = bk
  BY MadeIs
<1>3. R!ChainOf(t, en[s[p]].k) = s
  <2>1. R!Chain(t, bk) = s
    BY ChainsAre
  <2>2. Hash[en[s[p]].k] % Primes[pi] = bk
    BY <1>2 DEF BucketOf
  <2>. QED
    BY <1>1, <2>1, <2>2 DEF R!ChainOf, R!index_for
<1>4. R!Before(t, s[p]) = IF Head(s) = s[p] THEN 0
                          ELSE s[CHOOSE q \in 1 .. Len(s) - 1 : s[q + 1] = s[p]]
  BY <1>1, <1>3 DEF R!Before, R!NULL
<1>. HIDE DEF t
<1>5. p \in 1 .. Len(s)
  OBVIOUS
<1>. HIDE DEF s
<1>6. 1 \in 1 .. Len(s)
  BY <1>2, <1>5
<1>7. Head(s) = s[1]
  BY <1>2, <1>6
<1>8. Head(s) = s[p] <=> p = 1
  BY <1>2, <1>5, <1>6, <1>7 DEF Distinct
<1>9. ASSUME p # 1
      PROVE  (CHOOSE q \in 1 .. Len(s) - 1 : s[q + 1] = s[p]) = p - 1
  <2>1. p - 1 \in 1 .. Len(s) - 1 /\ s[p - 1 + 1] = s[p]
    BY <1>2, <1>5, <1>9
  <2>2. ASSUME NEW q \in 1 .. Len(s) - 1, s[q + 1] = s[p]  PROVE q = p - 1
    <3>1. q + 1 \in 1 .. Len(s)
      BY <1>2
    <3>2. q + 1 = p
      BY <1>2, <1>5, <2>2, <3>1 DEF Distinct
    <3>. QED
      BY <1>5, <3>2
  <2>. QED
    BY <2>1, <2>2
<1>. QED
  BY <1>4, <1>8, <1>9 DEF s, t

-----------------------------------------------------------------------------
(* Changing entries *)

LEMMA EntryExcept ==
  ASSUME NEW en, IsEntries(en), NEW e \in DOMAIN en, NEW x \in Nat
  PROVE  /\ IsEntries([en EXCEPT ![e].next = x])
         /\ DOMAIN [en EXCEPT ![e].next = x] = DOMAIN en
         /\ \A f \in DOMAIN en :
              /\ [en EXCEPT ![e].next = x][f].k = en[f].k
              /\ [en EXCEPT ![e].next = x][f].v = en[f].v
              /\ [en EXCEPT ![e].next = x][f].next = IF f = e THEN x ELSE en[f].next
<1>. DEFINE en2 == [en EXCEPT ![e].next = x]
<1>1. en \in [DOMAIN en -> EntryType] /\ DOMAIN en \subseteq R!Blocks
  BY DEF IsEntries
<1>2. DOMAIN en2 = DOMAIN en /\ en2 = [en EXCEPT ![e] = [en[e] EXCEPT !.next = x]]
  BY <1>1
<1>3. en[e] \in EntryType
  BY <1>1
<1>4. /\ [en[e] EXCEPT !.next = x] \in EntryType
      /\ [en[e] EXCEPT !.next = x].k = en[e].k
      /\ [en[e] EXCEPT !.next = x].v = en[e].v
      /\ [en[e] EXCEPT !.next = x].next = x
  BY <1>3 DEF EntryType
<1>5. en2[e] = [en[e] EXCEPT !.next = x] /\ \A f \in DOMAIN en : f # e => en2[f] = en[f]
  BY <1>1, <1>2
<1>6. en2 \in [DOMAIN en2 -> EntryType]
  BY <1>1, <1>2, <1>4
<1>. QED
  BY <1>1, <1>2, <1>4, <1>5, <1>6 DEF IsEntries

(* A value that is written, arg_hashtable_change *)
LEMMA ValueExcept ==
  ASSUME NEW en, IsEntries(en), NEW e \in DOMAIN en, NEW x \in Values
  PROVE  /\ IsEntries([en EXCEPT ![e].v = x])
         /\ DOMAIN [en EXCEPT ![e].v = x] = DOMAIN en
         /\ \A f \in DOMAIN en :
              /\ [en EXCEPT ![e].v = x][f].k = en[f].k
              /\ [en EXCEPT ![e].v = x][f].next = en[f].next
<1>. DEFINE en2 == [en EXCEPT ![e].v = x]
<1>1. en \in [DOMAIN en -> EntryType] /\ DOMAIN en \subseteq R!Blocks
  BY DEF IsEntries
<1>2. DOMAIN en2 = DOMAIN en /\ en2 = [en EXCEPT ![e] = [en[e] EXCEPT !.v = x]]
  BY <1>1
<1>3. en[e] \in EntryType
  BY <1>1
<1>4. /\ [en[e] EXCEPT !.v = x] \in EntryType
      /\ [en[e] EXCEPT !.v = x].k = en[e].k
      /\ [en[e] EXCEPT !.v = x].next = en[e].next
  BY <1>3 DEF EntryType
<1>5. en2[e] = [en[e] EXCEPT !.v = x] /\ \A f \in DOMAIN en : f # e => en2[f] = en[f]
  BY <1>1, <1>2
<1>6. en2 \in [DOMAIN en2 -> EntryType]
  BY <1>1, <1>2, <1>4
<1>. QED
  BY <1>1, <1>2, <1>4, <1>5, <1>6 DEF IsEntries

(* An entry that is given back *)
LEMMA EntriesLess ==
  ASSUME NEW en, IsEntries(en), NEW e
  PROVE  /\ IsEntries([f \in DOMAIN en \ {e} |-> en[f]])
         /\ DOMAIN [f \in DOMAIN en \ {e} |-> en[f]] = DOMAIN en \ {e}
         /\ \A f \in DOMAIN en \ {e} : [g \in DOMAIN en \ {e} |-> en[g]][f] = en[f]
BY DEF IsEntries

(* An entry that is allocated *)
LEMMA EntriesMore ==
  ASSUME NEW en, IsEntries(en), NEW e \in R!Blocks, e \notin DOMAIN en,
         NEW k \in Keys, NEW v \in Values, NEW en2,
         en2 = [f \in DOMAIN en \cup {e} |->
                  IF f = e THEN [k |-> k, v |-> v, next |-> 0] ELSE en[f]]
  PROVE  /\ IsEntries(en2) /\ DOMAIN en2 = DOMAIN en \cup {e}
         /\ en2[e].k = k /\ en2[e].v = v
         /\ \A f \in DOMAIN en : en2[f] = en[f]
<1>1. [k |-> k, v |-> v, next |-> 0] \in EntryType
  BY DEF EntryType
<1>2. en2 \in [DOMAIN en \cup {e} -> EntryType]
  BY <1>1 DEF IsEntries
<1>. QED
  BY <1>2 DEF IsEntries

LEMMA PushedIs ==
  ASSUME NEW pi, NEW db, NEW ec, NEW en, NEW e
  PROVE  R!Pushed(Tab(pi, db, ec, en), e)
           = Tab(pi, [db EXCEPT ![BucketOf(pi, en, e)] = e], ec,
                 [en EXCEPT ![e].next = db[BucketOf(pi, en, e)]])
<1>. DEFINE t == Tab(pi, db, ec, en)
            bk == BucketOf(pi, en, e)
<1>1. t.entries = en /\ t.database = db /\ R!tablelength(t) = Primes[pi]
  BY TabIs
<1>2. R!index_for(R!tablelength(t), t.entries[e].k) = bk
  BY <1>1 DEF R!index_for, BucketOf
<1>3. R!Pushed(t, e) = [t EXCEPT !.entries[e].next = t.database[bk], !.database[bk] = e]
  BY <1>2 DEF R!Pushed
<1>. HIDE DEF bk
<1>4. [t EXCEPT !.entries[e].next = db[bk], !.database[bk] = e]
        = Tab(pi, [db EXCEPT ![bk] = e], ec, [en EXCEPT ![e].next = db[bk]])
  <2>. DEFINE en2 == [en EXCEPT ![e].next = db[bk]]
              db2 == [db EXCEPT ![bk] = e]
  <2>. HIDE DEF t
  <2>1. [t EXCEPT !.entries = en2, !.database = db2]
          = [[t EXCEPT !.entries = en2] EXCEPT !.database = db2]
    OBVIOUS
  <2>2. [t EXCEPT !.entries[e].next = db[bk], !.database[bk] = e]
          = [t EXCEPT !.entries = [t.entries EXCEPT ![e].next = db[bk]],
                      !.database = [t.database EXCEPT ![bk] = e]]
    OBVIOUS
  <2>3. [t EXCEPT !.entries = [t.entries EXCEPT ![e].next = db[bk]],
                  !.database = [t.database EXCEPT ![bk] = e]]
          = [t EXCEPT !.entries = en2, !.database = db2]
    BY <1>1
  <2>. HIDE DEF en2, db2
  <2>4. [t EXCEPT !.entries = en2] = Tab(pi, db, ec, en2)
    BY DEF Tab, t
  <2>5. [Tab(pi, db, ec, en2) EXCEPT !.database = db2] = Tab(pi, db2, ec, en2)
    BY DEF Tab
  <2>. QED
    BY <2>1, <2>2, <2>3, <2>4, <2>5 DEF en2, db2
<1>. QED
  BY <1>1, <1>3, <1>4 DEF bk

(* The entries of E have been moved into the table x. *)
MovedInto(pi, ec, en, E, x) ==
  \E db2, en2, ch2 :
    /\ x = Tab(pi, db2, ec, en2)
    /\ IsEntries(en2) /\ DOMAIN en2 = DOMAIN en
    /\ \A f \in DOMAIN en : en2[f].k = en[f].k /\ en2[f].v = en[f].v
    /\ Threaded(pi, db2, en2, E, ch2)

LEMMA PushedMade ==
  ASSUME NEW pi, NEW db, NEW ec, NEW en, NEW E, NEW ch, NEW e,
         IsEntries(en), Threaded(pi, db, en, E, ch),
         E \subseteq DOMAIN en, e \in DOMAIN en, e \notin E
  PROVE  MovedInto(pi, ec, en, E \cup {e}, R!Pushed(Tab(pi, db, ec, en), e))
<1>. DEFINE bk == BucketOf(pi, en, e)
            db2 == [db EXCEPT ![bk] = e]
            en2 == [en EXCEPT ![e].next = db[bk]]
            ch2 == [ch EXCEPT ![bk] = <<e>> \o ch[bk]]
<1>1. bk \in 0 .. LastBucket(pi)
  BY EntryIs, BucketIs DEF BucketOf, Threaded
<1>2. db[bk] \in Nat
  <2>1. Linked(pi, en, E, bk, ch[bk]) /\ db[bk] = FirstOf(ch[bk])
    BY <1>1 DEF Threaded
  <2>2. ch[bk] \in Seq(E)
    BY <2>1 DEF Linked
  <2>3. db[bk] \in E \cup {0}
    BY <2>1, <2>2, FirstIs
  <2>4. \A f \in E : f \in Nat
    BY EntryIs
  <2>. QED
    BY <2>3, <2>4
<1>3. R!Pushed(Tab(pi, db, ec, en), e) = Tab(pi, db2, ec, en2)
  BY PushedIs
<1>4. /\ IsEntries(en2) /\ DOMAIN en2 = DOMAIN en
      /\ \A f \in DOMAIN en : /\ en2[f].k = en[f].k /\ en2[f].v = en[f].v
                              /\ en2[f].next = IF f = e THEN db[bk] ELSE en[f].next
  BY <1>2, EntryExcept
<1>. HIDE DEF en2
<1>5. Agree(en, en2, E) /\ BucketOf(pi, en2, e) = bk /\ en2[e].next = db[bk]
  BY <1>4 DEF Agree, BucketOf
<1>6. Threaded(pi, db2, en2, E \cup {e}, ch2)
  BY <1>1, <1>5, ThreadedPush
<1>. QED
  BY <1>3, <1>4, <1>6 DEF MovedInto

-----------------------------------------------------------------------------
(* Sequences of sequences, one behind the other *)

Flattens(seqs, m, fl) ==
  fl = [q \in 1 .. m |-> IF q = 1 THEN seqs[q] ELSE fl[q - 1] \o seqs[q]]

LEMMA FlattenExists ==
  ASSUME NEW seqs, NEW m \in Nat \ {0}
  PROVE  \E fl : Flattens(seqs, m, fl)
<1>. DEFINE wrong == {q \in Nat \ {0} : ~ \E fl : Flattens(seqs, q, fl)}
<1>1. ASSUME wrong # {}  PROVE FALSE
  <2>1. PICK q \in wrong : \A r \in wrong : q <= r
    <3>1. wrong \in SUBSET Nat
      OBVIOUS
    <3>. HIDE DEF wrong
    <3>. QED
      BY <1>1, <3>1, LeastNumber
  <2>2. q \in Nat \ {0} /\ ~ \E fl : Flattens(seqs, q, fl)
    OBVIOUS
  <2>3. CASE q = 1
    <3>1. Flattens(seqs, 1, [r \in 1 .. 1 |-> seqs[1]])
      BY DEF Flattens
    <3>. QED
      BY <2>2, <2>3, <3>1
  <2>4. CASE q # 1
    <3>1. q - 1 \in Nat \ {0} /\ ~(q <= q - 1)
      BY <2>2, <2>4
    <3>2. q - 1 \notin wrong
      <4>. HIDE DEF wrong
      <4>. QED
        BY <2>1, <3>1
    <3>3. PICK fl : Flattens(seqs, q - 1, fl)
      BY <3>1, <3>2
    <3>. DEFINE fl2 == [r \in 1 .. q |-> IF r = q THEN fl[q - 1] \o seqs[q] ELSE fl[r]]
    <3>4. ASSUME NEW r \in 1 .. q
          PROVE  fl2[r] = IF r = 1 THEN seqs[r] ELSE fl2[r - 1] \o seqs[r]
      <4>1. CASE r = q
        <5>1. q - 1 \in 1 .. q /\ q - 1 # q
          BY <2>2, <3>1
        <5>. QED
          BY <2>4, <4>1, <5>1
      <4>2. CASE r # q
        <5>1. r \in 1 .. q - 1 /\ r - 1 # q /\ fl2[r] = fl[r]
          BY <2>2, <4>2
        <5>2. fl[r] = IF r = 1 THEN seqs[r] ELSE fl[r - 1] \o seqs[r]
          BY <5>1, <3>3 DEF Flattens
        <5>3. r # 1 => fl2[r - 1] = fl[r - 1]
          BY <2>2, <5>1
        <5>. QED
          BY <5>1, <5>2, <5>3
      <4>. QED
        BY <4>1, <4>2
    <3>5. Flattens(seqs, q, fl2)
      <4>. DEFINE rhs == [r \in 1 .. q |-> IF r = 1 THEN seqs[r] ELSE fl2[r - 1] \o seqs[r]]
      <4>1. fl2 = [r \in 1 .. q |-> fl2[r]]
        OBVIOUS
      <4>. HIDE DEF fl2
      <4>2. fl2 = rhs
        BY <3>4, <4>1
      <4>. QED
        BY <4>2 DEF Flattens
    <3>. QED
      BY <2>2, <3>5
  <2>. QED
    BY <2>3, <2>4
<1>. QED
  BY <1>1

LEMMA FlattenIs ==
  ASSUME NEW seqs, Len(seqs) \in Nat \ {0}
  PROVE  \E fl : Flattens(seqs, Len(seqs), fl) /\ FlattenSeq(seqs) = fl[Len(seqs)]
<1>. DEFINE fl == CHOOSE fl : Flattens(seqs, Len(seqs), fl)
<1>1. Flattens(seqs, Len(seqs), fl)
  BY FlattenExists
<1>2. FlattenSeq(seqs) = fl[Len(seqs)]
  BY DEF FlattenSeq, Flattens
<1>. QED
  BY <1>1, <1>2

(* What is in the first m sequences is in s, once if it was there once. *)
FlatUpTo(S, seqs, m, s) ==
  /\ s \in Seq(S)
  /\ Distinct(s)
  /\ \A p \in 1 .. Len(s) : \E r \in 1 .. m : \E q \in 1 .. Len(seqs[r]) : s[p] = seqs[r][q]
  /\ \A r \in 1 .. m : \A q \in 1 .. Len(seqs[r]) : \E p \in 1 .. Len(s) : s[p] = seqs[r][q]

Apart(S, seqs, m) ==
  /\ \A r \in 1 .. m : seqs[r] \in Seq(S) /\ Distinct(seqs[r])
  /\ \A r, r2 \in 1 .. m : r # r2 =>
       \A q \in 1 .. Len(seqs[r]) : \A q2 \in 1 .. Len(seqs[r2]) : seqs[r][q] # seqs[r2][q2]

LEMMA FlatStep ==
  ASSUME NEW S, NEW seqs, NEW m \in Nat \ {0}, NEW s,
         Apart(S, seqs, m + 1), FlatUpTo(S, seqs, m, s)
  PROVE  FlatUpTo(S, seqs, m + 1, s \o seqs[m + 1])
<1>. DEFINE t == seqs[m + 1]
            u == s \o t
<1>1. t \in Seq(S) /\ s \in Seq(S) /\ Distinct(s) /\ Distinct(t)
  BY DEF Apart, FlatUpTo
<1>2. Len(s) \in Nat /\ Len(t) \in Nat
  BY <1>1, LenProperties
<1>. HIDE DEF t
<1>3. /\ u \in Seq(S) /\ Len(u) = Len(s) + Len(t)
      /\ \A p \in 1 .. Len(s) + Len(t) : u[p] = IF p <= Len(s) THEN s[p] ELSE t[p - Len(s)]
  BY <1>1, ConcatProperties
<1>. HIDE DEF u
<1>4. ASSUME NEW p \in 1 .. Len(u)
      PROVE  \/ p <= Len(s) /\ p \in 1 .. Len(s) /\ u[p] = s[p]
             \/ p > Len(s) /\ p - Len(s) \in 1 .. Len(t) /\ u[p] = t[p - Len(s)]
  BY <1>2, <1>3
<1>5. ASSUME NEW p \in 1 .. Len(s), NEW q \in 1 .. Len(t)  PROVE s[p] # t[q]
  <2>1. PICK r \in 1 .. m : \E q2 \in 1 .. Len(seqs[r]) : s[p] = seqs[r][q2]
    BY DEF FlatUpTo
  <2>2. r \in 1 .. m + 1 /\ m + 1 \in 1 .. m + 1 /\ r # m + 1
    OBVIOUS
  <2>. QED
    BY <2>1, <2>2 DEF Apart, t
<1>6. Distinct(u)
  <2>. SUFFICES ASSUME NEW p \in 1 .. Len(u), NEW q \in 1 .. Len(u), u[p] = u[q]
                PROVE  p = q
    BY DEF Distinct
  <2>1. CASE p <= Len(s) /\ q <= Len(s)
    <3>1. p \in 1 .. Len(s) /\ q \in 1 .. Len(s) /\ s[p] = s[q]
      BY <1>2, <1>4, <2>1
    <3>. QED
      BY <1>1, <3>1 DEF Distinct
  <2>2. CASE p > Len(s) /\ q > Len(s)
    <3>1. p - Len(s) \in 1 .. Len(t) /\ q - Len(s) \in 1 .. Len(t) /\ t[p - Len(s)] = t[q - Len(s)]
      BY <1>2, <1>4, <2>2
    <3>2. p - Len(s) = q - Len(s)
      BY <1>1, <3>1 DEF Distinct
    <3>. QED
      BY <1>2, <1>3, <3>2
  <2>3. CASE p <= Len(s) /\ q > Len(s)
    <3>1. p \in 1 .. Len(s) /\ q - Len(s) \in 1 .. Len(t) /\ s[p] = t[q - Len(s)]
      BY <1>2, <1>4, <2>3
    <3>. QED
      BY <1>5, <3>1
  <2>4. CASE p > Len(s) /\ q <= Len(s)
    <3>1. q \in 1 .. Len(s) /\ p - Len(s) \in 1 .. Len(t) /\ s[q] = t[p - Len(s)]
      BY <1>2, <1>4, <2>4
    <3>. QED
      BY <1>5, <3>1
  <2>. QED
    BY <1>2, <1>3, <2>1, <2>2, <2>3, <2>4
<1>7. ASSUME NEW p \in 1 .. Len(u)
      PROVE  \E r \in 1 .. m + 1 : \E q \in 1 .. Len(seqs[r]) : u[p] = seqs[r][q]
  <2>1. CASE p <= Len(s)
    <3>1. p \in 1 .. Len(s) /\ u[p] = s[p]
      BY <1>2, <1>4, <2>1
    <3>2. PICK r \in 1 .. m : \E q \in 1 .. Len(seqs[r]) : s[p] = seqs[r][q]
      BY <3>1 DEF FlatUpTo
    <3>3. r \in 1 .. m + 1
      OBVIOUS
    <3>. QED
      BY <3>1, <3>2, <3>3
  <2>2. CASE p > Len(s)
    <3>1. p - Len(s) \in 1 .. Len(t) /\ u[p] = t[p - Len(s)]
      BY <1>2, <1>4, <2>2
    <3>2. m + 1 \in 1 .. m + 1
      OBVIOUS
    <3>. QED
      BY <3>1, <3>2 DEF t
  <2>. QED
    BY <1>2, <1>3, <2>1, <2>2
<1>8. ASSUME NEW r \in 1 .. m + 1, NEW q \in 1 .. Len(seqs[r])
      PROVE  \E p \in 1 .. Len(u) : u[p] = seqs[r][q]
  <2>1. CASE r = m + 1
    <3>1. q \in 1 .. Len(t) /\ seqs[r][q] = t[q]
      BY <2>1 DEF t
    <3>2. Len(s) + q \in 1 .. Len(u) /\ ~(Len(s) + q <= Len(s)) /\ Len(s) + q - Len(s) = q
      BY <1>2, <1>3, <3>1
    <3>3. u[Len(s) + q] = t[q]
      BY <1>3, <3>2
    <3>. QED
      BY <3>1, <3>2, <3>3
  <2>2. CASE r # m + 1
    <3>1. r \in 1 .. m
      BY <2>2
    <3>2. PICK p \in 1 .. Len(s) : s[p] = seqs[r][q]
      BY <3>1 DEF FlatUpTo
    <3>3. p \in 1 .. Len(u) /\ p <= Len(s)
      BY <1>2, <1>3
    <3>. QED
      BY <1>3, <3>2, <3>3
  <2>. QED
    BY <2>1, <2>2
<1>. QED
  BY <1>3, <1>6, <1>7, <1>8 DEF FlatUpTo, u, t

LEMMA FlattenApart ==
  ASSUME NEW S, NEW seqs, NEW m \in Nat \ {0}, Len(seqs) = m, Apart(S, seqs, m)
  PROVE  FlatUpTo(S, seqs, m, FlattenSeq(seqs))
<1>1. PICK fl : Flattens(seqs, m, fl) /\ FlattenSeq(seqs) = fl[m]
  BY FlattenIs
<1>. DEFINE wrong == {q \in 1 .. m : ~ FlatUpTo(S, seqs, q, fl[q])}
<1>2. ASSUME wrong # {}  PROVE FALSE
  <2>1. PICK q \in wrong : \A r \in wrong : q <= r
    <3>1. wrong \in SUBSET Nat
      OBVIOUS
    <3>. HIDE DEF wrong
    <3>. QED
      BY <1>2, <3>1, LeastNumber
  <2>2. q \in 1 .. m /\ ~ FlatUpTo(S, seqs, q, fl[q])
    OBVIOUS
  <2>3. CASE q = 1
    <3>1. fl[1] = seqs[1] /\ 1 \in 1 .. m
      BY <1>1 DEF Flattens
    <3>2. seqs[1] \in Seq(S) /\ Distinct(seqs[1])
      BY <3>1 DEF Apart
    <3>3. FlatUpTo(S, seqs, 1, seqs[1])
      BY <3>2 DEF FlatUpTo
    <3>. QED
      BY <2>2, <2>3, <3>1, <3>3
  <2>4. CASE q # 1
    <3>1. q - 1 \in 1 .. m /\ q - 1 \in Nat \ {0} /\ ~(q <= q - 1) /\ q - 1 + 1 = q
      BY <2>2, <2>4
    <3>2. q - 1 \notin wrong
      <4>. HIDE DEF wrong
      <4>. QED
        BY <2>1, <3>1
    <3>3. FlatUpTo(S, seqs, q - 1, fl[q - 1])
      BY <3>1, <3>2
    <3>4. Apart(S, seqs, q - 1 + 1)
      <4>1. \A r \in 1 .. q : r \in 1 .. m
        BY <2>2
      <4>. QED
        BY <3>1, <4>1 DEF Apart
    <3>5. FlatUpTo(S, seqs, q - 1 + 1, fl[q - 1] \o seqs[q - 1 + 1])
      BY <3>1, <3>3, <3>4, FlatStep
    <3>6. fl[q] = fl[q - 1] \o seqs[q]
      BY <1>1, <2>2, <2>4 DEF Flattens
    <3>. QED
      BY <2>2, <3>1, <3>5, <3>6
  <2>. QED
    BY <2>3, <2>4
<1>3. m \in 1 .. m
  OBVIOUS
<1>. QED
  BY <1>1, <1>2, <1>3

-----------------------------------------------------------------------------
(* A table that grows *)

Moves(bare, old, m, mv) ==
  mv = [q \in 0 .. m |-> IF q = 0 THEN bare ELSE R!Pushed(mv[q - 1], old[q])]

LEMMA MovesExist ==
  ASSUME NEW bare, NEW old, NEW m \in Nat
  PROVE  \E mv : Moves(bare, old, m, mv)
<1>. DEFINE wrong == {q \in Nat : ~ \E mv : Moves(bare, old, q, mv)}
<1>1. ASSUME wrong # {}  PROVE FALSE
  <2>1. PICK q \in wrong : \A r \in wrong : q <= r
    <3>1. wrong \in SUBSET Nat
      OBVIOUS
    <3>. HIDE DEF wrong
    <3>. QED
      BY <1>1, <3>1, LeastNumber
  <2>2. q \in Nat /\ ~ \E mv : Moves(bare, old, q, mv)
    OBVIOUS
  <2>3. CASE q = 0
    <3>1. Moves(bare, old, 0, [r \in 0 .. 0 |-> bare])
      BY DEF Moves
    <3>. QED
      BY <2>2, <2>3, <3>1
  <2>4. CASE q # 0
    <3>1. q - 1 \in Nat /\ ~(q <= q - 1)
      BY <2>2, <2>4
    <3>2. q - 1 \notin wrong
      <4>. HIDE DEF wrong
      <4>. QED
        BY <2>1, <3>1
    <3>3. PICK mv : Moves(bare, old, q - 1, mv)
      BY <3>1, <3>2
    <3>. DEFINE mv2 == [r \in 0 .. q |-> IF r = q THEN R!Pushed(mv[q - 1], old[q]) ELSE mv[r]]
    <3>4. ASSUME NEW r \in 0 .. q
          PROVE  mv2[r] = IF r = 0 THEN bare ELSE R!Pushed(mv2[r - 1], old[r])
      <4>1. CASE r = q
        <5>1. q - 1 \in 0 .. q /\ q - 1 # q
          BY <2>2, <3>1
        <5>. QED
          BY <2>4, <4>1, <5>1
      <4>2. CASE r # q
        <5>1. r \in 0 .. q - 1 /\ r - 1 # q /\ mv2[r] = mv[r]
          BY <2>2, <4>2
        <5>2. mv[r] = IF r = 0 THEN bare ELSE R!Pushed(mv[r - 1], old[r])
          BY <5>1, <3>3 DEF Moves
        <5>3. r # 0 => mv2[r - 1] = mv[r - 1]
          BY <2>2, <5>1
        <5>. QED
          BY <5>1, <5>2, <5>3
      <4>. QED
        BY <4>1, <4>2
    <3>5. Moves(bare, old, q, mv2)
      <4>. DEFINE rhs == [r \in 0 .. q |-> IF r = 0 THEN bare ELSE R!Pushed(mv2[r - 1], old[r])]
      <4>1. mv2 = [r \in 0 .. q |-> mv2[r]]
        OBVIOUS
      <4>. HIDE DEF mv2
      <4>2. mv2 = rhs
        BY <3>4, <4>1
      <4>. QED
        BY <4>2 DEF Moves
    <3>. QED
      BY <2>2, <3>5
  <2>. QED
    BY <2>3, <2>4
<1>. QED
  BY <1>1

OldOf(t) == FlattenSeq([bk \in 1 .. R!tablelength(t) |-> R!Chain(t, bk - 1)])
BareOf(t) ==
  [t EXCEPT !.primeindex = @ + 1,
            !.database = [bk \in 0 .. Primes[t.primeindex + 1] - 1 |-> 0]]

LEMMA ExpandedIs ==
  ASSUME NEW t, t.primeindex # Len(Primes), Len(OldOf(t)) \in Nat
  PROVE  \E mv : /\ Moves(BareOf(t), OldOf(t), Len(OldOf(t)), mv)
                 /\ R!Expanded(t) = mv[Len(OldOf(t))]
<1>. DEFINE mv == CHOOSE mv : Moves(BareOf(t), OldOf(t), Len(OldOf(t)), mv)
<1>1. Moves(BareOf(t), OldOf(t), Len(OldOf(t)), mv)
  BY MovesExist
<1>2. R!Expanded(t) = mv[Len(OldOf(t))]
  BY SameFlattenSeq DEF R!Expanded, Moves, OldOf, BareOf, R!NULL
<1>. QED
  BY <1>1, <1>2

LEMMA BareIs ==
  ASSUME NEW pi, NEW db, NEW ec, NEW en
  PROVE  BareOf(Tab(pi, db, ec, en))
           = Tab(pi + 1, [bk \in 0 .. LastBucket(pi + 1) |-> 0], ec, en)
<1>. DEFINE t == Tab(pi, db, ec, en)
            db2 == [bk \in 0 .. LastBucket(pi + 1) |-> 0]
<1>1. t.primeindex = pi
  BY TabIs
<1>2. BareOf(t) = [t EXCEPT !.primeindex = pi + 1, !.database = db2]
  <2>. HIDE DEF t
  <2>. QED
    BY <1>1 DEF BareOf, LastBucket
<1>. HIDE DEF db2
<1>3. [t EXCEPT !.primeindex = pi + 1, !.database = db2] = Tab(pi + 1, db2, ec, en)
  <2>. DEFINE up == pi + 1
  <2>. HIDE DEF up, t
  <2>1. [t EXCEPT !.primeindex = up, !.database = db2]
          = [[t EXCEPT !.primeindex = up] EXCEPT !.database = db2]
    OBVIOUS
  <2>2. [t EXCEPT !.primeindex = up] = Tab(up, db, ec, en)
    BY DEF Tab, t
  <2>3. [Tab(up, db, ec, en) EXCEPT !.database = db2] = Tab(up, db2, ec, en)
    BY DEF Tab
  <2>. QED
    BY <2>1, <2>2, <2>3 DEF up
<1>. QED
  BY <1>2, <1>3 DEF db2

LEMMA NothingThreaded ==
  ASSUME NEW pi \in 1 .. Len(Primes), NEW en
  PROVE  Threaded(pi, [bk \in 0 .. LastBucket(pi) |-> 0], en, {},
                  [bk \in 0 .. LastBucket(pi) |-> <<>>])
<1>1. \A bk \in 0 .. LastBucket(pi) : Linked(pi, en, {}, bk, <<>>)
  BY DEF Linked, Distinct
<1>2. IsFunction([bk \in 0 .. LastBucket(pi) |-> 0])
  BY DEF IsFunction
<1>. QED
  BY <1>1, <1>2 DEF Threaded, FirstOf

(* The heads of the old chains, bucket by bucket *)
LEMMA OldIs ==
  ASSUME NEW pi, NEW db, NEW ec, NEW en, NEW ch, Made(pi, db, en, ch)
  PROVE  LET old == OldOf(Tab(pi, db, ec, en))
         IN  /\ old \in Seq(DOMAIN en) /\ Distinct(old)
             /\ \A e \in DOMAIN en : \E p \in 1 .. Len(old) : old[p] = e
<1>. DEFINE t == Tab(pi, db, ec, en)
            old == OldOf(t)
            seqs == [bk \in 1 .. Primes[pi] |-> R!Chain(t, bk - 1)]
<1>1. Primes[pi] \in Nat \ {0} /\ LastBucket(pi) + 1 = Primes[pi] /\ LastBucket(pi) \in Nat
  BY MadeIs, SizesAre
<1>2. old = FlattenSeq(seqs)
  <2>1. R!tablelength(t) = Primes[pi]
    BY TabIs
  <2>. HIDE DEF t
  <2>. QED
    BY <2>1 DEF OldOf
<1>3. ASSUME NEW r \in 1 .. Primes[pi]
      PROVE  r - 1 \in 0 .. LastBucket(pi) /\ seqs[r] = ch[r - 1]
  <2>1. r - 1 \in 0 .. LastBucket(pi)
    BY <1>1
  <2>2. R!Chain(t, r - 1) = ch[r - 1]
    BY <2>1, ChainsAre
  <2>. QED
    BY <2>1, <2>2
<1>4. DOMAIN seqs = 1 .. Primes[pi]
  OBVIOUS
<1>. HIDE DEF t, old, seqs
<1>5. ASSUME NEW r \in 1 .. Primes[pi]
      PROVE  seqs[r] \in Seq(DOMAIN en) /\ Distinct(seqs[r])
  <2>1. r - 1 \in 0 .. LastBucket(pi) /\ seqs[r] = ch[r - 1]
    BY <1>3
  <2>2. ch[r - 1] \in Seq(DOMAIN en) /\ Distinct(ch[r - 1])
    BY <2>1, MadeIs
  <2>. QED
    BY <2>1, <2>2
<1>6. Len(seqs) = Primes[pi]
  <2>1. seqs \in [1 .. Primes[pi] -> Seq(DOMAIN en)]
    <3>1. seqs = [r \in 1 .. Primes[pi] |-> seqs[r]]
      BY DEF seqs
    <3>. QED
      BY <1>5, <3>1
  <2>2. seqs \in Seq(Seq(DOMAIN en))
    BY <1>1, <2>1, SeqDef
  <2>. QED
    BY <1>1, <1>4, <2>2, LenProperties
<1>7. ASSUME NEW r \in 1 .. Primes[pi], NEW r2 \in 1 .. Primes[pi], r # r2,
             NEW q \in 1 .. Len(seqs[r]), NEW q2 \in 1 .. Len(seqs[r2])
      PROVE  seqs[r][q] # seqs[r2][q2]
  <2>0. \A bk \in 0 .. LastBucket(pi) : \A s \in 1 .. Len(ch[bk]) :
          BucketOf(pi, en, ch[bk][s]) = bk
    BY MadeIs
  <2>1. /\ BucketOf(pi, en, ch[r - 1][q]) = r - 1
        /\ BucketOf(pi, en, ch[r2 - 1][q2]) = r2 - 1
    BY <1>3, <2>0
  <2>2. r - 1 # r2 - 1
    BY <1>7
  <2>. QED
    BY <1>3, <2>1, <2>2
<1>8. Apart(DOMAIN en, seqs, Primes[pi])
  BY <1>5, <1>7 DEF Apart
<1>9. FlatUpTo(DOMAIN en, seqs, Primes[pi], old)
  BY <1>1, <1>2, <1>6, <1>8, FlattenApart
<1>10. ASSUME NEW e \in DOMAIN en  PROVE \E p \in 1 .. Len(old) : old[p] = e
  <2>1. BucketOf(pi, en, e) \in 0 .. LastBucket(pi)
    BY DEF Made, Threaded
  <2>2. PICK q \in 1 .. Len(ch[BucketOf(pi, en, e)]) : ch[BucketOf(pi, en, e)][q] = e
    BY DEF Made, Threaded
  <2>. DEFINE r == BucketOf(pi, en, e) + 1
  <2>3. r \in 1 .. Primes[pi] /\ r - 1 = BucketOf(pi, en, e)
    BY <1>1, <2>1
  <2>. HIDE DEF r
  <2>4. q \in 1 .. Len(seqs[r]) /\ seqs[r][q] = e
    BY <1>3, <2>2, <2>3
  <2>. QED
    BY <1>9, <2>3, <2>4 DEF FlatUpTo
<1>. QED
  BY <1>9, <1>10 DEF FlatUpTo, old, t

LEMMA MovedStep ==
  ASSUME NEW pi, NEW ec, NEW en, NEW E, NEW x, NEW e,
         MovedInto(pi, ec, en, E, x), E \subseteq DOMAIN en, e \in DOMAIN en, e \notin E
  PROVE  MovedInto(pi, ec, en, E \cup {e}, R!Pushed(x, e))
<1>1. PICK db2, en2, ch2 :
        /\ x = Tab(pi, db2, ec, en2)
        /\ IsEntries(en2) /\ DOMAIN en2 = DOMAIN en
        /\ \A f \in DOMAIN en : en2[f].k = en[f].k /\ en2[f].v = en[f].v
        /\ Threaded(pi, db2, en2, E, ch2)
  BY DEF MovedInto
<1>2. PICK db3, en3, ch3 :
        /\ R!Pushed(Tab(pi, db2, ec, en2), e) = Tab(pi, db3, ec, en3)
        /\ IsEntries(en3) /\ DOMAIN en3 = DOMAIN en2
        /\ \A f \in DOMAIN en2 : en3[f].k = en2[f].k /\ en3[f].v = en2[f].v
        /\ Threaded(pi, db3, en3, E \cup {e}, ch3)
  <2>1. E \subseteq DOMAIN en2 /\ e \in DOMAIN en2
    BY <1>1
  <2>2. MovedInto(pi, ec, en2, E \cup {e}, R!Pushed(Tab(pi, db2, ec, en2), e))
    BY <1>1, <2>1, PushedMade
  <2>. QED
    BY Zenon, <2>2 DEF MovedInto
<1>3. \A f \in DOMAIN en : en3[f].k = en[f].k /\ en3[f].v = en[f].v
  BY <1>1, <1>2
<1>. QED
  BY <1>1, <1>2, <1>3 DEF MovedInto

(* Every entry is in the larger table, in the chain its key belongs to now. *)
LEMMA ExpandedMade ==
  ASSUME NEW pi, NEW db, NEW ec, NEW en, NEW ch, Made(pi, db, en, ch), pi # Len(Primes)
  PROVE  \E db2, en2, ch2 :
           /\ R!Expanded(Tab(pi, db, ec, en)) = Tab(pi + 1, db2, ec, en2)
           /\ Made(pi + 1, db2, en2, ch2) /\ DOMAIN en2 = DOMAIN en
           /\ \A f \in DOMAIN en : en2[f].k = en[f].k /\ en2[f].v = en[f].v
<1>. DEFINE t == Tab(pi, db, ec, en)
            old == OldOf(t)
<1>1. /\ old \in Seq(DOMAIN en) /\ Distinct(old)
      /\ \A e \in DOMAIN en : \E p \in 1 .. Len(old) : old[p] = e
  BY OldIs
<1>2. Len(old) \in Nat /\ \A p \in 1 .. Len(old) : old[p] \in DOMAIN en
  BY <1>1, FirstIs
<1>3. pi \in 1 .. Len(Primes) /\ pi + 1 \in 1 .. Len(Primes)
  <2>1. pi \in 1 .. Len(Primes)
    BY MadeIs
  <2>. QED
    BY <2>1, SizesAre
<1>4. PICK mv : Moves(BareOf(t), old, Len(old), mv) /\ R!Expanded(t) = mv[Len(old)]
  <2>1. t.primeindex # Len(Primes)
    BY TabIs
  <2>. HIDE DEF t
  <2>. QED
    BY <1>2, <2>1, ExpandedIs
<1>5. BareOf(t) = Tab(pi + 1, [bk \in 0 .. LastBucket(pi + 1) |-> 0], ec, en)
  BY BareIs
<1>. HIDE DEF old, t
<1>. DEFINE Upto(m) == {old[p] : p \in 1 .. m}
            wrong == {m \in 0 .. Len(old) : ~ MovedInto(pi + 1, ec, en, Upto(m), mv[m])}
<1>6. IsEntries(en)
  BY DEF Made
<1>7. ASSUME wrong # {}  PROVE FALSE
  <2>1. PICK m \in wrong : \A r \in wrong : m <= r
    <3>1. wrong \in SUBSET Nat
      OBVIOUS
    <3>. HIDE DEF wrong
    <3>. QED
      BY <1>7, <3>1, LeastNumber
  <2>2. m \in 0 .. Len(old) /\ ~ MovedInto(pi + 1, ec, en, Upto(m), mv[m])
    OBVIOUS
  <2>3. CASE m = 0
    <3>1. mv[0] = BareOf(t)
      BY <1>2, <1>4 DEF Moves
    <3>2. Upto(0) = {}
      OBVIOUS
    <3>3. MovedInto(pi + 1, ec, en, {}, BareOf(t))
      BY <1>3, <1>5, <1>6, NothingThreaded DEF MovedInto
    <3>. QED
      BY <2>2, <2>3, <3>1, <3>2, <3>3
  <2>4. CASE m # 0
    <3>1. m - 1 \in 0 .. Len(old) /\ ~(m <= m - 1) /\ m \in 1 .. Len(old)
      BY <1>2, <2>2, <2>4
    <3>2. m - 1 \notin wrong
      <4>. HIDE DEF wrong
      <4>. QED
        BY <2>1, <3>1
    <3>3. MovedInto(pi + 1, ec, en, Upto(m - 1), mv[m - 1])
      BY <3>1, <3>2
    <3>4. mv[m] = R!Pushed(mv[m - 1], old[m])
      BY <1>4, <2>2, <2>4 DEF Moves
    <3>5. \A p \in 1 .. m - 1 : p \in 1 .. Len(old) /\ p # m
      BY <1>2, <3>1
    <3>6. Upto(m - 1) \subseteq DOMAIN en /\ old[m] \in DOMAIN en
      BY <1>2, <3>1, <3>5
    <3>7. old[m] \notin Upto(m - 1)
      BY <1>1, <3>1, <3>5 DEF Distinct
    <3>8. Upto(m - 1) \cup {old[m]} = Upto(m)
      <4>1. 1 .. m = (1 .. m - 1) \cup {m}
        BY <3>1
      <4>. QED
        BY <4>1
    <3>. HIDE DEF Upto
    <3>9. MovedInto(pi + 1, ec, en, Upto(m - 1) \cup {old[m]}, R!Pushed(mv[m - 1], old[m]))
      BY <3>3, <3>6, <3>7, MovedStep
    <3>. QED
      BY <2>2, <3>4, <3>8, <3>9
  <2>. QED
    BY <2>3, <2>4
<1>8. MovedInto(pi + 1, ec, en, Upto(Len(old)), mv[Len(old)])
  <2>1. Len(old) \in 0 .. Len(old)
    BY <1>2
  <2>. QED
    BY <1>7, <2>1
<1>9. Upto(Len(old)) = DOMAIN en
  BY <1>1, <1>2
<1>. HIDE DEF Upto
<1>10. MovedInto(pi + 1, ec, en, DOMAIN en, R!Expanded(t))
  BY <1>4, <1>8, <1>9
<1>. QED
  BY <1>10 DEF MovedInto, Made, t

-----------------------------------------------------------------------------
(* The table and what its operations make of it *)

WellMade(t, ch) ==
  /\ t = Tab(t.primeindex, t.database, t.entrycount, t.entries)
  /\ Made(t.primeindex, t.database, t.entries, ch)
  /\ t.entrycount = Cardinality(DOMAIN t.entries)
  /\ t.primeindex < Len(Primes) => t.entrycount <= R!loadlimit(Primes[t.primeindex])

(* x has what t has, and an entry more, or less. *)
SameNames(t, x, E) ==
  \A f \in E : x.entries[f].k = t.entries[f].k /\ x.entries[f].v = t.entries[f].v
Gains(t, x, e, k, v) ==
  /\ e \notin DOMAIN t.entries /\ DOMAIN x.entries = DOMAIN t.entries \cup {e}
  /\ x.entries[e].k = k /\ x.entries[e].v = v
  /\ SameNames(t, x, DOMAIN t.entries)
Loses(t, x, e) ==
  /\ e \in DOMAIN t.entries /\ DOMAIN x.entries = DOMAIN t.entries \ {e}
  /\ SameNames(t, x, DOMAIN x.entries)

LEMMA WellMadeIs ==
  ASSUME NEW pi, NEW db, NEW en, NEW ch, Made(pi, db, en, ch),
         pi < Len(Primes) => Cardinality(DOMAIN en) <= R!loadlimit(Primes[pi])
  PROVE  WellMade(Tab(pi, db, Cardinality(DOMAIN en), en), ch)
<1>. DEFINE t == Tab(pi, db, Cardinality(DOMAIN en), en)
<1>1. /\ t.primeindex = pi /\ t.database = db /\ t.entries = en
      /\ t.entrycount = Cardinality(DOMAIN en)
  BY TabIs
<1>2. t = Tab(t.primeindex, t.database, t.entrycount, t.entries)
  BY <1>1
<1>. HIDE DEF t
<1>. QED
  BY <1>1, <1>2 DEF WellMade, t

(* The entries are finitely many. *)
LEMMA EntriesFinite ==
  ASSUME NEW en, IsEntries(en)
  PROVE  /\ IsFiniteSet(DOMAIN en) /\ Cardinality(DOMAIN en) \in 0 .. MaxEntries
         /\ Cardinality(DOMAIN en) < MaxEntries => R!Blocks \ DOMAIN en # {}
<1>1. IsFiniteSet(R!Blocks) /\ Cardinality(R!Blocks) = MaxEntries
  <2>1. MaxEntries \in Nat
    BY SizesAre
  <2>. QED
    BY <2>1, FS_Interval DEF R!Blocks
<1>2. DOMAIN en \in SUBSET R!Blocks
  BY DEF IsEntries
<1>3. IsFiniteSet(DOMAIN en) /\ Cardinality(DOMAIN en) <= MaxEntries
  BY <1>1, <1>2, FS_Subset
<1>4. Cardinality(DOMAIN en) \in Nat /\ MaxEntries \in Nat
  BY <1>3, FS_CardinalityType, SizesAre
<1>5. ASSUME R!Blocks \ DOMAIN en = {}  PROVE Cardinality(DOMAIN en) = MaxEntries
  <2>1. DOMAIN en = R!Blocks
    BY <1>2, <1>5
  <2>. QED
    BY <1>1, <2>1
<1>. QED
  BY <1>3, <1>4, <1>5

LEMMA LimitGrows ==
  ASSUME NEW x \in Nat, NEW y \in Nat, x + 2 <= y
  PROVE  R!loadlimit(x) + 1 <= R!loadlimit(y)
BY DEF R!loadlimit

LEMMA LimitIsNat ==
  ASSUME NEW x \in Nat \ {0}
  PROVE  R!loadlimit(x) \in Nat \ {0}
BY DEF R!loadlimit

(* arg_hashtable_create *)
LEMMA NewTableMade ==
  ASSUME NEW minsize \in 0 .. MaxMinSize
  PROVE  /\ \E ch : WellMade(R!NewTable(minsize), ch)
         /\ R!NewTable(minsize).primeindex # 0
         /\ DOMAIN R!NewTable(minsize).entries = {}
<1>. DEFINE larger == {p \in DOMAIN Primes : Primes[p] > minsize}
            least == CHOOSE p \in larger : \A q \in larger : p <= q
            db == [bk \in 0 .. LastBucket(least) |-> 0]
<1>1. DOMAIN Primes = 1 .. Len(Primes) /\ Len(Primes) \in Nat \ {0}
  BY SizesAre, LenProperties
<1>2. Len(Primes) \in larger /\ larger \in SUBSET Nat
  <2>1. Len(Primes) \in 1 .. Len(Primes) /\ Primes[Len(Primes)] \in Nat
    BY <1>1, SizesAre
  <2>2. Primes[Len(Primes)] > minsize
    BY <2>1, SizesAre
  <2>. QED
    BY <1>1, <2>1, <2>2
<1>3. least \in larger
  <2>. HIDE DEF larger
  <2>1. \E p \in larger : \A q \in larger : p <= q
    BY <1>2, LeastNumber
  <2>. QED
    BY <2>1
<1>4. least \in 1 .. Len(Primes)
  BY <1>1, <1>3
<1>5. R!NewTable(minsize) = [R!NoTable EXCEPT !.primeindex = least, !.database = db]
  BY DEF R!NewTable, R!NULL, LastBucket
<1>. HIDE DEF least, db
<1>6. R!NewTable(minsize) = Tab(least, db, 0, <<>>)
  BY <1>5 DEF R!NoTable, Tab
<1>7. DOMAIN <<>> = {} /\ IsEntries(<<>>)
  <2>1. <<>> \in Seq(EntryType) /\ Len(<<>>) = 0
    BY EmptySeq
  <2>2. <<>> \in [1 .. 0 -> EntryType] /\ DOMAIN <<>> = 1 .. 0 /\ 1 .. 0 = {}
    BY <2>1, LenProperties
  <2>. QED
    BY <2>2 DEF IsEntries
<1>8. Threaded(least, db, <<>>, {}, [bk \in 0 .. LastBucket(least) |-> <<>>])
  BY <1>4, NothingThreaded DEF db
<1>9. Made(least, db, <<>>, [bk \in 0 .. LastBucket(least) |-> <<>>])
  BY <1>7, <1>8 DEF Made
<1>10. Cardinality(DOMAIN <<>>) = 0
  BY <1>7, FS_EmptySet
<1>11. R!loadlimit(Primes[least]) \in Nat
  BY <1>4, SizesAre, LimitIsNat
<1>12. \E ch : WellMade(R!NewTable(minsize), ch)
  <2>1. WellMade(Tab(least, db, Cardinality(DOMAIN <<>>), <<>>),
                 [bk \in 0 .. LastBucket(least) |-> <<>>])
    BY <1>9, <1>10, <1>11, WellMadeIs
  <2>. QED
    BY <1>6, <1>10, <2>1
<1>. QED
  BY <1>4, <1>6, <1>7, <1>12, TabIs

Inserts(t, x, k, v) ==
  /\ \E ch : WellMade(x, ch)
  /\ \E e \in Nat \ {0} : Gains(t, x, e, k, v)

(* What an insert puts its entry into *)
RoomFor(t, room) ==
  \E pi, db, en, ch :
    /\ room = Tab(pi, db, t.entrycount, en) /\ Made(pi, db, en, ch)
    /\ DOMAIN en = DOMAIN t.entries
    /\ \A f \in DOMAIN en : en[f].k = t.entries[f].k /\ en[f].v = t.entries[f].v
    /\ pi < Len(Primes) => t.entrycount + 1 <= R!loadlimit(Primes[pi])

LEMMA RoomIs ==
  ASSUME NEW t, NEW ch, WellMade(t, ch)
  PROVE  RoomFor(t, IF R!IsFull(t) THEN R!Expanded(t) ELSE t)
<1>. DEFINE pi == t.primeindex
            db == t.database
            ec == t.entrycount
            en == t.entries
<1>1. /\ t = Tab(pi, db, ec, en) /\ Made(pi, db, en, ch)
      /\ ec = Cardinality(DOMAIN en)
      /\ pi < Len(Primes) => ec <= R!loadlimit(Primes[pi])
  BY DEF WellMade
<1>2. ec \in Nat /\ pi \in 1 .. Len(Primes) /\ Len(Primes) \in Nat
  BY <1>1, EntriesFinite, MadeIs, SizesAre DEF Made
<1>3. R!loadlimit(Primes[pi]) \in Nat
  BY <1>2, SizesAre, LimitIsNat
<1>4. R!IsFull(t) <=> ec + 1 > R!loadlimit(Primes[pi])
  BY DEF R!IsFull, R!tablelength
<1>. HIDE DEF pi, db, ec, en
<1>5. CASE ~R!IsFull(t)
  <2>1. ec + 1 <= R!loadlimit(Primes[pi])
    BY <1>2, <1>3, <1>4, <1>5
  <2>. QED
    BY <1>1, <1>5, <2>1 DEF RoomFor, pi, db, ec, en
<1>6. CASE R!IsFull(t) /\ pi = Len(Primes)
  <2>1. R!Expanded(t) = t
    BY <1>6 DEF R!Expanded, pi
  <2>2. ~(pi < Len(Primes))
    BY <1>2, <1>6
  <2>. QED
    BY <1>1, <1>6, <2>1, <2>2 DEF RoomFor, pi, db, ec, en
<1>7. CASE R!IsFull(t) /\ pi # Len(Primes)
  <2>1. PICK db2, en2, ch2 :
          /\ R!Expanded(Tab(pi, db, ec, en)) = Tab(pi + 1, db2, ec, en2)
          /\ Made(pi + 1, db2, en2, ch2) /\ DOMAIN en2 = DOMAIN en
          /\ \A f \in DOMAIN en : en2[f].k = en[f].k /\ en2[f].v = en[f].v
    BY <1>1, <1>7, ExpandedMade
  <2>2. ec + 1 <= R!loadlimit(Primes[pi + 1])
    <3>1. pi \in 1 .. Len(Primes) - 1 /\ pi + 1 \in 1 .. Len(Primes)
      BY <1>2, <1>7
    <3>2. Primes[pi] + 2 <= Primes[pi + 1] /\ Primes[pi] \in Nat /\ Primes[pi + 1] \in Nat \ {0}
      BY <1>2, <3>1, SizesAre
    <3>3. R!loadlimit(Primes[pi]) + 1 <= R!loadlimit(Primes[pi + 1])
      BY <3>2, LimitGrows
    <3>4. ec <= R!loadlimit(Primes[pi])
      BY <1>1, <1>2, <3>1
    <3>5. R!loadlimit(Primes[pi + 1]) \in Nat
      BY <3>2, LimitIsNat
    <3>. QED
      BY <1>2, <1>3, <3>3, <3>4, <3>5
  <2>. QED
    BY <1>1, <1>7, <2>1, <2>2 DEF RoomFor, pi, db, ec, en
<1>. QED
  BY <1>5, <1>6, <1>7

(* arg_hashtable_insert *)
LEMMA InsertedMade ==
  ASSUME NEW t, NEW ch, WellMade(t, ch), t.entrycount < MaxEntries,
         NEW k \in Keys, NEW v \in Values
  PROVE  Inserts(t, R!Inserted(t, k, v), k, v)
<1>. DEFINE room == IF R!IsFull(t) THEN R!Expanded(t) ELSE t
            free == R!Blocks \ DOMAIN t.entries
            e == CHOOSE f \in free : \A g \in free : f <= g
            ec == t.entrycount
            en3 == [f \in DOMAIN t.entries \cup {e} |->
                      IF f = e THEN [k |-> k, v |-> v, next |-> 0] ELSE room.entries[f]]
<1>1. /\ Made(t.primeindex, t.database, t.entries, ch) /\ ec = Cardinality(DOMAIN t.entries)
      /\ IsEntries(t.entries)
  BY DEF WellMade, Made
<1>2. e \in free
  <2>1. free # {} /\ free \in SUBSET Nat
    BY <1>1, EntriesFinite DEF R!Blocks
  <2>. HIDE DEF free
  <2>. QED
    BY <2>1, LeastNumber
<1>3. RoomFor(t, room)
  BY RoomIs
<1>4. R!Inserted(t, k, v)
        = R!Pushed([room EXCEPT !.entries = en3, !.entrycount = room.entrycount + 1], e)
  BY DEF R!Inserted, R!NULL
<1>. HIDE DEF room, e
<1>5. PICK pi, db, en, ch2 :
        /\ room = Tab(pi, db, ec, en) /\ Made(pi, db, en, ch2)
        /\ DOMAIN en = DOMAIN t.entries
        /\ \A f \in DOMAIN en : en[f].k = t.entries[f].k /\ en[f].v = t.entries[f].v
        /\ pi < Len(Primes) => ec + 1 <= R!loadlimit(Primes[pi])
  BY <1>3 DEF RoomFor
<1>6. e \in R!Blocks /\ e \notin DOMAIN en /\ e \in Nat \ {0}
  BY <1>2, <1>5, SizesAre DEF R!Blocks
<1>7. /\ IsEntries(en3) /\ DOMAIN en3 = DOMAIN en \cup {e}
      /\ en3[e].k = k /\ en3[e].v = v
      /\ \A f \in DOMAIN en : en3[f] = en[f]
  <2>1. en3 = [f \in DOMAIN en \cup {e} |->
                 IF f = e THEN [k |-> k, v |-> v, next |-> 0] ELSE en[f]]
    BY <1>5, TabIs
  <2>2. IsEntries(en)
    BY <1>5 DEF Made
  <2>. HIDE DEF en3
  <2>. QED
    BY <1>6, <2>1, <2>2, EntriesMore
<1>. HIDE DEF en3
<1>8. [room EXCEPT !.entries = en3, !.entrycount = room.entrycount + 1]
        = Tab(pi, db, ec + 1, en3)
  <2>. DEFINE more == ec + 1
  <2>1. room.entrycount = ec
    BY <1>5, TabIs
  <2>. HIDE DEF more
  <2>2. [room EXCEPT !.entries = en3, !.entrycount = more]
          = [[room EXCEPT !.entries = en3] EXCEPT !.entrycount = more]
    OBVIOUS
  <2>3. [room EXCEPT !.entries = en3] = Tab(pi, db, ec, en3)
    BY <1>5 DEF Tab
  <2>4. [Tab(pi, db, ec, en3) EXCEPT !.entrycount = more] = Tab(pi, db, more, en3)
    BY DEF Tab
  <2>. QED
    BY <2>1, <2>2, <2>3, <2>4 DEF more
<1>9. MovedInto(pi, ec + 1, en3, DOMAIN en \cup {e}, R!Inserted(t, k, v))
  <2>1. Threaded(pi, db, en3, DOMAIN en, ch2)
    <3>1. Threaded(pi, db, en, DOMAIN en, ch2)
      BY <1>5 DEF Made
    <3>2. Agree(en, en3, DOMAIN en)
      BY <1>7 DEF Agree
    <3>. QED
      BY <3>1, <3>2, ThreadedFrame
  <2>2. DOMAIN en \subseteq DOMAIN en3 /\ e \in DOMAIN en3
    BY <1>7
  <2>3. MovedInto(pi, ec + 1, en3, DOMAIN en \cup {e}, R!Pushed(Tab(pi, db, ec + 1, en3), e))
    BY <1>6, <1>7, <2>1, <2>2, PushedMade
  <2>. QED
    BY <1>4, <1>8, <2>3
<1>10. PICK db4, en4, ch4 :
         /\ R!Inserted(t, k, v) = Tab(pi, db4, ec + 1, en4)
         /\ IsEntries(en4) /\ DOMAIN en4 = DOMAIN en3
         /\ \A f \in DOMAIN en3 : en4[f].k = en3[f].k /\ en4[f].v = en3[f].v
         /\ Threaded(pi, db4, en4, DOMAIN en \cup {e}, ch4)
  BY Zenon, <1>9 DEF MovedInto
<1>11. Made(pi, db4, en4, ch4)
  BY <1>7, <1>10 DEF Made
<1>12. Cardinality(DOMAIN en4) = ec + 1
  BY <1>1, <1>5, <1>6, <1>7, <1>10, EntriesFinite, FS_AddElement
<1>13. WellMade(R!Inserted(t, k, v), ch4)
  <2>1. WellMade(Tab(pi, db4, Cardinality(DOMAIN en4), en4), ch4)
    BY <1>5, <1>11, <1>12, WellMadeIs
  <2>. QED
    BY <1>10, <1>12, <2>1
<1>14. Gains(t, R!Inserted(t, k, v), e, k, v)
  <2>1. R!Inserted(t, k, v).entries = en4
    BY <1>10, TabIs
  <2>2. /\ e \notin DOMAIN t.entries /\ DOMAIN en4 = DOMAIN t.entries \cup {e}
        /\ en4[e].k = k /\ en4[e].v = v
    BY <1>5, <1>6, <1>7, <1>10
  <2>3. \A f \in DOMAIN t.entries : en4[f].k = t.entries[f].k /\ en4[f].v = t.entries[f].v
    BY <1>5, <1>7, <1>10
  <2>. QED
    BY <2>1, <2>2, <2>3 DEF Gains, SameNames
<1>. QED
  BY <1>6, <1>13, <1>14 DEF Inserts

-----------------------------------------------------------------------------
(* An entry is taken out of its chain and given back. *)

BeforeIn(s, p) == IF p = 1 THEN 0 ELSE s[p - 1]

(* x is the table t without the entry at place p of bucket bk, which is linked
   in no chain any more but was not given back yet. *)
UnlinkedAt(t, x, ch, bk, p) ==
  \E db, en :
    /\ x = Tab(t.primeindex, db, t.entrycount, en)
    /\ IsEntries(en) /\ DOMAIN en = DOMAIN t.entries
    /\ \A f \in DOMAIN en : en[f].k = t.entries[f].k /\ en[f].v = t.entries[f].v
    /\ en[ch[bk][p]] = t.entries[ch[bk][p]]
    /\ DOMAIN db = DOMAIN t.database
    /\ \A bk2 \in DOMAIN db : bk2 # bk => db[bk2] = t.database[bk2]
    /\ Threaded(t.primeindex, db, en, DOMAIN en \ {ch[bk][p]},
                [ch EXCEPT ![bk] = Less(ch[bk], p)])

LEMMA UnlinkedIs ==
  ASSUME NEW t, NEW ch, WellMade(t, ch), NEW bk \in 0 .. LastBucket(t.primeindex),
         NEW p \in 1 .. Len(ch[bk])
  PROVE  UnlinkedAt(t, R!Unlinked(t, ch[bk][p], BeforeIn(ch[bk], p), bk), ch, bk, p)
<1>. DEFINE pi == t.primeindex
            db == t.database
            ec == t.entrycount
            en == t.entries
            s == ch[bk]
            e == s[p]
            x == R!Unlinked(t, e, BeforeIn(s, p), bk)
<1>1. t = Tab(pi, db, ec, en) /\ Made(pi, db, en, ch)
  BY DEF WellMade
<1>. HIDE DEF pi, db, ec, en
<1>2. /\ bk \in 0 .. LastBucket(pi) /\ p \in 1 .. Len(s)
      /\ s \in Seq(DOMAIN en) /\ Len(s) \in Nat /\ Distinct(s) /\ 0 \notin DOMAIN en
      /\ (\A q \in 1 .. Len(s) : s[q] \in DOMAIN en /\ en[s[q]].next = NextIn(s, q))
      /\ DOMAIN db = 0 .. LastBucket(pi)
  BY <1>1, MadeIs DEF pi
<1>3. /\ e \in DOMAIN en /\ IsEntries(en) /\ Threaded(pi, db, en, DOMAIN en, ch)
      /\ en[e].next \in Nat
  BY <1>1, <1>2, EntryIs DEF Made
<1>. HIDE DEF s
<1>4. CASE p = 1
  <2>. DEFINE db2 == [db EXCEPT ![bk] = en[e].next]
  <2>1. x = [t EXCEPT !.database[bk] = en[e].next]
    BY <1>4 DEF R!Unlinked, BeforeIn, R!NULL, en
  <2>2. [t EXCEPT !.database[bk] = en[e].next] = [t EXCEPT !.database = db2]
    BY DEF db
  <2>. HIDE DEF db2, x
  <2>3. x = Tab(pi, db2, ec, en)
    <3>1. [Tab(pi, db, ec, en) EXCEPT !.database = db2] = Tab(pi, db2, ec, en)
      BY DEF Tab
    <3>. QED
      BY <1>1, <2>1, <2>2, <3>1
  <2>4. Threaded(pi, db2, en, DOMAIN en \ {e}, [ch EXCEPT ![bk] = Less(s, p)])
    <3>1. AgreeOnKeys(en, en, DOMAIN en)
      BY DEF AgreeOnKeys
    <3>2. db2 = IF p = 1 THEN [db EXCEPT ![bk] = en[ch[bk][p]].next] ELSE db
      BY <1>4 DEF db2, s
    <3>3. \A f \in DOMAIN en : en[f].next = IF p # 1 /\ f = ch[bk][p - 1]
                                    THEN en[ch[bk][p]].next ELSE en[f].next
      BY <1>4
    <3>4. p \in 1 .. Len(ch[bk])
      OBVIOUS
    <3>5. bk \in 0 .. LastBucket(pi) /\ Threaded(pi, db, en, DOMAIN en, ch)
      BY <1>2, <1>3
    <3>6. Threaded(pi, db2, en, DOMAIN en \ {ch[bk][p]}, [ch EXCEPT ![bk] = Less(ch[bk], p)])
      <4>1. PassedOver(db, db2, en, en, DOMAIN en, ch[bk], bk, p)
        BY <3>2, <3>3, Zenon DEF PassedOver
      <4>. QED
        BY <3>1, <3>4, <3>5, <4>1, ThreadedLess
    <3>. QED
      BY <3>6 DEF s
  <2>5. DOMAIN db2 = DOMAIN db /\ \A bk2 \in DOMAIN db : bk2 # bk => db2[bk2] = db[bk2]
    BY DEF db2
  <2>. QED
    BY <1>3, <2>3, <2>4, <2>5 DEF UnlinkedAt, pi, db, ec, en, s, x
<1>5. CASE p # 1
  <2>. DEFINE before == s[p - 1]
              en2 == [en EXCEPT ![before].next = en[e].next]
  <2>1. before \in DOMAIN en /\ before # 0 /\ before # e
    <3>1. p - 1 \in 1 .. Len(s) /\ p - 1 # p
      BY <1>2, <1>5
    <3>. QED
      BY <1>2, <3>1 DEF Distinct
  <2>2. x = [t EXCEPT !.entries[before].next = en[e].next]
    BY <1>5, <2>1 DEF R!Unlinked, BeforeIn, R!NULL, en
  <2>3. [t EXCEPT !.entries[before].next = en[e].next] = [t EXCEPT !.entries = en2]
    BY DEF en
  <2>4. /\ IsEntries(en2) /\ DOMAIN en2 = DOMAIN en
        /\ \A f \in DOMAIN en : /\ en2[f].k = en[f].k /\ en2[f].v = en[f].v
                                /\ en2[f].next = IF f = before THEN en[e].next ELSE en[f].next
    BY <1>3, <2>1, EntryExcept
  <2>5. en2[e] = en[e]
    BY <1>3, <2>1 DEF IsEntries
  <2>. HIDE DEF en2, x
  <2>6. x = Tab(pi, db, ec, en2)
    <3>1. [Tab(pi, db, ec, en) EXCEPT !.entries = en2] = Tab(pi, db, ec, en2)
      BY DEF Tab
    <3>. QED
      BY <1>1, <2>2, <2>3, <3>1
  <2>7. Threaded(pi, db, en2, DOMAIN en \ {e}, [ch EXCEPT ![bk] = Less(s, p)])
    <3>1. AgreeOnKeys(en, en2, DOMAIN en)
      BY <2>4 DEF AgreeOnKeys
    <3>2. db = IF p = 1 THEN [db EXCEPT ![bk] = en[ch[bk][p]].next] ELSE db
      BY <1>5
    <3>3. \A f \in DOMAIN en : en2[f].next = IF p # 1 /\ f = ch[bk][p - 1]
                                    THEN en[ch[bk][p]].next ELSE en[f].next
      BY <1>5, <2>4 DEF s
    <3>4. p \in 1 .. Len(ch[bk])
      OBVIOUS
    <3>5. bk \in 0 .. LastBucket(pi) /\ Threaded(pi, db, en, DOMAIN en, ch)
      BY <1>2, <1>3
    <3>6. Threaded(pi, db, en2, DOMAIN en \ {ch[bk][p]}, [ch EXCEPT ![bk] = Less(ch[bk], p)])
      <4>1. PassedOver(db, db, en, en2, DOMAIN en, ch[bk], bk, p)
        BY <3>2, <3>3, Zenon DEF PassedOver
      <4>. QED
        BY <3>1, <3>4, <3>5, <4>1, ThreadedLess
    <3>. QED
      BY <3>6 DEF s
  <2>8. /\ en2[e] = en[e] /\ IsEntries(en2) /\ DOMAIN en2 = DOMAIN en
        /\ \A f \in DOMAIN en2 : en2[f].k = en[f].k /\ en2[f].v = en[f].v
    BY <2>4, <2>5
  <2>9. Threaded(pi, db, en2, DOMAIN en2 \ {e}, [ch EXCEPT ![bk] = Less(s, p)])
    BY <2>4, <2>7
  <2>10. x = Tab(t.primeindex, t.database, t.entrycount, en2)
    BY <2>6 DEF pi, db, ec
  <2>11. \A bk2 \in DOMAIN db : bk2 # bk => db[bk2] = db[bk2]
    OBVIOUS
  <2>12. UnlinkedAt(t, x, ch, bk, p)
    BY <2>8, <2>9, <2>10, <2>11, Zenon DEF UnlinkedAt, pi, db, en, s
  <2>. QED
    BY <2>12 DEF x, s
<1>. QED
  BY <1>4, <1>5

(* arg_hashtable_remove and arg_hashtable_itr_remove *)
LEMMA FreedMade ==
  ASSUME NEW t, NEW ch, WellMade(t, ch), NEW bk \in 0 .. LastBucket(t.primeindex),
         NEW p \in 1 .. Len(ch[bk]), NEW x, UnlinkedAt(t, x, ch, bk, p)
  PROVE  /\ WellMade(R!Freed(x, ch[bk][p]), [ch EXCEPT ![bk] = Less(ch[bk], p)])
         /\ Loses(t, R!Freed(x, ch[bk][p]), ch[bk][p])
         /\ R!Freed(x, ch[bk][p]).database = x.database
         /\ R!Freed(x, ch[bk][p]).primeindex = t.primeindex
<1>. DEFINE pi == t.primeindex
            ec == t.entrycount
            e == ch[bk][p]
            ch2 == [ch EXCEPT ![bk] = Less(ch[bk], p)]
            y == R!Freed(x, e)
<1>1. PICK db, en :
        /\ x = Tab(pi, db, ec, en)
        /\ IsEntries(en) /\ DOMAIN en = DOMAIN t.entries
        /\ \A f \in DOMAIN en : en[f].k = t.entries[f].k /\ en[f].v = t.entries[f].v
        /\ Threaded(pi, db, en, DOMAIN en \ {e}, ch2)
  BY DEF UnlinkedAt
<1>2. /\ Made(pi, t.database, t.entries, ch) /\ ec = Cardinality(DOMAIN t.entries)
      /\ pi < Len(Primes) => ec <= R!loadlimit(Primes[pi])
  BY DEF WellMade
<1>3. e \in DOMAIN t.entries
  BY <1>2, MadeIs
<1>. DEFINE en2 == [f \in DOMAIN en \ {e} |-> en[f]]
<1>4. y = [x EXCEPT !.entries = [f \in DOMAIN x.entries \ {e} |-> x.entries[f]],
                    !.entrycount = x.entrycount - 1]
  BY DEF R!Freed
<1>5. x.entries = en /\ x.entrycount = ec
  BY <1>1, TabIs
<1>6. /\ IsEntries(en2) /\ DOMAIN en2 = DOMAIN en \ {e}
      /\ \A f \in DOMAIN en \ {e} : en2[f] = en[f]
  BY <1>1, EntriesLess
<1>7. y = [x EXCEPT !.entries = en2, !.entrycount = ec - 1]
  BY <1>4, <1>5
<1>. HIDE DEF e, en2, ch2, y
<1>8. y = Tab(pi, db, ec - 1, en2)
  <2>. DEFINE less == ec - 1
  <2>. HIDE DEF less
  <2>1. [x EXCEPT !.entries = en2, !.entrycount = less]
          = [[x EXCEPT !.entries = en2] EXCEPT !.entrycount = less]
    OBVIOUS
  <2>2. [x EXCEPT !.entries = en2] = Tab(pi, db, ec, en2)
    BY <1>1 DEF Tab
  <2>3. [Tab(pi, db, ec, en2) EXCEPT !.entrycount = less] = Tab(pi, db, less, en2)
    BY DEF Tab
  <2>. QED
    BY <1>7, <2>1, <2>2, <2>3 DEF less
<1>9. Made(pi, db, en2, ch2)
  <2>1. Agree(en, en2, DOMAIN en \ {e})
    BY <1>6 DEF Agree
  <2>2. Threaded(pi, db, en2, DOMAIN en \ {e}, ch2)
    BY <1>1, <2>1, ThreadedFrame
  <2>. QED
    BY <1>6, <2>2 DEF Made
<1>10. ec \in Nat /\ Cardinality(DOMAIN en2) = ec - 1
  BY <1>1, <1>2, <1>3, <1>6, EntriesFinite, FS_RemoveElement
<1>11. WellMade(y, ch2)
  <2>1. R!loadlimit(Primes[pi]) \in Nat
    BY <1>2, MadeIs, SizesAre, LimitIsNat
  <2>2. pi < Len(Primes) => ec - 1 <= R!loadlimit(Primes[pi])
    BY <1>2, <1>10, <2>1
  <2>3. WellMade(Tab(pi, db, Cardinality(DOMAIN en2), en2), ch2)
    BY <1>9, <1>10, <2>2, WellMadeIs
  <2>. QED
    BY <1>8, <1>10, <2>3
<1>12. y.entries = en2 /\ y.database = db /\ y.primeindex = pi
  BY <1>8, TabIs
<1>13. Loses(t, y, e)
  BY <1>1, <1>3, <1>6, <1>12 DEF Loses, SameNames
<1>. QED
  BY <1>1, <1>11, <1>12, <1>13, TabIs DEF e, ch2, y

LEMMA RemovedMade ==
  ASSUME NEW t, NEW ch, WellMade(t, ch), NEW k \in Keys
  PROVE  IF R!Search(t, k) = 0
         THEN R!Removed(t, k) = t /\ \A f \in DOMAIN t.entries : t.entries[f].k # k
         ELSE /\ \E ch2 : WellMade(R!Removed(t, k), ch2)
              /\ Loses(t, R!Removed(t, k), R!Search(t, k))
              /\ t.entries[R!Search(t, k)].k = k
<1>. DEFINE pi == t.primeindex
            e == R!Search(t, k)
            bk == Hash[k] % Primes[pi]
<1>1. /\ t = Tab(pi, t.database, t.entrycount, t.entries)
      /\ Made(pi, t.database, t.entries, ch)
  BY DEF WellMade
<1>2. bk \in 0 .. LastBucket(pi)
  BY <1>1, MadeIs, BucketIs
<1>3. R!index_for(R!tablelength(t), k) = bk
  BY DEF R!index_for, R!tablelength
<1>4. CASE e = 0
  <2>1. R!Removed(t, k) = t
    BY <1>4 DEF R!Removed, R!NULL
  <2>2. ~ FirstWith(t.entries, ch[bk], k, 0)
    <3>1. \A p \in 1 .. Len(ch[bk]) : ch[bk][p] # 0
      BY <1>1, <1>2, MadeIs
    <3>. QED
      BY <3>1 DEF FirstWith
  <2>3. \A f \in DOMAIN t.entries : t.entries[f].k # k
    BY <1>1, <1>4, <2>2, SearchIs
  <2>. QED
    BY <1>4, <2>1, <2>3
<1>5. CASE e # 0
  <2>1. PICK p \in 1 .. Len(ch[bk]) : e = ch[bk][p]
    <3>. DEFINE db == t.database
                ec == t.entrycount
                en == t.entries
    <3>1. t = Tab(pi, db, ec, en) /\ Made(pi, db, en, ch)
      BY <1>1
    <3>. HIDE DEF pi, db, ec, en
    <3>2. R!Search(Tab(pi, db, ec, en), k) # 0
      BY <1>5, <3>1
    <3>3. \E p \in 1 .. Len(ch[bk]) : R!Search(Tab(pi, db, ec, en), k) = ch[bk][p]
      BY <3>1, <3>2, SearchFinds
    <3>. QED
      BY <3>1, <3>3
  <2>2. t.entries[e].k = k
    BY <1>1, <1>5, SearchFinds
  <2>3. R!Before(t, e) = BeforeIn(ch[bk], p)
    BY <1>1, <1>2, <2>1, BeforeIs DEF BeforeIn
  <2>. DEFINE x == R!Unlinked(t, ch[bk][p], BeforeIn(ch[bk], p), bk)
  <2>4. R!Removed(t, k) = R!Freed(x, ch[bk][p])
    BY <1>3, <1>5, <2>1, <2>3 DEF R!Removed, R!NULL
  <2>5. UnlinkedAt(t, x, ch, bk, p)
    BY <1>2, <2>1, UnlinkedIs
  <2>. HIDE DEF x
  <2>6. /\ WellMade(R!Freed(x, ch[bk][p]), [ch EXCEPT ![bk] = Less(ch[bk], p)])
        /\ Loses(t, R!Freed(x, ch[bk][p]), ch[bk][p])
    BY <1>2, <2>1, <2>5, FreedMade
  <2>. QED
    BY <1>5, <2>1, <2>2, <2>4, <2>6
<1>. QED
  BY <1>4, <1>5

-----------------------------------------------------------------------------
(* The iterator *)

Itr(e, parent, index) == [e |-> e, parent |-> parent, index |-> index]

(* It is at an entry of a chain and knows the one before it, or at the end. *)
ItrAt(t, ch, x) ==
  /\ x = Itr(x.e, x.parent, x.index) /\ x.index \in Nat
  /\ \/ x.e = 0 /\ x.parent = 0
     \/ /\ x.index \in 0 .. LastBucket(t.primeindex)
        /\ \E p \in 1 .. Len(ch[x.index]) :
             x.e = ch[x.index][p] /\ x.parent = BeforeIn(ch[x.index], p)

(* The first bucket from bk on that is not empty *)
FirstUsed(db, last, bk, c2) ==
  /\ c2 \in bk .. last + 1
  /\ \A d \in bk .. c2 - 1 : db[d] = 0
  /\ c2 # last + 1 => db[c2] # 0

LEMMA FirstFromIs ==
  ASSUME NEW t, NEW last \in Nat, R!tablelength(t) = last + 1, NEW bk \in 0 .. last + 1
  PROVE  FirstUsed(t.database, last, bk, R!FirstFrom(t, bk))
<1>. DEFINE used == {d \in R!Buckets(t) : d >= bk /\ t.database[d] # 0}
            c2 == R!FirstFrom(t, bk)
<1>1. R!Buckets(t) = 0 .. last
  BY DEF R!Buckets
<1>2. c2 = IF used = {} THEN last + 1 ELSE CHOOSE d \in used : \A f \in used : d <= f
  BY DEF R!FirstFrom, R!NULL
<1>. HIDE DEF c2
<1>3. CASE used = {}
  <2>1. c2 = last + 1
    BY <1>2, <1>3
  <2>2. \A d \in bk .. last : d \in R!Buckets(t) /\ d >= bk
    BY <1>1
  <2>3. \A d \in bk .. c2 - 1 : t.database[d] = 0
    BY <1>3, <2>1, <2>2
  <2>. QED
    BY <2>1, <2>3 DEF FirstUsed, c2
<1>4. CASE used # {}
  <2>1. \E d \in used : \A f \in used : d <= f
    <3>1. used \in SUBSET Nat
      BY <1>1
    <3>. HIDE DEF used
    <3>. QED
      BY <1>4, <3>1, LeastNumber
  <2>2. c2 \in used /\ \A f \in used : c2 <= f
    <3>. HIDE DEF used
    <3>. QED
      BY <1>2, <1>4, <2>1
  <2>3. c2 \in bk .. last /\ t.database[c2] # 0
    BY <1>1, <2>2
  <2>4. ASSUME NEW d \in bk .. c2 - 1, t.database[d] # 0  PROVE FALSE
    <3>1. d \in 0 .. last /\ d >= bk /\ ~(c2 <= d)
      BY <2>3
    <3>. QED
      BY <1>1, <2>2, <2>4, <3>1
  <2>5. c2 \in bk .. last + 1
    BY <2>3
  <2>. QED
    BY <2>3, <2>4, <2>5 DEF FirstUsed, c2
<1>. QED
  BY <1>3, <1>4

LEMMA WellMadeMeans ==
  ASSUME NEW t, NEW ch, WellMade(t, ch)
  PROVE  /\ Made(t.primeindex, t.database, t.entries, ch)
         /\ t = Tab(t.primeindex, t.database, t.entrycount, t.entries)
         /\ R!tablelength(t) = LastBucket(t.primeindex) + 1
         /\ LastBucket(t.primeindex) \in Nat
         /\ t.primeindex \in 1 .. Len(Primes) /\ t.primeindex # 0
<1>1. /\ Made(t.primeindex, t.database, t.entries, ch)
      /\ t = Tab(t.primeindex, t.database, t.entrycount, t.entries)
  BY DEF WellMade
<1>2. R!tablelength(t) = Primes[t.primeindex]
  BY DEF R!tablelength
<1>. QED
  BY <1>1, <1>2, MadeIs, SizesAre

LEMMA AtBucketIs ==
  ASSUME NEW t, NEW ch, WellMade(t, ch), NEW x, NEW y,
         R!tablelength(x) = R!tablelength(t), NEW bk \in Nat, NEW from \in Nat,
         FirstUsed(x.database, LastBucket(t.primeindex), from, bk),
         bk \in 0 .. LastBucket(t.primeindex) => x.database[bk] = t.database[bk],
         y = R!AtBucket(x, bk)
  PROVE  /\ ItrAt(t, ch, y)
         /\ y.index = bk
         /\ y.e = 0 <=> bk = LastBucket(t.primeindex) + 1
         /\ y.e # 0 => y.e = ch[bk][1] /\ 1 \in 1 .. Len(ch[bk])
<1>. DEFINE last == LastBucket(t.primeindex)
            entry == IF bk < last + 1 THEN x.database[bk] ELSE 0
<1>1. /\ Made(t.primeindex, t.database, t.entries, ch) /\ R!tablelength(t) = last + 1
      /\ last \in Nat
  BY WellMadeMeans
<1>2. y = Itr(entry, 0, bk)
  BY <1>1 DEF R!AtBucket, R!NULL, Itr
<1>3. y.e = entry /\ y.parent = 0 /\ y.index = bk /\ y = Itr(y.e, y.parent, y.index)
  BY <1>2 DEF Itr
<1>. HIDE DEF last
<1>4. bk \in from .. last + 1
  BY DEF FirstUsed, last
<1>5. CASE bk = last + 1
  <2>1. entry = 0
    BY <1>1, <1>5
  <2>. QED
    BY <1>3, <1>5, <2>1 DEF ItrAt, last
<1>6. CASE bk # last + 1
  <2>1. bk \in 0 .. last /\ entry = x.database[bk]
    BY <1>1, <1>4, <1>6
  <2>2. x.database[bk] # 0 /\ x.database[bk] = t.database[bk]
    BY <1>6, <2>1 DEF FirstUsed, last
  <2>3. t.database[bk] = FirstOf(ch[bk]) /\ ch[bk] \in Seq(DOMAIN t.entries)
    BY <1>1, <2>1, MadeIs DEF last
  <2>4. ch[bk] # <<>> /\ entry = ch[bk][1]
    BY <2>1, <2>2, <2>3 DEF FirstOf
  <2>5. 1 \in 1 .. Len(ch[bk])
    BY <2>3, <2>4, FirstIs
  <2>6. BeforeIn(ch[bk], 1) = 0
    BY DEF BeforeIn
  <2>. QED
    BY <1>3, <1>6, <2>1, <2>2, <2>4, <2>5, <2>6 DEF ItrAt, last
<1>. QED
  BY <1>5, <1>6

(* The entries that a walk has still to come to, from place p of bucket bk *)
Ahead(t, ch, bk, p) ==
  {e \in DOMAIN t.entries :
     \E d \in bk .. LastBucket(t.primeindex) :
       \E q \in 1 .. Len(ch[d]) : (d = bk => q > p) /\ ch[d][q] = e}

ItrPlace(ch, bk, p) == Itr(ch[bk][p], BeforeIn(ch[bk], p), bk)

(* From place p of bucket bk the iterator went to y. *)
WentOn(t, ch, bk, p, y) ==
  \/ y.e = 0 /\ Ahead(t, ch, bk, p) = {}
  \/ \E bk2 \in 0 .. LastBucket(t.primeindex) :
       \E p2 \in 1 .. Len(ch[bk2]) :
         /\ y.e = ch[bk2][p2] /\ y.index = bk2 /\ ch[bk2][p2] \in Ahead(t, ch, bk, p)
         /\ Ahead(t, ch, bk2, p2) = Ahead(t, ch, bk, p) \ {ch[bk2][p2]}

LEMMA PlacesAre ==
  ASSUME NEW pi, NEW db, NEW en, NEW ch, Made(pi, db, en, ch), NEW bk \in 0 .. LastBucket(pi)
  PROVE  /\ bk \in Nat /\ 0 \notin DOMAIN en /\ Distinct(ch[bk])
         /\ \A p \in 1 .. Len(ch[bk]) :
              ch[bk][p] \in DOMAIN en /\ BucketOf(pi, en, ch[bk][p]) = bk
BY MadeIs

LEMMA OnePlace ==
  ASSUME NEW t, NEW ch, WellMade(t, ch),
         NEW bk \in 0 .. LastBucket(t.primeindex), NEW p \in 1 .. Len(ch[bk]),
         NEW bk2 \in 0 .. LastBucket(t.primeindex), NEW p2 \in 1 .. Len(ch[bk2]),
         ch[bk][p] = ch[bk2][p2]
  PROVE  bk = bk2 /\ p = p2
<1>1. Made(t.primeindex, t.database, t.entries, ch)
  BY DEF WellMade
<1>2. BucketOf(t.primeindex, t.entries, ch[bk][p]) = bk /\ Distinct(ch[bk])
  BY <1>1, PlacesAre
<1>3. BucketOf(t.primeindex, t.entries, ch[bk2][p2]) = bk2
  BY <1>1, PlacesAre
<1>4. bk = bk2
  BY <1>2, <1>3
<1>. QED
  BY <1>2, <1>4 DEF Distinct

LEMMA ItrIsAt ==
  ASSUME NEW t, NEW ch, WellMade(t, ch), NEW x, ItrAt(t, ch, x), x.e # 0
  PROVE  /\ x.index \in 0 .. LastBucket(t.primeindex)
         /\ \E p \in 1 .. Len(ch[x.index]) : x = ItrPlace(ch, x.index, p)
BY DEF ItrAt, ItrPlace

LEMMA PlaceItr ==
  ASSUME NEW t, NEW ch, WellMade(t, ch),
         NEW bk \in 0 .. LastBucket(t.primeindex), NEW p \in 1 .. Len(ch[bk])
  PROVE  /\ ItrAt(t, ch, ItrPlace(ch, bk, p))
         /\ ItrPlace(ch, bk, p).e = ch[bk][p] /\ ItrPlace(ch, bk, p).index = bk
         /\ ItrPlace(ch, bk, p).parent = BeforeIn(ch[bk], p)
         /\ ch[bk][p] \in DOMAIN t.entries /\ ch[bk][p] # 0
<1>1. LastBucket(t.primeindex) \in Nat /\ Made(t.primeindex, t.database, t.entries, ch)
  BY WellMadeMeans
<1>. DEFINE x == ItrPlace(ch, bk, p)
<1>2. /\ x.e = ch[bk][p] /\ x.index = bk /\ x.parent = BeforeIn(ch[bk], p)
      /\ x = Itr(x.e, x.parent, x.index)
  BY DEF ItrPlace, Itr
<1>3. ch[bk][p] \in DOMAIN t.entries /\ ch[bk][p] # 0 /\ bk \in Nat
  BY <1>1, PlacesAre
<1>. HIDE DEF x
<1>4. ItrAt(t, ch, x)
  BY <1>2, <1>3 DEF ItrAt
<1>. QED
  BY <1>2, <1>3, <1>4 DEF x

(* Every entry of the buckets between two is ahead of the one, none of them
   ahead of the other when they are empty. *)
LEMMA AheadFromHead ==
  ASSUME NEW t, NEW ch, WellMade(t, ch), NEW bk \in 0 .. LastBucket(t.primeindex),
         NEW p \in Nat, NEW c2 \in bk + 1 .. LastBucket(t.primeindex) + 1,
         ~ \E q \in 1 .. Len(ch[bk]) : q > p,
         \A d \in bk + 1 .. c2 - 1 : t.database[d] = 0
  PROVE  /\ c2 = LastBucket(t.primeindex) + 1 => Ahead(t, ch, bk, p) = {}
         /\ c2 \in 0 .. LastBucket(t.primeindex) /\ 1 \in 1 .. Len(ch[c2]) =>
              /\ ch[c2][1] \in Ahead(t, ch, bk, p)
              /\ Ahead(t, ch, c2, 1) = Ahead(t, ch, bk, p) \ {ch[c2][1]}
<1>. DEFINE last == LastBucket(t.primeindex)
<1>1. last \in Nat /\ Made(t.primeindex, t.database, t.entries, ch)
  BY WellMadeMeans
<1>. HIDE DEF last
<1>2. ASSUME NEW d \in bk .. c2 - 1, NEW q \in 1 .. Len(ch[d]), d = bk => q > p  PROVE FALSE
  <2>1. CASE d = bk
    BY <1>2, <2>1
  <2>2. CASE d # bk
    <3>1. d \in bk + 1 .. c2 - 1 /\ d \in 0 .. last
      BY <1>1, <2>2 DEF last
    <3>2. t.database[d] = 0
      BY <3>1
    <3>3. t.database[d] = FirstOf(ch[d]) /\ ch[d] \in Seq(DOMAIN t.entries) /\ 0 \notin DOMAIN t.entries
      BY <1>1, <3>1, MadeIs DEF last
    <3>4. Len(ch[d]) = 0
      BY <3>2, <3>3, FirstIs
    <3>. QED
      BY <3>4
  <2>. QED
    BY <2>1, <2>2
<1>3. Ahead(t, ch, bk, p) = {e \in DOMAIN t.entries :
                               \E d \in c2 .. last : \E q \in 1 .. Len(ch[d]) : ch[d][q] = e}
  <2>1. ASSUME NEW d \in bk .. last, d \notin c2 .. last  PROVE d \in bk .. c2 - 1
    BY <1>1, <2>1
  <2>2. c2 .. last \subseteq bk .. last /\ bk \notin c2 .. last
    BY <1>1
  <2>3. ASSUME NEW e \in Ahead(t, ch, bk, p)
        PROVE  \E d \in c2 .. last : \E q \in 1 .. Len(ch[d]) : ch[d][q] = e
    <3>1. PICK d \in bk .. last :
            \E q \in 1 .. Len(ch[d]) : (d = bk => q > p) /\ ch[d][q] = e
      BY DEF Ahead, last
    <3>. QED
      BY <1>2, <2>1, <3>1
  <2>4. ASSUME NEW e \in DOMAIN t.entries, NEW d \in c2 .. last,
               NEW q \in 1 .. Len(ch[d]), ch[d][q] = e
        PROVE  e \in Ahead(t, ch, bk, p)
    <3>1. d \in bk .. last /\ d # bk
      BY <2>2
    <3>. QED
      BY <2>4, <3>1 DEF Ahead, last
  <2>5. Ahead(t, ch, bk, p) \subseteq DOMAIN t.entries
    BY DEF Ahead
  <2>. QED
    BY <2>3, <2>4, <2>5
<1>4. CASE c2 = last + 1
  <2>1. c2 .. last = {}
    BY <1>1, <1>4
  <2>2. ~(c2 \in 0 .. last)
    BY <1>1, <1>4
  <2>. QED
    BY <1>3, <2>1, <2>2 DEF last
<1>5. CASE c2 # last + 1
  <2>. SUFFICES ASSUME c2 \in 0 .. last, 1 \in 1 .. Len(ch[c2])
                PROVE  /\ ch[c2][1] \in Ahead(t, ch, bk, p)
                       /\ Ahead(t, ch, c2, 1) = Ahead(t, ch, bk, p) \ {ch[c2][1]}
    BY <1>5 DEF last
  <2>1. c2 \in c2 .. last
    BY <1>1
  <2>2. ch[c2][1] \in DOMAIN t.entries /\ Len(ch[c2]) \in Nat
    BY <1>1, MadeIs DEF last
  <2>3. ch[c2][1] \in Ahead(t, ch, bk, p)
    BY <1>3, <2>1, <2>2
  <2>4. ASSUME NEW e \in Ahead(t, ch, c2, 1)
        PROVE  e \in Ahead(t, ch, bk, p) /\ e # ch[c2][1]
    <3>0. PICK d \in c2 .. last : \E q \in 1 .. Len(ch[d]) : (d = c2 => q > 1) /\ ch[d][q] = e
      BY DEF Ahead, last
    <3>1. PICK q \in 1 .. Len(ch[d]) : (d = c2 => q > 1) /\ ch[d][q] = e
      BY <3>0
    <3>2. d \in 0 .. last
      BY <1>1
    <3>3. e # ch[c2][1]
      <4>. SUFFICES ASSUME ch[d][q] = ch[c2][1]  PROVE FALSE
        BY <3>1
      <4>1. d = c2 /\ q = 1
        BY <3>2, OnePlace DEF last
      <4>. QED
        BY <3>1, <4>1
    <3>4. e \in DOMAIN t.entries
      BY DEF Ahead
    <3>. QED
      BY <1>3, <3>1, <3>3, <3>4
  <2>5. ASSUME NEW e \in Ahead(t, ch, bk, p), e # ch[c2][1]
        PROVE  e \in Ahead(t, ch, c2, 1)
    <3>0. PICK d \in c2 .. last : \E q \in 1 .. Len(ch[d]) : ch[d][q] = e
      BY <1>3
    <3>1. PICK q \in 1 .. Len(ch[d]) : ch[d][q] = e
      BY <3>0
    <3>2. d = c2 => q > 1
      <4>1. d = c2 => q # 1
        BY <2>5, <3>1
      <4>2. q \in Nat \ {0}
        BY <3>1
      <4>. QED
        BY <4>1, <4>2
    <3>3. e \in DOMAIN t.entries
      BY DEF Ahead
    <3>. QED
      BY <3>1, <3>2, <3>3 DEF Ahead, last
  <2>. QED
    BY <2>3, <2>4, <2>5
<1>. QED
  BY <1>4, <1>5

LEMMA AheadInChain ==
  ASSUME NEW t, NEW ch, WellMade(t, ch), NEW bk \in 0 .. LastBucket(t.primeindex),
         NEW p \in Nat, p + 1 \in 1 .. Len(ch[bk])
  PROVE  /\ ch[bk][p + 1] \in Ahead(t, ch, bk, p)
         /\ Ahead(t, ch, bk, p + 1) = Ahead(t, ch, bk, p) \ {ch[bk][p + 1]}
<1>. DEFINE last == LastBucket(t.primeindex)
<1>1. last \in Nat /\ Made(t.primeindex, t.database, t.entries, ch)
  BY WellMadeMeans
<1>2. bk \in bk .. last /\ ch[bk][p + 1] \in DOMAIN t.entries
  BY <1>1, MadeIs
<1>3. ch[bk][p + 1] \in Ahead(t, ch, bk, p)
  BY <1>2 DEF Ahead
<1>4. ASSUME NEW e \in Ahead(t, ch, bk, p + 1)
      PROVE  e \in Ahead(t, ch, bk, p) /\ e # ch[bk][p + 1]
  <2>0. PICK d \in bk .. last : \E q \in 1 .. Len(ch[d]) : (d = bk => q > p + 1) /\ ch[d][q] = e
    BY DEF Ahead
  <2>1. PICK q \in 1 .. Len(ch[d]) : (d = bk => q > p + 1) /\ ch[d][q] = e
    BY <2>0
  <2>2. d \in 0 .. last /\ (d = bk => q > p)
    BY <1>1, <2>1
  <2>3. e # ch[bk][p + 1]
    <3>. SUFFICES ASSUME ch[d][q] = ch[bk][p + 1]  PROVE FALSE
      BY <2>1
    <3>1. d = bk /\ q = p + 1
      BY <2>2, OnePlace
    <3>. QED
      BY <2>1, <3>1
  <2>4. e \in DOMAIN t.entries
    BY DEF Ahead
  <2>. QED
    BY <2>1, <2>2, <2>3, <2>4 DEF Ahead
<1>5. ASSUME NEW e \in Ahead(t, ch, bk, p), e # ch[bk][p + 1]
      PROVE  e \in Ahead(t, ch, bk, p + 1)
  <2>0. PICK d \in bk .. last : \E q \in 1 .. Len(ch[d]) : (d = bk => q > p) /\ ch[d][q] = e
    BY DEF Ahead
  <2>1. PICK q \in 1 .. Len(ch[d]) : (d = bk => q > p) /\ ch[d][q] = e
    BY <2>0
  <2>2. d = bk => q # p + 1
    BY <1>5, <2>1
  <2>3. d = bk => q > p + 1
    BY <2>1, <2>2
  <2>4. e \in DOMAIN t.entries
    BY DEF Ahead
  <2>. QED
    BY <2>1, <2>3, <2>4 DEF Ahead
<1>. QED
  BY <1>3, <1>4, <1>5

(* arg_hashtable_itr_advance *)
LEMMA AdvancedIs ==
  ASSUME NEW t, NEW ch, WellMade(t, ch), NEW bk \in 0 .. LastBucket(t.primeindex),
         NEW p \in 1 .. Len(ch[bk])
  PROVE  /\ ItrAt(t, ch, R!Advanced(t, ItrPlace(ch, bk, p)))
         /\ WentOn(t, ch, bk, p, R!Advanced(t, ItrPlace(ch, bk, p)))
<1>. DEFINE x == ItrPlace(ch, bk, p)
            y == R!Advanced(t, x)
            next == t.entries[ch[bk][p]].next
            last == LastBucket(t.primeindex)
<1>1. /\ Made(t.primeindex, t.database, t.entries, ch) /\ R!tablelength(t) = last + 1
      /\ last \in Nat
  BY WellMadeMeans
<1>2. x.e = ch[bk][p] /\ x.index = bk /\ x.parent = BeforeIn(ch[bk], p)
  BY PlaceItr
<1>3. /\ next = NextIn(ch[bk], p) /\ Len(ch[bk]) \in Nat /\ 0 \notin DOMAIN t.entries
      /\ \A q \in 1 .. Len(ch[bk]) : ch[bk][q] \in DOMAIN t.entries
  BY <1>1, MadeIs
<1>4. CASE p # Len(ch[bk])
  <2>1. p + 1 \in 1 .. Len(ch[bk]) /\ next = ch[bk][p + 1] /\ next # 0
    BY <1>3, <1>4 DEF NextIn
  <2>2. y = [x EXCEPT !.parent = x.e, !.e = next]
    BY <1>2, <2>1 DEF R!Advanced, R!NULL
  <2>3. y = Itr(next, ch[bk][p], bk)
    <3>1. x = Itr(ch[bk][p], BeforeIn(ch[bk], p), bk)
      BY DEF ItrPlace
    <3>. HIDE DEF x, next, y
    <3>. QED
      BY <1>2, <2>2, <3>1 DEF Itr
  <2>4. BeforeIn(ch[bk], p + 1) = ch[bk][p]
    BY DEF BeforeIn
  <2>. HIDE DEF y, next
  <2>5. y = ItrPlace(ch, bk, p + 1)
    BY <2>1, <2>3, <2>4 DEF ItrPlace
  <2>6. ItrAt(t, ch, y) /\ y.e = ch[bk][p + 1] /\ y.index = bk
    BY <2>1, <2>5, PlaceItr
  <2>7. WentOn(t, ch, bk, p, y)
    <3>0. p \in Nat
      OBVIOUS
    <3>1. /\ ch[bk][p + 1] \in Ahead(t, ch, bk, p)
          /\ Ahead(t, ch, bk, p + 1) = Ahead(t, ch, bk, p) \ {ch[bk][p + 1]}
      BY <2>1, <3>0, AheadInChain
    <3>. QED
      BY <2>1, <2>6, <3>1 DEF WentOn
  <2>. QED
    BY <2>6, <2>7 DEF y
<1>5. CASE p = Len(ch[bk])
  <2>. DEFINE c2 == R!FirstFrom(t, bk + 1)
  <2>1. y = R!AtBucket(t, c2)
    BY <1>2, <1>3, <1>5 DEF R!Advanced, R!NULL, NextIn
  <2>2. FirstUsed(t.database, last, bk + 1, c2)
    <3>1. bk + 1 \in 0 .. last + 1
      BY <1>1
    <3>. HIDE DEF last
    <3>. QED
      BY <1>1, <3>1, FirstFromIs
  <2>. HIDE DEF y, c2
  <2>3. c2 \in bk + 1 .. last + 1 /\ c2 \in Nat /\ bk + 1 \in Nat
    BY <1>1, <2>2 DEF FirstUsed
  <2>4. /\ ItrAt(t, ch, y) /\ y.index = c2 /\ (y.e = 0 <=> c2 = last + 1)
        /\ y.e # 0 => y.e = ch[c2][1] /\ 1 \in 1 .. Len(ch[c2])
    BY SMTT(30), <2>1, <2>2, <2>3, AtBucketIs
  <2>5. \A d \in bk + 1 .. c2 - 1 : t.database[d] = 0
    BY <2>2 DEF FirstUsed
  <2>6. p \in Nat /\ ~ \E q \in 1 .. Len(ch[bk]) : q > p
    BY <1>3, <1>5
  <2>7. /\ c2 = last + 1 => Ahead(t, ch, bk, p) = {}
        /\ c2 \in 0 .. last /\ 1 \in 1 .. Len(ch[c2]) =>
             /\ ch[c2][1] \in Ahead(t, ch, bk, p)
             /\ Ahead(t, ch, c2, 1) = Ahead(t, ch, bk, p) \ {ch[c2][1]}
    BY <2>3, <2>5, <2>6, AheadFromHead
  <2>8. WentOn(t, ch, bk, p, y)
    <3>1. CASE c2 = last + 1
      BY <2>4, <2>7, <3>1 DEF WentOn
    <3>2. CASE c2 # last + 1
      <4>1. c2 \in 0 .. last
        BY <1>1, <2>3, <3>2
      <4>. QED
        BY <2>4, <2>7, <3>2, <4>1 DEF WentOn
    <3>. QED
      BY <3>1, <3>2
  <2>. QED
    BY <2>4, <2>8 DEF y
<1>. QED
  BY <1>4, <1>5

(* arg_hashtable_itr_create *)
FirstPlace(t) == IF t.entrycount = 0 THEN R!tablelength(t) ELSE R!FirstFrom(t, 0)

(* The walk begins at the first entry, with all others ahead. *)
BeganAt(t, ch, y) ==
  \/ y.e = 0 /\ DOMAIN t.entries = {}
  \/ \E bk2 \in 0 .. LastBucket(t.primeindex) :
       \E p2 \in 1 .. Len(ch[bk2]) :
         /\ y.e = ch[bk2][p2] /\ y.index = bk2
         /\ Ahead(t, ch, bk2, p2) = DOMAIN t.entries \ {ch[bk2][p2]}

LEMMA CreatedIs ==
  ASSUME NEW t, NEW ch, WellMade(t, ch)
  PROVE  /\ ItrAt(t, ch, R!AtBucket(t, FirstPlace(t)))
         /\ BeganAt(t, ch, R!AtBucket(t, FirstPlace(t)))
<1>. DEFINE c2 == FirstPlace(t)
            y == R!AtBucket(t, c2)
            last == LastBucket(t.primeindex)
<1>1. /\ Made(t.primeindex, t.database, t.entries, ch) /\ R!tablelength(t) = last + 1
      /\ last \in Nat /\ t.entrycount = Cardinality(DOMAIN t.entries)
      /\ IsEntries(t.entries)
  BY WellMadeMeans DEF WellMade, Made
<1>. HIDE DEF last
<1>2. CASE t.entrycount = 0
  <2>1. c2 = last + 1 /\ last + 1 \in Nat
    BY <1>1, <1>2 DEF FirstPlace
  <2>2. FirstUsed(t.database, last, last + 1, c2)
    BY <1>1, <2>1 DEF FirstUsed
  <2>3. c2 \in 0 .. last => t.database[c2] = t.database[c2]
    OBVIOUS
  <2>. HIDE DEF y, c2
  <2>4. ItrAt(t, ch, y) /\ (y.e = 0 <=> c2 = last + 1)
    BY <2>1, <2>2, AtBucketIs DEF y, last
  <2>5. DOMAIN t.entries = {}
    BY <1>1, <1>2, EntriesFinite, FS_EmptySet
  <2>. QED
    BY <2>1, <2>4, <2>5 DEF BeganAt, y, c2
<1>3. CASE t.entrycount # 0
  <2>1. c2 = R!FirstFrom(t, 0)
    BY <1>3 DEF FirstPlace
  <2>2. FirstUsed(t.database, last, 0, c2)
    BY <1>1, <2>1, FirstFromIs
  <2>. HIDE DEF y, c2
  <2>3. c2 \in 0 .. last + 1 /\ c2 \in Nat /\ \A d \in 0 .. c2 - 1 : t.database[d] = 0
    BY <1>1, <2>2 DEF FirstUsed
  <2>4. /\ ItrAt(t, ch, y) /\ y.index = c2 /\ (y.e = 0 <=> c2 = last + 1)
        /\ y.e # 0 => y.e = ch[c2][1] /\ 1 \in 1 .. Len(ch[c2])
    BY <2>2, <2>3, AtBucketIs DEF y, last
  <2>5. ASSUME NEW e \in DOMAIN t.entries
        PROVE  \E d \in c2 .. last : \E q \in 1 .. Len(ch[d]) : ch[d][q] = e
    <3>. DEFINE d == BucketOf(t.primeindex, t.entries, e)
    <3>1. d \in 0 .. last /\ \E q \in 1 .. Len(ch[d]) : ch[d][q] = e
      BY <1>1 DEF Made, Threaded, last
    <3>. HIDE DEF d
    <3>2. ASSUME d \in 0 .. c2 - 1  PROVE FALSE
      <4>1. t.database[d] = 0
        BY <2>3, <3>2
      <4>2. t.database[d] = FirstOf(ch[d]) /\ ch[d] \in Seq(DOMAIN t.entries) /\ 0 \notin DOMAIN t.entries
        BY <1>1, <3>1, MadeIs DEF last
      <4>3. Len(ch[d]) = 0
        BY <4>1, <4>2, FirstIs
      <4>. QED
        BY <3>1, <4>3
    <3>3. d \in c2 .. last
      BY <1>1, <2>3, <3>1, <3>2
    <3>. QED
      BY <3>1, <3>3
  <2>6. CASE c2 = last + 1
    <3>1. c2 .. last = {}
      BY <1>1, <2>6
    <3>2. DOMAIN t.entries = {}
      BY <2>5, <3>1
    <3>. QED
      BY <2>4, <2>6, <3>2 DEF BeganAt, y, c2
  <2>7. CASE c2 # last + 1
    <3>1. c2 \in 0 .. last /\ c2 \in c2 .. last /\ y.e = ch[c2][1] /\ 1 \in 1 .. Len(ch[c2])
      BY <1>1, <2>3, <2>4, <2>7
    <3>2. ASSUME NEW e \in DOMAIN t.entries, e # ch[c2][1]  PROVE e \in Ahead(t, ch, c2, 1)
      <4>1. PICK d \in c2 .. last : \E q \in 1 .. Len(ch[d]) : ch[d][q] = e
        BY <2>5
      <4>2. PICK q \in 1 .. Len(ch[d]) : ch[d][q] = e
        BY <4>1
      <4>3. d = c2 => q # 1
        BY <3>2, <4>2
      <4>4. d = c2 => q > 1
        BY <4>3
      <4>. QED
        BY <4>2, <4>4 DEF Ahead, last
    <3>3. ASSUME NEW e \in Ahead(t, ch, c2, 1)
          PROVE  e \in DOMAIN t.entries /\ e # ch[c2][1]
      <4>1. PICK d \in c2 .. last : \E q \in 1 .. Len(ch[d]) : (d = c2 => q > 1) /\ ch[d][q] = e
        BY DEF Ahead, last
      <4>2. PICK q \in 1 .. Len(ch[d]) : (d = c2 => q > 1) /\ ch[d][q] = e
        BY <4>1
      <4>3. d \in 0 .. last
        BY <1>1, <2>3
      <4>4. e # ch[c2][1]
        <5>. SUFFICES ASSUME ch[d][q] = ch[c2][1]  PROVE FALSE
          BY <4>2
        <5>1. d = c2 /\ q = 1
          BY <3>1, <4>3, OnePlace DEF last
        <5>. QED
          BY <4>2, <5>1
      <4>. QED
        BY <4>4 DEF Ahead
    <3>4. Ahead(t, ch, c2, 1) = DOMAIN t.entries \ {ch[c2][1]}
      BY <3>2, <3>3
    <3>5. BeganAt(t, ch, y)
      BY <2>4, <3>1, <3>4 DEF BeganAt, last
    <3>. QED
      BY <2>4, <3>5 DEF y, c2
  <2>. QED
    BY <2>6, <2>7
<1>. QED
  BY <1>2, <1>3

(* arg_hashtable_itr_remove: the iterator goes on, and the entry before the one
   that is given back is the one before the next. *)
WentPast(x, y) == IF y.parent = x.e THEN [y EXCEPT !.parent = x.parent] ELSE y

LEMMA ItrRemovedIs ==
  ASSUME NEW t, NEW ch, WellMade(t, ch), NEW bk \in 0 .. LastBucket(t.primeindex),
         NEW p \in 1 .. Len(ch[bk]), NEW x, x = ItrPlace(ch, bk, p),
         NEW u, u = R!Unlinked(t, x.e, x.parent, x.index)
  PROVE  /\ \E ch2 : /\ WellMade(R!Freed(u, x.e), ch2)
                     /\ ItrAt(R!Freed(u, x.e), ch2, WentPast(x, R!Advanced(u, x)))
         /\ Loses(t, R!Freed(u, x.e), x.e)
<1>. DEFINE last == LastBucket(t.primeindex)
            s == ch[bk]
            e == s[p]
            ch2 == [ch EXCEPT ![bk] = Less(s, p)]
            y == R!Freed(u, e)
            adv == R!Advanced(u, x)
            res == WentPast(x, adv)
            next == t.entries[e].next
<1>1. /\ Made(t.primeindex, t.database, t.entries, ch) /\ R!tablelength(t) = last + 1
      /\ last \in Nat
  BY WellMadeMeans
<1>2. x.e = e /\ x.index = bk /\ x.parent = BeforeIn(s, p)
  BY PlaceItr
<1>3. UnlinkedAt(t, u, ch, bk, p)
  BY <1>2, UnlinkedIs
<1>4. /\ WellMade(y, ch2) /\ Loses(t, y, e)
      /\ y.database = u.database /\ y.primeindex = t.primeindex
  BY <1>3, FreedMade
<1>5. /\ u.entries[e] = t.entries[e] /\ R!tablelength(u) = last + 1
      /\ \A bk2 \in 0 .. last : bk2 # bk => u.database[bk2] = t.database[bk2]
  <2>1. PICK db, en :
          /\ u = Tab(t.primeindex, db, t.entrycount, en)
          /\ en[e] = t.entries[e]
          /\ DOMAIN db = DOMAIN t.database
          /\ \A bk2 \in DOMAIN db : bk2 # bk => db[bk2] = t.database[bk2]
    BY <1>3 DEF UnlinkedAt
  <2>2. DOMAIN t.database = 0 .. last
    BY <1>1, MadeIs
  <2>3. R!tablelength(u) = Primes[t.primeindex] /\ R!tablelength(t) = Primes[t.primeindex]
    BY <2>1, TabIs DEF R!tablelength
  <2>4. u.entries = en /\ u.database = db
    BY <2>1, TabIs
  <2>. QED
    BY <1>1, <2>1, <2>2, <2>3, <2>4
<1>6. /\ next = NextIn(s, p) /\ Len(s) \in Nat /\ 0 \notin DOMAIN t.entries
      /\ (\A q \in 1 .. Len(s) : s[q] \in DOMAIN t.entries) /\ Distinct(s)
      /\ s \in Seq(DOMAIN t.entries) /\ p \in 1 .. Len(s)
      /\ DOMAIN ch = 0 .. last
  BY <1>1, MadeIs
<1>7. /\ ch2[bk] = Less(s, p) /\ Len(Less(s, p)) = Len(s) - 1
      /\ \A q \in 1 .. Len(s) - 1 : Less(s, p)[q] = IF q < p THEN s[q] ELSE s[q + 1]
  <2>1. ch2[bk] = Less(s, p)
    BY <1>6
  <2>. HIDE DEF s, ch2
  <2>. QED
    BY <1>6, <2>1, LessIs
<1>. HIDE DEF last, s, ch2, y
<1>8. CASE p # Len(s)
  <2>1. p + 1 \in 1 .. Len(s) /\ next = s[p + 1] /\ next # 0 /\ next # e
    BY <1>6, <1>8 DEF NextIn, Distinct
  <2>2. adv = [x EXCEPT !.parent = x.e, !.e = next]
    <3>1. u.entries[x.e].next = next /\ next # 0
      BY <1>2, <1>5, <2>1
    <3>. HIDE DEF next
    <3>. QED
      BY <3>1 DEF R!Advanced, R!NULL
  <2>3. adv = Itr(next, e, bk)
    <3>1. x = Itr(e, BeforeIn(s, p), bk)
      BY DEF ItrPlace, s
    <3>. HIDE DEF next, adv
    <3>. QED
      BY <1>2, <2>2, <3>1 DEF Itr
  <2>4. res = Itr(next, BeforeIn(s, p), bk)
    <3>1. adv.parent = e
      BY <2>3 DEF Itr
    <3>2. res = [adv EXCEPT !.parent = BeforeIn(s, p)]
      BY <1>2, <3>1 DEF WentPast
    <3>. HIDE DEF next, adv, res
    <3>. QED
      BY <2>3, <3>2 DEF Itr
  <2>. HIDE DEF res, next
  <2>5. p \in 1 .. Len(ch2[bk]) /\ ch2[bk][p] = next
    <3>1. p \in 1 .. Len(s) - 1 /\ ~(p < p)
      BY <1>6, <1>8
    <3>. QED
      BY <1>7, <2>1, <3>1
  <2>6. BeforeIn(ch2[bk], p) = BeforeIn(s, p)
    <3>1. CASE p = 1
      BY <3>1 DEF BeforeIn
    <3>2. CASE p # 1
      <4>1. p - 1 \in 1 .. Len(s) - 1 /\ p - 1 < p
        BY <1>6, <3>2
      <4>2. ch2[bk][p - 1] = s[p - 1]
        BY <1>7, <4>1
      <4>. QED
        BY <3>2, <4>2 DEF BeforeIn
    <3>. QED
      BY <3>1, <3>2
  <2>7. res = ItrPlace(ch2, bk, p)
    BY <2>4, <2>5, <2>6 DEF ItrPlace
  <2>8. bk \in 0 .. LastBucket(y.primeindex)
    BY <1>4
  <2>9. ItrAt(y, ch2, res)
    BY <1>4, <2>5, <2>7, <2>8, PlaceItr
  <2>. QED
    BY <1>2, <1>4, <2>9 DEF res, y, ch2
<1>9. CASE p = Len(s)
  <2>. DEFINE c2 == R!FirstFrom(u, bk + 1)
  <2>1. next = 0
    BY <1>6, <1>9 DEF NextIn
  <2>2. adv = R!AtBucket(u, c2)
    BY <1>2, <1>5, <2>1 DEF R!Advanced, R!NULL
  <2>3. FirstUsed(u.database, last, bk + 1, c2)
    <3>1. bk + 1 \in 0 .. last + 1
      BY <1>1 DEF last
    <3>. QED
      BY <1>1, <1>5, <3>1, FirstFromIs
  <2>. HIDE DEF c2
  <2>4. c2 \in bk + 1 .. last + 1 /\ c2 \in Nat /\ bk + 1 \in Nat
    BY <1>1, <2>3 DEF FirstUsed
  <2>5. R!tablelength(u) = R!tablelength(y) /\ last = LastBucket(y.primeindex)
    <3>1. last = LastBucket(y.primeindex)
      BY <1>4 DEF last
    <3>2. R!tablelength(y) = LastBucket(y.primeindex) + 1
      BY <1>4, WellMadeMeans
    <3>. QED
      BY <1>5, <3>1, <3>2
  <2>. HIDE DEF adv
  <2>6. ItrAt(y, ch2, adv)
    <3>1. FirstUsed(u.database, LastBucket(y.primeindex), bk + 1, c2)
      BY <2>3, <2>5
    <3>2. c2 \in 0 .. LastBucket(y.primeindex) => u.database[c2] = y.database[c2]
      BY <1>4
    <3>. QED
      BY <1>4, <2>2, <2>4, <2>5, <3>1, <3>2, AtBucketIs
  <2>7. adv.parent = 0
    BY <2>2 DEF R!AtBucket, R!NULL
  <2>8. x.e # 0
    BY <1>2, <1>6
  <2>9. res = adv
    BY <2>7, <2>8 DEF WentPast
  <2>. QED
    BY <1>2, <1>4, <2>6, <2>9 DEF res, adv, y, ch2
<1>. QED
  BY <1>8, <1>9

-----------------------------------------------------------------------------
(* The invariant of the table and its iterator *)

TableSound(t, x) ==
  \/ t = R!NoTable /\ x = R!NoItr
  \/ t.primeindex # 0 /\ \E ch : WellMade(t, ch) /\ ItrAt(t, ch, x)

LEMMA NoItrIs ==
  ASSUME NEW t, NEW ch
  PROVE  ItrAt(t, ch, R!NoItr)
BY DEF ItrAt, R!NoItr, Itr, R!NULL

LEMMA SoundWithout ==
  ASSUME NEW t, \E ch : WellMade(t, ch)
  PROVE  TableSound(t, R!NoItr) /\ t.primeindex # 0
<1>1. PICK ch : WellMade(t, ch)
  OBVIOUS
<1>2. t.primeindex # 0
  BY <1>1, WellMadeMeans
<1>. QED
  BY <1>1, <1>2, NoItrIs DEF TableSound

LEMMA NoTableIs ==
  /\ R!NoTable.primeindex = 0 /\ DOMAIN R!NoTable.entries = {}
  /\ R!NoItr.e = 0 /\ R!NoItr.parent = 0
  /\ TableSound(R!NoTable, R!NoItr)
BY DEF R!NoTable, R!NoItr, R!NULL, TableSound

LEMMA SoundIs ==
  ASSUME NEW t, NEW x, TableSound(t, x), t.primeindex # 0
  PROVE  \E ch : WellMade(t, ch) /\ ItrAt(t, ch, x)
BY NoTableIs DEF TableSound

(* arg_hashtable_change *)
Changed(t, k, v) ==
  IF R!Search(t, k) = 0 THEN t ELSE [t EXCEPT !.entries[R!Search(t, k)].v = v]

LEMMA ChangedMade ==
  ASSUME NEW t, NEW ch, WellMade(t, ch), NEW k \in Keys, NEW v \in Values
  PROVE  WellMade(Changed(t, k, v), ch) /\ Changed(t, k, v).primeindex = t.primeindex
<1>. DEFINE e == R!Search(t, k)
            pi == t.primeindex
            db == t.database
            ec == t.entrycount
            en == t.entries
            en2 == [en EXCEPT ![e].v = v]
<1>1. CASE e = 0
  BY <1>1 DEF Changed
<1>2. CASE e # 0
  <2>1. t = Tab(pi, db, ec, en) /\ Made(pi, db, en, ch)
    BY DEF WellMade
  <2>2. e \in DOMAIN en
    <3>. HIDE DEF pi, db, ec, en
    <3>. QED
      BY <1>2, <2>1, SearchFinds DEF e
  <2>3. Changed(t, k, v) = [t EXCEPT !.entries = en2]
    BY <1>2 DEF Changed
  <2>. HIDE DEF e
  <2>4. IsEntries(en2) /\ DOMAIN en2 = DOMAIN en /\ Agree(en, en2, DOMAIN en)
    <3>1. IsEntries(en)
      BY <2>1 DEF Made
    <3>. HIDE DEF pi, db, ec, en
    <3>. QED
      BY <2>2, <3>1, ValueExcept DEF Agree
  <2>5. Changed(t, k, v) = Tab(pi, db, ec, en2)
    <3>. HIDE DEF pi, db, ec, en, en2
    <3>. QED
      BY <2>1, <2>3 DEF Tab
  <2>6. Made(pi, db, en2, ch)
    <3>. HIDE DEF pi, db, ec, en, en2
    <3>. QED
      BY <2>1, <2>4, ThreadedFrame DEF Made
  <2>7. ec = Cardinality(DOMAIN en2) /\ (pi < Len(Primes) => ec <= R!loadlimit(Primes[pi]))
    <3>1. ec = Cardinality(DOMAIN en) /\ (pi < Len(Primes) => ec <= R!loadlimit(Primes[pi]))
      BY DEF WellMade
    <3>. QED
      BY <2>4, <3>1
  <2>. HIDE DEF pi, db, ec, en, en2
  <2>8. WellMade(Changed(t, k, v), ch)
    BY <2>5, <2>6, <2>7, TabIs DEF WellMade
  <2>9. Changed(t, k, v).primeindex = pi
    BY <2>5, TabIs
  <2>. QED
    BY <2>8, <2>9 DEF pi
<1>. QED
  BY <1>1, <1>2

(* arg_hashtable_itr_search *)
Found(t, k, x) ==
  IF R!Search(t, k) = 0 THEN x
  ELSE [e |-> R!Search(t, k), parent |-> R!Before(t, R!Search(t, k)),
        index |-> R!index_for(R!tablelength(t), k)]

LEMMA FoundIs ==
  ASSUME NEW t, NEW ch, WellMade(t, ch), NEW k \in Keys, NEW x
  PROVE  \/ R!Search(t, k) = 0 /\ Found(t, k, x) = x
         \/ /\ R!Search(t, k) \in DOMAIN t.entries
            /\ t.entries[R!Search(t, k)].k = k
            /\ \E bk \in 0 .. LastBucket(t.primeindex) :
                 \E p \in 1 .. Len(ch[bk]) :
                   ch[bk][p] = R!Search(t, k) /\ Found(t, k, x) = ItrPlace(ch, bk, p)
<1>. DEFINE e == R!Search(t, k)
            pi == t.primeindex
            db == t.database
            ec == t.entrycount
            en == t.entries
            bk == Hash[k] % Primes[pi]
<1>1. CASE e = 0
  BY <1>1 DEF Found
<1>2. CASE e # 0
  <2>1. t = Tab(pi, db, ec, en) /\ Made(pi, db, en, ch)
    BY DEF WellMade
  <2>2. e \in DOMAIN en /\ en[e].k = k /\ \E p \in 1 .. Len(ch[bk]) : e = ch[bk][p]
    <3>. HIDE DEF pi, db, ec, en
    <3>. QED
      BY <1>2, <2>1, SearchFinds DEF e
  <2>3. PICK p \in 1 .. Len(ch[bk]) : e = ch[bk][p]
    BY <2>2
  <2>4. bk \in 0 .. LastBucket(pi)
    <3>1. pi \in 1 .. Len(Primes)
      BY WellMadeMeans
    <3>. HIDE DEF pi
    <3>. QED
      BY <3>1, BucketIs
  <2>5. R!Before(t, e) = BeforeIn(ch[bk], p)
    <3>. HIDE DEF pi, db, ec, en, bk, e
    <3>1. R!Before(Tab(pi, db, ec, en), ch[bk][p]) = IF p = 1 THEN 0 ELSE ch[bk][p - 1]
      BY <2>1, <2>4, BeforeIs
    <3>. QED
      BY <2>1, <2>3, <3>1 DEF BeforeIn
  <2>6. R!index_for(R!tablelength(t), k) = bk
    BY DEF R!index_for, R!tablelength
  <2>7. Found(t, k, x) = ItrPlace(ch, bk, p)
    <3>1. Found(t, k, x) = Itr(e, R!Before(t, e), bk)
      BY <1>2, <2>6 DEF Found, Itr
    <3>. HIDE DEF bk, e
    <3>. QED
      BY <2>3, <2>5, <3>1 DEF ItrPlace
  <2>. QED
    BY <2>2, <2>3, <2>4, <2>7 DEF e, pi, en
<1>. QED
  BY <1>1, <1>2

(* What each operation makes of a table that is well made *)
LEMMA InsertSound ==
  ASSUME NEW t, NEW ch, WellMade(t, ch), t.entrycount < MaxEntries,
         NEW k \in Keys, NEW v \in Values
  PROVE  TableSound(R!Inserted(t, k, v), R!NoItr)
<1>1. \E ch2 : WellMade(R!Inserted(t, k, v), ch2)
  BY InsertedMade DEF Inserts
<1>. QED
  BY <1>1, SoundWithout

LEMMA RemoveSound ==
  ASSUME NEW t, NEW ch, WellMade(t, ch), NEW k \in Keys
  PROVE  /\ \E ch2 : WellMade(R!Removed(t, k), ch2)
         /\ TableSound(R!Removed(t, k), R!NoItr)
<1>1. \E ch2 : WellMade(R!Removed(t, k), ch2)
  <2>1. CASE R!Search(t, k) = 0
    <3>1. R!Removed(t, k) = t
      BY <2>1, RemovedMade
    <3>. QED
      BY <3>1
  <2>2. CASE R!Search(t, k) # 0
    BY <2>2, RemovedMade
  <2>. QED
    BY <2>1, <2>2
<1>. QED
  BY <1>1, SoundWithout

LEMMA ItrRemoveSound ==
  ASSUME NEW t, NEW ch, NEW x, WellMade(t, ch), ItrAt(t, ch, x), x.e # 0,
         NEW u, u = R!Unlinked(t, x.e, x.parent, x.index)
  PROVE  TableSound(R!Freed(u, x.e), WentPast(x, R!Advanced(u, x)))
<1>1. /\ x.index \in 0 .. LastBucket(t.primeindex)
      /\ \E p \in 1 .. Len(ch[x.index]) : x = ItrPlace(ch, x.index, p)
  BY ItrIsAt
<1>2. PICK p \in 1 .. Len(ch[x.index]) : x = ItrPlace(ch, x.index, p)
  BY <1>1
<1>3. \E ch2 : /\ WellMade(R!Freed(u, x.e), ch2)
               /\ ItrAt(R!Freed(u, x.e), ch2, WentPast(x, R!Advanced(u, x)))
  BY <1>1, <1>2, ItrRemovedIs
<1>4. R!Freed(u, x.e).primeindex # 0
  BY <1>3, WellMadeMeans
<1>. QED
  BY <1>3, <1>4 DEF TableSound

LEMMA TableStep ==
  ASSUME TableSound(h, itr), R!Next
  PROVE  TableSound(h', itr')
<1>1. ASSUME NEW minsize \in 0 .. MaxMinSize + 1, R!Create(minsize)
      PROVE  TableSound(h', itr')
  <2>1. h = R!NoTable /\ itr = R!NoItr
    BY <1>1 DEF TableSound, R!Create, R!Exists
  <2>2. CASE minsize > MaxMinSize
    BY <1>1, <2>1, <2>2, NoTableIs DEF R!Create
  <2>3. CASE ~(minsize > MaxMinSize)
    <3>1. minsize \in 0 .. MaxMinSize
      BY <2>3, SizesAre
    <3>2. \E ch : WellMade(R!NewTable(minsize), ch)
      BY <3>1, NewTableMade
    <3>. QED
      BY <1>1, <2>1, <2>3, <3>2, SoundWithout DEF R!Create
  <2>. QED
    BY <2>2, <2>3
<1>2. ASSUME R!Destroy
      PROVE  TableSound(h', itr')
  BY <1>2, NoTableIs DEF R!Destroy
<1>3. ASSUME NEW k \in Keys, NEW v \in Values, R!Insert(k, v)
      PROVE  TableSound(h', itr')
  <2>1. PICK ch : WellMade(h, ch)
    BY <1>3, SoundIs DEF R!Insert, R!Exists
  <2>. QED
    BY <1>3, <2>1, InsertSound DEF R!Insert
<1>4. ASSUME NEW k \in Keys, NEW v \in Values, R!Change(k, v)
      PROVE  TableSound(h', itr')
  <2>1. PICK ch : WellMade(h, ch) /\ ItrAt(h, ch, itr)
    BY <1>4, SoundIs DEF R!Change, R!Exists
  <2>2. h' = Changed(h, k, v) /\ itr' = itr /\ h.primeindex # 0
    BY <1>4 DEF R!Change, Changed, R!Exists, R!NULL
  <2>3. WellMade(h', ch) /\ h'.primeindex = h.primeindex
    BY <2>1, <2>2, ChangedMade
  <2>4. ItrAt(h', ch, itr')
    BY <2>1, <2>2, <2>3 DEF ItrAt
  <2>. QED
    BY <2>2, <2>3, <2>4 DEF TableSound
<1>5. ASSUME NEW k \in Keys, R!RemoveKey(k)
      PROVE  TableSound(h', itr')
  <2>1. PICK ch : WellMade(h, ch)
    BY <1>5, SoundIs DEF R!RemoveKey, R!Exists
  <2>. QED
    BY <1>5, <2>1, RemoveSound DEF R!RemoveKey
<1>6. ASSUME NEW k \in Keys, R!ItrSearch(k)
      PROVE  TableSound(h', itr')
  <2>1. PICK ch : WellMade(h, ch) /\ ItrAt(h, ch, itr)
    BY <1>6, SoundIs DEF R!ItrSearch, R!Exists
  <2>2. itr' = Found(h, k, itr) /\ h' = h
    BY <1>6 DEF R!ItrSearch, Found, R!NULL
  <2>3. ItrAt(h, ch, Found(h, k, itr))
    <3>1. \/ Found(h, k, itr) = itr
          \/ \E bk \in 0 .. LastBucket(h.primeindex) :
               \E p \in 1 .. Len(ch[bk]) : Found(h, k, itr) = ItrPlace(ch, bk, p)
      BY <2>1, FoundIs
    <3>. QED
      BY <2>1, <3>1, PlaceItr
  <2>. QED
    BY <1>6, <2>1, <2>2, <2>3 DEF TableSound, R!ItrSearch, R!Exists
<1>7. ASSUME R!ItrCreate
      PROVE  TableSound(h', itr')
  <2>1. PICK ch : WellMade(h, ch) /\ ItrAt(h, ch, itr)
    BY <1>7, SoundIs DEF R!ItrCreate, R!Exists
  <2>2. itr' = R!AtBucket(h, FirstPlace(h)) /\ h' = h
    BY <1>7 DEF R!ItrCreate, FirstPlace
  <2>. QED
    BY <1>7, <2>1, <2>2, CreatedIs DEF TableSound, R!ItrCreate, R!Exists
<1>8. ASSUME R!ItrAdvance
      PROVE  TableSound(h', itr')
  <2>1. PICK ch : WellMade(h, ch) /\ ItrAt(h, ch, itr)
    BY <1>8, SoundIs DEF R!ItrAdvance, R!Exists
  <2>2. itr' = R!Advanced(h, itr) /\ h' = h /\ itr.e # 0
    BY <1>8 DEF R!ItrAdvance, R!NULL
  <2>3. PICK p \in 1 .. Len(ch[itr.index]) :
          itr = ItrPlace(ch, itr.index, p) /\ itr.index \in 0 .. LastBucket(h.primeindex)
    BY <2>1, <2>2, ItrIsAt
  <2>4. ItrAt(h, ch, R!Advanced(h, ItrPlace(ch, itr.index, p)))
    BY <2>1, <2>3, AdvancedIs
  <2>. QED
    BY <1>8, <2>1, <2>2, <2>3, <2>4 DEF TableSound, R!ItrAdvance, R!Exists
<1>9. ASSUME R!ItrRemove
      PROVE  TableSound(h', itr')
  <2>1. PICK ch : WellMade(h, ch) /\ ItrAt(h, ch, itr)
    BY <1>9, SoundIs DEF R!ItrRemove, R!Exists
  <2>. DEFINE u == R!Unlinked(h, itr.e, itr.parent, itr.index)
  <2>2. /\ itr.e # 0 /\ h' = R!Freed(u, itr.e)
        /\ itr' = WentPast(itr, R!Advanced(u, itr))
    BY <1>9 DEF R!ItrRemove, R!NULL, R!Corrected, WentPast
  <2>. QED
    BY <2>1, <2>2, ItrRemoveSound
<1>. QED
  BY <1>1, <1>2, <1>3, <1>4, <1>5, <1>6, <1>7, <1>8, <1>9 DEF R!Next

-----------------------------------------------------------------------------
(* What the invariant says of the table *)

LEMMA SoundTypes ==
  ASSUME TableSound(h, itr)
  PROVE  R!TypeOK
<1>1. CASE h = R!NoTable /\ itr = R!NoItr
  <2>1. h.primeindex = 0 /\ DOMAIN h.entries = {} /\ itr.e = 0 /\ itr.parent = 0
    BY <1>1, NoTableIs
  <2>2. Len(Primes) \in Nat
    BY SizesAre
  <2>. QED
    BY <2>1, <2>2 DEF R!TypeOK, R!Pointer, R!NULL, R!Exists
<1>2. CASE h.primeindex # 0 /\ \E ch : WellMade(h, ch) /\ ItrAt(h, ch, itr)
  <2>. DEFINE pi == h.primeindex
              db == h.database
              en == h.entries
  <2>1. PICK ch : WellMade(h, ch) /\ ItrAt(h, ch, itr)
    BY <1>2
  <2>2. Made(pi, db, en, ch) /\ pi \in 1 .. Len(Primes)
    BY <2>1, WellMadeMeans
  <2>. HIDE DEF pi, db, en
  <2>3. /\ DOMAIN ch = 0 .. LastBucket(pi) /\ DOMAIN db = 0 .. LastBucket(pi) /\ IsFunction(db)
        /\ \A bk \in 0 .. LastBucket(pi) :
             /\ Linked(pi, en, DOMAIN en, bk, ch[bk])
             /\ db[bk] \in DOMAIN en \cup {0}
             /\ Len(ch[bk]) \in Nat
             /\ \A p \in 1 .. Len(ch[bk]) : ch[bk][p] \in DOMAIN en
    BY <2>2, MadeIs
  <2>4. \A e \in DOMAIN en : en[e].next \in DOMAIN en \cup {0}
    <3>1. TAKE e \in DOMAIN en
    <3>2. PICK p \in 1 .. Len(ch[BucketOf(pi, en, e)]) : ch[BucketOf(pi, en, e)][p] = e
      BY <2>2 DEF Made, Threaded
    <3>3. BucketOf(pi, en, e) \in 0 .. LastBucket(pi)
      BY <2>2 DEF Made, Threaded
    <3>. QED
      BY <2>3, <3>2, <3>3, PointerIs
  <2>5. DOMAIN en \subseteq R!Blocks /\ en \in [DOMAIN en -> EntryType]
    BY <2>2 DEF Made, IsEntries
  <2>6. \A e \in DOMAIN en : en[e] \in [k : Keys, v : Values, next : DOMAIN en \cup {0}]
    BY <2>4, <2>5 DEF EntryType
  <2>7. R!Buckets(h) = 0 .. LastBucket(pi)
    BY DEF R!Buckets, R!tablelength, LastBucket, pi
  <2>9. db \in [0 .. LastBucket(pi) -> DOMAIN en \cup {0}]
    BY <2>3 DEF IsFunction
  <2>10. itr.e \in DOMAIN en \cup {0} /\ itr.parent \in DOMAIN en \cup {0}
    <3>1. CASE itr.e = 0 /\ itr.parent = 0
      BY <3>1
    <3>2. CASE ~ (itr.e = 0 /\ itr.parent = 0)
      <4>1. PICK p \in 1 .. Len(ch[itr.index]) :
              itr.e = ch[itr.index][p] /\ itr.parent = BeforeIn(ch[itr.index], p)
        BY <2>1, <3>2 DEF ItrAt
      <4>2. itr.index \in 0 .. LastBucket(pi)
        BY <2>1, <3>2 DEF ItrAt, pi
      <4>3. p # 1 => p - 1 \in 1 .. Len(ch[itr.index])
        BY <2>3, <4>2
      <4>. QED
        BY <2>3, <4>1, <4>2, <4>3 DEF BeforeIn
    <3>. QED
      BY <3>1, <3>2
  <2>11. pi \in 0 .. Len(Primes)
    BY <2>2, SizesAre
  <2>. QED
    BY <2>5, <2>6, <2>7, <2>9, <2>10, <2>11 DEF R!TypeOK, R!Pointer, R!NULL, pi, en, db
<1>. QED
  BY <1>1, <1>2 DEF TableSound

LEMMA SoundOnce ==
  ASSUME TableSound(h, itr)
  PROVE  R!EveryEntryOnce
<1>. SUFFICES ASSUME R!Exists
     PROVE /\ h.entrycount = R!Cardinality(DOMAIN h.entries)
           /\ \A e \in DOMAIN h.entries, c \in R!Buckets(h) :
                R!Cardinality({p \in DOMAIN R!Chain(h, c) : R!Chain(h, c)[p] = e})
                  = IF c = R!index_for(R!tablelength(h), h.entries[e].k) THEN 1 ELSE 0
  BY DEF R!EveryEntryOnce
<1>. DEFINE pi == h.primeindex
            db == h.database
            ec == h.entrycount
            en == h.entries
<1>1. PICK ch : WellMade(h, ch) /\ ItrAt(h, ch, itr)
  BY SoundIs DEF R!Exists
<1>2. h = Tab(pi, db, ec, en) /\ Made(pi, db, en, ch)
  BY <1>1, WellMadeMeans
<1>3. h.entrycount = R!Cardinality(DOMAIN h.entries)
  BY <1>1, SameCardinality DEF WellMade
<1>4. ASSUME NEW e \in DOMAIN en, NEW c \in R!Buckets(h)
      PROVE R!Cardinality({p \in DOMAIN R!Chain(h, c) : R!Chain(h, c)[p] = e})
               = IF c = R!index_for(R!tablelength(h), en[e].k) THEN 1 ELSE 0
  <2>. DEFINE ps == {p \in DOMAIN ch[c] : ch[c][p] = e}
  <2>1. c \in 0 .. LastBucket(pi)
    BY DEF R!Buckets, R!tablelength, LastBucket
  <2>2. R!index_for(R!tablelength(h), en[e].k) = BucketOf(pi, en, e)
    BY DEF R!index_for, R!tablelength, BucketOf
  <2>. HIDE DEF pi, db, ec, en
  <2>3. R!Chain(h, c) = ch[c]
    BY <1>2, <2>1, ChainsAre
  <2>4. /\ DOMAIN ch[c] = 1 .. Len(ch[c]) /\ Distinct(ch[c])
        /\ \A p \in 1 .. Len(ch[c]) : BucketOf(pi, en, ch[c][p]) = c
    BY <1>2, <2>1, MadeIs
  <2>5. CASE c = BucketOf(pi, en, e)
    <3>1. PICK p \in 1 .. Len(ch[c]) : ch[c][p] = e
      BY <1>2, <2>5 DEF Made, Threaded
    <3>2. ps = {p}
      BY <2>4, <3>1 DEF Distinct
    <3>3. Cardinality(ps) = 1
      BY <3>2, FS_Singleton
    <3>. QED
      BY <2>2, <2>3, <2>5, <3>3, SameCardinality
  <2>6. CASE c # BucketOf(pi, en, e)
    <3>1. ps = {}
      BY <2>4, <2>6
    <3>2. Cardinality(ps) = 0
      BY <3>1, FS_EmptySet
    <3>. QED
      BY <2>2, <2>3, <2>6, <3>2, SameCardinality
  <2>. QED
    BY <2>5, <2>6
<1>. QED
  BY <1>3, <1>4

LEMMA SoundPlace ==
  ASSUME TableSound(h, itr)
  PROVE  R!IteratorKnowsItsPlace
<1>. SUFFICES ASSUME itr.e # 0
     PROVE IF itr.parent = 0 THEN h.database[itr.index] = itr.e
           ELSE itr.parent \in DOMAIN h.entries /\ h.entries[itr.parent].next = itr.e
  BY DEF R!IteratorKnowsItsPlace, R!NULL
<1>. DEFINE pi == h.primeindex
            db == h.database
            en == h.entries
<1>1. PICK ch : WellMade(h, ch) /\ ItrAt(h, ch, itr)
  BY NoTableIs DEF TableSound
<1>2. Made(pi, db, en, ch)
  BY <1>1, WellMadeMeans
<1>3. PICK p \in 1 .. Len(ch[itr.index]) :
        itr.e = ch[itr.index][p] /\ itr.parent = BeforeIn(ch[itr.index], p)
  BY <1>1 DEF ItrAt
<1>4. itr.index \in 0 .. LastBucket(pi)
  BY <1>1 DEF ItrAt
<1>. HIDE DEF pi, db, en
<1>. DEFINE s == ch[itr.index]
<1>5. /\ 0 \notin DOMAIN en /\ Len(s) \in Nat /\ db[itr.index] = FirstOf(s)
      /\ \A q \in 1 .. Len(s) : s[q] \in DOMAIN en /\ en[s[q]].next = NextIn(s, q)
      /\ s \in Seq(DOMAIN en)
  BY <1>2, <1>4, MadeIs
<1>6. CASE p = 1
  <2>1. s # <<>>
    BY <1>3, <1>5, <1>6, FirstIs
  <2>. QED
    BY <1>3, <1>5, <1>6, <2>1 DEF FirstOf, BeforeIn, db
<1>7. CASE p # 1
  <2>1. p - 1 \in 1 .. Len(s) /\ p - 1 # Len(s) /\ (p - 1) + 1 = p
    BY <1>3, <1>5, <1>7
  <2>2. s[p - 1] \in DOMAIN en /\ en[s[p - 1]].next = s[p]
    BY <1>5, <2>1 DEF NextIn
  <2>3. itr.parent = s[p - 1] /\ itr.parent # 0
    BY <1>3, <1>5, <1>7, <2>2 DEF BeforeIn
  <2>. QED
    BY <1>3, <2>2, <2>3 DEF en
<1>. QED
  BY <1>6, <1>7

LEMMA SoundIsSound ==
  ASSUME TableSound(h, itr)
  PROVE  TableIsSound
<1>1. R!GrowsInTime
  <2>. SUFFICES ASSUME R!Exists, h.primeindex < Len(Primes)
       PROVE h.entrycount <= R!loadlimit(R!tablelength(h))
    BY DEF R!GrowsInTime
  <2>1. PICK ch : WellMade(h, ch)
    BY SoundIs DEF R!Exists
  <2>. QED
    BY <2>1 DEF WellMade, R!tablelength
<1>. QED
  BY <1>1, SoundTypes, SoundOnce, SoundPlace DEF TableIsSound

-----------------------------------------------------------------------------
(* The registry: no two of its entries have the same name. *)

OneEntryEach(t) ==
  \A e, f \in DOMAIN t.entries : t.entries[e].k = t.entries[f].k => e = f

(* The procedure of a name *)
HasProc(t, name, proc) ==
  \E e \in DOMAIN t.entries : t.entries[e].k = name /\ t.entries[e].v = proc

(* x is the registry t, but name has these procedures. *)
DiffersAt(t, x, name, procs) ==
  \A nm \in Keys : \A proc \in Values :
    HasProc(x, nm, proc) <=> IF nm = name THEN proc \in procs ELSE HasProc(t, nm, proc)

LEMMA EntryOfTable ==
  ASSUME NEW t, NEW ch, WellMade(t, ch), NEW e \in DOMAIN t.entries
  PROVE  t.entries[e].k \in Keys /\ t.entries[e].v \in Values /\ e # 0
<1>. DEFINE en == t.entries
<1>1. IsEntries(en)
  BY DEF WellMade, Made
<1>. HIDE DEF en
<1>2. e \in DOMAIN en
  BY DEF en
<1>3. e \in Nat \ {0} /\ en[e].k \in Keys /\ en[e].v \in Values
  BY <1>1, <1>2, EntryIs
<1>. QED
  BY <1>3 DEF en

(* A search for the name of an entry finds it. *)
LEMMA SearchesName ==
  ASSUME NEW t, NEW ch, WellMade(t, ch), OneEntryEach(t)
  PROVE  /\ \A e \in DOMAIN t.entries : R!Search(t, t.entries[e].k) = e
         /\ \A k \in Keys : R!Search(t, k) # 0 <=> \E e \in DOMAIN t.entries : t.entries[e].k = k
         /\ \A k \in Keys : R!Search(t, k) # 0 =>
              R!Search(t, k) \in DOMAIN t.entries /\ t.entries[R!Search(t, k)].k = k
<1>1. ASSUME NEW k \in Keys
      PROVE  IF R!Search(t, k) = 0 THEN \A f \in DOMAIN t.entries : t.entries[f].k # k
             ELSE R!Search(t, k) \in DOMAIN t.entries /\ t.entries[R!Search(t, k)].k = k
  BY RemovedMade DEF Loses
<1>2. \A e \in DOMAIN t.entries : t.entries[e].k \in Keys
  BY EntryOfTable
<1>. QED
  BY <1>1, <1>2 DEF OneEntryEach

(* arg_cmd_unregister, and the first half of arg_cmd_register *)
LEMMA Unregistered ==
  ASSUME NEW t, NEW ch, WellMade(t, ch), OneEntryEach(t), NEW name \in Keys
  PROVE  /\ OneEntryEach(R!Removed(t, name))
         /\ DiffersAt(t, R!Removed(t, name), name, {})
         /\ \A e \in DOMAIN R!Removed(t, name).entries :
              R!Removed(t, name).entries[e].k # name
<1>. DEFINE x == R!Removed(t, name)
            e == R!Search(t, name)
<1>1. CASE e = 0
  <2>1. x = t /\ \A f \in DOMAIN t.entries : t.entries[f].k # name
    BY <1>1, RemovedMade
  <2>. QED
    BY <2>1 DEF DiffersAt, HasProc
<1>2. CASE e # 0
  <2>1. Loses(t, x, e) /\ t.entries[e].k = name
    BY <1>2, RemovedMade
  <2>. HIDE DEF x, e
  <2>2. /\ DOMAIN x.entries = DOMAIN t.entries \ {e} /\ e \in DOMAIN t.entries
        /\ \A f \in DOMAIN x.entries :
             x.entries[f].k = t.entries[f].k /\ x.entries[f].v = t.entries[f].v
    BY <2>1 DEF Loses, SameNames
  <2>3. OneEntryEach(x)
    BY <2>2 DEF OneEntryEach
  <2>4. \A f \in DOMAIN x.entries : x.entries[f].k # name
    BY <2>1, <2>2 DEF OneEntryEach
  <2>5. DiffersAt(t, x, name, {})
    <3>1. ASSUME NEW nm \in Keys, NEW proc \in Values, nm # name
          PROVE  HasProc(x, nm, proc) <=> HasProc(t, nm, proc)
      BY <2>1, <2>2, <3>1 DEF HasProc
    <3>2. ASSUME NEW proc \in Values
          PROVE  ~ HasProc(x, name, proc)
      BY <2>4 DEF HasProc
    <3>. QED
      BY <3>1, <3>2 DEF DiffersAt
  <2>. QED
    BY <2>3, <2>4, <2>5 DEF x
<1>. QED
  BY <1>1, <1>2

LEMMA NewlyInserted ==
  ASSUME NEW t, NEW ch, WellMade(t, ch), OneEntryEach(t), t.entrycount < MaxEntries,
         NEW name \in Keys, NEW proc \in Values,
         \A e \in DOMAIN t.entries : t.entries[e].k # name
  PROVE  /\ OneEntryEach(R!Inserted(t, name, proc))
         /\ DiffersAt(t, R!Inserted(t, name, proc), name, {proc})
<1>. DEFINE x == R!Inserted(t, name, proc)
<1>1. PICK e \in Nat \ {0} : Gains(t, x, e, name, proc)
  BY InsertedMade DEF Inserts
<1>. HIDE DEF x
<1>2. /\ e \notin DOMAIN t.entries /\ DOMAIN x.entries = DOMAIN t.entries \cup {e}
      /\ x.entries[e].k = name /\ x.entries[e].v = proc
      /\ \A f \in DOMAIN t.entries :
           x.entries[f].k = t.entries[f].k /\ x.entries[f].v = t.entries[f].v
  BY <1>1 DEF Gains, SameNames
<1>3. OneEntryEach(x)
  BY <1>2 DEF OneEntryEach
<1>4. ASSUME NEW nm \in Keys, NEW pr \in Values
      PROVE  HasProc(x, nm, pr) <=> IF nm = name THEN pr \in {proc} ELSE HasProc(t, nm, pr)
  BY <1>2 DEF HasProc
<1>. QED
  BY <1>3, <1>4 DEF DiffersAt, x

(* arg_cmd_register *)
LEMMA RegisteredIs ==
  ASSUME NEW t, NEW ch, WellMade(t, ch), OneEntryEach(t),
         NEW name \in Keys, NEW proc \in Values,
         R!Search(t, name) # 0 \/ t.entrycount < MaxEntries
  PROVE  /\ \E ch2 : WellMade(R!Registered(t, name, proc), ch2)
         /\ OneEntryEach(R!Registered(t, name, proc))
         /\ DiffersAt(t, R!Registered(t, name, proc), name, {proc})
<1>1. CASE R!Search(t, name) = 0
  <2>1. R!Registered(t, name, proc) = R!Inserted(t, name, proc)
    BY <1>1 DEF R!Registered, R!NULL
  <2>2. \A e \in DOMAIN t.entries : t.entries[e].k # name
    BY <1>1, RemovedMade
  <2>. QED
    BY <1>1, <2>1, <2>2, InsertedMade, NewlyInserted DEF Inserts
<1>2. CASE R!Search(t, name) # 0
  <2>. DEFINE mid == R!Removed(t, name)
              e == R!Search(t, name)
  <2>1. R!Registered(t, name, proc) = R!Inserted(mid, name, proc)
    BY <1>2 DEF R!Registered, R!Replaced, R!NULL
  <2>2. (\E ch2 : WellMade(mid, ch2)) /\ Loses(t, mid, e)
    BY <1>2, RemovedMade
  <2>3. OneEntryEach(mid) /\ DiffersAt(t, mid, name, {})
        /\ \A f \in DOMAIN mid.entries : mid.entries[f].k # name
    BY Unregistered
  <2>. HIDE DEF mid, e
  <2>4. PICK ch2 : WellMade(mid, ch2)
    BY <2>2
  <2>5. mid.entrycount < MaxEntries
    <3>1. IsEntries(t.entries) /\ IsEntries(mid.entries)
      BY <2>4 DEF WellMade, Made
    <3>2. /\ mid.entrycount = Cardinality(DOMAIN mid.entries)
          /\ e \in DOMAIN t.entries /\ DOMAIN mid.entries = DOMAIN t.entries \ {e}
      BY <2>2, <2>4 DEF WellMade, Loses
    <3>3. IsFiniteSet(DOMAIN t.entries) /\ Cardinality(DOMAIN t.entries) \in 0 .. MaxEntries
      BY <3>1, EntriesFinite
    <3>4. Cardinality(DOMAIN t.entries \ {e}) = Cardinality(DOMAIN t.entries) - 1
      BY <3>2, <3>3, FS_RemoveElement
    <3>. QED
      BY <3>2, <3>3, <3>4, SizesAre
  <2>6. \E ch3 : WellMade(R!Inserted(mid, name, proc), ch3)
    BY <2>4, <2>5, InsertedMade DEF Inserts
  <2>7. /\ OneEntryEach(R!Inserted(mid, name, proc))
        /\ DiffersAt(mid, R!Inserted(mid, name, proc), name, {proc})
    BY <2>3, <2>4, <2>5, NewlyInserted
  <2>8. DiffersAt(t, R!Inserted(mid, name, proc), name, {proc})
    BY <2>3, <2>7 DEF DiffersAt
  <2>. QED
    BY <2>1, <2>6, <2>7, <2>8
<1>. QED
  BY <1>1, <1>2

-----------------------------------------------------------------------------
(* The registry as a function from names to procedures *)

CmdsOf(t) ==
  [k \in {t.entries[e].k : e \in DOMAIN t.entries} |-> t.entries[R!Search(t, k)].v]
NamesOf(t) == {k \in Keys : \E proc \in Values : HasProc(t, k, proc)}

IsRegister(t) == (\E ch : WellMade(t, ch)) /\ OneEntryEach(t)

LEMMA CmdsAre ==
  ASSUME NEW t, IsRegister(t)
  PROVE  /\ CmdsOf(t) = [k \in NamesOf(t) |-> CmdsOf(t)[k]]
         /\ DOMAIN CmdsOf(t) = NamesOf(t)
         /\ \A k \in NamesOf(t) : /\ CmdsOf(t)[k] \in Values
                                  /\ CmdsOf(t)[k] = t.entries[R!Search(t, k)].v
                                  /\ R!Search(t, k) # 0
                                  /\ \A proc \in Values :
                                       HasProc(t, k, proc) <=> proc = CmdsOf(t)[k]
         /\ \A k \in Keys \ NamesOf(t) : R!Search(t, k) = 0
<1>1. PICK ch : WellMade(t, ch)
  BY DEF IsRegister
<1>2. OneEntryEach(t)
  BY DEF IsRegister
<1>3. /\ \A k \in Keys : R!Search(t, k) # 0 <=> \E e \in DOMAIN t.entries : t.entries[e].k = k
      /\ \A k \in Keys : R!Search(t, k) # 0 =>
           R!Search(t, k) \in DOMAIN t.entries /\ t.entries[R!Search(t, k)].k = k
  BY <1>1, <1>2, SearchesName
<1>4. \A e \in DOMAIN t.entries : t.entries[e].k \in Keys /\ t.entries[e].v \in Values
  BY <1>1, EntryOfTable
<1>5. {t.entries[e].k : e \in DOMAIN t.entries} = NamesOf(t)
  BY <1>4 DEF NamesOf, HasProc
<1>6. CmdsOf(t) = [k \in NamesOf(t) |-> t.entries[R!Search(t, k)].v]
  BY <1>5 DEF CmdsOf
<1>7. ASSUME NEW k \in NamesOf(t)
      PROVE  /\ R!Search(t, k) # 0 /\ t.entries[R!Search(t, k)].v \in Values
             /\ \A proc \in Values :
                  HasProc(t, k, proc) <=> proc = t.entries[R!Search(t, k)].v
  <2>1. k \in Keys /\ \E e \in DOMAIN t.entries : t.entries[e].k = k
    BY DEF NamesOf, HasProc
  <2>2. R!Search(t, k) # 0 /\ R!Search(t, k) \in DOMAIN t.entries
          /\ t.entries[R!Search(t, k)].k = k
    BY <1>3, <2>1
  <2>. QED
    BY <1>2, <1>4, <2>2 DEF HasProc, OneEntryEach
<1>8. \A k \in Keys \ NamesOf(t) : R!Search(t, k) = 0
  BY <1>3, <1>5
<1>. QED
  BY <1>6, <1>7, <1>8

CmdsGained(t, x, name, proc) ==
  CmdsOf(x) = [nm \in DOMAIN CmdsOf(t) \cup {name} |->
                 IF nm = name THEN proc ELSE CmdsOf(t)[nm]]

LEMMA CmdsGain ==
  ASSUME NEW t, NEW x, IsRegister(t), IsRegister(x), NEW name \in Keys,
         NEW proc \in Values, DiffersAt(t, x, name, {proc})
  PROVE  CmdsGained(t, x, name, proc)
<1>1. NamesOf(x) = NamesOf(t) \cup {name}
  BY DEF NamesOf, DiffersAt
<1>2. ASSUME NEW nm \in NamesOf(x)
      PROVE  CmdsOf(x)[nm] = IF nm = name THEN proc ELSE CmdsOf(t)[nm]
  <2>1. nm \in Keys
    BY DEF NamesOf
  <2>2. \A pr \in Values :
          HasProc(x, nm, pr) <=> IF nm = name THEN pr = proc ELSE HasProc(t, nm, pr)
    BY <2>1 DEF DiffersAt
  <2>3. \A pr \in Values : HasProc(x, nm, pr) <=> pr = CmdsOf(x)[nm]
    BY <1>2, CmdsAre
  <2>4. nm # name => CmdsOf(t)[nm] \in Values /\ HasProc(t, nm, CmdsOf(t)[nm])
    BY <1>1, CmdsAre
  <2>. QED
    BY <2>2, <2>3, <2>4
<1>3. CmdsOf(x) = [nm \in NamesOf(x) |-> CmdsOf(x)[nm]] /\ DOMAIN CmdsOf(t) = NamesOf(t)
  BY CmdsAre
<1>. QED
  BY <1>1, <1>2, <1>3 DEF CmdsGained

LEMMA CmdsLose ==
  ASSUME NEW t, NEW x, IsRegister(t), IsRegister(x), NEW name \in Keys,
         DiffersAt(t, x, name, {})
  PROVE  CmdsOf(x) = [nm \in DOMAIN CmdsOf(t) \ {name} |-> CmdsOf(t)[nm]]
<1>1. NamesOf(x) = NamesOf(t) \ {name}
  BY DEF NamesOf, DiffersAt
<1>2. ASSUME NEW nm \in NamesOf(x)
      PROVE  CmdsOf(x)[nm] = CmdsOf(t)[nm]
  <2>1. nm \in Keys /\ nm # name
    BY <1>1 DEF NamesOf
  <2>2. \A pr \in Values : HasProc(x, nm, pr) <=> HasProc(t, nm, pr)
    BY <2>1 DEF DiffersAt
  <2>3. \A pr \in Values : HasProc(x, nm, pr) <=> pr = CmdsOf(x)[nm]
    BY <1>2, CmdsAre
  <2>4. CmdsOf(t)[nm] \in Values /\ HasProc(t, nm, CmdsOf(t)[nm])
    BY <1>1, CmdsAre
  <2>. QED
    BY <2>2, <2>3, <2>4
<1>3. CmdsOf(x) = [nm \in NamesOf(x) |-> CmdsOf(x)[nm]] /\ DOMAIN CmdsOf(t) = NamesOf(t)
  BY CmdsAre
<1>. QED
  BY <1>1, <1>2, <1>3

-----------------------------------------------------------------------------
(* The walk *)

Behind(t, x) ==
  Range(Tail(R!ChainFrom(t, x.e)))
    \cup UNION {Range(R!Chain(t, c)) : c \in x.index + 1 .. R!tablelength(t) - 1}
KeysOf(t, E) == {t.entries[e].k : e \in E}

LEMMA RestOfChain ==
  ASSUME NEW S, NEW s \in Seq(S), NEW p \in 1 .. Len(s)
  PROVE  Range(Tail(SubSeq(s, p, Len(s))))
           = {e \in S : \E q \in 1 .. Len(s) : q > p /\ s[q] = e}
<1>. DEFINE l == Len(s)
            u == SubSeq(s, p, l)
            r == Tail(u)
<1>0. l \in Nat /\ l \in Int /\ p \in Int /\ p <= l /\ \A q \in p .. l : s[q] \in S
  BY LenProperties
<1>1. /\ u \in Seq(S) /\ Len(u) = l - p + 1 /\ l \in Nat /\ u # <<>>
      /\ \A q \in 1 .. l - p + 1 : u[q] = s[p + q - 1]
  <2>. HIDE DEF l
  <2>1. /\ u \in Seq(S) /\ Len(u) = l - p + 1
        /\ \A q \in 1 .. l - p + 1 : u[q] = s[p + q - 1]
    BY <1>0, SubSeqProperties
  <2>2. u # <<>>
    BY <1>0, <2>1
  <2>. QED
    BY <1>0, <2>1, <2>2
<1>. HIDE DEF u
<1>2. r \in Seq(S) /\ Len(r) = Len(u) - 1 /\ \A q \in 1 .. Len(r) : r[q] = u[q + 1]
  BY <1>1
<1>. HIDE DEF r
<1>3. DOMAIN r = 1 .. l - p /\ \A q \in 1 .. l - p : r[q] = s[p + q] /\ s[p + q] \in S
  <2>1. ASSUME NEW q \in 1 .. l - p
        PROVE  r[q] = s[p + q] /\ s[p + q] \in S
    <3>1. q + 1 \in 1 .. l - p + 1 /\ p + (q + 1) - 1 = p + q /\ p + q \in 1 .. l
      BY <1>1
    <3>2. r[q] = u[q + 1] /\ u[q + 1] = s[p + (q + 1) - 1]
      BY <1>1, <1>2, <3>1
    <3>. QED
      BY <3>1, <3>2
  <2>. QED
    BY <1>1, <1>2, <2>1
<1>4. ASSUME NEW q \in 1 .. l, q > p
      PROVE  q - p \in 1 .. l - p /\ p + (q - p) = q
  BY <1>1, <1>4
<1>5. ASSUME NEW q \in 1 .. l - p
      PROVE  p + q \in 1 .. l /\ p + q > p
  BY <1>1
<1>6. Range(r) = {r[q] : q \in 1 .. l - p}
  BY <1>3 DEF Range
<1>7. ASSUME NEW e \in Range(r)
      PROVE  e \in S /\ \E q \in 1 .. l : q > p /\ s[q] = e
  BY <1>3, <1>5, <1>6
<1>8. ASSUME NEW e \in S, NEW q \in 1 .. l, q > p, s[q] = e
      PROVE  e \in Range(r)
  BY <1>3, <1>4, <1>6, <1>8
<1>. QED
  BY <1>7, <1>8 DEF r, u, l

(* What is behind the iterator *)
LEMMA BehindIs ==
  ASSUME NEW t, NEW ch, WellMade(t, ch),
         NEW bk \in 0 .. LastBucket(t.primeindex), NEW p \in 1 .. Len(ch[bk])
  PROVE  Behind(t, ItrPlace(ch, bk, p)) = Ahead(t, ch, bk, p)
<1>. DEFINE x == ItrPlace(ch, bk, p)
            last == LastBucket(t.primeindex)
            en == t.entries
            s == ch[bk]
<1>1. x.e = ch[bk][p] /\ x.index = bk
  BY PlaceItr
<1>2. t = Tab(t.primeindex, t.database, t.entrycount, t.entries)
        /\ Made(t.primeindex, t.database, t.entries, ch)
        /\ R!tablelength(t) = last + 1 /\ last \in Nat
  BY WellMadeMeans
<1>3. /\ \A c \in 0 .. last : R!Chain(t, c) = ch[c]
      /\ R!ChainFrom(t, ch[bk][p]) = SubSeq(s, p, Len(s))
  BY <1>2, ChainsAre
<1>4. \A c \in 0 .. last : /\ ch[c] \in Seq(DOMAIN en) /\ DOMAIN ch[c] = 1 .. Len(ch[c])
                           /\ \A q \in 1 .. Len(ch[c]) : ch[c][q] \in DOMAIN en
  BY <1>2, MadeIs
<1>5. \A c \in 0 .. last : Range(ch[c]) = {ch[c][q] : q \in 1 .. Len(ch[c])}
  BY <1>4 DEF Range
<1>6. Range(Tail(R!ChainFrom(t, x.e)))
        = {e \in DOMAIN en : \E q \in 1 .. Len(s) : q > p /\ s[q] = e}
  BY <1>1, <1>3, <1>4, RestOfChain
<1>7. UNION {Range(R!Chain(t, c)) : c \in x.index + 1 .. R!tablelength(t) - 1}
        = UNION {Range(ch[c]) : c \in bk + 1 .. last}
  <2>1. R!tablelength(t) - 1 = last
    BY <1>2
  <2>2. \A c \in bk + 1 .. last : c \in 0 .. last
    BY <1>2
  <2>. HIDE DEF x, last
  <2>. QED
    BY <1>1, <1>3, <2>1, <2>2
<1>8. Behind(t, x) = {e \in DOMAIN en : \E q \in 1 .. Len(s) : q > p /\ s[q] = e}
                       \cup UNION {Range(ch[c]) : c \in bk + 1 .. last}
  <2>. HIDE DEF x, last, s, en
  <2>. QED
    BY <1>6, <1>7 DEF Behind
<1>9. \A d \in bk .. last : d \in 0 .. last /\ (d # bk => d \in bk + 1 .. last)
  BY <1>2
<1>10. \A d \in bk + 1 .. last : d \in bk .. last /\ d \in 0 .. last /\ d # bk
  BY <1>2
<1>11. bk \in bk .. last /\ bk \in 0 .. last
  BY <1>2
<1>12. Ahead(t, ch, bk, p)
         = {e \in DOMAIN en : \E d \in bk .. last :
              \E q \in 1 .. Len(ch[d]) : (d = bk => q > p) /\ ch[d][q] = e}
  BY DEF Ahead
<1>. HIDE DEF x, last, en
<1>13. ASSUME NEW e \in Behind(t, x)
       PROVE  e \in Ahead(t, ch, bk, p)
  <2>1. CASE e \in DOMAIN en /\ \E q \in 1 .. Len(s) : q > p /\ s[q] = e
    BY <1>11, <1>12, <2>1
  <2>2. ASSUME NEW c \in bk + 1 .. last, e \in Range(ch[c])
        PROVE  e \in Ahead(t, ch, bk, p)
    <3>1. c \in bk .. last /\ c \in 0 .. last /\ c # bk
      BY <1>10
    <3>2. PICK q \in 1 .. Len(ch[c]) : e = ch[c][q]
      BY <1>5, <2>2, <3>1
    <3>3. e \in DOMAIN en
      BY <1>4, <3>1, <3>2
    <3>. QED
      BY <1>12, <3>1, <3>2, <3>3
  <2>3. CASE e \in UNION {Range(ch[c]) : c \in bk + 1 .. last}
    BY <2>2, <2>3
  <2>. QED
    BY <1>8, <2>1, <2>3
<1>14. ASSUME NEW e \in Ahead(t, ch, bk, p)
       PROVE  e \in Behind(t, x)
  <2>1. PICK d \in bk .. last :
          e \in DOMAIN en /\ \E q \in 1 .. Len(ch[d]) : (d = bk => q > p) /\ ch[d][q] = e
    BY <1>12
  <2>2. PICK q \in 1 .. Len(ch[d]) : (d = bk => q > p) /\ ch[d][q] = e
    BY <2>1
  <2>3. d \in 0 .. last
    BY <1>9
  <2>4. CASE d = bk
    BY <1>8, <2>1, <2>2, <2>4
  <2>5. CASE d # bk
    <3>1. d \in bk + 1 .. last
      BY <1>9, <2>5
    <3>2. e \in Range(ch[d])
      BY <1>5, <2>2, <2>3
    <3>. QED
      BY <1>8, <3>1, <3>2
  <2>. QED
    BY <2>4, <2>5
<1>. QED
  BY <1>13, <1>14 DEF x

(* The iterator where a walk is at *)
WalkOf(t, x) ==
  IF x.e = 0 THEN [at |-> Nothing, left |-> {}]
  ELSE [at |-> t.entries[x.e].k, left |-> KeysOf(t, Behind(t, x))]

(* A walk goes to one of the names, or to its end. *)
GoesTo(names, w) ==
  w \in IF names = {} THEN {[at |-> Nothing, left |-> {}]}
        ELSE {[at |-> nm, left |-> names \ {nm}] : nm \in names}

LEMMA WalkGoes ==
  ASSUME NEW t, NEW ch, WellMade(t, ch), OneEntryEach(t), NEW E \in SUBSET DOMAIN t.entries,
         NEW y, ItrAt(t, ch, y),
         \/ y.e = 0 /\ E = {}
         \/ \E bk2 \in 0 .. LastBucket(t.primeindex) :
              \E p2 \in 1 .. Len(ch[bk2]) :
                /\ y.e = ch[bk2][p2] /\ y.index = bk2 /\ ch[bk2][p2] \in E
                /\ Ahead(t, ch, bk2, p2) = E \ {ch[bk2][p2]}
  PROVE  GoesTo(KeysOf(t, E), WalkOf(t, y))
<1>1. CASE y.e = 0 /\ E = {}
  BY <1>1 DEF GoesTo, KeysOf, WalkOf
<1>2. ASSUME NEW bk2 \in 0 .. LastBucket(t.primeindex), NEW p2 \in 1 .. Len(ch[bk2]),
             y.e = ch[bk2][p2], y.index = bk2, ch[bk2][p2] \in E,
             Ahead(t, ch, bk2, p2) = E \ {ch[bk2][p2]}
      PROVE  GoesTo(KeysOf(t, E), WalkOf(t, y))
  <2>. DEFINE e == ch[bk2][p2]
  <2>1. e # 0
    BY PlaceItr
  <2>2. y = ItrPlace(ch, bk2, p2)
    <3>1. PICK q \in 1 .. Len(ch[y.index]) : y = ItrPlace(ch, y.index, q)
      BY <1>2, <2>1, ItrIsAt
    <3>2. ch[bk2][q] = ch[bk2][p2]
      BY <1>2, <3>1, PlaceItr
    <3>3. q = p2
      BY <1>2, <3>1, <3>2, OnePlace
    <3>. QED
      BY <1>2, <3>1, <3>3
  <2>3. Behind(t, y) = E \ {e}
    BY <1>2, <2>2, BehindIs
  <2>4. WalkOf(t, y) = [at |-> t.entries[e].k, left |-> KeysOf(t, E \ {e})]
    BY <1>2, <2>1, <2>3 DEF WalkOf
  <2>5. KeysOf(t, E \ {e}) = KeysOf(t, E) \ {t.entries[e].k}
    BY <1>2 DEF KeysOf, OneEntryEach
  <2>6. t.entries[e].k \in KeysOf(t, E)
    BY <1>2 DEF KeysOf
  <2>. QED
    BY <2>4, <2>5, <2>6 DEF GoesTo
<1>. QED
  BY <1>1, <1>2

LEMMA WalkAdvances ==
  ASSUME NEW t, NEW ch, WellMade(t, ch), OneEntryEach(t), NEW x, ItrAt(t, ch, x), x.e # 0
  PROVE  /\ WalkOf(t, x) # [at |-> Nothing, left |-> {}]
         /\ GoesTo(WalkOf(t, x).left, WalkOf(t, R!Advanced(t, x)))
<1>1. PICK p \in 1 .. Len(ch[x.index]) : x = ItrPlace(ch, x.index, p)
  BY ItrIsAt
<1>2. x.index \in 0 .. LastBucket(t.primeindex)
  BY ItrIsAt
<1>3. Behind(t, x) = Ahead(t, ch, x.index, p)
  BY <1>1, <1>2, BehindIs
<1>4. WalkOf(t, x) = [at |-> t.entries[x.e].k, left |-> KeysOf(t, Ahead(t, ch, x.index, p))]
  BY <1>3 DEF WalkOf
<1>5. x.e \in DOMAIN t.entries
  BY <1>1, <1>2, PlaceItr
<1>6. t.entries[x.e].k # Nothing
  BY <1>5, EntryOfTable, SizesAre
<1>7. /\ ItrAt(t, ch, R!Advanced(t, x))
      /\ WentOn(t, ch, x.index, p, R!Advanced(t, x))
  BY <1>1, <1>2, AdvancedIs
<1>8. GoesTo(KeysOf(t, Ahead(t, ch, x.index, p)), WalkOf(t, R!Advanced(t, x)))
  BY <1>7, WalkGoes DEF WentOn, Ahead
<1>. QED
  BY <1>4, <1>6, <1>8

LEMMA WalkBegins ==
  ASSUME NEW t, NEW ch, WellMade(t, ch), OneEntryEach(t)
  PROVE  GoesTo(KeysOf(t, DOMAIN t.entries), WalkOf(t, R!AtBucket(t, FirstPlace(t))))
<1>1. /\ ItrAt(t, ch, R!AtBucket(t, FirstPlace(t)))
      /\ BeganAt(t, ch, R!AtBucket(t, FirstPlace(t)))
  BY CreatedIs
<1>2. \A bk2 \in 0 .. LastBucket(t.primeindex) :
        \A p2 \in 1 .. Len(ch[bk2]) : ch[bk2][p2] \in DOMAIN t.entries
  BY PlaceItr
<1>. QED
  BY <1>1, <1>2, WalkGoes DEF BeganAt

LEMMA WalkSeeks ==
  ASSUME NEW t, NEW ch, WellMade(t, ch), OneEntryEach(t), NEW x, NEW name \in Keys
  PROVE  \/ Found(t, name, x) = x
         \/ /\ name \in DOMAIN CmdsOf(t)
            /\ WalkOf(t, Found(t, name, x))
                 \in {[at |-> name, left |-> names] :
                        names \in SUBSET (DOMAIN CmdsOf(t) \ {name})}
<1>. DEFINE e == R!Search(t, name)
            y == Found(t, name, x)
<1>1. SUFFICES ASSUME y # x
      PROVE  /\ name \in DOMAIN CmdsOf(t)
             /\ WalkOf(t, y) \in {[at |-> name, left |-> names] :
                                   names \in SUBSET (DOMAIN CmdsOf(t) \ {name})}
  OBVIOUS
<1>2. /\ e \in DOMAIN t.entries /\ t.entries[e].k = name
      /\ \E bk \in 0 .. LastBucket(t.primeindex) :
           \E p \in 1 .. Len(ch[bk]) : ch[bk][p] = e /\ y = ItrPlace(ch, bk, p)
  BY <1>1, FoundIs
<1>. HIDE DEF e, y
<1>3. PICK bk \in 0 .. LastBucket(t.primeindex) :
        \E p \in 1 .. Len(ch[bk]) : ch[bk][p] = e /\ y = ItrPlace(ch, bk, p)
  BY <1>2
<1>4. PICK p \in 1 .. Len(ch[bk]) : ch[bk][p] = e /\ y = ItrPlace(ch, bk, p)
  BY <1>3
<1>5. y.e = e /\ e # 0 /\ Behind(t, y) = Ahead(t, ch, bk, p)
  BY <1>4, PlaceItr, BehindIs
<1>6. e \notin Ahead(t, ch, bk, p) /\ Ahead(t, ch, bk, p) \subseteq DOMAIN t.entries
  <2>1. ASSUME NEW d \in bk .. LastBucket(t.primeindex), NEW q \in 1 .. Len(ch[d]),
               d = bk => q > p
        PROVE  ch[d][q] # e
    <3>1. d \in 0 .. LastBucket(t.primeindex)
      BY WellMadeMeans
    <3>2. ch[d][q] = e => d = bk /\ q = p
      BY <1>4, <3>1, OnePlace
    <3>3. p \in Int /\ ~ (p > p)
      OBVIOUS
    <3>. QED
      BY <2>1, <3>2, <3>3
  <2>. QED
    BY <2>1 DEF Ahead
<1>7. WalkOf(t, y) = [at |-> name, left |-> KeysOf(t, Ahead(t, ch, bk, p))]
  BY <1>2, <1>5 DEF WalkOf
<1>8. DOMAIN CmdsOf(t) = KeysOf(t, DOMAIN t.entries)
  BY DEF CmdsOf, KeysOf
<1>9. KeysOf(t, Ahead(t, ch, bk, p)) \in SUBSET (DOMAIN CmdsOf(t) \ {name})
  BY <1>2, <1>6, <1>8 DEF KeysOf, OneEntryEach
<1>10. name \in DOMAIN CmdsOf(t)
  BY <1>2, <1>8 DEF KeysOf
<1>. QED
  BY <1>7, <1>9, <1>10

-----------------------------------------------------------------------------(* Every step keeps the invariant *)

(* The registry has a table from the beginning, and keeps its names apart. *)
RegistryInv ==
  /\ TableSound(h, itr)
  /\ IsRegistry => h.primeindex # 0 /\ OneEntryEach(h)

LEMMA RegistryInitInv == PartsInit => RegistryInv
<1>. SUFFICES ASSUME PartsInit
     PROVE RegistryInv
  OBVIOUS
<1>1. CASE part = "registry"
  <2>1. h = R!NewTable(MinSize) /\ itr = R!NoItr
    BY <1>1 DEF PartsInit, R!RegistryInit
  <2>2. /\ \E ch : WellMade(R!NewTable(MinSize), ch)
        /\ DOMAIN R!NewTable(MinSize).entries = {}
    BY SizesAre, NewTableMade
  <2>. HIDE DEF PartsInit
  <2>3. TableSound(h, itr) /\ h.primeindex # 0
    BY <2>1, <2>2, SoundWithout
  <2>. QED
    BY <2>1, <2>2, <2>3 DEF RegistryInv, OneEntryEach
<1>2. CASE part # "registry"
  <2>1. h = R!NoTable /\ itr = R!NoItr
    BY <1>2 DEF PartsInit, R!Init
  <2>. QED
    BY <1>2, <2>1, NoTableIs DEF RegistryInv, IsRegistry
<1>. QED
  BY <1>1, <1>2

LEMMA RegisterIs ==
  RegistryInv /\ IsRegistry => IsRegister(h) /\ \E ch : WellMade(h, ch) /\ ItrAt(h, ch, itr)
BY SoundIs DEF RegistryInv, IsRegister

LEMMA RegistryStep ==
  ASSUME RegistryInv, IsRegistry, R!RegistryNext
  PROVE  TableSound(h', itr') /\ h'.primeindex # 0 /\ OneEntryEach(h')
<1>1. PICK ch : WellMade(h, ch) /\ ItrAt(h, ch, itr)
  BY RegisterIs
<1>2. TableSound(h, itr) /\ h.primeindex # 0 /\ OneEntryEach(h)
  BY DEF RegistryInv
<1>3. ASSUME NEW name \in Keys, R!Unregister(name)
      PROVE  TableSound(h', itr') /\ h'.primeindex # 0 /\ OneEntryEach(h')
  <2>1. h' = R!Removed(h, name) /\ itr' = R!NoItr
    BY <1>3 DEF R!Unregister, R!RemoveKey
  <2>2. \E ch2 : WellMade(R!Removed(h, name), ch2)
    BY <1>1, RemoveSound
  <2>. QED
    BY <1>1, <1>2, <2>1, <2>2, SoundWithout, Unregistered
<1>4. ASSUME NEW name \in Keys, NEW proc \in Values, R!Register(name, proc)
      PROVE  TableSound(h', itr') /\ h'.primeindex # 0 /\ OneEntryEach(h')
  <2>1. /\ h' = R!Registered(h, name, proc) /\ itr' = R!NoItr
        /\ R!Search(h, name) # 0 \/ h.entrycount < MaxEntries
    BY <1>4 DEF R!Register, R!NULL
  <2>. QED
    BY <1>1, <1>2, <2>1, SoundWithout, RegisteredIs
<1>5. ASSUME NEW name \in Keys, R!Info(name)
      PROVE  TableSound(h', itr') /\ h'.primeindex # 0 /\ OneEntryEach(h')
  BY <1>2, <1>5 DEF R!Info, R!vars
<1>6. ASSUME NEW name \in Keys, R!Seek(name)
      PROVE  TableSound(h', itr') /\ h'.primeindex # 0 /\ OneEntryEach(h')
  <2>1. R!Next /\ h' = h
    BY <1>6 DEF R!Seek, R!Next, R!ItrSearch
  <2>. QED
    BY <1>2, <2>1, TableStep
<1>7. ASSUME R!Walk
      PROVE  TableSound(h', itr') /\ h'.primeindex # 0 /\ OneEntryEach(h')
  <2>1. R!Next /\ h' = h
    BY <1>7 DEF R!Walk, R!Next, R!ItrCreate, R!ItrAdvance
  <2>. QED
    BY <1>2, <2>1, TableStep
<1>. QED
  BY <1>3, <1>4, <1>5, <1>6, <1>7 DEF R!RegistryNext

LEMMA RegistryInvStep == RegistryInv /\ [PartsNext]_allvars => RegistryInv'
<1>. SUFFICES ASSUME RegistryInv, [PartsNext]_allvars
     PROVE RegistryInv'
  OBVIOUS
<1>1. part' = part
  BY DEF PartsNext, allvars
<1>2. CASE h' = h /\ itr' = itr
  BY <1>1, <1>2 DEF RegistryInv, IsRegistry, OneEntryEach
<1>3. CASE part = "table" /\ R!Next
  <2>1. TableSound(h', itr')
    BY <1>3, TableStep DEF RegistryInv
  <2>. QED
    BY <1>1, <1>3, <2>1 DEF RegistryInv, IsRegistry
<1>4. CASE part = "registry" /\ R!RegistryNext
  BY <1>1, <1>4, RegistryStep DEF RegistryInv, IsRegistry
<1>. QED
  BY <1>2, <1>3, <1>4 DEF PartsNext, allvars, tablevars


(* Through growth, removals and walks every entry of the table is in exactly
   one chain, the one its key is looked for in; no pointer leads to a block that
   was given back, the iterator knows what points to its entry, also after it
   removed one, and the table grows before it is too full
   (arg_hashtable_insert, _expand, _remove, _itr_remove).  It holds for all
   keys, hashes and lists of sizes: of these it needs only that the sizes lie
   at least two apart. *)
THEOREM TableIsKept == PartsSpec => []TableIsSound
<1>1. RegistryInv => TableIsSound
  BY SoundIsSound DEF RegistryInv
<1>. QED
  BY <1>1, RegistryInitInv, RegistryInvStep, PTL DEF PartsSpec

-----------------------------------------------------------------------------
(* The refinement *)

CommandsAre == IF IsRegistry THEN CmdsOf(h) ELSE <<>>
WalkIs == IF IsRegistry THEN WalkOf(h, itr) ELSE [at |-> Nothing, left |-> {}]

LEMMA PromisedInit == Promised!Init <=> /\ CommandsAre = <<>>
                                        /\ WalkIs = [at |-> Nothing, left |-> {}]
                                        /\ answer = Nothing
BY DEF Promised!Init, Promised!NoWalk, CommandsAre, WalkIs, CmdsOf, WalkOf, NameOf, NamesBehind,
       Behind, KeysOf, R!NULL

LEMMA PromisedRegister ==
  ASSUME NEW name, NEW proc,
         CommandsAre' = [nm \in DOMAIN CommandsAre \cup {name} |->
                           IF nm = name THEN proc ELSE CommandsAre[nm]],
         WalkIs' = [at |-> Nothing, left |-> {}], UNCHANGED answer
  PROVE  Promised!Register(name, proc)
BY DEF Promised!Register, Promised!NoWalk, CommandsAre, WalkIs, CmdsOf, WalkOf,
       NameOf, NamesBehind, Behind, KeysOf, R!NULL

LEMMA PromisedUnregister ==
  ASSUME NEW name,
         CommandsAre' = [nm \in DOMAIN CommandsAre \ {name} |-> CommandsAre[nm]],
         WalkIs' = [at |-> Nothing, left |-> {}], UNCHANGED answer
  PROVE  Promised!Unregister(name)
BY DEF Promised!Unregister, Promised!Restrict, Promised!NoWalk, CommandsAre, WalkIs, CmdsOf, WalkOf,
       NameOf, NamesBehind, Behind, KeysOf, R!NULL

LEMMA PromisedLook ==
  ASSUME NEW name,
         answer' = IF name \in DOMAIN CommandsAre THEN CommandsAre[name] ELSE Nothing,
         UNCHANGED <<CommandsAre, WalkIs>>
  PROVE  Promised!Look(name)
BY DEF Promised!Look, CommandsAre, WalkIs, CmdsOf, WalkOf,
       NameOf, NamesBehind, Behind, KeysOf, R!NULL

LEMMA PromisedSeek ==
  ASSUME NEW name, name \in DOMAIN CommandsAre,
         WalkIs' \in {[at |-> name, left |-> names] :
                        names \in SUBSET (DOMAIN CommandsAre \ {name})},
         UNCHANGED <<CommandsAre, answer>>
  PROVE  Promised!Seek(name)
BY DEF Promised!Seek, CommandsAre, WalkIs, CmdsOf, WalkOf,
       NameOf, NamesBehind, Behind, KeysOf, R!NULL

LEMMA PromisedBegin ==
  ASSUME GoesTo(DOMAIN CommandsAre, WalkIs'), UNCHANGED <<CommandsAre, answer>>
  PROVE  Promised!Begin
BY DEF Promised!Begin, Promised!Goes, Promised!NoWalk, GoesTo, CommandsAre, WalkIs, CmdsOf, WalkOf,
       NameOf, NamesBehind, Behind, KeysOf, R!NULL

LEMMA PromisedAdvance ==
  ASSUME WalkIs # [at |-> Nothing, left |-> {}],
         GoesTo(WalkIs.left, WalkIs'), UNCHANGED <<CommandsAre, answer>>
  PROVE  Promised!Advance
BY DEF Promised!Advance, Promised!Goes, Promised!NoWalk, GoesTo, CommandsAre, WalkIs, CmdsOf, WalkOf,
       NameOf, NamesBehind, Behind, KeysOf, R!NULL

LEMMA PromisedStutter ==
  ASSUME UNCHANGED <<CommandsAre, WalkIs, answer>>
  PROVE  UNCHANGED Promised!vars
BY DEF Promised!vars, CommandsAre, WalkIs, CmdsOf, WalkOf,
       NameOf, NamesBehind, Behind, KeysOf, R!NULL

LEMMA PromisedStart == PartsInit => Promised!Init
<1>. SUFFICES ASSUME PartsInit
     PROVE /\ CommandsAre = <<>> /\ WalkIs = [at |-> Nothing, left |-> {}]
           /\ answer = Nothing
  BY PromisedInit
<1>1. answer = Nothing
  BY DEF PartsInit, R!RegistryInit
<1>2. CASE IsRegistry
  <2>1. h = R!NewTable(MinSize) /\ itr = R!NoItr
    BY <1>2 DEF PartsInit, R!RegistryInit, IsRegistry
  <2>2. DOMAIN h.entries = {} /\ itr.e = 0
    BY <2>1, SizesAre, NewTableMade, NoTableIs
  <2>3. CmdsOf(h) = <<>>
    BY <2>2 DEF CmdsOf
  <2>4. WalkOf(h, itr) = [at |-> Nothing, left |-> {}]
    BY <2>2 DEF WalkOf
  <2>. QED
    BY <1>1, <1>2, <2>3, <2>4 DEF CommandsAre, WalkIs
<1>3. CASE ~ IsRegistry
  BY <1>1, <1>3 DEF CommandsAre, WalkIs
<1>. QED
  BY <1>2, <1>3

(* The walk is over, or there is none. *)
LEMMA NoItrWalks == \A t : WalkOf(t, R!NoItr) = [at |-> Nothing, left |-> {}]
BY NoTableIs DEF WalkOf

LEMMA RegistryImplements ==
  ASSUME RegistryInv, IsRegistry, IsRegistry', R!RegistryNext
  PROVE  Promised!Next \/ UNCHANGED Promised!vars
<1>1. PICK ch : WellMade(h, ch) /\ ItrAt(h, ch, itr)
  BY RegisterIs
<1>2. OneEntryEach(h) /\ h.primeindex # 0 /\ IsRegister(h)
  BY RegisterIs DEF RegistryInv
<1>3. IsRegister(h')
  BY RegistryStep, SoundIs DEF IsRegister
<1>4. /\ CommandsAre = CmdsOf(h) /\ CommandsAre' = CmdsOf(h')
      /\ WalkIs = WalkOf(h, itr) /\ WalkIs' = WalkOf(h', itr')
  BY DEF CommandsAre, WalkIs, CmdsOf, WalkOf, Behind, KeysOf
<1>5. ASSUME NEW name \in Keys, R!Unregister(name)
      PROVE  Promised!Next
  <2>1. h' = R!Removed(h, name) /\ itr' = R!NoItr /\ answer' = answer
    BY <1>5 DEF R!Unregister, R!RemoveKey
  <2>2. DiffersAt(h, h', name, {})
    BY <1>1, <1>2, <2>1, Unregistered
  <2>3. CmdsOf(h') = [nm \in DOMAIN CmdsOf(h) \ {name} |-> CmdsOf(h)[nm]]
    BY <1>2, <1>3, <2>2, CmdsLose
  <2>4. WalkOf(h', itr') = [at |-> Nothing, left |-> {}]
    BY <2>1, NoItrWalks
  <2>5. Promised!Unregister(name)
    BY <1>4, <2>1, <2>3, <2>4, PromisedUnregister
  <2>. QED
    BY <2>5 DEF Promised!Next
<1>6. ASSUME NEW name \in Keys, NEW proc \in Values, R!Register(name, proc)
      PROVE  Promised!Next
  <2>1. /\ h' = R!Registered(h, name, proc) /\ itr' = R!NoItr /\ answer' = answer
        /\ R!Search(h, name) # 0 \/ h.entrycount < MaxEntries
    BY <1>6 DEF R!Register, R!NULL
  <2>2. DiffersAt(h, h', name, {proc})
    BY <1>1, <1>2, <2>1, RegisteredIs
  <2>3. CmdsOf(h') = [nm \in DOMAIN CmdsOf(h) \cup {name} |->
                        IF nm = name THEN proc ELSE CmdsOf(h)[nm]]
    <3>1. CmdsGained(h, h', name, proc)
      BY <1>2, <1>3, <2>2, CmdsGain
    <3>. QED
      BY Zenon, <3>1 DEF CmdsGained
  <2>4. WalkOf(h', itr') = [at |-> Nothing, left |-> {}]
    BY <2>1, NoItrWalks
  <2>5. Promised!Register(name, proc)
    BY <1>4, <2>1, <2>3, <2>4, PromisedRegister
  <2>. QED
    BY <2>5 DEF Promised!Next
<1>7. ASSUME NEW name \in Keys, R!Info(name)
      PROVE  Promised!Next
  <2>1. /\ h' = h /\ itr' = itr
        /\ answer' = IF R!Search(h, name) = 0 THEN Nothing
                     ELSE h.entries[R!Search(h, name)].v
    BY <1>7 DEF R!Info, R!vars, R!NULL
  <2>2. answer' = IF name \in DOMAIN CmdsOf(h) THEN CmdsOf(h)[name] ELSE Nothing
    BY <1>2, <2>1, CmdsAre
  <2>3. Promised!Look(name)
    BY <1>4, <2>1, <2>2, PromisedLook
  <2>. QED
    BY <2>3 DEF Promised!Next
<1>8. ASSUME NEW name \in Keys, R!Seek(name)
      PROVE  Promised!Next \/ UNCHANGED Promised!vars
  <2>1. h' = h /\ itr' = Found(h, name, itr) /\ answer' = answer
    BY <1>8 DEF R!Seek, R!ItrSearch, Found, R!NULL
  <2>2. CASE itr' = itr
    <3>1. UNCHANGED <<CommandsAre, WalkIs, answer>>
      BY <1>4, <2>1, <2>2
    <3>. QED
      BY <3>1, PromisedStutter
  <2>3. CASE itr' # itr
    <3>1. /\ name \in DOMAIN CmdsOf(h)
          /\ WalkOf(h, itr') \in {[at |-> name, left |-> names] :
                                   names \in SUBSET (DOMAIN CmdsOf(h) \ {name})}
      BY <1>1, <1>2, <2>1, <2>3, WalkSeeks
    <3>2. Promised!Seek(name)
      BY <1>4, <2>1, <3>1, PromisedSeek
    <3>. QED
      BY <3>2 DEF Promised!Next
  <2>. QED
    BY <2>2, <2>3
<1>9. ASSUME R!Walk
      PROVE  Promised!Next
  <2>1. h' = h /\ answer' = answer
    BY <1>9 DEF R!Walk, R!ItrCreate, R!ItrAdvance
  <2>2. CASE R!ItrCreate
    <3>1. itr' = R!AtBucket(h, FirstPlace(h))
      BY <2>2 DEF R!ItrCreate, FirstPlace
    <3>2. GoesTo(KeysOf(h, DOMAIN h.entries), WalkOf(h, itr'))
      BY <1>1, <1>2, <3>1, WalkBegins
    <3>3. KeysOf(h, DOMAIN h.entries) = DOMAIN CmdsOf(h)
      BY DEF KeysOf, CmdsOf
    <3>4. Promised!Begin
      BY <1>4, <2>1, <3>2, <3>3, PromisedBegin
    <3>. QED
      BY <3>4 DEF Promised!Next
  <2>3. CASE R!ItrAdvance
    <3>1. itr' = R!Advanced(h, itr) /\ itr.e # 0
      BY <2>3 DEF R!ItrAdvance, R!NULL
    <3>2. /\ WalkOf(h, itr) # [at |-> Nothing, left |-> {}]
          /\ GoesTo(WalkOf(h, itr).left, WalkOf(h, itr'))
      BY <1>1, <1>2, <3>1, WalkAdvances
    <3>3. Promised!Advance
      BY <1>4, <2>1, <3>2, PromisedAdvance
    <3>. QED
      BY <3>3 DEF Promised!Next
  <2>. QED
    BY <1>9, <2>2, <2>3 DEF R!Walk
<1>. QED
  BY <1>5, <1>6, <1>7, <1>8, <1>9 DEF R!RegistryNext

LEMMA PartsImplement ==
  RegistryInv /\ [PartsNext]_allvars => [Promised!Next]_Promised!vars
<1>. SUFFICES ASSUME RegistryInv, [PartsNext]_allvars
     PROVE Promised!Next \/ UNCHANGED Promised!vars
  OBVIOUS
<1>1. part' = part
  BY DEF PartsNext, allvars
<1>2. IsRegistry' = IsRegistry
  BY <1>1 DEF IsRegistry
<1>3. CASE IsRegistry /\ R!RegistryNext
  BY <1>2, <1>3, RegistryImplements
<1>4. CASE UNCHANGED tablevars
  <2>1. h' = h /\ itr' = itr /\ answer' = answer
    BY <1>4 DEF tablevars
  <2>2. UNCHANGED <<CommandsAre, WalkIs, answer>>
    BY <1>2, <2>1 DEF CommandsAre, WalkIs, CmdsOf, WalkOf, Behind, KeysOf
  <2>. QED
    BY <2>2, PromisedStutter
<1>5. CASE ~ IsRegistry /\ answer' = answer
  <2>1. UNCHANGED <<CommandsAre, WalkIs, answer>>
    BY <1>2, <1>5 DEF CommandsAre, WalkIs
  <2>. QED
    BY <2>1, PromisedStutter
<1>. QED
  BY <1>3, <1>4, <1>5 DEF PartsNext, allvars, IsRegistry

(* The registry implements module Commands: a name has the procedure that was
   registered last, however often the table has grown since and whatever the
   order of its chains, and a walk comes to every name exactly once
   (arg_cmd_register, _unregister, arg_cmd_info, arg_cmd_itr_create, _advance,
   _search).  Register removes before it inserts; that no name has two entries
   is what makes the first entry that is found the only one. *)
THEOREM RegistryKeepsItsPromise == PartsSpec => ImplementsCommands
BY RegistryInitInv, RegistryInvStep, PromisedStart, PartsImplement, PTL
   DEF PartsSpec, ImplementsCommands, Promised!Spec
=============================================================================
