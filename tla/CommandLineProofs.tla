--------------------------- MODULE CommandLineProofs ---------------------------
(***************************************************************************)
(* The parser, for every table, all words and every size of the array of   *)
(* errors: it stays within its arrays, loses no word while it moves        *)
(* operands about, and accepts only what the table asks for.  That no word *)
(* is lost is a bijection between the places of a word before and after    *)
(* two blocks were exchanged; that the blocks are never empty holds since  *)
(* a block of operands ends at an option, which is read before the next    *)
(* exchange.                                                               *)
(***************************************************************************)
EXTENDS Main, FiniteSetTheorems, FunctionTheorems, SequenceTheorems,
        WellFoundedInduction, TLAPS

-----------------------------------------------------------------------------
(* The least of some numbers: the intervals up to them are finite sets, and
   a smallest one of these is an interval up to the least number. *)

LEMMA LeastNumber ==
  ASSUME NEW T \in SUBSET Nat, T # {}
  PROVE  \E x \in T : \A y \in T : x <= y
<1>1. PICK n \in T : TRUE
  OBVIOUS
<1>. DEFINE upto == {i \in T : i <= n}
            intervals == {0 .. k : k \in upto}
<1>2. IsFiniteSet(0 .. n)
  BY FS_Interval
<1>3. intervals \in SUBSET (SUBSET (0 .. n))
  OBVIOUS
<1>4. intervals # {}
  BY <1>1
<1>5. IsWellFoundedOn(StrictSubsetOrdering(0 .. n), SUBSET (0 .. n))
  BY <1>2, FS_FiniteSubsetsOfFinite, FS_StrictSubsetOrderingWellFounded
<1>6. \E X \in intervals : \A Y \in intervals :
        ~ (<<Y, X>> \in StrictSubsetOrdering(0 .. n))
  <2>. HIDE DEF intervals
  <2>. QED  BY <1>3, <1>4, <1>5, WFMin
<1>7. PICK x \in upto : \A Y \in intervals :
        ~ (<<Y, 0 .. x>> \in StrictSubsetOrdering(0 .. n))
  BY <1>6
<1>8. ASSUME NEW y \in T  PROVE x <= y
  <2>1. CASE y > n
    BY <2>1
  <2>2. CASE y <= n
    <3>1. 0 .. y \in intervals
      BY <2>2
    <3>2. ~ (<<0 .. y, 0 .. x>> \in StrictSubsetOrdering(0 .. n))
      BY <3>1, <1>7
    <3>3. 0 .. y \in SUBSET (0 .. n) /\ 0 .. x \in SUBSET (0 .. n)
      BY <2>2
    <3>4. ~ (0 .. y \subseteq 0 .. x /\ 0 .. y # 0 .. x)
      BY <3>2, <3>3 DEF StrictSubsetOrdering
    <3>5. ASSUME y < x  PROVE FALSE
      <4>1. 0 .. y \subseteq 0 .. x
        BY <3>5
      <4>2. x \in 0 .. x /\ x \notin 0 .. y
        BY <3>5
      <4>. QED  BY <4>1, <4>2, <3>4
    <3>. QED  BY <3>5
  <2>. QED  BY <2>1, <2>2
<1>. QED  BY <1>8

LEMMA MinIsLeast ==
  ASSUME NEW T \in SUBSET Nat, T # {}
  PROVE  Min(T) \in T /\ \A y \in T : Min(T) <= y
BY LeastNumber DEF Min

-----------------------------------------------------------------------------
(* The table *)

LEMMA TableIs ==
  ASSUME NEW table \in Seq(EntryType)
  PROVE  /\ DOMAIN table = 1 .. Len(table) /\ Len(table) \in Nat
         /\ \A i \in 1 .. Len(table) :
              /\ table[i] \in EntryType
              /\ table[i].shorts \in Seq(Char) /\ table[i].longs \in Seq(Word)
              /\ table[i].value \in BOOLEAN
              /\ table[i].mincount \in Nat /\ table[i].maxcount \in Nat
<1>1. DOMAIN table = 1 .. Len(table) /\ Len(table) \in Nat
  BY LenProperties
<1>2. ASSUME NEW i \in 1 .. Len(table)  PROVE table[i] \in EntryType
  BY ElementOfSeq
<1>. QED  BY <1>1, <1>2 DEF EntryType

(* An option belongs to an entry of the table, or to none. *)
LEMMA ShortEntryIs ==
  ASSUME Table \in Seq(EntryType)
  PROVE  \A c : ShortEntry(c) \in {0} \cup Entries
<1>1. Entries \subseteq Nat
  BY TableIs DEF Entries
<1>. TAKE c
<1>2. EntriesWith(c) \in SUBSET Nat
  BY <1>1 DEF EntriesWith
<1>3. EntriesWith(c) # {} => Min(EntriesWith(c)) \in Entries
  BY <1>2, MinIsLeast DEF EntriesWith
<1>. QED  BY <1>3 DEF ShortEntry

LEMMA LongEntryIs ==
  ASSUME Table \in Seq(EntryType)
  PROVE  \A name : LongEntry(name) \in {0} \cup Entries
<1>1. Entries \subseteq Nat
  BY TableIs DEF Entries
<1>. TAKE name
<1>. DEFINE exact == {i \in Entries : name \in LongOptions(i)}
            partial == {i \in Entries :
                          \E long \in LongOptions(i) : IsPrefix(name, long)}
<1>2. exact # {} => Min(exact) \in Entries
  BY <1>1, MinIsLeast
<1>3. partial # {} => Min(partial) \in Entries
  <2>1. partial \in SUBSET Nat /\ partial \subseteq Entries
    BY <1>1
  <2>. HIDE DEF partial
  <2>. QED  BY <2>1, MinIsLeast
<1>4. Cardinality(partial) = 1 => partial # {}
  <2>1. Cardinality({}) = 0
    BY FS_EmptySet
  <2>2. ASSUME partial = {}  PROVE Cardinality(partial) = 0
    BY <2>1, <2>2, Zenon
  <2>. HIDE DEF partial
  <2>. QED  BY <2>2
<1>5. LongEntry(name) = IF exact # {} THEN Min(exact)
                        ELSE IF Cardinality(partial) = 1 THEN Min(partial) ELSE 0
  BY Zenon DEF LongEntry
<1>. HIDE DEF exact, partial
<1>. QED  BY <1>2, <1>3, <1>4, <1>5

-----------------------------------------------------------------------------
(* Errors and counts *)

Kinds == {"missarg", "longopt", "short", "nomatch", "mincount", "maxcount", "limit"}

(* What an entry is told, and only that, is counted at the entry. *)
IsError(error) ==
  /\ error \in [kind : Kinds, of : {0} \cup Entries, word : Word]
  /\ error.of # 0 <=> error.kind \in {"mincount", "maxcount"}

ErrorList(list) ==
  /\ list \in Seq([kind : Kinds, of : {0} \cup Entries, word : Word])
  /\ Len(list) <= MaxErrors
  /\ \A k \in 1 .. Len(list) :
       /\ IsError(list[k])
       /\ list[k].kind = "limit" => k = MaxErrors

CountsOK ==
  /\ count \in [Entries -> Nat] /\ sval \in [Entries -> Seq(Word)]
  /\ \A i \in Entries :
       /\ count[i] <= Table[i].maxcount
       /\ Table[i].value => Len(sval[i]) = count[i]

(* A list of errors stays one, and is not empty any more. *)
LEMMA RegisterIs ==
  ASSUME NEW list, ErrorList(list), NEW error, IsError(error), error.kind # "limit"
  PROVE  ErrorList(Register(list, error)) /\ Register(list, error) # <<>>
<1>. DEFINE R == [kind : Kinds, of : {0} \cup Entries, word : Word]
            limit == Error("limit", 0, <<>>)
<1>1. list \in Seq(R) /\ Len(list) \in Nat /\ Len(list) <= MaxErrors
  BY LenProperties DEF ErrorList
<1>2. MaxErrors \in Nat \ {0}
  BY CommandLineAssumption
<1>3. error \in R /\ limit \in R /\ IsError(limit)
  BY DEF IsError, Error, Kinds, Word
<1>4. CASE Len(list) < MaxErrors
  <2>. DEFINE new == Append(list, error)
  <2>1. Register(list, error) = new
    BY <1>4 DEF Register
  <2>2. /\ new \in Seq(R) /\ Len(new) = Len(list) + 1
        /\ \A k \in 1 .. Len(list) : new[k] = list[k]
        /\ new[Len(list) + 1] = error
    BY <1>1, <1>3, AppendProperties
  <2>3. ASSUME NEW k \in 1 .. Len(new)
        PROVE  IsError(new[k]) /\ (new[k].kind = "limit" => k = MaxErrors)
    <3>. HIDE DEF new
    <3>1. CASE k = Len(list) + 1
      <4>1. new[k] = error
        BY <2>2, <3>1, Zenon
      <4>. QED  BY <4>1
    <3>2. CASE k \in 1 .. Len(list)
      BY <2>2, <3>2 DEF ErrorList
    <3>. QED  BY <2>2, <3>1, <3>2, <1>1
  <2>4. new # <<>>
    <3>. HIDE DEF new
    <3>. QED  BY <2>2, <1>1, EmptySeq
  <2>. QED
    <3>. HIDE DEF new
    <3>. QED  BY <2>1, <2>2, <2>3, <2>4, <1>1, <1>2, <1>4 DEF ErrorList
<1>5. CASE ~(Len(list) < MaxErrors)
  <2>. DEFINE new == [list EXCEPT ![MaxErrors] = limit]
  <2>1. Register(list, error) = new
    BY <1>5 DEF Register
  <2>2. MaxErrors \in 1 .. Len(list) /\ Len(list) = MaxErrors
    BY <1>1, <1>2, <1>5
  <2>. HIDE DEF R, limit
  <2>3. new \in Seq(R) /\ Len(new) = Len(list)
        /\ \A k \in 1 .. Len(list) : new[k] = IF k = MaxErrors THEN limit ELSE list[k]
    BY <1>1, <1>3, <2>2, ExceptSeq
  <2>4. ASSUME NEW k \in 1 .. Len(new)
        PROVE  IsError(new[k]) /\ (new[k].kind = "limit" => k = MaxErrors)
    <3>. HIDE DEF new
    <3>1. CASE k = MaxErrors
      BY <2>3, <3>1, <1>3, <2>2
    <3>2. CASE k # MaxErrors
      BY <2>3, <3>2 DEF ErrorList
    <3>. QED  BY <3>1, <3>2
  <2>5. new # <<>>
    <3>. HIDE DEF new
    <3>. QED  BY <2>2, <2>3, <1>2, EmptySeq
  <2>. QED
    <3>. HIDE DEF new
    <3>. QED  BY <2>1, <2>2, <2>3, <2>4, <2>5, <1>1 DEF ErrorList, R
<1>. QED  BY <1>4, <1>5

LEMMA FailKeeps ==
  ASSUME CountsOK, ErrorList(errors), UNCHANGED Table,
         NEW kind \in {"missarg", "longopt", "short", "nomatch"}, NEW word \in Word,
         Fail(Error(kind, 0, word))
  PROVE  CountsOK' /\ ErrorList(errors)' /\ errors' # <<>> /\ count' = count
<1>1. IsError(Error(kind, 0, word)) /\ Error(kind, 0, word).kind # "limit"
  BY DEF IsError, Error, Kinds
<1>2. ErrorList(errors') /\ errors' # <<>>
  BY <1>1, RegisterIs DEF Fail
<1>3. Entries' = Entries
  BY DEF Entries
<1>4. ErrorList(errors)'
  BY <1>2, <1>3 DEF ErrorList, IsError
<1>5. CountsOK'
  BY <1>3 DEF Fail, CountsOK
<1>. QED  BY <1>2, <1>4, <1>5 DEF Fail

(* A value is stored, and counted, only as long as there is room for it. *)
LEMMA ScanKeeps ==
  ASSUME CountsOK, ErrorList(errors), UNCHANGED Table, Table \in Seq(EntryType),
         NEW i \in Entries, NEW word \in Word, NEW found, ErrorList(found),
         Scan(i, word, found)
  PROVE  /\ CountsOK' /\ ErrorList(errors)'
         /\ \A k \in Entries : count'[k] >= count[k]
         /\ errors' = <<>> => found = <<>>
<1>1. Entries' = Entries
  BY DEF Entries
<1>2. CASE count[i] < Table[i].maxcount
  <2>1. count' = [count EXCEPT ![i] = @ + 1] /\ errors' = found
        /\ sval' = [sval EXCEPT ![i] = IF Table[i].value THEN Append(@, word) ELSE @]
    BY <1>2 DEF Scan
  <2>2. Append(sval[i], word) \in Seq(Word)
        /\ Len(Append(sval[i], word)) = Len(sval[i]) + 1
    BY AppendProperties DEF CountsOK
  <2>3. count' \in [Entries -> Nat] /\ sval' \in [Entries -> Seq(Word)]
    BY <2>1, <2>2 DEF CountsOK
  <2>4. ASSUME NEW k \in Entries
        PROVE  /\ count'[k] <= Table[k].maxcount /\ count'[k] >= count[k]
               /\ Table[k].value => Len(sval'[k]) = count'[k]
    <3>0. count[k] \in Nat /\ Table[k].maxcount \in Nat
      BY TableIs DEF CountsOK, Entries
    <3>1. CASE k = i
      <4>1. count'[i] = count[i] + 1
        BY <2>1 DEF CountsOK
      <4>2. Table[i].value => sval'[i] = Append(sval[i], word)
        BY <2>1 DEF CountsOK
      <4>. QED  BY <3>0, <3>1, <4>1, <4>2, <2>2, <1>2 DEF CountsOK
    <3>2. CASE k # i
      BY <3>0, <3>2, <2>1 DEF CountsOK
    <3>. QED  BY <3>1, <3>2
  <2>5. CountsOK'
    BY <2>3, <2>4, <1>1 DEF CountsOK
  <2>6. ErrorList(errors)'
    BY <2>1, <1>1 DEF ErrorList, IsError
  <2>. QED  BY <2>1, <2>4, <2>5, <2>6
<1>3. CASE ~(count[i] < Table[i].maxcount)
  <2>1. errors' = Register(found, Error("maxcount", i, word))
        /\ UNCHANGED <<count, sval>>
    BY <1>3 DEF Scan
  <2>2. i # 0
    BY TableIs DEF Entries
  <2>3. IsError(Error("maxcount", i, word)) /\ Error("maxcount", i, word).kind # "limit"
    BY <2>2 DEF IsError, Error, Kinds
  <2>4. ErrorList(errors') /\ errors' # <<>>
    BY <2>1, <2>3, RegisterIs
  <2>5. ErrorList(errors)'
    BY <2>4, <1>1 DEF ErrorList, IsError
  <2>6. CountsOK'
    BY <2>1, <1>1 DEF CountsOK
  <2>. QED  BY <2>1, <2>4, <2>5, <2>6 DEF CountsOK
<1>. QED  BY <1>2, <1>3

-----------------------------------------------------------------------------
(* Exchanging two blocks of words *)

LEMMA PartOf ==
  ASSUME NEW S, NEW words \in Seq(S), NEW m \in Int, NEW n \in Int,
         1 <= m, m <= n + 1, n <= Len(words)
  PROVE  /\ SubSeq(words, m, n) \in Seq(S)
         /\ Len(SubSeq(words, m, n)) = n - m + 1
         /\ \A i \in 1 .. Len(SubSeq(words, m, n)) :
              SubSeq(words, m, n)[i] = words[m + i - 1]
<1>. DEFINE s == SubSeq(words, m, n)
<1>1. \A i \in m .. n : words[i] \in S
  <2>1. Len(words) \in Nat
    BY LenProperties
  <2>2. \A i \in m .. n : i \in 1 .. Len(words)
    BY <2>1
  <2>. QED  BY <2>2, ElementOfSeq
<1>2. /\ s \in Seq(S) /\ Len(s) = IF m <= n THEN n - m + 1 ELSE 0
      /\ \A i \in 1 .. n - m + 1 : s[i] = words[m + i - 1]
  BY <1>1, SubSeqProperties
<1>. HIDE DEF s
<1>3. Len(s) = n - m + 1
  BY <1>2
<1>. QED  BY <1>2, <1>3 DEF s

(* Where the word at place k came from *)
Origin(k, start, end, opt_end) ==
  IF k < start \/ opt_end <= k THEN k
  ELSE IF k < start + (opt_end - end) THEN k + (end - start)
  ELSE k - (opt_end - end)

Blocks(words, start, end, opt_end) ==
  /\ start \in Nat /\ end \in Nat /\ opt_end \in Nat
  /\ 1 <= start /\ start <= end /\ end <= opt_end /\ opt_end <= Len(words) + 1

LEMMA ExchangeIs ==
  ASSUME NEW S, NEW words \in Seq(S), NEW start, NEW end, NEW opt_end,
         Blocks(words, start, end, opt_end)
  PROVE  LET new == Exchange(words, start, end, opt_end)
         IN  /\ new \in Seq(S) /\ Len(new) = Len(words)
             /\ \A k \in 1 .. Len(words) :
                  new[k] = words[Origin(k, start, end, opt_end)]
<1>. DEFINE s1 == SubSeq(words, 1, start - 1)
            s2 == SubSeq(words, end, opt_end - 1)
            s3 == SubSeq(words, start, end - 1)
            s4 == SubSeq(words, opt_end, Len(words))
            n == Len(words)
<1>1. /\ n \in Nat /\ start \in Nat /\ end \in Nat /\ opt_end \in Nat
      /\ 1 <= start /\ start <= end /\ end <= opt_end /\ opt_end <= n + 1
  BY LenProperties DEF Blocks
<1>. HIDE DEF n
<1>3. /\ s1 \in Seq(S) /\ Len(s1) = start - 1
      /\ \A i \in 1 .. start - 1 : s1[i] = words[i]
  <2>1. /\ s1 \in Seq(S) /\ Len(s1) = start - 1 - 1 + 1
        /\ \A i \in 1 .. Len(s1) : s1[i] = words[1 + i - 1]
    BY <1>1, PartOf DEF n
  <2>. HIDE DEF s1
  <2>. QED  BY <2>1, <1>1
<1>4. /\ s2 \in Seq(S) /\ Len(s2) = opt_end - end
      /\ \A i \in 1 .. opt_end - end : s2[i] = words[end + i - 1]
  <2>1. /\ s2 \in Seq(S) /\ Len(s2) = opt_end - 1 - end + 1
        /\ \A i \in 1 .. Len(s2) : s2[i] = words[end + i - 1]
    BY <1>1, PartOf DEF n
  <2>. HIDE DEF s2
  <2>2. Len(s2) = opt_end - end
    BY <2>1, <1>1
  <2>. QED  BY <2>1, <2>2
<1>5. /\ s3 \in Seq(S) /\ Len(s3) = end - start
      /\ \A i \in 1 .. end - start : s3[i] = words[start + i - 1]
  <2>1. /\ s3 \in Seq(S) /\ Len(s3) = end - 1 - start + 1
        /\ \A i \in 1 .. Len(s3) : s3[i] = words[start + i - 1]
    BY <1>1, PartOf DEF n
  <2>. HIDE DEF s3
  <2>2. Len(s3) = end - start
    BY <2>1, <1>1
  <2>. QED  BY <2>1, <2>2
<1>6. /\ s4 \in Seq(S) /\ Len(s4) = n - opt_end + 1
      /\ \A i \in 1 .. n - opt_end + 1 : s4[i] = words[opt_end + i - 1]
  <2>1. /\ s4 \in Seq(S) /\ Len(s4) = n - opt_end + 1
        /\ \A i \in 1 .. Len(s4) : s4[i] = words[opt_end + i - 1]
    BY <1>1, PartOf DEF n
  <2>. HIDE DEF s4
  <2>. QED  BY <2>1
<1>7. Exchange(words, start, end, opt_end) = s1 \o s2 \o s3 \o s4
  BY DEF Exchange
<1>. HIDE DEF s1, s2, s3, s4
<1>8. /\ s1 \o s2 \in Seq(S) /\ Len(s1 \o s2) = start - 1 + (opt_end - end)
      /\ \A i \in 1 .. start - 1 + (opt_end - end) :
           (s1 \o s2)[i] = IF i <= start - 1 THEN words[i]
                           ELSE words[end + (i - (start - 1)) - 1]
  <2>. DEFINE t == s1 \o s2
  <2>1. /\ t \in Seq(S) /\ Len(t) = Len(s1) + Len(s2)
        /\ \A i \in 1 .. Len(s1) + Len(s2) :
             t[i] = IF i <= Len(s1) THEN s1[i] ELSE s2[i - Len(s1)]
    BY <1>3, <1>4, ConcatProperties
  <2>. HIDE DEF t
  <2>2. t \in Seq(S) /\ Len(t) = start - 1 + (opt_end - end)
    BY <2>1, <1>1, <1>3, <1>4
  <2>3. ASSUME NEW i \in 1 .. start - 1 + (opt_end - end)
        PROVE  t[i] = IF i <= start - 1 THEN words[i]
                      ELSE words[end + (i - (start - 1)) - 1]
    <3>1. CASE i <= start - 1
      BY <3>1, <2>1, <1>1, <1>3, <1>4
    <3>2. CASE ~(i <= start - 1)
      <4>1. t[i] = s2[i - (start - 1)] /\ i - (start - 1) \in 1 .. opt_end - end
        BY <3>2, <2>1, <1>1, <1>3, <1>4
      <4>. QED  BY <4>1, <1>4, <3>2
    <3>. QED  BY <3>1, <3>2
  <2>. QED  BY <2>2, <2>3 DEF t
<1>. DEFINE t2 == s1 \o s2
            m2 == start - 1 + (opt_end - end)
<1>9. /\ t2 \o s3 \in Seq(S) /\ Len(t2 \o s3) = opt_end - 1
      /\ \A i \in 1 .. opt_end - 1 :
           (t2 \o s3)[i] = IF i <= start - 1 THEN words[i]
                           ELSE IF i <= m2 THEN words[end + (i - (start - 1)) - 1]
                           ELSE words[start + (i - m2) - 1]
  <2>. DEFINE t == t2 \o s3
  <2>0. /\ t2 \in Seq(S) /\ Len(t2) = m2
        /\ \A i \in 1 .. m2 :
             t2[i] = IF i <= start - 1 THEN words[i]
                     ELSE words[end + (i - (start - 1)) - 1]
    BY <1>8
  <2>. HIDE DEF t2
  <2>1. /\ t \in Seq(S) /\ Len(t) = Len(t2) + Len(s3)
        /\ \A i \in 1 .. Len(t2) + Len(s3) :
             t[i] = IF i <= Len(t2) THEN t2[i] ELSE s3[i - Len(t2)]
    BY <2>0, <1>5, ConcatProperties
  <2>. HIDE DEF t
  <2>2. t \in Seq(S) /\ Len(t) = opt_end - 1 /\ m2 \in Nat
    BY <2>0, <2>1, <1>1, <1>5
  <2>3. ASSUME NEW i \in 1 .. opt_end - 1
        PROVE  t[i] = IF i <= start - 1 THEN words[i]
                      ELSE IF i <= m2 THEN words[end + (i - (start - 1)) - 1]
                      ELSE words[start + (i - m2) - 1]
    <3>1. CASE i <= m2
      <4>1. t[i] = t2[i] /\ i \in 1 .. m2
        BY <3>1, <2>0, <2>1, <2>2, <1>5
      <4>. QED  BY <4>1, <2>0, <3>1
    <3>2. CASE ~(i <= m2)
      <4>1. t[i] = s3[i - m2] /\ i - m2 \in 1 .. end - start
        BY <3>2, <2>0, <2>1, <2>2, <1>1, <1>5
      <4>2. ~(i <= start - 1)
        BY <3>2, <1>1
      <4>. QED  BY <4>1, <4>2, <1>5, <3>2
    <3>. QED  BY <3>1, <3>2
  <2>. QED  BY <2>2, <2>3 DEF t
<1>. DEFINE t3 == t2 \o s3
            new == t3 \o s4
<1>10. /\ new \in Seq(S) /\ Len(new) = n
       /\ \A i \in 1 .. n :
            new[i] = IF i <= opt_end - 1 THEN t3[i] ELSE words[i]
  <2>0. t3 \in Seq(S) /\ Len(t3) = opt_end - 1
    BY <1>9
  <2>. HIDE DEF t3
  <2>1. /\ new \in Seq(S) /\ Len(new) = Len(t3) + Len(s4)
        /\ \A i \in 1 .. Len(t3) + Len(s4) :
             new[i] = IF i <= Len(t3) THEN t3[i] ELSE s4[i - Len(t3)]
    BY <2>0, <1>6, ConcatProperties
  <2>. HIDE DEF new
  <2>2. Len(new) = n /\ new \in Seq(S)
    BY <2>0, <2>1, <1>1, <1>6
  <2>3. ASSUME NEW i \in 1 .. n
        PROVE  new[i] = IF i <= opt_end - 1 THEN t3[i] ELSE words[i]
    <3>1. CASE i <= opt_end - 1
      BY <3>1, <2>0, <2>1, <1>1, <1>6
    <3>2. CASE ~(i <= opt_end - 1)
      <4>1. new[i] = s4[i - (opt_end - 1)]
            /\ i - (opt_end - 1) \in 1 .. n - opt_end + 1
        BY <3>2, <2>0, <2>1, <1>1, <1>6
      <4>2. opt_end + (i - (opt_end - 1)) - 1 = i
        BY <1>1
      <4>. QED  BY <4>1, <4>2, <1>6, <3>2
    <3>. QED  BY <3>1, <3>2
  <2>. QED  BY <2>2, <2>3
<1>11. ASSUME NEW k \in 1 .. n
       PROVE  new[k] = words[Origin(k, start, end, opt_end)]
  <2>0. /\ k <= opt_end - 1 =>
            t3[k] = IF k <= start - 1 THEN words[k]
                    ELSE IF k <= m2 THEN words[end + (k - (start - 1)) - 1]
                    ELSE words[start + (k - m2) - 1]
        /\ new[k] = IF k <= opt_end - 1 THEN t3[k] ELSE words[k]
    BY <1>1, <1>9, <1>10
  <2>. HIDE DEF t3, new
  <2>1. /\ end + (k - (start - 1)) - 1 = k + (end - start)
        /\ start + (k - m2) - 1 = k - (opt_end - end)
    BY <1>1
  <2>2. /\ k <= opt_end - 1 <=> ~(opt_end <= k)
        /\ k <= start - 1 <=> k < start
        /\ k <= m2 <=> k < start + (opt_end - end)
        /\ k < start => k <= opt_end - 1
    BY <1>1
  <2>. HIDE DEF m2
  <2>. QED  BY <2>0, <2>1, <2>2 DEF Origin
<1>. QED  BY <1>7, <1>10, <1>11 DEF n

(* Where a word is afterwards, and where it was, correspond to each other: it
   is there as often as before. *)
LEMMA ExchangeKeeps ==
  ASSUME NEW S, NEW words \in Seq(S), NEW start, NEW end, NEW opt_end,
         Blocks(words, start, end, opt_end), NEW word
  PROVE  Times(Exchange(words, start, end, opt_end), word) = Times(words, word)
<1>. DEFINE new == Exchange(words, start, end, opt_end)
            n == Len(words)
            from(k) == Origin(k, start, end, opt_end)
            A == {k \in DOMAIN new : new[k] = word}
            B == {k \in DOMAIN words : words[k] = word}
            f == [k \in A |-> from(k)]
<1>1. /\ n \in Nat /\ start \in Nat /\ end \in Nat /\ opt_end \in Nat
      /\ 1 <= start /\ start <= end /\ end <= opt_end /\ opt_end <= n + 1
  BY LenProperties DEF Blocks
<1>2. /\ DOMAIN new = 1 .. n /\ DOMAIN words = 1 .. n
      /\ \A k \in 1 .. n : new[k] = words[from(k)]
  <2>1. new \in Seq(S) /\ Len(new) = n
    BY ExchangeIs
  <2>2. \A k \in 1 .. n : new[k] = words[from(k)]
    BY ExchangeIs
  <2>. HIDE DEF new
  <2>. QED  BY <2>1, <2>2, LenProperties
<1>. HIDE DEF new, n
<1>3. \A k \in 1 .. n : from(k) \in 1 .. n
  BY <1>1 DEF Origin
<1>4. \A k, m \in 1 .. n : from(k) = from(m) => k = m
  BY <1>1 DEF Origin
<1>5. ASSUME NEW m \in 1 .. n  PROVE \E k \in 1 .. n : from(k) = m
  <2>. DEFINE k == IF m < start \/ opt_end <= m THEN m
                   ELSE IF m < end THEN m + (opt_end - end)
                   ELSE m - (end - start)
  <2>1. k \in 1 .. n /\ from(k) = m
    BY <1>1 DEF Origin
  <2>. QED  BY <2>1
<1>. HIDE DEF from
<1>6. f \in [A -> B]
  BY <1>2, <1>3
<1>7. \A k, m \in A : f[k] = f[m] => k = m
  BY <1>2, <1>4
<1>8. \A m \in B : \E k \in A : f[k] = m
  BY <1>2, <1>5
<1>9. ExistsBijection(A, B)
  <2>. HIDE DEF f, A, B
  <2>1. f \in Bijection(A, B)
    BY <1>6, <1>7, <1>8 DEF Bijection, Injection, Surjection, IsInjective
  <2>. QED  BY <2>1 DEF ExistsBijection
<1>10. IsFiniteSet(A)
  <2>1. IsFiniteSet(1 .. n) /\ A \subseteq 1 .. n
    BY <1>1, <1>2, FS_Interval
  <2>. HIDE DEF A
  <2>. QED  BY <2>1, FS_Subset
<1>11. Cardinality(B) = Cardinality(A)
  <2>. HIDE DEF A, B
  <2>. QED  BY <1>9, <1>10, FS_Bijection
<1>. QED  BY <1>11, Zenon DEF Times, new

-----------------------------------------------------------------------------
(* The invariant *)

(* Operands that were skipped lie before the next word; a block of them ends
   before it, or at an option that is still being read or was left as a dash. *)
OptionAhead == optind <= Len(argv) /\ ~IsOperand(argv[optind])

BehindOperands ==
  pc = "tagged" =>
    /\ nonopt_start # -1 => nonopt_start < optind
    /\ place # <<>> => OptionAhead
    /\ nonopt_end # -1 => nonopt_end < optind \/ OptionAhead

(* What is known of the entries once the words are used up *)
EntriesChecked ==
  /\ pc \in {"check", "parsed", "usage", "errors", "repl"} => optind = Len(argv) + 1
  /\ pc = "check" /\ errors = <<>> => \A i \in Entries : i < tabindex => ~Missing(i)
  /\ pc \in {"parsed", "repl"} /\ errors = <<>> => \A i \in Entries : ~Missing(i)

WordsInv == TypeOK /\ NoWordLost /\ BehindOperands
ResultInv == CountsOK /\ ErrorList(errors) /\ tentative \in {0} \cup Entries
ParserInv == WordsInv /\ ResultInv /\ EntriesChecked

LEMMA TypeFacts ==
  ASSUME TypeOK
  PROVE  /\ Table \in Seq(EntryType) /\ given \in Seq(Word)
         /\ Entries = 1 .. Len(Table) /\ Len(Table) \in Nat
         /\ Len(argv) \in Nat /\ DOMAIN argv = 1 .. Len(argv)
         /\ \A k \in 1 .. Len(argv) : argv[k] \in Word
<1>1. PICK call \in Calls : call.table = Table /\ call.words = given
  BY DEF TypeOK
<1>2. call \in [table : Seq(EntryType), words : Seq(Word)]
  BY CommandLineAssumption
<1>3. Table \in Seq(EntryType) /\ given \in Seq(Word)
  BY <1>1, <1>2
<1>4. Entries = 1 .. Len(Table) /\ Len(Table) \in Nat
  BY <1>3, TableIs DEF Entries
<1>. QED  BY <1>3, <1>4, LenProperties, ElementOfSeq DEF TypeOK

LEMMA WordIs ==
  ASSUME NEW word \in Word
  PROVE  /\ Len(word) \in Nat
         /\ word # <<>> => /\ Len(word) >= 1 /\ Head(word) \in Char
                           /\ Tail(word) \in Word /\ Len(Tail(word)) = Len(word) - 1
         /\ Len(word) > 0 => word # <<>>
<1>. USE DEF Word
<1>1. Len(word) \in Nat
  BY LenProperties
<1>. QED  BY <1>1, HeadTailProperties, EmptySeq

(* The words after blocks were exchanged *)
LEMMA ExchangedWords ==
  ASSUME TypeOK, NoWordLost, NEW start, NEW end, NEW opt_end,
         Blocks(argv, start, end, opt_end),
         argv' = Exchange(argv, start, end, opt_end), UNCHANGED given
  PROVE  argv' \in Seq(Word) /\ Len(argv') = Len(argv) /\ NoWordLost'
<1>1. argv \in Seq(Word)
  BY DEF TypeOK
<1>2. argv' \in Seq(Word) /\ Len(argv') = Len(argv)
  BY <1>1, ExchangeIs
<1>3. \A word : Times(argv', word) = Times(argv, word)
  BY <1>1, ExchangeKeeps
<1>4. given' = given
  OBVIOUS
<1>5. \A k \in DOMAIN given : Times(argv', given[k]) = Times(given, given[k])
  BY <1>3 DEF NoWordLost
<1>6. NoWordLost'
  BY <1>4, <1>5, Zenon DEF NoWordLost
<1>. QED  BY <1>2, <1>6

LEMMA PermutedWords ==
  ASSUME TypeOK, NoWordLost, argv' = Permuted(optind), UNCHANGED given
  PROVE  argv' \in Seq(Word) /\ Len(argv') = Len(argv) /\ NoWordLost'
<1>1. CASE nonopt_end = -1
  BY <1>1 DEF Permuted, TypeOK, NoWordLost, Times
<1>2. CASE nonopt_end # -1
  <2>1. Blocks(argv, nonopt_start, nonopt_end, optind)
    BY <1>2, TypeFacts DEF TypeOK, Blocks
  <2>2. argv' = Exchange(argv, nonopt_start, nonopt_end, optind)
    BY <1>2 DEF Permuted
  <2>. QED  BY <2>1, <2>2, ExchangedWords
<1>. QED  BY <1>1, <1>2

LEMMA SameWords ==
  ASSUME TypeOK, NoWordLost, UNCHANGED <<argv, given>>
  PROVE  argv' \in Seq(Word) /\ Len(argv') = Len(argv) /\ NoWordLost'
BY DEF TypeOK, NoWordLost, Times

-----------------------------------------------------------------------------
(* The words and the indices into them *)

LEMMA LongMoves ==
  ASSUME WordsInv, InWord, NEW consumed \in {1, 2},
         optind + consumed <= Len(argv) + 1, Long(consumed)
  PROVE  WordsInv'
<1>. USE DEF WordsInv
<1>1. NoWordLost'
  BY SameWords DEF Long, Same, arguments
<1>2. TypeOK'
  BY TypeFacts DEF TypeOK, Long, Same, arguments, Word
<1>3. BehindOperands'
  BY TypeFacts DEF TypeOK, BehindOperands, Long, Same
<1>. QED  BY <1>1, <1>2, <1>3

LEMMA ShortMoves ==
  ASSUME WordsInv, InWord, Short
  PROVE  WordsInv'
<1>. USE DEF WordsInv
<1>1. NoWordLost'
  BY SameWords DEF Short, Same, arguments
<1>2. OptionAhead
  BY DEF InWord, BehindOperands
<1>3. Tail(place) \in Word /\ Len(Tail(place)) = Len(place) - 1 /\ Len(place) \in Nat
  BY WordIs DEF TypeOK, InWord
<1>4. optind' \in 1 .. Len(argv) + 1 /\ optind' >= optind
  BY <1>2, TypeFacts DEF Short, TypeOK, OptionAhead
<1>5. TypeOK'
  BY <1>3, <1>4, TypeFacts DEF TypeOK, Short, Same, arguments
<1>6. Len(place) = 1 => place' = <<>>
  BY <1>3, EmptySeq DEF Short, Word
<1>7. BehindOperands'
  <2>1. CASE Len(place) = 1
    BY <2>1, <1>6, TypeFacts DEF TypeOK, BehindOperands, Short, Same
  <2>2. CASE Len(place) # 1
    <3>1. OptionAhead'
      BY <2>2, <1>2 DEF OptionAhead, Short, IsOperand
    <3>. QED  BY <2>2, <3>1 DEF BehindOperands, Short, Same, InWord
  <2>. QED  BY <2>1, <2>2
<1>. QED  BY <1>1, <1>5, <1>7

LEMMA SkipMoves ==
  ASSUME WordsInv, SkipOperand
  PROVE  WordsInv'
<1>. USE DEF WordsInv
<1>1. argv' \in Seq(Word) /\ Len(argv') = Len(argv) /\ NoWordLost'
  BY PermutedWords DEF SkipOperand, Same, arguments
<1>2. optind \in 1 .. Len(argv) /\ Len(argv) \in Nat
  BY TypeFacts DEF SkipOperand, TypeOK
<1>3. nonopt_start' \in {-1} \cup 1 .. Len(argv) /\ nonopt_start' < optind'
  BY <1>2 DEF SkipOperand, TypeOK, BehindOperands, AtWord
<1>4. TypeOK'
  BY <1>1, <1>2, <1>3 DEF TypeOK, SkipOperand, Same, arguments
<1>5. BehindOperands'
  BY <1>3 DEF BehindOperands, SkipOperand, AtWord
<1>. QED  BY <1>1, <1>4, <1>5

LEMMA EndMoves ==
  ASSUME WordsInv, EndOfVector
  PROVE  WordsInv'
<1>. USE DEF WordsInv
<1>1. argv' \in Seq(Word) /\ Len(argv') = Len(argv) /\ NoWordLost'
  BY PermutedWords DEF EndOfVector, Same, arguments
<1>2. optind = Len(argv) + 1 /\ Len(argv) \in Nat
  BY TypeFacts DEF EndOfVector, TypeOK
<1>3. optind' \in 1 .. Len(argv) + 1
  BY <1>2 DEF EndOfVector, TypeOK, BehindOperands, AtWord
<1>4. TypeOK'
  BY <1>1, <1>2, <1>3 DEF TypeOK, EndOfVector, Same, arguments
<1>5. BehindOperands'
  BY DEF BehindOperands, EndOfVector
<1>. QED  BY <1>1, <1>4, <1>5

LEMMA DashesMove ==
  ASSUME WordsInv, EndOfOptions
  PROVE  WordsInv'
<1>. USE DEF WordsInv
<1>1. optind \in 1 .. Len(argv) /\ Len(argv) \in Nat
  BY TypeFacts DEF EndOfOptions, TypeOK
<1>2. AfterOperands # -1 =>
        /\ nonopt_start \in 1 .. AfterOperands - 1
        /\ AfterOperands \in Nat /\ AfterOperands <= optind
  BY <1>1 DEF AfterOperands, TypeOK, BehindOperands, EndOfOptions, AtWord
<1>3. argv' \in Seq(Word) /\ Len(argv') = Len(argv) /\ NoWordLost'
  <2>1. CASE AfterOperands = -1
    BY <2>1, SameWords DEF EndOfOptions, Same, arguments
  <2>2. CASE AfterOperands # -1
    <3>1. Blocks(argv, nonopt_start, AfterOperands, optind + 1)
      BY <1>1, <1>2, <2>2 DEF Blocks
    <3>2. argv' = Exchange(argv, nonopt_start, AfterOperands, optind + 1)
      BY <2>2 DEF EndOfOptions
    <3>. QED  BY <3>1, <3>2, ExchangedWords DEF EndOfOptions, Same, arguments
  <2>. QED  BY <2>1, <2>2
<1>4. optind' \in 1 .. Len(argv) + 1
  <2>. HIDE DEF AfterOperands
  <2>. QED  BY <1>1, <1>2 DEF EndOfOptions
<1>5. TypeOK'
  BY <1>1, <1>3, <1>4 DEF TypeOK, EndOfOptions, Same, arguments
<1>6. BehindOperands'
  BY DEF BehindOperands, EndOfOptions
<1>. QED  BY <1>3, <1>5, <1>6

LEMMA EnterMoves ==
  ASSUME WordsInv, EnterWord
  PROVE  WordsInv'
<1>. USE DEF WordsInv
<1>1. NoWordLost'
  BY SameWords DEF EnterWord, Same, arguments
<1>2. optind \in 1 .. Len(argv) /\ Len(argv) \in Nat /\ argv[optind] \in Word
  BY TypeFacts DEF EnterWord, TypeOK
<1>3. OptionAhead'
  BY <1>2 DEF EnterWord, OptionAhead, IsOperand
<1>4. Tail(argv[optind]) \in Word
  <2>1. Len(argv[optind]) > 1
    BY DEF EnterWord, IsOperand
  <2>. QED  BY <1>2, <2>1, WordIs
<1>5. /\ nonopt_end' \in {-1} \cup 1 .. Len(argv)
      /\ nonopt_end' # -1 => nonopt_start \in 1 .. nonopt_end' - 1
                             /\ nonopt_end' <= optind
  BY <1>2 DEF EnterWord, AfterOperands, TypeOK, BehindOperands, AtWord
<1>6. TypeOK'
  BY <1>2, <1>4, <1>5 DEF TypeOK, EnterWord, Same, arguments
<1>7. BehindOperands'
  BY <1>3 DEF BehindOperands, EnterWord, AtWord
<1>. QED  BY <1>1, <1>6, <1>7

LEMMA LoneDashMoves ==
  ASSUME WordsInv, LoneDash
  PROVE  WordsInv'
<1>. USE DEF WordsInv
<1>1. NoWordLost'
  BY SameWords DEF LoneDash, Same, arguments
<1>2. TypeOK'
  BY DEF TypeOK, LoneDash, Same, arguments, Word
<1>3. OptionAhead'
  BY DEF LoneDash, InWord, BehindOperands, OptionAhead, IsOperand
<1>4. BehindOperands'
  BY <1>3 DEF BehindOperands, LoneDash, InWord
<1>. QED  BY <1>1, <1>2, <1>4

(* Behind the options only indices move. *)
LEMMA RestMoves ==
  ASSUME WordsInv, UNCHANGED <<arguments, argv, place, nonopt_start, nonopt_end>>,
         optind' \in optind .. Len(argv) + 1, tabindex' \in 1 .. Len(Table) + 1,
         pc' \in {"untagged", "unused", "check", "parsed", "usage", "errors", "repl"}
  PROVE  WordsInv'
<1>. USE DEF WordsInv
<1>1. NoWordLost'
  BY SameWords DEF arguments
<1>2. TypeOK'
  BY TypeFacts DEF TypeOK, arguments
<1>3. BehindOperands'
  BY DEF BehindOperands
<1>. QED  BY <1>1, <1>2, <1>3

-----------------------------------------------------------------------------
(* Every turn of the parser *)

LEMMA SameResult ==
  ASSUME ResultInv, UNCHANGED <<Table, result, tentative>>
  PROVE  ResultInv'
<1>1. Entries' = Entries
  BY DEF Entries
<1>. QED  BY <1>1 DEF ResultInv, CountsOK, ErrorList, IsError, result

LEMMA FailedResult ==
  ASSUME ResultInv, UNCHANGED <<Table, tentative>>,
         NEW kind \in {"missarg", "longopt", "short", "nomatch"}, NEW word \in Word,
         Fail(Error(kind, 0, word))
  PROVE  ResultInv'
BY FailKeeps DEF ResultInv, Entries

LEMMA ScannedResult ==
  ASSUME TypeOK, ResultInv, UNCHANGED <<Table, tentative>>,
         NEW i \in Entries, NEW word \in Word, NEW found, ErrorList(found),
         Scan(i, word, found)
  PROVE  ResultInv'
BY ScanKeeps, TypeFacts DEF ResultInv, Entries

(* What is said of an empty value *)
LEMMA MissingValue ==
  ASSUME ResultInv, NEW word \in Word, NEW typed \in Word
  PROVE  ErrorList(IF word # <<>> THEN errors
                   ELSE Register(errors, Error("missarg", 0, typed)))
<1>1. IsError(Error("missarg", 0, typed))
      /\ Error("missarg", 0, typed).kind # "limit"
  BY DEF IsError, Error, Kinds
<1>. QED  BY <1>1, RegisterIs DEF ResultInv

LEMMA ValueIs ==
  ASSUME NEW word \in Word, HasEqual(word)
  PROVE  ValueOf(word) \in Word
<1>. DEFINE places == {k \in DOMAIN word : word[k] = "="}
<1>1. DOMAIN word = 1 .. Len(word) /\ Len(word) \in Nat
  BY LenProperties DEF Word
<1>2. places # {} /\ places \in SUBSET Nat
  BY <1>1 DEF HasEqual, Range
<1>3. Equal(word) \in 1 .. Len(word)
  <2>1. Min(places) \in places
    <3>. HIDE DEF places
    <3>. QED  BY <1>2, MinIsLeast
  <2>. QED  BY <1>1, <2>1 DEF Equal
<1>4. SubSeq(word, Equal(word) + 1, Len(word)) \in Seq(Char)
  <2>. HIDE DEF places
  <2>1. word \in Seq(Char)
    BY DEF Word
  <2>. QED  BY <1>1, <1>3, <2>1, PartOf
<1>. QED  BY <1>4 DEF ValueOf, Word

(* In a word that is read: the word, the one before and what is left *)
LEMMA InWordFacts ==
  ASSUME WordsInv, InWord
  PROVE  /\ optind \in 1 .. Len(argv) /\ Len(argv) \in Nat
         /\ argv[optind] \in Word /\ WordBefore(argv, optind) \in Word
         /\ place \in Word /\ Len(place) \in Nat \ {0}
         /\ Head(place) \in Char /\ Tail(place) \in Word
         /\ <<Head(place)>> \in Word
         /\ Len(place) > 1 => Tail(place) # <<>>
<1>. USE DEF WordsInv
<1>1. optind \in 1 .. Len(argv) /\ Len(argv) \in Nat
  BY TypeFacts DEF InWord, BehindOperands, OptionAhead, TypeOK
<1>2. argv[optind] \in Word
  BY <1>1, TypeFacts
<1>3. WordBefore(argv, optind) \in Word
  <2>1. CASE optind = 1
    <3>1. <<"g">> \in Word
      <4>1. "g" \in Char
        BY DEF Char
      <4>. HIDE DEF Char
      <4>. QED  BY <4>1 DEF Word
    <3>. QED  BY <2>1, <3>1 DEF WordBefore, ProgramName
  <2>2. CASE optind # 1
    <3>1. optind - 1 \in 1 .. Len(argv)
      BY <1>1, <2>2
    <3>. QED  BY <2>2, <3>1, TypeFacts DEF WordBefore
  <2>. QED  BY <2>1, <2>2
<1>4. place \in Word /\ Len(place) \in Nat \ {0} /\ Head(place) \in Char
      /\ Tail(place) \in Word /\ Len(Tail(place)) = Len(place) - 1
  BY WordIs DEF TypeOK, InWord
<1>5. <<Head(place)>> \in Word
  BY <1>4 DEF Word
<1>6. Len(place) > 1 => Tail(place) # <<>>
  <2>1. Len(<<>>) = 0
    BY EmptySeq
  <2>. QED  BY <1>4, <2>1
<1>. QED  BY <1>1, <1>2, <1>3, <1>4, <1>5, <1>6

LEMMA OptionSteps ==
  ASSUME ParserInv,
         BadLong \/ LongFlag \/ LongJoined \/ LongValue
           \/ BadShort \/ ShortFlag \/ ShortValue \/ LoneDash
  PROVE  WordsInv' /\ ResultInv' /\ pc' = "tagged"
<1>. DEFINE i == LongEntry(NameOf(Tail(place)))
            s == ShortEntry(Head(place))
            l == LongEntry(Tail(place))
<1>0. WordsInv /\ ResultInv /\ TypeOK
  BY DEF ParserInv, WordsInv
<1>1. i \in {0} \cup Entries /\ s \in {0} \cup Entries /\ l \in {0} \cup Entries
  BY <1>0, TypeFacts, ShortEntryIs, LongEntryIs
<1>2. InWord
  BY DEF BadLong, LongFlag, LongJoined, LongValue, BadShort, ShortFlag, ShortValue,
         LoneDash, AtLong, AtShort
<1>3. /\ optind \in 1 .. Len(argv) /\ Len(argv) \in Nat
      /\ argv[optind] \in Word /\ WordBefore(argv, optind) \in Word
      /\ place \in Word /\ Tail(place) \in Word /\ <<Head(place)>> \in Word
  BY <1>0, <1>2, InWordFacts
<1>4. <<>> \in Word /\ pc = "tagged" /\ ErrorList(errors)
  BY <1>0, <1>2, EmptySeq DEF Word, InWord, ResultInv
<1>5. ASSUME Long(1)  PROVE WordsInv' /\ pc' = "tagged" /\ UNCHANGED <<Table, tentative>>
  <2>1. WordsInv'
    BY <1>0, <1>2, <1>3, <1>5, LongMoves
  <2>. QED  BY <2>1, <1>4, <1>5 DEF Long, Same, arguments
<1>6. ASSUME Short  PROVE WordsInv' /\ pc' = "tagged" /\ UNCHANGED <<Table, tentative>>
  BY <1>0, <1>2, <1>4, <1>6, ShortMoves DEF Short, Same, arguments
<1>7. ASSUME Long(2), optind < Len(argv)
      PROVE  /\ WordsInv' /\ pc' = "tagged" /\ UNCHANGED <<Table, tentative>>
             /\ argv[optind + 1] \in Word
  <2>1. WordsInv'
    BY <1>0, <1>2, <1>3, <1>7, LongMoves
  <2>2. argv[optind + 1] \in Word
    BY <1>0, <1>3, <1>7, TypeFacts
  <2>. QED  BY <2>1, <2>2, <1>4, <1>7 DEF Long, Same, arguments
<1>. HIDE DEF i, s, l
<1>8. CASE BadLong
  BY <1>0, <1>3, <1>5, <1>8, FailedResult DEF BadLong
<1>9. CASE LongFlag
  <2>1. l # 0 /\ Scan(l, <<>>, errors) /\ Long(1)
    BY <1>9 DEF LongFlag, l
  <2>. QED  BY <1>0, <1>1, <1>4, <1>5, <2>1, ScannedResult
<1>10. CASE LongJoined
  <2>. DEFINE value == ValueOf(place)
              found == IF value # <<>> THEN errors
                       ELSE Register(errors, Error("missarg", 0, argv[optind]))
  <2>1. i # 0 /\ Scan(i, value, found) /\ Long(1) /\ HasEqual(place)
    BY <1>10 DEF LongJoined, i
  <2>2. value \in Word
    BY <1>3, <2>1, ValueIs
  <2>3. ErrorList(found)
    BY <1>0, <1>3, <2>2, MissingValue
  <2>. HIDE DEF value, found
  <2>. QED  BY <1>0, <1>1, <1>5, <2>1, <2>2, <2>3, ScannedResult
<1>11. CASE LongValue
  <2>1. CASE optind < Len(argv)
    <3>. DEFINE value == argv[optind + 1]
                found == IF value # <<>> THEN errors
                         ELSE Register(errors, Error("missarg", 0, value))
    <3>1. l # 0 /\ Scan(l, value, found) /\ Long(2)
      BY <1>11, <2>1 DEF LongValue, l
    <3>2. value \in Word
      BY <1>7, <2>1, <3>1
    <3>3. ErrorList(found)
      BY <1>0, <3>2, MissingValue
    <3>. HIDE DEF value, found
    <3>. QED  BY <1>0, <1>1, <1>7, <2>1, <3>1, <3>2, <3>3, ScannedResult
  <2>2. CASE ~(optind < Len(argv))
    <3>1. Fail(Error("missarg", 0, argv[optind])) /\ Long(1)
      BY <1>11, <2>2 DEF LongValue
    <3>. QED  BY <1>0, <1>3, <1>5, <3>1, FailedResult
  <2>. QED  BY <2>1, <2>2
<1>12. CASE BadShort
  BY <1>0, <1>3, <1>6, <1>12, FailedResult DEF BadShort
<1>13. CASE ShortFlag
  <2>1. s # 0 /\ Scan(s, <<>>, errors) /\ Short
    BY <1>13 DEF ShortFlag, s
  <2>. QED  BY <1>0, <1>1, <1>4, <1>6, <2>1, ScannedResult
<1>14. CASE ShortValue
  <2>1. CASE Len(place) > 1
    <3>1. s # 0 /\ Scan(s, Tail(place), errors) /\ Long(1)
      BY <1>14, <2>1 DEF ShortValue, s
    <3>. QED  BY <1>0, <1>1, <1>3, <1>4, <1>5, <3>1, ScannedResult
  <2>2. CASE ~(Len(place) > 1) /\ optind < Len(argv)
    <3>1. s # 0 /\ Scan(s, argv[optind + 1], errors) /\ Long(2)
      BY <1>14, <2>2 DEF ShortValue, s
    <3>. QED  BY <1>0, <1>1, <1>4, <1>7, <2>2, <3>1, ScannedResult
  <2>3. CASE ~(Len(place) > 1) /\ ~(optind < Len(argv))
    <3>1. Fail(Error("missarg", 0, argv[optind])) /\ Long(1)
      BY <1>14, <2>3 DEF ShortValue
    <3>. QED  BY <1>0, <1>3, <1>5, <3>1, FailedResult
  <2>. QED  BY <2>1, <2>2, <2>3
<1>15. CASE LoneDash
  <2>1. WordsInv'
    BY <1>0, <1>15, LoneDashMoves
  <2>2. Fail(Error("missarg", 0, WordBefore(argv, optind)))
        /\ UNCHANGED <<Table, tentative, pc>>
    BY <1>15 DEF LoneDash, Same, arguments
  <2>3. ResultInv'
    BY <1>0, <1>3, <2>2, FailedResult
  <2>. QED  BY <2>1, <2>2, <2>3, <1>4
<1>. QED  BY <1>8, <1>9, <1>10, <1>11, <1>12, <1>13, <1>14, <1>15

(* The steps of getopt_internal between the words only move words. *)
LEMMA WordSteps ==
  ASSUME ParserInv,
         EndOfVector \/ SkipOperand \/ StopAtOperand \/ EnterWord \/ EndOfOptions
  PROVE  WordsInv' /\ ResultInv' /\ pc' \in {"tagged", "untagged"}
<1>0. WordsInv /\ ResultInv /\ TypeOK
  BY DEF ParserInv, WordsInv
<1>1. UNCHANGED <<Table, result, tentative>> /\ pc' \in {"tagged", "untagged"}
  BY DEF EndOfVector, SkipOperand, StopAtOperand, EnterWord, EndOfOptions, AtWord,
         Same, arguments
<1>2. ResultInv'
  BY <1>0, <1>1, SameResult
<1>3. CASE StopAtOperand
  <2>1. optind \in 1 .. Len(argv) + 1 /\ tabindex \in 1 .. Len(Table) + 1
    BY <1>0 DEF TypeOK
  <2>. QED
    BY <1>0, <1>1, <1>2, <1>3, <2>1, TypeFacts, RestMoves
    DEF StopAtOperand, Same, getopt
<1>4. CASE EndOfVector
  BY <1>0, <1>1, <1>2, <1>4, EndMoves
<1>5. CASE SkipOperand
  BY <1>0, <1>1, <1>2, <1>5, SkipMoves
<1>6. CASE EnterWord
  BY <1>0, <1>1, <1>2, <1>6, EnterMoves
<1>7. CASE EndOfOptions
  BY <1>0, <1>1, <1>2, <1>7, DashesMove
<1>. QED  BY <1>3, <1>4, <1>5, <1>6, <1>7

LEMMA UntaggedSteps ==
  ASSUME ParserInv,
         NoMoreWords \/ SkipTagged \/ TakeWord \/ NoMoreEntries \/ UnusedWord
  PROVE  ParserInv'
<1>0. /\ WordsInv /\ ResultInv /\ TypeOK /\ ErrorList(errors)
      /\ Table \in Seq(EntryType) /\ Entries = 1 .. Len(Table) /\ Len(Table) \in Nat
      /\ Len(argv) \in Nat /\ optind \in 1 .. Len(argv) + 1
      /\ tabindex \in 1 .. Len(Table) + 1
  BY TypeFacts DEF ParserInv, WordsInv, ResultInv, TypeOK
<1>1. UNCHANGED <<arguments, argv, place, nonopt_start, nonopt_end>>
      /\ UNCHANGED Table
  BY DEF NoMoreWords, SkipTagged, TakeWord, NoMoreEntries, UnusedWord, GoesOn, arguments
<1>2. optind <= Len(argv) => argv[optind] \in Word
  BY <1>0, TypeFacts
<1>3. CASE NoMoreWords
  <2>1. optind' = optind /\ optind = Len(argv) + 1 /\ tabindex' = 1
        /\ UNCHANGED <<result, tentative>>
        /\ pc' = IF errors = <<>> THEN "check" ELSE "parsed"
    BY <1>0, <1>3 DEF NoMoreWords, AfterWords
  <2>2. WordsInv'
    BY <1>0, <1>1, <2>1, RestMoves
  <2>3. ResultInv'
    BY <1>0, <1>1, <2>1, SameResult
  <2>4. EntriesChecked'
    BY <1>0, <1>1, <2>1 DEF EntriesChecked, result, Entries
  <2>. QED  BY <2>2, <2>3, <2>4 DEF ParserInv
<1>4. ASSUME pc' \in {"untagged", "unused"}, ResultInv',
             optind' \in optind .. Len(argv) + 1, tabindex' \in 1 .. Len(Table) + 1
      PROVE  ParserInv'
  <2>1. WordsInv'
    BY <1>0, <1>1, <1>4, RestMoves
  <2>2. EntriesChecked'
    BY <1>4 DEF EntriesChecked
  <2>. QED  BY <1>4, <2>1, <2>2 DEF ParserInv
<1>5. CASE SkipTagged
  <2>1. ResultInv'
    BY <1>0, <1>1, <1>5, SameResult DEF SkipTagged
  <2>. QED  BY <1>0, <1>4, <1>5, <2>1 DEF SkipTagged, AtEntry
<1>6. CASE TakeWord
  <2>0. tabindex \in Entries /\ optind <= Len(argv) /\ pc' = "untagged"
    BY <1>6 DEF TakeWord, AtEntry
  <2>1. CASE count[tabindex] < Table[tabindex].maxcount
    <3>1. /\ Scan(tabindex, argv[optind], errors)
          /\ optind' = optind + 1 /\ tentative' = 0 /\ tabindex' = tabindex
      BY <1>6, <2>1 DEF TakeWord
    <3>2. CountsOK' /\ ErrorList(errors)'
      BY <1>0, <1>1, <1>2, <2>0, <3>1, ScanKeeps DEF ResultInv
    <3>3. ResultInv'
      BY <3>1, <3>2 DEF ResultInv
    <3>. QED  BY <1>0, <1>4, <2>0, <3>1, <3>3
  <2>2. CASE ~(count[tabindex] < Table[tabindex].maxcount)
    <3>1. /\ tentative' = tabindex /\ tabindex' = tabindex + 1
          /\ optind' = optind /\ UNCHANGED result
      BY <1>6, <2>2 DEF TakeWord
    <3>2. ResultInv'
      <4>1. Entries' = Entries
        BY <1>1 DEF Entries
      <4>. QED
        BY <1>0, <1>1, <2>0, <3>1, <4>1
        DEF ResultInv, CountsOK, ErrorList, IsError, result
    <3>. QED  BY <1>0, <1>4, <2>0, <3>1, <3>2
  <2>. QED  BY <2>1, <2>2
<1>7. CASE NoMoreEntries
  <2>0. optind <= Len(argv) /\ pc' = "unused" /\ UNCHANGED <<tentative, tabindex>>
    BY <1>7 DEF NoMoreEntries
  <2>1. CASE tentative # 0
    <3>1. Fail(Error("maxcount", tentative, argv[optind])) /\ optind' = optind + 1
      BY <1>7, <2>1 DEF NoMoreEntries
    <3>2. IsError(Error("maxcount", tentative, argv[optind]))
          /\ Error("maxcount", tentative, argv[optind]).kind # "limit"
      BY <1>0, <1>2, <2>0, <2>1 DEF ResultInv, IsError, Error, Kinds
    <3>3. ErrorList(errors')
      BY <1>0, <3>1, <3>2, RegisterIs DEF Fail
    <3>4. ResultInv'
      <4>1. Entries' = Entries
        BY <1>1 DEF Entries
      <4>. QED
        BY <1>0, <1>1, <2>0, <3>1, <3>3, <4>1
        DEF ResultInv, CountsOK, ErrorList, IsError, Fail
    <3>. QED  BY <1>0, <1>4, <2>0, <3>1, <3>4
  <2>2. CASE tentative = 0
    <3>1. UNCHANGED <<result, optind>>
      BY <1>7, <2>2 DEF NoMoreEntries
    <3>2. ResultInv'
      BY <1>0, <1>1, <2>0, <3>1, SameResult
    <3>. QED  BY <1>0, <1>4, <2>0, <3>1, <3>2
  <2>. QED  BY <2>1, <2>2
<1>8. CASE UnusedWord
  <2>0. /\ optind <= Len(argv) /\ pc' = "unused" /\ UNCHANGED <<tentative, tabindex>>
        /\ Fail(Error("nomatch", 0, argv[optind])) /\ optind' = optind + 1
    BY <1>8 DEF UnusedWord
  <2>1. ResultInv'
    BY <1>0, <1>1, <1>2, <2>0, FailedResult
  <2>. QED  BY <1>0, <1>4, <2>0, <2>1
<1>. QED  BY <1>3, <1>5, <1>6, <1>7, <1>8

LEMMA CheckSteps ==
  ASSUME ParserInv, Check \/ AllChecked
  PROVE  ParserInv'
<1>0. /\ WordsInv /\ ResultInv /\ TypeOK /\ ErrorList(errors) /\ EntriesChecked
      /\ Table \in Seq(EntryType) /\ Entries = 1 .. Len(Table) /\ Len(Table) \in Nat
      /\ Len(argv) \in Nat /\ optind \in 1 .. Len(argv) + 1
      /\ tabindex \in 1 .. Len(Table) + 1
  BY TypeFacts DEF ParserInv, WordsInv, ResultInv, TypeOK
<1>1. /\ UNCHANGED <<arguments, argv, place, nonopt_start, nonopt_end>>
      /\ UNCHANGED <<Table, optind, count, sval, tentative>>
      /\ pc = "check" /\ pc' \in {"check", "parsed"} /\ Entries' = Entries
  BY DEF Check, AllChecked, arguments, getopt, result, Entries
<1>2. tabindex' \in 1 .. Len(Table) + 1
  BY <1>0 DEF Check, AllChecked
<1>3. WordsInv'
  BY <1>0, <1>1, <1>2, RestMoves
<1>4. CASE Check
  <2>. DEFINE missing == Error("mincount", tabindex, <<>>)
  <2>1. /\ errors' = IF Missing(tabindex) THEN Register(errors, missing) ELSE errors
        /\ tabindex \in Entries /\ tabindex' = tabindex + 1 /\ pc' = "check"
    BY <1>4 DEF Check
  <2>2. IsError(missing) /\ missing.kind # "limit"
    <3>1. <<>> \in Word
      BY EmptySeq DEF Word
    <3>. QED  BY <1>0, <2>1, <3>1 DEF IsError, Error, Kinds
  <2>. HIDE DEF missing
  <2>3. ErrorList(errors') /\ (Missing(tabindex) => errors' # <<>>)
    BY <1>0, <2>1, <2>2, RegisterIs
  <2>4. ResultInv'
    BY <1>0, <1>1, <2>3 DEF ResultInv, CountsOK, ErrorList, IsError
  <2>5. ASSUME errors' = <<>>, NEW i \in Entries, i < tabindex'
        PROVE  ~Missing(i)
    <3>1. ~Missing(tabindex) /\ errors = <<>>
      BY <2>1, <2>3, <2>5
    <3>2. CASE i = tabindex
      BY <3>1, <3>2
    <3>3. CASE i < tabindex
      BY <1>0, <1>1, <3>1, <3>3 DEF EntriesChecked
    <3>. QED  BY <1>0, <2>1, <2>5, <3>2, <3>3
  <2>6. \A i \in Entries : Missing(i)' <=> Missing(i)
    BY <1>1 DEF Missing
  <2>7. EntriesChecked'
    BY <1>0, <1>1, <2>1, <2>5, <2>6 DEF EntriesChecked
  <2>. QED  BY <1>3, <2>4, <2>7 DEF ParserInv
<1>5. CASE AllChecked
  <2>1. tabindex = Len(Table) + 1 /\ pc' = "parsed" /\ UNCHANGED result
    BY <1>0, <1>5 DEF AllChecked
  <2>2. ResultInv'
    BY <1>0, <1>1, <2>1, SameResult
  <2>3. \A i \in Entries : Missing(i)' <=> Missing(i)
    BY <1>1 DEF Missing
  <2>4. EntriesChecked'
    BY <1>0, <1>1, <2>1, <2>3 DEF EntriesChecked, result
  <2>. QED  BY <1>3, <2>2, <2>4 DEF ParserInv
<1>. QED  BY <1>4, <1>5

LEMMA DecideStep ==
  ASSUME ParserInv, Decide
  PROVE  ParserInv'
<1>0. WordsInv /\ ResultInv /\ TypeOK /\ EntriesChecked
  BY DEF ParserInv, WordsInv
<1>1. /\ UNCHANGED <<arguments, argv, place, nonopt_start, nonopt_end>>
      /\ UNCHANGED <<Table, optind, result, tentative, tabindex>>
      /\ pc = "parsed" /\ pc' \in {"usage", "errors", "repl"} /\ Entries' = Entries
  BY DEF Decide, arguments, getopt, Entries
<1>2. WordsInv'
  <2>1. optind \in 1 .. Len(argv) + 1 /\ tabindex \in 1 .. Len(Table) + 1
    BY <1>0 DEF TypeOK
  <2>. QED  BY <1>0, <1>1, <2>1, TypeFacts, RestMoves
<1>3. ResultInv'
  BY <1>0, <1>1, SameResult
<1>4. \A i \in Entries : Missing(i)' <=> Missing(i)
  BY <1>1 DEF Missing, result
<1>5. EntriesChecked'
  BY <1>0, <1>1, <1>4 DEF EntriesChecked, result
<1>. QED  BY <1>2, <1>3, <1>5 DEF ParserInv

LEMMA InitIs ==
  ASSUME Init
  PROVE  ParserInv
<1>1. PICK call \in Calls : Table = call.table /\ given = call.words
  BY DEF Init
<1>2. call \in [table : Seq(EntryType), words : Seq(Word)]
  BY CommandLineAssumption
<1>3. call = [table |-> Table, words |-> given]
      /\ Table \in Seq(EntryType) /\ given \in Seq(Word)
  BY <1>1, <1>2
<1>4. /\ Entries = 1 .. Len(Table) /\ Len(Table) \in Nat /\ Len(given) \in Nat
      /\ \A i \in Entries : Table[i].maxcount \in Nat
  BY <1>3, TableIs, LenProperties DEF Entries
<1>5. <<>> \in Word /\ Len(<<>>) = 0
      /\ <<>> \in Seq([kind : Kinds, of : {0} \cup Entries, word : Word])
  BY EmptySeq DEF Word
<1>6. TypeOK
  BY <1>1, <1>3, <1>4, <1>5 DEF Init, TypeOK
<1>7. NoWordLost /\ BehindOperands
  BY DEF Init, NoWordLost, BehindOperands
<1>8. CountsOK
  <2>1. /\ count = [i \in Entries |-> 0] /\ sval = [i \in Entries |-> <<>>]
    BY DEF Init
  <2>2. <<>> \in Seq(Word)
    BY EmptySeq
  <2>. QED  BY <1>4, <1>5, <2>1, <2>2 DEF CountsOK
<1>9. ErrorList(errors) /\ tentative \in {0} \cup Entries
  <2>1. MaxErrors \in Nat
    BY CommandLineAssumption
  <2>. QED  BY <1>5, <2>1 DEF Init, ErrorList
<1>10. EntriesChecked
  BY DEF Init, EntriesChecked
<1>. QED  BY <1>6, <1>7, <1>8, <1>9, <1>10 DEF ParserInv, WordsInv, ResultInv

LEMMA StepKeeps ==
  ASSUME ParserInv, [MainNext]_vars
  PROVE  ParserInv'
<1>1. CASE BadLong \/ LongFlag \/ LongJoined \/ LongValue
             \/ BadShort \/ ShortFlag \/ ShortValue \/ LoneDash
  <2>1. WordsInv' /\ ResultInv' /\ pc' = "tagged"
    BY <1>1, OptionSteps
  <2>. QED  BY <2>1 DEF ParserInv, EntriesChecked
<1>2. CASE EndOfVector \/ SkipOperand \/ StopAtOperand \/ EnterWord \/ EndOfOptions
  <2>1. WordsInv' /\ ResultInv' /\ pc' \in {"tagged", "untagged"}
    BY <1>2, WordSteps
  <2>. QED  BY <2>1 DEF ParserInv, EntriesChecked
<1>3. CASE NoMoreWords \/ SkipTagged \/ TakeWord \/ NoMoreEntries \/ UnusedWord
  BY <1>3, UntaggedSteps
<1>4. CASE Check \/ AllChecked
  BY <1>4, CheckSteps
<1>5. CASE Decide
  BY <1>5, DecideStep
<1>6. CASE UNCHANGED vars
  <2>1. UNCHANGED <<Table, argv, given, posixly_correct, optind, place, nonopt_start,
                    nonopt_end, count, sval, errors, tentative, tabindex, pc>>
    BY <1>6 DEF vars, arguments, getopt, result
  <2>2. Entries' = Entries
    BY <2>1 DEF Entries
  <2>3. ResultInv'
    BY <2>1, SameResult DEF ParserInv, result
  <2>4. WordsInv'
    BY <2>1
    DEF ParserInv, WordsInv, TypeOK, NoWordLost, Times, BehindOperands, OptionAhead
  <2>5. EntriesChecked'
    BY <2>1, <2>2 DEF ParserInv, EntriesChecked, Missing
  <2>. QED  BY <2>3, <2>4, <2>5 DEF ParserInv
<1>. QED
  BY <1>1, <1>2, <1>3, <1>4, <1>5, <1>6 DEF MainNext, Next

THEOREM ParserInvariant == MainSpec => []ParserInv
<1>1. Init => ParserInv
  BY InitIs
<1>2. ParserInv /\ [MainNext]_vars => ParserInv'
  BY StepKeeps
<1>. QED  BY <1>1, <1>2, PTL DEF MainSpec

-----------------------------------------------------------------------------
(* What the invariant says *)

LEMMA ListIsWithin ==
  ASSUME ErrorList(errors)
  PROVE  /\ DOMAIN errors = 1 .. Len(errors)
         /\ \A k \in DOMAIN errors : IsError(errors[k])
BY LenProperties DEF ErrorList

(* For every table and all words, the parser stays within the vector and its
   arrays: no block it exchanges is empty, no word is lost, no value is stored
   without room for it, and only the last error says that there were more
   (getopt_internal, permute_args, arg_register_error, arg_str_scanfn). *)
THEOREM StaysWithinArrays == MainSpec => []ParserIsSound
<1>1. ParserInv => ParserIsSound
  <2>. SUFFICES ASSUME ParserInv PROVE ParserIsSound
    OBVIOUS
  <2>1. TypeOK /\ NoWordLost
    BY DEF ParserInv, WordsInv
  <2>2. BlocksAreNotEmpty
    BY <2>1, TypeFacts
    DEF ParserInv, WordsInv, BlocksAreNotEmpty, BehindOperands, OptionAhead, AtWord,
        TypeOK
  <2>3. WithinArrays
    <3>1. DOMAIN errors = 1 .. Len(errors)
      BY ListIsWithin DEF ParserInv, ResultInv
    <3>. QED
      BY <3>1 DEF ParserInv, ResultInv, CountsOK, ErrorList, WithinArrays
  <2>. QED  BY <2>1, <2>2, <2>3 DEF ParserIsSound
<1>. QED  BY <1>1, ParserInvariant, PTL

(* For every table and all words, a parse without errors has used every word and
   found every entry as often as it must be there, and no more often than it may
   (arg_parse, arg_parse_check). *)
THEOREM AcceptedIsComplete == MainSpec => []NoErrorIsComplete
<1>1. ParserInv => NoErrorIsComplete
  <2>. SUFFICES ASSUME ParserInv, pc \in {"parsed", "repl"}, errors = <<>>
                PROVE  /\ optind = Len(argv) + 1
                       /\ \A i \in Entries :
                            count[i] \in Table[i].mincount .. Table[i].maxcount
    BY DEF NoErrorIsComplete
  <2>1. optind = Len(argv) + 1
    BY DEF ParserInv, EntriesChecked
  <2>2. Table \in Seq(EntryType)
    BY TypeFacts DEF ParserInv, WordsInv
  <2>3. ASSUME NEW i \in Entries
        PROVE  count[i] \in Table[i].mincount .. Table[i].maxcount
    <3>1. ~Missing(i) /\ count[i] \in Nat /\ count[i] <= Table[i].maxcount
      BY DEF ParserInv, EntriesChecked, ResultInv, CountsOK
    <3>2. Table[i].mincount \in Nat /\ Table[i].maxcount \in Nat
      BY <2>2, TableIs DEF Entries
    <3>. QED  BY <3>1, <3>2 DEF Missing
  <2>. QED  BY <2>1, <2>3
<1>. QED  BY <1>1, ParserInvariant, PTL

(* For every table and all words, each error that was found is told in a line of
   its own, by a function that knows it (arg_register_error, arg_end_errorfn,
   arg_lit_errorfn, arg_str_errorfn). *)
THEOREM ErrorsAreTold == MainSpec => []EveryErrorIsTold
<1>1. ParserInv => EveryErrorIsTold
  <2>. SUFFICES ASSUME ParserInv, NEW k \in DOMAIN errors
                PROVE  LET text == ErrorText(errors[k])
                       IN  /\ Len(text) > 2 /\ text[1] = "progname"
                           /\ text[3] = "newline"
    BY Zenon DEF EveryErrorIsTold
  <2>. DEFINE error == errors[k]
  <2>1. IsError(error)
    BY ListIsWithin DEF ParserInv, ResultInv
  <2>2. Table \in Seq(EntryType)
    BY TypeFacts DEF ParserInv, WordsInv
  <2>. HIDE DEF error
  <2>3. CASE error.of = 0
    <3>1. ErrorText(error) = arg_end_errorfn(error)
      BY <2>3 DEF ErrorText
    <3>2. Len(arg_end_errorfn(error)) = 3
          /\ arg_end_errorfn(error)[1] = "progname"
          /\ arg_end_errorfn(error)[3] = "newline"
      BY DEF arg_end_errorfn
    <3>. QED  BY <3>1, <3>2 DEF error
  <2>4. CASE error.of # 0
    <3>1. error.kind \in {"mincount", "maxcount"}
      BY <2>1, <2>4 DEF IsError
    <3>2. CASE Table[error.of].value
      <4>1. ErrorText(error) = arg_str_errorfn(error)
        BY <2>4, <3>2 DEF ErrorText
      <4>2. Len(arg_str_errorfn(error)) = 3
            /\ arg_str_errorfn(error)[1] = "progname"
            /\ arg_str_errorfn(error)[3] = "newline"
        BY <3>1 DEF arg_str_errorfn
      <4>. QED  BY <4>1, <4>2 DEF error
    <3>3. CASE ~Table[error.of].value
      <4>1. ErrorText(error) = arg_lit_errorfn(error)
        BY <2>4, <3>3 DEF ErrorText
      <4>2. Len(arg_lit_errorfn(error)) > 2
            /\ arg_lit_errorfn(error)[1] = "progname"
            /\ arg_lit_errorfn(error)[3] = "newline"
        BY <3>1 DEF arg_lit_errorfn
      <4>. QED  BY <4>1, <4>2 DEF error
    <3>. QED  BY <3>2, <3>3
  <2>. QED  BY <2>3, <2>4
<1>. QED  BY <1>1, ParserInvariant, PTL
=============================================================================
