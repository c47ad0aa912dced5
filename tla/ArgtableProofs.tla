---------------------------- MODULE ArgtableProofs ----------------------------
(***************************************************************************)
(* What the other parts of argtable3 do (MCArgtable), for inputs and       *)
(* buffers of every size: permute_args exchanges its blocks, wrapping      *)
(* loses no word, a dynamic string reads as what was written to it, and    *)
(* the text of an option is shown as a whole if it fits.                   *)
(*                                                                         *)
(* permute_args: place p of class c is the word start + c + p * b.  The    *)
(* cycles are right because b is the greatest common divisor: Euclid's     *)
(* algorithm keeps it a combination of the lengths, so that the steps of a *)
(* cycle come to every place of one class, and to none twice.              *)
(***************************************************************************)
EXTENDS RegistryProofs

-----------------------------------------------------------------------------
(* Exchanging two blocks *)

(* Where the blocks lie; while the divisor is sought no cycle has begun. *)
Blocks ==
  /\ start \in 1 .. MaxLength /\ end \in 1 .. MaxLength
  /\ opt_end \in 1 .. MaxLength + 1
  /\ start < end /\ end < opt_end
  /\ pc = "gcd" => i = 0

PermuteInv == TypeOK /\ Blocks /\ StaysInside

-----------------------------------------------------------------------------
LEMMA InitInv == Init => PermuteInv
<1> SUFFICES ASSUME Init PROVE PermuteInv
  OBVIOUS
<1> USE PermuteAssumption
<1>1. Blocks
  BY DEF Init, Blocks
<1>2. a \in Nat \ {0} /\ b \in 1 .. nopts /\ i = 0 /\ j = 0 /\ pc = "gcd"
  BY <1>1 DEF Init, Blocks, nnonopts, nopts
<1>3. /\ nargv \in [1 .. MaxLength -> 1 .. MaxLength]
      /\ \A k \in 1 .. MaxLength : nargv[k] = k
  BY DEF Init
<1> QED
  BY <1>1, <1>2, <1>3 DEF PermuteInv, TypeOK, Blocks, StaysInside

(* The remainder is smaller than the divisor, and the last one that is not
   zero is returned. *)
LEMMA DivideInv == PermuteInv /\ Divide => PermuteInv'
<1> SUFFICES ASSUME PermuteInv, Divide PROVE PermuteInv'
  OBVIOUS
<1> USE PermuteAssumption
<1>1. a \in Nat \ {0} /\ b \in Nat \ {0} /\ b <= nopts
  BY DEF PermuteInv, TypeOK, Blocks, nopts
<1>2. a % b \in 0 .. b - 1
  BY <1>1
<1>3. UNCHANGED <<blocks, nargv, i, j>>
  BY DEF Divide
<1>4. CASE a % b # 0
  <2>1. a' = b /\ b' = a % b /\ UNCHANGED <<pos, pc>>
    BY <1>4 DEF Divide
  <2>2. a' \in Nat \ {0} /\ b' \in 1 .. nopts
    BY <1>1, <1>2, <1>4, <2>1 DEF nopts, PermuteInv, Blocks
  <2>3. pc = "gcd" /\ i = 0
    BY DEF Divide, PermuteInv, Blocks
  <2> QED
    BY SMTT(30), <1>3, <2>1, <2>2, <2>3
       DEF PermuteInv, TypeOK, Blocks, StaysInside, blocks, nopts
<1>5. CASE ~ (a % b # 0)
  <2>1. pc' = "cycles" /\ pos' = cstart /\ UNCHANGED <<a, b>>
    BY <1>5 DEF Divide
  <2>2. i = 0
    BY DEF Divide, PermuteInv, Blocks
  <2> QED
    BY <1>1, <1>3, <2>1, <2>2
       DEF PermuteInv, TypeOK, Blocks, StaysInside, blocks, nopts, cstart
<1> QED
  BY <1>4, <1>5

(* A position in one block plus or minus a length lies in the other one, or
   in the same. *)
LEMMA MoveInv == PermuteInv /\ Move => PermuteInv'
<1> SUFFICES ASSUME PermuteInv, Move PROVE PermuteInv'
  OBVIOUS
<1> USE PermuteAssumption
<1>1. UNCHANGED <<blocks, a, b, i, pc>> /\ pc = "cycles" /\ i < b /\ j' = j + 1
  BY DEF Move
<1>2. pos \in start .. opt_end - 1
  BY <1>1 DEF PermuteInv, StaysInside
<1>3. pos' \in start .. opt_end - 1
  BY <1>2 DEF Move, Follow, nnonopts, nopts, PermuteInv, Blocks
<1>4. cstart \in end .. opt_end - 1
  BY <1>1 DEF cstart, PermuteInv, TypeOK, Blocks, nopts
<1>5. /\ pos' \in 1 .. MaxLength /\ cstart \in 1 .. MaxLength
      /\ nargv \in [1 .. MaxLength -> 1 .. MaxLength]
  BY <1>3, <1>4 DEF PermuteInv, TypeOK, Blocks
<1>6. nargv' = [nargv EXCEPT ![pos'] = nargv[cstart], ![cstart] = nargv[pos']]
  BY DEF Move
<1>7. nargv' \in [1 .. MaxLength -> 1 .. MaxLength]
  BY <1>5, <1>6
<1>8. \A k \in 1 .. MaxLength : k < start \/ k >= opt_end => nargv'[k] = k
  <2> SUFFICES ASSUME NEW k \in 1 .. MaxLength, k < start \/ k >= opt_end
               PROVE  nargv'[k] = k
    OBVIOUS
  <2>1. k # pos' /\ k # cstart /\ nargv[k] = k
    BY <1>3, <1>4 DEF PermuteInv, Blocks, StaysInside
  <2> QED
    BY <1>5, <1>6, <2>1
<1>9. TypeOK'
  <2>1. start' = start /\ end' = end /\ opt_end' = opt_end /\ b' = b
    BY <1>1 DEF blocks
  <2>2. b' \in 1 .. nopts' /\ i' \in 0 .. b' /\ a' \in Nat \ {0}
    BY <1>1, <2>1 DEF PermuteInv, TypeOK, nopts
  <2>3. j' \in Nat
    BY <1>1 DEF PermuteInv, TypeOK
  <2> QED
    BY <1>1, <1>7, <2>1, <2>2, <2>3 DEF PermuteInv, TypeOK
<1>10. Blocks'
  BY <1>1 DEF PermuteInv, Blocks, blocks
<1> QED
  BY <1>1, <1>3, <1>8, <1>9, <1>10 DEF PermuteInv, StaysInside, blocks

LEMMA NextCycleInv == PermuteInv /\ NextCycle => PermuteInv'
  BY PermuteAssumption
     DEF PermuteInv, TypeOK, Blocks, StaysInside, NextCycle, blocks, nopts

LEMMA ReturnInv == PermuteInv /\ Return => PermuteInv'
  BY DEF PermuteInv, TypeOK, Blocks, StaysInside, Return, blocks, nopts

(* Nothing but the blocks' own words is ever written, however long they are. *)
THEOREM BlocksInside == Spec => []PermuteInv
<1>1. PermuteInv /\ [Next]_vars => PermuteInv'
  <2> SUFFICES ASSUME PermuteInv, [Next]_vars PROVE PermuteInv'
    OBVIOUS
  <2>1. CASE UNCHANGED vars
    BY <2>1 DEF PermuteInv, TypeOK, Blocks, StaysInside, vars, blocks, nopts
  <2> QED
    BY <2>1, DivideInv, MoveInv, NextCycleInv, ReturnInv DEF Next
<1> QED
  BY InitInv, <1>1, PTL DEF Spec

(* The types, for every length: gcd never divides by zero, and every cycle
   begins in the second block (permute_args). *)
THEOREM DivisorInBounds == Spec => []TypeOK
<1>1. PermuteInv => TypeOK
  BY DEF PermuteInv
<1> QED
  BY BlocksInside, <1>1, PTL

(* permute_args touches no word outside of its two blocks, for every length. *)
THEOREM WordsOutsideStay == Spec => []StaysInside
<1>1. PermuteInv => StaysInside
  BY DEF PermuteInv
<1> QED
  BY BlocksInside, <1>1, PTL

-----------------------------------------------------------------------------
(* The greatest common divisor *)

Divides(d, v) == \E q \in Int : v = d * q

(* A combination of the two lengths *)
Combines(v, nn, no) == \E x \in Int, y \in Int : v = x * nn + y * no

LEMMA QuotientIs ==
  ASSUME NEW p \in Int, NEW d \in Nat \ {0}
  PROVE  p \div d \in Int /\ p % d \in Int /\ p % d \in 0 .. d - 1 /\ p = d * (p \div d) + (p % d)
OBVIOUS

LEMMA RemainderCombines ==
  ASSUME NEW nn \in Int, NEW no \in Int, NEW p \in Int, NEW d \in Nat \ {0},
         Combines(p, nn, no), Combines(d, nn, no)
  PROVE  Combines(p % d, nn, no)
<1>1. PICK x \in Int, y \in Int : p = x * nn + y * no
  BY DEF Combines
<1>2. PICK v \in Int, w \in Int : d = v * nn + w * no
  BY DEF Combines
<1>. DEFINE q == p \div d
            r == p % d
<1>3. q \in Int /\ r \in Int /\ p = d * q + r
  BY QuotientIs
<1>. HIDE DEF q, r
<1>4. x - q * v \in Int /\ y - q * w \in Int
  BY <1>3
<1>5. (x - q * v) * nn + (y - q * w) * no = (x * nn + y * no) - (v * nn + w * no) * q
  BY <1>3
<1>6. r = (x - q * v) * nn + (y - q * w) * no
  BY <1>1, <1>2, <1>3, <1>5
<1>. QED
  BY <1>4, <1>6 DEF Combines, r

LEMMA RemainderDivides ==
  ASSUME NEW p \in Int, NEW d \in Nat \ {0}, NEW c \in Nat \ {0},
         Divides(c, d), Divides(c, p % d)
  PROVE  Divides(c, p)
<1>1. PICK u \in Int : d = c * u
  BY DEF Divides
<1>2. PICK v \in Int : p % d = c * v
  BY DEF Divides
<1>. DEFINE q == p \div d
<1>3. q \in Int /\ p = d * q + (p % d)
  BY QuotientIs
<1>. HIDE DEF q
<1>4. p = (c * u) * q + c * v
  BY <1>1, <1>2, <1>3
<1>5. u * q + v \in Int /\ (c * u) * q + c * v = c * (u * q + v)
  BY <1>3
<1>. QED
  BY <1>4, <1>5 DEF Divides

(* The division goes on with what it began with: the numbers are combinations
   of the lengths, and what divides both of them divides the lengths. *)
Divisors ==
  /\ Combines(a, nnonopts, nopts) /\ Combines(b, nnonopts, nopts)
  /\ \A d \in Nat \ {0} : Divides(d, a) /\ Divides(d, b)
                            => Divides(d, nnonopts) /\ Divides(d, nopts)

(* The divisor that was found, and one is a combination of the quotients. *)
Coprime(s, t) == \E x \in Int, y \in Int : x * (s + t) + y * t = 1

Quotients(s, t) ==
  /\ s \in Nat \ {0} /\ t \in Nat \ {0}
  /\ nnonopts = b * s /\ nopts = b * t /\ Coprime(s, t)

LEMMA InitDivisors == Init => Divisors
<1>. SUFFICES ASSUME Init PROVE Divisors
  OBVIOUS
<1>1. a = nnonopts /\ b = nopts /\ nnonopts \in Int /\ nopts \in Int
  BY DEF Init, nnonopts, nopts
<1>2. a = 1 * nnonopts + 0 * nopts /\ b = 0 * nnonopts + 1 * nopts
  BY <1>1
<1>3. Combines(a, nnonopts, nopts) /\ Combines(b, nnonopts, nopts)
  BY <1>2 DEF Combines
<1>. QED
  BY <1>1, <1>3 DEF Divisors

LEMMA DivideDivisors ==
  ASSUME PermuteInv, Divisors, Divide, a % b # 0
  PROVE  Divisors'
<1>1. /\ a \in Nat \ {0} /\ b \in Nat \ {0} /\ nnonopts \in Int /\ nopts \in Int
      /\ a' = b /\ b' = a % b /\ nnonopts' = nnonopts /\ nopts' = nopts
  BY PermuteAssumption DEF PermuteInv, TypeOK, Blocks, Divide, blocks, nnonopts, nopts
<1>. HIDE DEF nnonopts, nopts
<1>2. Combines(a % b, nnonopts, nopts)
  BY <1>1, RemainderCombines DEF Divisors
<1>3. ASSUME NEW d \in Nat \ {0}, Divides(d, b), Divides(d, a % b)
      PROVE  Divides(d, nnonopts) /\ Divides(d, nopts)
  <2>1. Divides(d, a)
    BY <1>1, <1>3, RemainderDivides
  <2>. QED
    BY <1>3, <2>1 DEF Divisors
<1>. QED
  BY <1>1, <1>2, <1>3 DEF Divisors

LEMMA DivisorFound ==
  ASSUME PermuteInv, Divisors, a % b = 0
  PROVE  \E s, t : Quotients(s, t)
<1>1. /\ a \in Nat \ {0} /\ b \in Nat \ {0}
      /\ nnonopts \in Nat \ {0} /\ nopts \in Nat \ {0}
  BY PermuteAssumption DEF PermuteInv, TypeOK, Blocks, nnonopts, nopts
<1>. HIDE DEF nnonopts, nopts
<1>2. a \div b \in Int /\ a = b * (a \div b) + 0
  BY <1>1, QuotientIs
<1>3. Divides(b, a)
  BY <1>1, <1>2 DEF Divides
<1>4. Divides(b, b)
  BY <1>1 DEF Divides
<1>5. Divides(b, nnonopts) /\ Divides(b, nopts)
  BY <1>1, <1>3, <1>4 DEF Divisors
<1>6. PICK s \in Int : nnonopts = b * s
  BY <1>5 DEF Divides
<1>7. PICK t \in Int : nopts = b * t
  BY <1>5 DEF Divides
<1>8. s \in Nat \ {0} /\ t \in Nat \ {0}
  <2>1. \A d \in Nat \ {0} : \A k \in Int : d * k > 0 => k > 0
    OBVIOUS
  <2>2. b * s > 0 /\ b * t > 0
    BY <1>1, <1>6, <1>7
  <2>3. s > 0 /\ t > 0
    BY <1>1, <2>1, <2>2
  <2>. QED
    BY <2>3
<1>9. PICK x \in Int, y \in Int : b = x * nnonopts + y * nopts
  BY DEF Divisors, Combines
<1>10. x * s + y * t = 1
  <2>1. b = b * (x * s + y * t)
    <3>1. b = x * (b * s) + y * (b * t)
      BY <1>6, <1>7, <1>9
    <3>2. x * (b * s) + y * (b * t) = b * (x * s + y * t)
      BY <1>1
    <3>. QED
      BY <3>1, <3>2
  <2>2. \A d \in Nat \ {0} : \A k \in Int : d = d * k => k = 1
    OBVIOUS
  <2>3. x * s + y * t \in Int
    OBVIOUS
  <2>. QED
    BY <1>1, <2>1, <2>2, <2>3
<1>11. x * (s + t) + (y - x) * t = 1
  <2>1. x * (s + t) + (y - x) * t = x * s + y * t
    OBVIOUS
  <2>. QED
    BY <1>10, <2>1
<1>12. Coprime(s, t)
  BY <1>11 DEF Coprime
<1>. QED
  BY <1>6, <1>7, <1>8, <1>12 DEF Quotients

-----------------------------------------------------------------------------
(* The cycles: in a class of words, those that lie a multiple of the divisor
   apart, the rotation takes the word at place p to the place before it. *)

PlaceBefore(s, t, p) == IF p < t THEN p + s ELSE p - t
PlaceBehind(s, t, p) == IF p >= s THEN p - s ELSE p + t

(* Place p is the one that k steps from the start of a cycle, place s, reach. *)
Reached(s, t, k, p) == \E m \in Int : p = s + k * t - m * (s + t)

LEMMA StepsBack ==
  ASSUME NEW s \in Nat \ {0}, NEW t \in Nat \ {0}, NEW p \in 0 .. s + t - 1
  PROVE  /\ PlaceBehind(s, t, p) \in 0 .. s + t - 1 /\ PlaceBefore(s, t, p) \in 0 .. s + t - 1
         /\ PlaceBefore(s, t, PlaceBehind(s, t, p)) = p
BY DEF PlaceBefore, PlaceBehind

LEMMA ReachedNext ==
  ASSUME NEW s \in Nat \ {0}, NEW t \in Nat \ {0}, NEW p \in 0 .. s + t - 1,
         NEW k \in Int, Reached(s, t, k, p)
  PROVE  Reached(s, t, k + 1, PlaceBehind(s, t, p))
<1>1. PICK m \in Int : p = s + k * t - m * (s + t)
  BY DEF Reached
<1>2. (k + 1) * t = k * t + t /\ (m + 1) * (s + t) = m * (s + t) + (s + t)
  OBVIOUS
<1>3. k * t \in Int /\ (k + 1) * t \in Int /\ m * (s + t) \in Int /\ (m + 1) * (s + t) \in Int
  OBVIOUS
<1>. DEFINE u == k * t
            v == m * (s + t)
            u2 == (k + 1) * t
            v2 == (m + 1) * (s + t)
<1>. HIDE DEF u, v, u2, v2
<1>4. p = s + u - v /\ u2 = u + t /\ v2 = v + (s + t) /\ u \in Int /\ v \in Int
  BY <1>1, <1>2, <1>3 DEF u, v, u2, v2
<1>5. p + t = s + u2 - v /\ p - s = s + u2 - v2
  BY <1>4
<1>6. p + t = s + (k + 1) * t - m * (s + t) /\ p - s = s + (k + 1) * t - (m + 1) * (s + t)
  BY <1>5 DEF v, u2, v2
<1>7. Reached(s, t, k + 1, p + t) /\ Reached(s, t, k + 1, p - s)
  <2>1. m + 1 \in Int
    OBVIOUS
  <2>. HIDE DEF u, v, u2, v2
  <2>. QED
    BY <1>6, <2>1 DEF Reached
<1>. QED
  BY <1>7 DEF PlaceBehind

LEMMA NoMultiple ==
  ASSUME NEW d \in Nat \ {0}, NEW e \in Int, NEW v \in Int, v = d * e, 0 < v, v < d
  PROVE  FALSE
<1>1. CASE e <= 0
  <2>1. d * e <= 0
    BY <1>1
  <2>. QED
    BY <2>1
<1>2. CASE e >= 1
  <2>1. d * e >= d
    BY <1>2
  <2>. QED
    BY <2>1
<1>. QED
  BY <1>1, <1>2

(* Two places that differ by a multiple of the length are the same. *)
LEMMA SamePlace ==
  ASSUME NEW l \in Nat \ {0}, NEW p \in 0 .. l - 1, NEW q \in 0 .. l - 1, NEW e \in Int,
         p - q = l * e
  PROVE  p = q
<1>1. CASE p > q
  BY <1>1, NoMultiple
<1>2. CASE p < q
  <2>1. q - p = l * (0 - e)
    BY <1>2
  <2>2. 0 - e \in Int /\ q - p \in Int /\ 0 < q - p /\ q - p < l
    BY <1>2
  <2>. QED
    BY <2>1, <2>2, NoMultiple
<1>. QED
  BY <1>1, <1>2

LEMMA ReachedOnce ==
  ASSUME NEW s \in Nat \ {0}, NEW t \in Nat \ {0},
         NEW p \in 0 .. s + t - 1, NEW q \in 0 .. s + t - 1,
         NEW k \in Int, Reached(s, t, k, p), Reached(s, t, k, q)
  PROVE  p = q
<1>1. PICK m \in Int : p = s + k * t - m * (s + t)
  BY DEF Reached
<1>2. PICK m2 \in Int : q = s + k * t - m2 * (s + t)
  BY DEF Reached
<1>3. p - q = (s + t) * (m2 - m)
  BY <1>1, <1>2
<1>. QED
  BY <1>3, SamePlace

(* A cycle comes back to a place only after all of its places. *)
LEMMA ReachedApart ==
  ASSUME NEW s \in Nat \ {0}, NEW t \in Nat \ {0}, Coprime(s, t),
         NEW p \in Int, NEW k \in Int, NEW k2 \in Int, k < k2, k2 - k < s + t,
         Reached(s, t, k, p), Reached(s, t, k2, p)
  PROVE  FALSE
<1>1. PICK m \in Int : p = s + k * t - m * (s + t)
  BY DEF Reached
<1>2. PICK m2 \in Int : p = s + k2 * t - m2 * (s + t)
  BY DEF Reached
<1>3. PICK x \in Int, y \in Int : x * (s + t) + y * t = 1
  BY DEF Coprime
<1>. DEFINE d == k2 - k
            e == m2 - m
            l == s + t
<1>4. d * t = e * l
  BY <1>1, <1>2
<1>5. d = l * (d * x + y * e)
  <2>1. d \in Int /\ e \in Int /\ l \in Int
    OBVIOUS
  <2>2. x * l + y * t = 1
    BY <1>3
  <2>. HIDE DEF d, e, l
  <2>3. d = d * (x * l + y * t)
    BY <2>1, <2>2
  <2>4. d * (x * l + y * t) = l * (d * x) + y * (d * t)
    BY <2>1
  <2>5. l * (d * x) + y * (e * l) = l * (d * x + y * e)
    BY <2>1
  <2>. QED
    BY <1>4, <2>3, <2>4, <2>5
<1>6. d \in Int /\ 0 < d /\ d < l /\ d * x + y * e \in Int /\ l \in Nat \ {0}
  OBVIOUS
<1>. HIDE DEF d, l
<1>. QED
  BY <1>5, <1>6, NoMultiple

(* A cycle comes to every place. *)
LEMMA ReachedAll ==
  ASSUME NEW s \in Nat \ {0}, NEW t \in Nat \ {0}, Coprime(s, t), NEW p \in Int
  PROVE  \E k \in 0 .. s + t - 1 : Reached(s, t, k, p)
<1>1. PICK x \in Int, y \in Int : x * (s + t) + y * t = 1
  BY DEF Coprime
<1>. DEFINE l == s + t
            c == (p - s) * y
            k == c % l
            e == c \div l
            m == 0 - (e * t + (p - s) * x)
<1>2. l \in Nat \ {0} /\ c \in Int
  OBVIOUS
<1>3. e \in Int /\ k \in Int /\ k \in 0 .. l - 1 /\ c = l * e + k
  <2>. HIDE DEF c, l
  <2>. QED
    BY <1>2, QuotientIs
<1>. HIDE DEF c, k, e
<1>4. m \in Int
  BY <1>3
<1>5. p - s = (p - s) * x * l + c * t
  <2>1. p - s = (p - s) * (x * l + y * t)
    BY <1>1
  <2>2. (p - s) * (x * l + y * t) = (p - s) * x * l + ((p - s) * y) * t
    OBVIOUS
  <2>. QED
    BY <2>1, <2>2 DEF c
<1>6. c * t = (l * e + k) * t
  BY <1>3
<1>7. (l * e + k) * t = (e * t) * l + k * t
  BY <1>3
<1>8. m * l = 0 - ((e * t) * l + (p - s) * x * l)
  BY <1>3
<1>9. p = s + k * t - m * l
  <2>. DEFINE u == (p - s) * x * l
              v == (e * t) * l
              w == k * t
              z == m * l
  <2>1. u \in Int /\ v \in Int /\ w \in Int /\ z \in Int
    BY <1>3
  <2>2. p - s = u + (v + w) /\ z = 0 - (v + u)
    BY <1>5, <1>6, <1>7, <1>8
  <2>. HIDE DEF u, v, w, z
  <2>3. p = s + w - z
    BY <2>1, <2>2
  <2>. QED
    BY <2>3 DEF w, z
<1>10. Reached(s, t, k, p)
  BY <1>4, <1>9 DEF Reached
<1>. QED
  BY <1>3, <1>10

-----------------------------------------------------------------------------
(* The words in classes *)

(* Word number p of class c *)
Cell(c, p) == start + (c + b * p)

LEMMA ClassIs ==
  ASSUME NEW d \in Nat \ {0}, NEW c \in 0 .. d - 1, NEW c2 \in 0 .. d - 1,
         NEW p \in Int, NEW p2 \in Int, c + d * p = c2 + d * p2
  PROVE  c = c2 /\ p = p2
<1>1. c - c2 = d * (p2 - p)
  <2>1. d * (p2 - p) = d * p2 - d * p
    OBVIOUS
  <2>2. d * p \in Int /\ d * p2 \in Int /\ c \in Int /\ c2 \in Int
    OBVIOUS
  <2>. DEFINE u == d * p
              v == d * p2
  <2>. HIDE DEF u, v
  <2>3. u \in Int /\ v \in Int /\ c + u = c2 + v /\ d * (p2 - p) = v - u
    BY <2>1, <2>2 DEF u, v
  <2>. QED
    BY <2>2, <2>3
<1>2. p2 - p \in Int
  OBVIOUS
<1>3. c = c2
  BY <1>1, <1>2, SamePlace
<1>4. \A e \in Int : d * e = 0 => e = 0
  OBVIOUS
<1>5. p2 - p = 0
  BY <1>1, <1>2, <1>3, <1>4
<1>. QED
  BY <1>3, <1>5

LEMMA ClassOrder ==
  ASSUME NEW d \in Nat \ {0}, NEW c \in 0 .. d - 1, NEW p \in Int, NEW q \in Int
  PROVE  /\ d * p \in Int /\ d * q \in Int
         /\ c + d * p >= d * q <=> p >= q
<1>0. d * p \in Int /\ d * q \in Int
  OBVIOUS
<1>1. CASE p >= q
  <2>1. d * p >= d * q
    BY <1>1
  <2>. QED
    BY <1>0, <1>1, <2>1
<1>2. CASE ~ (p >= q)
  <2>1. q >= p + 1
    BY <1>2
  <2>2. d * q >= d * (p + 1)
    BY <2>1
  <2>3. d * (p + 1) = d * p + d
    OBVIOUS
  <2>. QED
    BY <1>0, <1>2, <2>2, <2>3
<1>. QED
  BY <1>1, <1>2

(* The numbers that the steps are about *)
LEMMA Lengths ==
  ASSUME PermuteInv, NEW s, NEW t, Quotients(s, t)
  PROVE  /\ s \in Nat \ {0} /\ t \in Nat \ {0} /\ Coprime(s, t) /\ b \in Nat \ {0}
         /\ start \in Nat /\ end \in Nat /\ opt_end \in Nat /\ i \in 0 .. b
         /\ end = start + b * s /\ opt_end = start + b * (s + t)
         /\ b * s \in Nat /\ b * t \in Nat /\ b * (s + t) = b * s + b * t
         /\ nnonopts = b * s /\ nopts = b * t
         /\ cyclelen = s + t /\ start .. opt_end - 1 \subseteq 1 .. MaxLength
         /\ nargv \in [1 .. MaxLength -> 1 .. MaxLength]
<1>1. /\ s \in Nat \ {0} /\ t \in Nat \ {0} /\ Coprime(s, t) /\ b \in Nat \ {0}
      /\ nnonopts = b * s /\ nopts = b * t
  BY DEF PermuteInv, TypeOK, Quotients, Blocks, nopts
<1>2. /\ start \in Nat /\ end \in Nat /\ opt_end \in Nat /\ i \in 0 .. b
      /\ start .. opt_end - 1 \subseteq 1 .. MaxLength
      /\ nargv \in [1 .. MaxLength -> 1 .. MaxLength]
  BY PermuteAssumption DEF PermuteInv, TypeOK, Blocks
<1>3. b * s \in Nat /\ b * t \in Nat /\ b * (s + t) = b * s + b * t
  BY <1>1
<1>4. end = start + b * s /\ opt_end = start + b * (s + t) /\ opt_end - start = b * (s + t)
  <2>. DEFINE u == b * s
              v == b * t
  <2>. HIDE DEF u, v
  <2>1. end - start = u /\ opt_end - end = v /\ u \in Nat /\ v \in Nat
        /\ b * (s + t) = u + v
    BY <1>1, <1>3 DEF nnonopts, nopts, u, v
  <2>2. end = start + u /\ opt_end = start + (u + v) /\ opt_end - start = u + v
    BY <1>2, <2>1
  <2>. QED
    BY <1>3, <2>1, <2>2 DEF u
<1>5. (b * (s + t)) \div b = s + t
  <2>1. \A d \in Nat \ {0} : \A l \in Nat : (d * l) \div d = l
    <3>. SUFFICES ASSUME NEW d \in Nat \ {0}, NEW l \in Nat
         PROVE (d * l) \div d = l
      OBVIOUS
    <3>. DEFINE q == (d * l) \div d
                r == (d * l) % d
    <3>1. d * l \in Int
      OBVIOUS
    <3>2. q \in Int /\ r \in 0 .. d - 1 /\ d * l = d * q + r
      BY <3>1, QuotientIs
    <3>. HIDE DEF q, r
    <3>3. 0 \in 0 .. d - 1 /\ 0 + d * l = r + d * q
      BY <3>1, <3>2
    <3>4. l = q
      BY <3>2, <3>3, ClassIs
    <3>. QED
      BY <3>4 DEF q
  <2>. QED
    BY <1>1, <2>1
<1>6. cyclelen = s + t
  BY <1>4, <1>5 DEF cyclelen
<1>. QED
  BY <1>1, <1>2, <1>3, <1>4, <1>6

LEMMA CellIs ==
  ASSUME PermuteInv, NEW s, NEW t, Quotients(s, t),
         NEW c \in 0 .. b - 1, NEW p \in 0 .. s + t - 1
  PROVE  /\ Cell(c, p) \in start .. opt_end - 1 /\ Cell(c, p) \in 1 .. MaxLength
         /\ Cell(c, p) >= end <=> p >= s
         /\ \A c2 \in 0 .. b - 1, p2 \in 0 .. s + t - 1 :
              Cell(c, p) = Cell(c2, p2) => c = c2 /\ p = p2
<1>1. /\ s \in Nat \ {0} /\ t \in Nat \ {0} /\ b \in Nat \ {0}
      /\ start \in Nat /\ end \in Nat /\ opt_end \in Nat
      /\ end = start + b * s /\ opt_end = start + b * (s + t)
      /\ start .. opt_end - 1 \subseteq 1 .. MaxLength
  BY Lengths
<1>2. b * p \in Int /\ b * s \in Int /\ (c + b * p >= b * s <=> p >= s)
  BY <1>1, ClassOrder
<1>3. b * 0 \in Int /\ c + b * p >= b * 0
  BY <1>1, ClassOrder
<1>4. b * (s + t) \in Int /\ ~ (c + b * p >= b * (s + t))
  <2>1. s + t \in Int /\ p \in Int /\ ~ (p >= s + t)
    BY <1>1
  <2>. QED
    BY <1>1, <2>1, ClassOrder
<1>. DEFINE u == b * p
            v == b * s
            w == b * (s + t)
<1>5. /\ u \in Int /\ v \in Int /\ w \in Int /\ c \in Nat
      /\ (c + u >= v <=> p >= s) /\ c + u >= 0 /\ ~ (c + u >= w)
      /\ end = start + v /\ opt_end = start + w /\ Cell(c, p) = start + (c + u)
  BY <1>1, <1>2, <1>3, <1>4 DEF Cell
<1>. HIDE DEF u, v, w
<1>6. Cell(c, p) \in start .. opt_end - 1 /\ (Cell(c, p) >= end <=> p >= s)
  BY <1>1, <1>5
<1>7. ASSUME NEW c2 \in 0 .. b - 1, NEW p2 \in 0 .. s + t - 1, Cell(c, p) = Cell(c2, p2)
      PROVE  c = c2 /\ p = p2
  <2>1. c + b * p = c2 + b * p2
    <3>. DEFINE v2 == b * p2
                u2 == b * p
    <3>1. u2 \in Int /\ v2 \in Int
      BY <1>1
    <3>2. start + (c + u2) = start + (c2 + v2)
      BY <1>7 DEF Cell
    <3>. HIDE DEF u2, v2
    <3>3. c + u2 = c2 + v2
      BY <1>1, <3>1, <3>2
    <3>. QED
      BY <3>3 DEF u2, v2
  <2>. QED
    BY <1>1, <2>1, ClassIs
<1>. QED
  BY <1>1, <1>6, <1>7

-----------------------------------------------------------------------------
(* The classes before class i have been rotated, those behind it not yet; of
   class i itself the places that j steps reached.  The word at the start of
   its cycle is the one that belongs to the place reached next. *)
HalfWay(s, t) ==
  /\ j \in 0 .. s + t
  /\ \E p \in 0 .. s + t - 1 : pos = Cell(i, p) /\ Reached(s, t, j, p)
  /\ nargv[Cell(i, s)] = IF j = s + t THEN Cell(i, PlaceBefore(s, t, s)) ELSE pos
  /\ \A k \in 1 .. s + t - 1, p \in 0 .. s + t - 1 :
       Reached(s, t, k, p) =>
         nargv[Cell(i, p)] = IF k <= j THEN Cell(i, PlaceBefore(s, t, p)) ELSE Cell(i, p)

ClassesDone(s, t) ==
  \A c \in 0 .. b - 1, p \in 0 .. s + t - 1 :
    /\ c < i => nargv[Cell(c, p)] = Cell(c, PlaceBefore(s, t, p))
    /\ c > i => nargv[Cell(c, p)] = Cell(c, p)

Rotating(s, t) ==
  /\ Quotients(s, t) /\ ClassesDone(s, t)
  /\ i < b => HalfWay(s, t)

Rotation ==
  /\ pc = "gcd" => Divisors /\ j = 0 /\ \A k \in 1 .. MaxLength : nargv[k] = k
  /\ pc = "cycles" => \E s, t : Rotating(s, t)
  /\ pc = "done" => i = b /\ \E s, t : Rotating(s, t)

LEMMA CellsNext ==
  ASSUME UNCHANGED <<start, b>>
  PROVE  \A c, p : Cell(c, p)' = Cell(c, p)
BY DEF Cell

LEMMA InitRotation == Init => Rotation
BY InitDivisors DEF Rotation, Init

(* Nothing has moved when a cycle begins. *)
LEMMA CycleBegins ==
  ASSUME PermuteInv, NEW s, NEW t, Quotients(s, t), UNCHANGED <<blocks, b>>,
         i' \in 0 .. b - 1, j' = 0, pos' = end + i',
         \A p \in 0 .. s + t - 1 : nargv'[Cell(i', p)] = Cell(i', p)
  PROVE  HalfWay(s, t)'
<1>1. /\ s \in Nat \ {0} /\ t \in Nat \ {0} /\ b \in Nat \ {0}
      /\ end = start + b * s /\ b * s \in Nat /\ start \in Nat
  BY Lengths
<1>2. s \in 0 .. s + t - 1 /\ j' \in 0 .. s + t /\ j' # s + t
  BY <1>1
<1>3. \A c, p : Cell(c, p)' = Cell(c, p)
  BY CellsNext DEF blocks
<1>4. pos' = Cell(i', s)
  <2>. DEFINE u == b * s
  <2>1. u \in Nat /\ pos' = (start + u) + i' /\ i' \in Int /\ start \in Int
    BY <1>1
  <2>. HIDE DEF u
  <2>2. \A x, y, z \in Int : (x + y) + z = x + (z + y)
    OBVIOUS
  <2>3. u \in Int
    BY <2>1
  <2>4. (start + u) + i' = start + (i' + u)
    BY Zenon, <2>1, <2>2, <2>3
  <2>. QED
    BY <2>1, <2>4 DEF Cell, u
<1>5. Reached(s, t, 0, s)
  <2>1. s = s + 0 * t - 0 * (s + t)
    BY <1>1
  <2>. QED
    BY <2>1 DEF Reached
<1>6. \A k \in 1 .. s + t - 1 : ~ (k <= j')
  BY <1>1
<1>7. \A p : Cell(i, p)' = Cell(i', p)
  BY DEF Cell, blocks
<1>. QED
  BY <1>2, <1>4, <1>5, <1>6, <1>7 DEF HalfWay

LEMMA DivideRotation == PermuteInv /\ Rotation /\ Divide => Rotation'
<1>. SUFFICES ASSUME PermuteInv, Rotation, Divide PROVE Rotation'
  OBVIOUS
<1>1. /\ pc = "gcd" /\ Divisors /\ i = 0 /\ j = 0 /\ (\A k \in 1 .. MaxLength : nargv[k] = k)
      /\ UNCHANGED <<blocks, nargv, i, j>>
  BY DEF Rotation, Divide, PermuteInv, Blocks
<1>2. CASE a % b # 0
  <2>1. Divisors' /\ pc' = pc
    BY <1>1, <1>2, DivideDivisors DEF Divide
  <2>. QED
    BY <1>1, <2>1 DEF Rotation
<1>3. CASE a % b = 0
  <2>1. PICK s, t : Quotients(s, t)
    BY <1>1, <1>3, DivisorFound
  <2>2. pc' = "cycles" /\ pos' = cstart /\ a' = a /\ b' = b
    BY <1>3 DEF Divide
  <2>3. Quotients(s, t)'
    BY <1>1, <2>1, <2>2 DEF Quotients, blocks, nnonopts, nopts
  <2>4. b \in Nat \ {0} /\ UNCHANGED <<blocks, b>> /\ i' = 0 /\ j' = 0 /\ pos' = end + i'
    BY <1>1, <2>1, <2>2, Lengths DEF cstart
  <2>5. ASSUME NEW c \in 0 .. b - 1, NEW p \in 0 .. s + t - 1
        PROVE  nargv'[Cell(c, p)] = Cell(c, p)
    <3>1. Cell(c, p) \in 1 .. MaxLength
      BY <2>1, CellIs
    <3>. QED
      BY <1>1, <3>1
  <2>6. i' \in 0 .. b - 1
    BY <2>4
  <2>7. ClassesDone(s, t)'
    <3>1. \A c \in 0 .. b - 1 : ~ (c < i')
      BY <2>4
    <3>2. \A c, p : Cell(c, p)' = Cell(c, p)
      BY <2>4 DEF Cell, blocks
    <3>. QED
      BY <2>4, <2>5, <3>1, <3>2 DEF ClassesDone
  <2>8. HalfWay(s, t)'
    BY <2>1, <2>4, <2>5, <2>6, CycleBegins
  <2>9. Rotating(s, t)'
    BY <2>3, <2>7, <2>8 DEF Rotating
  <2>. QED
    BY <2>2, <2>9 DEF Rotation
<1>. QED
  BY <1>2, <1>3

(* The word that waits at the start of the cycle goes to its place, which is
   the one behind, and the word from there waits next. *)
LEMMA MoveHalfWay ==
  ASSUME PermuteInv, Move, NEW s, NEW t, Rotating(s, t)
  PROVE  /\ HalfWay(s, t)'
         /\ \A c \in 0 .. b - 1, p \in 0 .. s + t - 1 :
              c # i => nargv'[Cell(c, p)] = nargv[Cell(c, p)]
<1>1. /\ s \in Nat \ {0} /\ t \in Nat \ {0} /\ Coprime(s, t) /\ b \in Nat \ {0}
      /\ start \in Nat /\ end \in Nat /\ end = start + b * s /\ cyclelen = s + t
      /\ nnonopts = b * s /\ nopts = b * t /\ b * s \in Nat /\ b * t \in Nat
      /\ nargv \in [1 .. MaxLength -> 1 .. MaxLength] /\ Quotients(s, t)
  BY Lengths DEF Rotating
<1>2. /\ i \in 0 .. b - 1 /\ j < s + t /\ pos' = Follow /\ j' = j + 1
      /\ nargv' = [nargv EXCEPT ![pos'] = nargv[cstart], ![cstart] = nargv[pos']]
      /\ HalfWay(s, t) /\ UNCHANGED <<blocks, b, i>>
  <2>1. i \in 0 .. b /\ b \in Nat
    BY <1>1, Lengths
  <2>2. /\ i < b /\ j < cyclelen /\ pos' = Follow /\ j' = j + 1
        /\ nargv' = [nargv EXCEPT ![pos'] = nargv[cstart], ![cstart] = nargv[pos']]
        /\ UNCHANGED <<blocks, b, i>>
    BY DEF Move
  <2>3. HalfWay(s, t)
    BY <2>2 DEF Rotating
  <2>4. i \in 0 .. b - 1
    BY <2>1, <2>2
  <2>. QED
    BY <1>1, <2>2, <2>3, <2>4
<1>3. PICK p0 \in 0 .. s + t - 1 : pos = Cell(i, p0) /\ Reached(s, t, j, p0)
  BY <1>2 DEF HalfWay
<1>. DEFINE p1 == PlaceBehind(s, t, p0)
<1>4. /\ j \in Int /\ j \in 0 .. s + t - 1 /\ p1 \in 0 .. s + t - 1 /\ PlaceBefore(s, t, p1) = p0
      /\ Reached(s, t, j + 1, p1)
  <2>1. j \in 0 .. s + t /\ j \in Int
    BY <1>1, <1>2 DEF HalfWay
  <2>. QED
    BY <1>1, <1>2, <1>3, <2>1, StepsBack, ReachedNext
<1>5. cstart = Cell(i, s) /\ s \in 0 .. s + t - 1 /\ Reached(s, t, 0, s) /\ Reached(s, t, (s + t), s)
  <2>1. cstart = Cell(i, s)
    <3>. DEFINE u == b * s
    <3>1. u \in Int /\ cstart = (start + u) + i /\ i \in Int /\ start \in Int
      BY <1>1, <1>2 DEF cstart
    <3>. HIDE DEF u
    <3>2. cstart = start + (i + u)
      BY <3>1
    <3>. QED
      BY <3>2 DEF Cell, u
  <2>2. s = s + 0 * t - 0 * (s + t) /\ s = s + (s + t) * t - t * (s + t)
    BY <1>1
  <2>. QED
    BY <1>1, <2>1, <2>2 DEF Reached
<1>6. pos' = Cell(i, p1)
  <2>1. pos >= end <=> p0 >= s
    BY <1>1, <1>2, <1>3, CellIs
  <2>2. b * (p0 - s) = b * p0 - b * s /\ b * (p0 + t) = b * p0 + b * t /\ b * p0 \in Int
    BY <1>1
  <2>3. pos' = IF p0 >= s THEN pos - b * s ELSE pos + b * t
    BY <1>1, <1>2, <2>1 DEF Follow
  <2>. DEFINE u == b * p0
              v == b * s
              w == b * t
  <2>4. /\ u \in Int /\ v \in Int /\ w \in Int /\ i \in Int /\ start \in Int
        /\ pos = start + (i + u)
        /\ Cell(i, p0 - s) = start + (i + (u - v)) /\ Cell(i, p0 + t) = start + (i + (u + w))
    BY <1>1, <1>2, <1>3, <2>2 DEF Cell
  <2>. HIDE DEF u, v, w
  <2>5. pos - v = Cell(i, p0 - s) /\ pos + w = Cell(i, p0 + t)
    BY <2>4
  <2>. QED
    BY <2>3, <2>5 DEF PlaceBehind, v, w
<1>. HIDE DEF p1
<1>7. \A c \in 0 .. b - 1, p \in 0 .. s + t - 1 :
        /\ Cell(c, p) \in 1 .. MaxLength
        /\ \A c2 \in 0 .. b - 1, p2 \in 0 .. s + t - 1 :
             Cell(c, p) = Cell(c2, p2) => c = c2 /\ p = p2
  BY <1>1, CellIs
<1>8. Cell(i, p1) \in 1 .. MaxLength /\ Cell(i, s) \in 1 .. MaxLength
  BY <1>2, <1>4, <1>5, <1>7
<1>9. \A k \in 1 .. MaxLength :
        nargv'[k] = IF k = Cell(i, s) THEN nargv[Cell(i, p1)]
                    ELSE IF k = Cell(i, p1) THEN nargv[Cell(i, s)] ELSE nargv[k]
  BY <1>1, <1>2, <1>5, <1>6, <1>8
<1>10. \A c \in 0 .. b - 1, p \in 0 .. s + t - 1 :
         c # i => nargv'[Cell(c, p)] = nargv[Cell(c, p)]
  <2>. SUFFICES ASSUME NEW c \in 0 .. b - 1, NEW p \in 0 .. s + t - 1, c # i
       PROVE  nargv'[Cell(c, p)] = nargv[Cell(c, p)]
    OBVIOUS
  <2>1. /\ Cell(c, p) \in 1 .. MaxLength /\ Cell(c, p) # Cell(i, p1)
        /\ Cell(c, p) # Cell(i, s)
    BY <1>2, <1>4, <1>5, <1>7
  <2>. QED
    BY <1>9, <2>1
<1>11. nargv[Cell(i, s)] = pos
  BY <1>2, <1>4 DEF HalfWay
<1>12. \A c, p : Cell(c, p)' = Cell(c, p)
  BY <1>2, CellsNext DEF blocks
<1>13. s \in Nat /\ t \in Nat /\ s + t \in Nat
  BY <1>1
(* the place reached is the start only when the cycle is complete *)
<1>14. p1 = s <=> j + 1 = s + t
  <2>1. ASSUME j + 1 = (s + t) PROVE p1 = s
    BY <1>1, <1>4, <1>5, <1>13, <2>1, ReachedOnce
  <2>2. ASSUME p1 = s, j + 1 # (s + t) PROVE FALSE
    <3>1. 0 < j + 1 /\ (j + 1) - 0 < s + t /\ j + 1 \in Int /\ s \in Int
      BY <1>1, <1>4, <1>13, <2>2
    <3>2. Reached(s, t, j + 1, s) /\ Reached(s, t, 0, s)
      BY <1>4, <1>5, <2>2
    <3>. QED
      BY <1>1, <3>1, <3>2, ReachedApart
  <2>. QED
    BY <2>1, <2>2
<1>15. ASSUME NEW k \in 1 .. s + t - 1, NEW p \in 0 .. s + t - 1, Reached(s, t, k, p)
       PROVE  nargv'[Cell(i, p)]
                = IF k <= j' THEN Cell(i, PlaceBefore(s, t, p)) ELSE Cell(i, p)
  <2>1. p # s
    <3>1. 0 < k /\ k - 0 < s + t /\ k \in Int /\ s \in Int
      BY <1>1, <1>13
    <3>. QED
      BY <1>1, <1>5, <1>15, <3>1, ReachedApart
  <2>2. Cell(i, p) # Cell(i, s) /\ Cell(i, p) \in 1 .. MaxLength
    BY <1>2, <1>5, <1>7, <2>1
  <2>3. nargv[Cell(i, p)] = IF k <= j THEN Cell(i, PlaceBefore(s, t, p)) ELSE Cell(i, p)
    BY <1>2, <1>13, <1>15 DEF HalfWay
  <2>4. CASE p = p1
    <3>1. k = j + 1
      <4>1. j + 1 # (s + t) /\ j + 1 \in 1 .. s + t - 1
        BY <1>4, <1>13, <1>14, <2>1, <2>4
      <4>2. CASE k < j + 1
        <5>1. (j + 1) - k < s + t /\ k \in Int /\ j + 1 \in Int /\ p \in Int
          BY <1>4, <1>13, <4>1, <4>2
        <5>2. Reached(s, t, k, p) /\ Reached(s, t, j + 1, p)
          BY <1>4, <1>15, <2>4
        <5>. QED
          BY <1>1, <4>2, <5>1, <5>2, ReachedApart
      <4>3. CASE k > j + 1
        <5>1. k - (j + 1) < s + t /\ k \in Int /\ j + 1 \in Int /\ p \in Int /\ j + 1 < k
          BY <1>4, <1>13, <4>1, <4>3
        <5>2. Reached(s, t, k, p) /\ Reached(s, t, j + 1, p)
          BY <1>4, <1>15, <2>4
        <5>. QED
          BY <1>1, <5>1, <5>2, ReachedApart
      <4>. QED
        BY <1>4, <4>2, <4>3
    <3>2. k <= j'
      BY <1>2, <1>4, <3>1
    <3>3. nargv'[Cell(i, p)] = pos /\ pos = Cell(i, PlaceBefore(s, t, p))
      BY <1>3, <1>4, <1>9, <1>11, <2>2, <2>4
    <3>. QED
      BY <3>2, <3>3
  <2>5. CASE p # p1
    <3>1. k # j + 1
      <4>1. k = j + 1 => p = p1
        BY <1>1, <1>4, <1>13, <1>15, ReachedOnce
      <4>. QED
        BY <2>5, <4>1
    <3>2. k <= j <=> k <= j'
      BY <1>2, <1>4, <3>1
    <3>3. Cell(i, p) # Cell(i, p1)
      BY <1>2, <1>4, <1>7, <2>5
    <3>4. nargv'[Cell(i, p)] = nargv[Cell(i, p)]
      BY <1>9, <2>2, <3>3
    <3>. QED
      BY <2>3, <3>2, <3>4
  <2>. QED
    BY <2>4, <2>5
<1>16. nargv'[Cell(i, s)] = IF j' = (s + t) THEN Cell(i, PlaceBefore(s, t, s)) ELSE pos'
  <2>1. CASE j + 1 = s + t
    <3>1. nargv'[Cell(i, s)] = pos
      BY <1>8, <1>9, <1>11, <1>14, <2>1
    <3>2. pos = Cell(i, PlaceBefore(s, t, s))
      BY <1>3, <1>4, <1>14, <2>1
    <3>. QED
      BY <1>2, <2>1, <3>1, <3>2
  <2>2. CASE j + 1 # (s + t)
    <3>1. nargv'[Cell(i, s)] = nargv[Cell(i, p1)]
      BY <1>8, <1>9
    <3>2. j + 1 \in 1 .. s + t - 1 /\ ~ (j + 1 <= j)
      BY <1>4, <1>13, <2>2
    <3>3. nargv[Cell(i, p1)] = Cell(i, p1)
      BY <1>2, <1>4, <1>13, <3>2 DEF HalfWay
    <3>. QED
      BY <1>2, <1>6, <2>2, <3>1, <3>3
  <2>. QED
    BY <2>1, <2>2
<1>17. HalfWay(s, t)'
  <2>1. j' \in 0 .. s + t /\ Reached(s, t, j', p1)
    BY <1>2, <1>4, <1>13
  <2>2. \A p : Cell(i, p)' = Cell(i, p)
    BY <1>2 DEF Cell, blocks
  <2>. QED
    BY <1>4, <1>6, <1>13, <1>15, <1>16, <2>1, <2>2 DEF HalfWay
<1>. QED
  BY <1>10, <1>13, <1>17

LEMMA MoveRotation == PermuteInv /\ Rotation /\ Move => Rotation'
<1>. SUFFICES ASSUME PermuteInv, Rotation, Move PROVE Rotation'
  OBVIOUS
<1>1. pc = "cycles" /\ pc' = pc /\ UNCHANGED <<blocks, b, i>>
  BY DEF Move
<1>2. PICK s, t : Rotating(s, t)
  BY <1>1 DEF Rotation
<1>3. /\ HalfWay(s, t)'
      /\ \A c \in 0 .. b - 1, p \in 0 .. s + t - 1 :
           c # i => nargv'[Cell(c, p)] = nargv[Cell(c, p)]
  BY <1>2, MoveHalfWay
<1>4. Quotients(s, t)'
  BY <1>1, <1>2 DEF Rotating, Quotients, blocks, nnonopts, nopts
<1>5. ClassesDone(s, t)'
  <2>1. \A c, p : Cell(c, p)' = Cell(c, p)
    BY <1>1, CellsNext DEF blocks
  <2>2. i \in Int
    BY <1>2, Lengths DEF Rotating
  <2>3. ASSUME NEW c \in 0 .. b - 1, NEW p \in 0 .. s + t - 1
        PROVE  /\ c < i' => nargv'[Cell(c, p)] = Cell(c, PlaceBefore(s, t, p))
               /\ c > i' => nargv'[Cell(c, p)] = Cell(c, p)
    <3>1. /\ c < i => nargv[Cell(c, p)] = Cell(c, PlaceBefore(s, t, p))
          /\ c > i => nargv[Cell(c, p)] = Cell(c, p)
      BY <1>2 DEF Rotating, ClassesDone
    <3>2. c # i => nargv'[Cell(c, p)] = nargv[Cell(c, p)]
      BY <1>3
    <3>3. c \in Int /\ (c < i => c # i) /\ (c > i => c # i) /\ i' = i
      BY <1>1, <2>2
    <3>. QED
      BY <3>1, <3>2, <3>3
  <2>. QED
    BY <1>1, <2>1, <2>3 DEF ClassesDone
<1>6. Rotating(s, t)'
  BY <1>3, <1>4, <1>5 DEF Rotating
<1>. QED
  BY <1>1, <1>6 DEF Rotation

(* When as many steps have been made as the cycle is long, no place of the
   class is left out. *)
LEMMA ClassIsDone ==
  ASSUME PermuteInv, NEW s, NEW t, Quotients(s, t), HalfWay(s, t), j = s + t, i < b,
         NEW p \in 0 .. s + t - 1
  PROVE  nargv[Cell(i, p)] = Cell(i, PlaceBefore(s, t, p))
<1>1. s \in Nat \ {0} /\ t \in Nat \ {0} /\ Coprime(s, t)
  BY Lengths
<1>2. PICK k \in 0 .. s + t - 1 : Reached(s, t, k, p)
  BY <1>1, ReachedAll
<1>3. CASE k = 0
  <2>1. Reached(s, t, 0, s)
    <3>1. s = s + 0 * t - 0 * (s + t)
      BY <1>1
    <3>. QED
      BY <3>1 DEF Reached
  <2>2. s \in 0 .. s + t - 1 /\ 0 \in Int
    BY <1>1
  <2>3. p = s
    BY <1>1, <1>2, <1>3, <2>1, <2>2, ReachedOnce
  <2>. QED
    BY <2>3 DEF HalfWay
<1>4. CASE k # 0
  <2>1. k \in 1 .. s + t - 1 /\ k <= s + t
    BY <1>1, <1>2, <1>4
  <2>. QED
    BY <1>2, <2>1 DEF HalfWay
<1>. QED
  BY <1>3, <1>4

LEMMA NextCycleRotation == PermuteInv /\ Rotation /\ NextCycle => Rotation'
<1>. SUFFICES ASSUME PermuteInv, Rotation, NextCycle PROVE Rotation'
  OBVIOUS
<1>1. /\ pc = "cycles" /\ pc' = pc /\ i < b /\ j = cyclelen /\ i' = i + 1 /\ pos' = end + i'
      /\ j' = 0 /\ UNCHANGED <<blocks, nargv, b>>
  BY DEF NextCycle
<1>2. PICK s, t : Rotating(s, t)
  BY <1>1 DEF Rotation
<1>3. Quotients(s, t) /\ ClassesDone(s, t) /\ HalfWay(s, t)
  BY <1>1, <1>2 DEF Rotating
<1>4. /\ s \in Nat \ {0} /\ t \in Nat \ {0} /\ b \in Nat \ {0} /\ i \in 0 .. b
      /\ cyclelen = s + t
  BY <1>3, Lengths
<1>5. \A p \in 0 .. s + t - 1 : nargv[Cell(i, p)] = Cell(i, PlaceBefore(s, t, p))
  BY <1>1, <1>3, <1>4, ClassIsDone
<1>6. Quotients(s, t)'
  BY <1>1, <1>3 DEF Quotients, blocks, nnonopts, nopts
<1>7. ClassesDone(s, t)'
  <2>1. \A c, p : Cell(c, p)' = Cell(c, p)
    BY <1>1, CellsNext DEF blocks
  <2>2. ASSUME NEW c \in 0 .. b - 1, NEW p \in 0 .. s + t - 1
        PROVE  /\ c < i' => nargv[Cell(c, p)] = Cell(c, PlaceBefore(s, t, p))
               /\ c > i' => nargv[Cell(c, p)] = Cell(c, p)
    <3>1. /\ c < i => nargv[Cell(c, p)] = Cell(c, PlaceBefore(s, t, p))
          /\ c > i => nargv[Cell(c, p)] = Cell(c, p)
      BY <1>3 DEF ClassesDone
    <3>2. (c < i' => c < i \/ c = i) /\ (c > i' => c > i)
      BY <1>1, <1>4
    <3>. QED
      BY <1>5, <3>1, <3>2
  <2>. QED
    BY <1>1, <2>1, <2>2 DEF ClassesDone
<1>8. ASSUME i' < b' PROVE HalfWay(s, t)'
  <2>1. i' \in 0 .. b - 1 /\ i' > i
    BY <1>1, <1>4, <1>8
  <2>2. \A p \in 0 .. s + t - 1 : nargv'[Cell(i', p)] = Cell(i', p)
    BY <1>1, <1>3, <2>1 DEF ClassesDone
  <2>. QED
    BY <1>1, <1>3, <2>1, <2>2, CycleBegins
<1>9. Rotating(s, t)'
  BY <1>6, <1>7, <1>8 DEF Rotating
<1>. QED
  BY <1>1, <1>9 DEF Rotation

LEMMA ReturnRotation == PermuteInv /\ Rotation /\ Return => Rotation'
<1>. SUFFICES ASSUME PermuteInv, Rotation, Return PROVE Rotation'
  OBVIOUS
<1>1. /\ pc = "cycles" /\ pc' = "done" /\ i = b
      /\ UNCHANGED <<blocks, nargv, a, b, i, j, pos>>
  BY DEF Return
<1>2. PICK s, t : Rotating(s, t)
  BY <1>1 DEF Rotation
<1>3. Rotating(s, t)'
  BY <1>1, <1>2
     DEF Rotating, Quotients, ClassesDone, HalfWay, Cell, blocks, nnonopts, nopts
<1>. QED
  BY <1>1, <1>3 DEF Rotation

LEMMA StutterRotation == PermuteInv /\ Rotation /\ UNCHANGED vars => Rotation'
<1>. SUFFICES ASSUME PermuteInv, Rotation, UNCHANGED vars PROVE Rotation'
  OBVIOUS
<1>1. UNCHANGED <<blocks, nargv, a, b, i, j, pos, pc>>
  BY DEF vars
<1>2. \A s, t : Rotating(s, t) => Rotating(s, t)'
  BY <1>1 DEF Rotating, Quotients, ClassesDone, HalfWay, Cell, blocks, nnonopts, nopts
<1>3. Divisors => Divisors'
  BY <1>1 DEF Divisors, blocks, nnonopts, nopts
<1>. QED
  BY <1>1, <1>2, <1>3 DEF Rotation

(* Every word of the blocks lies in one cell, and the place behind it that
   its word came from is the same word of the other block. *)
LEMMA WordsChangePlaces ==
  ASSUME PermuteInv, NEW s, NEW t, Quotients(s, t), ClassesDone(s, t), i = b,
         NEW q \in 0 .. opt_end - start - 1
  PROVE  nargv[start + q] = IF q < nopts THEN end + q ELSE start + (q - nopts)
<1>1. /\ s \in Nat \ {0} /\ t \in Nat \ {0} /\ b \in Nat \ {0}
      /\ start \in Nat /\ end \in Nat /\ opt_end \in Nat
      /\ end = start + b * s /\ opt_end = start + b * (s + t)
      /\ b * s \in Nat /\ b * t \in Nat /\ b * (s + t) = b * s + b * t
      /\ nopts = b * t
  BY Lengths
<1>. DEFINE c == q % b
            p == q \div b
<1>2. c \in 0 .. b - 1 /\ p \in Int /\ q = b * p + c
  <2>1. q \in Int
    BY <1>1
  <2>. QED
    BY <1>1, <2>1, QuotientIs
<1>. HIDE DEF c, p
<1>3. b * p \in Int /\ c + b * p = q /\ q \in Int /\ q >= 0
  BY <1>1, <1>2
<1>4. p >= 0 /\ p < s + t /\ (p < t <=> q < b * t)
  <2>1. c + b * p >= b * 0 <=> p >= 0
    BY <1>1, <1>2, ClassOrder
  <2>2. c + b * p >= b * t <=> p >= t
    BY <1>1, <1>2, ClassOrder
  <2>3. s + t \in Int /\ (c + b * p >= b * (s + t) <=> p >= s + t)
    <3>1. s + t \in Int
      BY <1>1
    <3>. QED
      BY <1>1, <1>2, <3>1, ClassOrder
  <2>4. b * 0 = 0 /\ q < b * (s + t)
    <3>. DEFINE w == b * (s + t)
    <3>1. w \in Int /\ opt_end = start + w
      BY <1>1
    <3>. HIDE DEF w
    <3>2. q < w
      BY <1>1, <3>1
    <3>. QED
      BY <1>1, <3>2 DEF w
  <2>5. p >= 0 /\ ~ (p >= s + t) /\ (p >= t <=> q >= b * t)
    BY <1>3, <2>1, <2>2, <2>3, <2>4, <1>1
  <2>. QED
    BY <1>1, <1>2, <1>3, <2>3, <2>5
<1>5. p \in 0 .. s + t - 1 /\ c < b
  BY <1>1, <1>2, <1>4
<1>6. nargv[Cell(c, p)] = Cell(c, PlaceBefore(s, t, p))
  BY <1>2, <1>5 DEF ClassesDone
<1>7. Cell(c, p) = start + q
  BY <1>3 DEF Cell
<1>8. /\ b * (p + s) = b * p + b * s /\ b * (p - t) = b * p - b * t
  BY <1>1, <1>2
<1>9. Cell(c, p + s) = end + q /\ Cell(c, p - t) = start + (q - b * t)
  <2>. DEFINE u == b * p
              v == b * s
              w == b * t
  <2>1. /\ u \in Int /\ v \in Int /\ w \in Int /\ c \in Int /\ q = c + u /\ end = start + v
        /\ Cell(c, p + s) = start + (c + (u + v)) /\ Cell(c, p - t) = start + (c + (u - w))
    BY <1>1, <1>2, <1>3, <1>8 DEF Cell
  <2>. HIDE DEF u, v, w
  <2>2. Cell(c, p + s) = end + q /\ Cell(c, p - t) = start + (q - w)
    BY <1>1, <2>1
  <2>. QED
    BY <2>2 DEF w
<1>. QED
  BY <1>1, <1>4, <1>6, <1>7, <1>9 DEF PlaceBefore

LEMMA RotationExchanges == PermuteInv /\ Rotation => Exchanged
<1>. SUFFICES ASSUME PermuteInv, Rotation, pc = "done"
     PROVE SubSeq(nargv, start, opt_end - 1)
             = [k \in 1 .. nopts |-> end + k - 1] \o [k \in 1 .. nnonopts |-> start + k - 1]
  BY DEF Exchanged
<1>. DEFINE second == [k \in 1 .. nopts |-> end + k - 1]
            first == [k \in 1 .. nnonopts |-> start + k - 1]
            got == SubSeq(nargv, start, opt_end - 1)
<1>1. PICK s, t : Quotients(s, t) /\ ClassesDone(s, t)
  BY DEF Rotation, Rotating
<1>2. i = b
  BY DEF Rotation
<1>3. /\ start \in Nat \ {0} /\ end \in Nat /\ opt_end \in Nat
      /\ nopts \in Nat /\ nnonopts \in Nat /\ nopts = opt_end - end /\ nnonopts = end - start
      /\ start .. opt_end - 1 \subseteq 1 .. MaxLength /\ start <= opt_end
      /\ nargv \in [1 .. MaxLength -> 1 .. MaxLength]
  <2>1. /\ start .. opt_end - 1 \subseteq 1 .. MaxLength
        /\ nargv \in [1 .. MaxLength -> 1 .. MaxLength]
    BY <1>1, Lengths
  <2>2. /\ start \in 1 .. MaxLength /\ end \in 1 .. MaxLength /\ opt_end \in 1 .. MaxLength + 1
        /\ start < end /\ end < opt_end
    BY DEF PermuteInv, Blocks
  <2>. QED
    BY <2>1, <2>2, PermuteAssumption DEF nopts, nnonopts
<1>4. /\ second \in Seq(Int) /\ Len(second) = nopts
      /\ \A k \in 1 .. nopts : second[k] = end + k - 1
  BY <1>3
<1>5. /\ first \in Seq(Int) /\ Len(first) = nnonopts
      /\ \A k \in 1 .. nnonopts : first[k] = start + k - 1
  BY <1>3
<1>6. nargv \in Seq(Int) /\ Len(nargv) = MaxLength
  BY <1>3, PermuteAssumption
<1>7. /\ got \in Seq(Int) /\ Len(got) = opt_end - start
      /\ \A k \in 1 .. opt_end - start : got[k] = nargv[start + k - 1]
  <2>1. start \in 1 .. MaxLength + 1 /\ opt_end - 1 \in start - 1 .. MaxLength
    BY <1>3, PermuteAssumption DEF PermuteInv, Blocks
  <2>2. (opt_end - 1) - start + 1 = opt_end - start
    BY <1>3
  <2>3. opt_end - 1 \in start - 1 .. Len(nargv) /\ start \in 1 .. Len(nargv) + 1
    BY <1>6, <2>1
  <2>. QED
    BY <1>3, <1>6, <2>3, <2>2, SubSeqProperties
<1>. HIDE DEF second, first, got
<1>8. /\ second \o first \in Seq(Int) /\ Len(second \o first) = nopts + nnonopts
      /\ \A k \in 1 .. nopts + nnonopts :
           (second \o first)[k] = IF k <= nopts THEN second[k] ELSE first[k - nopts]
  <2>1. \A s1 \in Seq(Int) : \A s2 \in Seq(Int) :
          /\ s1 \o s2 \in Seq(Int) /\ Len(s1 \o s2) = Len(s1) + Len(s2)
          /\ \A k \in 1 .. Len(s1) + Len(s2) :
               (s1 \o s2)[k] = IF k <= Len(s1) THEN s1[k] ELSE s2[k - Len(s1)]
    BY ConcatProperties
  <2>. QED
    BY <1>4, <1>5, <2>1
<1>9. ASSUME NEW k \in 1 .. opt_end - start PROVE got[k] = (second \o first)[k]
  <2>1. k - 1 \in 0 .. opt_end - start - 1
    BY <1>3
  <2>2. nargv[start + (k - 1)]
          = IF k - 1 < nopts THEN end + (k - 1) ELSE start + ((k - 1) - nopts)
    BY <1>1, <1>2, <2>1, WordsChangePlaces
  <2>3. got[k] = nargv[start + (k - 1)]
    BY <1>3, <1>7
  <2>4. k \in 1 .. nopts + nnonopts
    BY <1>3
  <2>5. CASE k <= nopts
    <3>1. second[k] = end + (k - 1) /\ k - 1 < nopts
      BY <1>3, <1>4, <2>5
    <3>. QED
      BY <1>8, <2>2, <2>3, <2>4, <2>5, <3>1
  <2>6. CASE ~ (k <= nopts)
    <3>1. k - nopts \in 1 .. nnonopts /\ ~ (k - 1 < nopts)
      BY <1>3, <2>4, <2>6
    <3>2. first[k - nopts] = start + ((k - 1) - nopts)
      BY <1>3, <1>5, <3>1
    <3>. QED
      BY <1>8, <2>2, <2>3, <2>4, <2>6, <3>1, <3>2
  <2>. QED
    BY <2>5, <2>6
<1>10. nopts + nnonopts = opt_end - start
  BY <1>3
<1>11. got = second \o first
  BY <1>7, <1>8, <1>9, <1>10, SeqEqual
<1>. QED
  BY <1>11 DEF got, second, first

(* What CommandLine takes permute_args to do: when its cycles have been
   followed, the two blocks have changed places and the words of each are in
   the order they had, for blocks of every length.  It rests on Euclid's
   algorithm returning the divisor: were ncycle any other number, the cycles
   would meet, or leave words out. *)
THEOREM BlocksExchanged == Spec => []Exchanged
<1>1. PermuteInv /\ Rotation /\ [Next]_vars => Rotation'
  BY DivideRotation, MoveRotation, NextCycleRotation, ReturnRotation, StutterRotation DEF Next
<1>2. PermuteInv /\ Rotation => Exchanged
  BY RotationExchanges
<1>. QED
  BY BlocksInside, InitRotation, <1>1, <1>2, PTL DEF Spec

-----------------------------------------------------------------------------
(* Wrapping a paragraph *)

LEMMA LeastIs ==
  ASSUME NEW T \in SUBSET Nat, T # {}
  PROVE  F!Least(T) \in T /\ \A q \in T : F!Least(T) <= q
<1>1. PICK x \in T : \A y \in T : x <= y
  BY LeastNumber
<1>. QED
  BY <1>1 DEF F!Least

LEMMA GreatestIs ==
  ASSUME NEW top \in Nat, NEW T \in SUBSET (0 .. top), T # {}
  PROVE  F!Greatest(T) \in T /\ \A q \in T : q <= F!Greatest(T)
<1>. DEFINE below == {top - q : q \in T}
<1>1. below \in SUBSET Nat /\ below # {}
  <2>1. \A q \in T : top - q \in Nat
    OBVIOUS
  <2>. QED
    BY <2>1
<1>2. \A q \in T : top - q \in below
  OBVIOUS
<1>3. \A y \in below : \E q \in T : y = top - q
  OBVIOUS
<1>. HIDE DEF below
<1>4. PICK x \in below : \A y \in below : x <= y
  BY <1>1, LeastNumber
<1>5. PICK q \in T : x = top - q
  BY <1>3
<1>6. \A r \in T : r <= q
  <2>1. TAKE r \in T
  <2>2. top - q <= top - r
    BY <1>2, <1>4, <1>5
  <2>. QED
    BY <2>2
<1>. QED
  BY <1>6 DEF F!Greatest

LineType == [from : Nat, to : Nat]

(* A line of the text *)
GoodLine(L) ==
  /\ L.from <= L.to /\ L.to - L.from <= F!colwidth
  /\ F!Newlines(L.from, L.to) = {}
  /\ L.to < F!textlen /\ ~F!isspace(L.to) /\ L.from < L.to /\ ~F!isspace(L.to - 1) =>
       /\ L.to - L.from = F!colwidth
       /\ \A p \in L.from .. L.to : ~F!isspace(p)

(* What stands before line_start was printed, or is white space. *)
Printed(ls, at) ==
  \A p \in 0 .. at - 1 :
    ~F!isspace(p) => \E k \in 1 .. Len(ls) : p \in ls[k].from .. ls[k].to - 1

(* The lines so far follow each other up to line_start, where the rest of the
   text begins. *)
ParagraphInv ==
  /\ F!textlen \in Nat /\ line_start \in 0 .. F!textlen /\ line_end = F!textlen
  /\ lines \in Seq(LineType)
  /\ \A k \in 1 .. Len(lines) : GoodLine(lines[k]) /\ lines[k].to <= line_start
  /\ \A k \in 2 .. Len(lines) : lines[k - 1].to <= lines[k].from
  /\ Printed(lines, line_start)

LEMMA ColumnIs ==
  /\ F!colwidth \in Nat \ {0} /\ lmargin \in Nat
BY ArgtableAssumption DEF F!FormattedAssumption, F!colwidth

LEMMA EatenIs ==
  ASSUME F!textlen \in Nat, line_start \in 0 .. F!textlen
  PROVE  /\ F!Eaten \in line_start .. F!textlen /\ F!At(F!Eaten) # "blank"
         /\ \A p \in line_start .. F!Eaten - 1 : F!isspace(p)
<1>. DEFINE T == {p \in line_start .. F!textlen : F!At(p) # "blank"}
<1>1. T \in SUBSET Nat /\ T \subseteq line_start .. F!textlen
  OBVIOUS
<1>2. F!textlen \in T
  BY DEF F!At
<1>3. \A p \in line_start .. F!textlen : p \notin T => F!isspace(p)
  BY DEF F!isspace
<1>4. F!Eaten = F!Least(T) /\ \A p \in T : F!At(p) # "blank"
  BY DEF F!Eaten
<1>. HIDE DEF T
<1>5. F!Least(T) \in T /\ \A q \in T : F!Least(T) <= q
  BY <1>1, <1>2, LeastIs
<1>6. F!Eaten \in T /\ F!Eaten \in line_start .. F!textlen
  BY <1>1, <1>4, <1>5
<1>7. \A p \in line_start .. F!Eaten - 1 : p \in line_start .. F!textlen /\ p \notin T
  BY <1>4, <1>5, <1>6
<1>. QED
  BY <1>3, <1>4, <1>6, <1>7

(* Where a line that is too long is wrapped *)
LEMMA WrappedIs ==
  ASSUME NEW first \in Nat, F!At(first) # "blank"
  PROVE  LET end2 == F!Wrapped(first)
         IN  /\ end2 \in first + 1 .. first + F!colwidth + 1
             /\ F!At(first) # "newline" =>
                  \/ end2 \in first + 1 .. first + F!colwidth /\ F!isspace(end2)
                  \/ /\ end2 = first + F!colwidth
                     /\ \A p \in first .. first + F!colwidth : ~ F!isspace(p)
<1>. DEFINE w == F!colwidth
            T == {p \in first .. first + w : p = first \/ F!isspace(p)}
            space == F!LastSpace(first)
<1>1. w \in Nat \ {0} /\ first + w \in Nat
  BY ColumnIs
<1>. HIDE DEF w
<1>2. T \in SUBSET (0 .. first + w) /\ first \in T
  BY <1>1
<1>3. /\ \A p \in first .. first + w : F!isspace(p) => p \in T
      /\ \A p \in T : p \in first .. first + w /\ (p = first \/ F!isspace(p))
  OBVIOUS
<1>4. space = F!Greatest(T)
  BY DEF F!LastSpace, w
<1>. HIDE DEF T, space
<1>5. space \in T /\ \A q \in T : q <= space
  BY <1>1, <1>2, <1>4, GreatestIs
<1>6. F!Wrapped(first) = IF space = first THEN first + w ELSE F!LastWord(first, space) + 1
  BY DEF F!Wrapped, space, w
<1>7. CASE space = first
  <2>1. \A p \in first .. first + w : p # first => ~ F!isspace(p)
    BY <1>1, <1>3, <1>5, <1>7
  <2>2. F!At(first) # "newline" => ~ F!isspace(first)
    BY DEF F!isspace
  <2>. QED
    BY <1>1, <1>6, <1>7, <2>1, <2>2 DEF w
<1>8. CASE space # first
  <2>1. space \in first + 1 .. first + w /\ F!isspace(space)
    BY <1>1, <1>3, <1>5, <1>8
  <2>2. CASE F!At(first) = "newline"
    <3>1. F!Wrapped(first) = space + 1
      BY <1>6, <1>8, <2>2 DEF F!LastWord
    <3>. QED
      BY <1>1, <2>1, <2>2, <3>1 DEF w
  <2>3. CASE F!At(first) # "newline"
    <3>. DEFINE W == {q \in first .. space : q = first \/ ~F!isspace(q)}
                word == F!Greatest(W)
    <3>1. W \in SUBSET (0 .. space) /\ first \in W /\ space \in Nat
      BY <1>1, <2>1
    <3>2. /\ \A q \in first .. space : ~F!isspace(q) => q \in W
          /\ \A q \in W : q \in first .. space /\ (q = first \/ ~F!isspace(q))
      OBVIOUS
    <3>3. F!Wrapped(first) = word + 1
      BY <1>6, <1>8, <2>3 DEF F!LastWord
    <3>. HIDE DEF W
    <3>4. word \in W /\ \A q \in W : q <= word
      BY <3>1, GreatestIs
    <3>. HIDE DEF word
    <3>5. word \in first .. space - 1
      BY <1>1, <1>8, <2>1, <3>2, <3>4
    <3>6. word + 1 \in first + 1 .. space /\ word + 1 \in first .. space /\ ~ (word + 1 <= word)
      BY <1>1, <2>1, <3>5
    <3>7. F!isspace(word + 1)
      BY <3>2, <3>4, <3>6
    <3>8. word + 1 \in first + 1 .. first + w /\ word + 1 \in first + 1 .. first + w + 1
      BY <1>1, <2>1, <3>6
    <3>. QED
      BY <3>3, <3>7, <3>8 DEF w
  <2>. QED
    BY <2>2, <2>3
<1>. QED
  BY <1>7, <1>8

(* The line that is put *)
LEMMA LineIs ==
  ASSUME ParagraphInv, F!Line
  PROVE  \E L \in LineType :
           /\ lines' = Append(lines, L) /\ GoodLine(L) /\ line_start <= L.from
           /\ line_start' \in L.to .. F!textlen
           /\ \A p \in line_start .. line_start' - 1 : F!isspace(p) \/ p \in L.from .. L.to - 1
<1>. DEFINE first == F!Eaten
            end2 == IF F!TooLong(first) THEN F!Wrapped(first) ELSE line_end
            w == F!colwidth
            len == F!textlen
<1>1. /\ len \in Nat /\ line_start \in 0 .. len /\ line_end = len
      /\ w \in Nat \ {0}
  BY ColumnIs DEF ParagraphInv
<1>2. /\ first \in line_start .. len /\ F!At(first) # "blank"
      /\ \A p \in line_start .. first - 1 : F!isspace(p)
  BY <1>1, EatenIs
<1>. HIDE DEF first
<1>3. F!PutLine(first, end2)
  BY DEF F!Line, first
<1>4. F!TooLong(first) <=> len - first > w
  BY <1>1 DEF F!TooLong
<1>5. /\ end2 \in first .. len
      /\ F!At(first) # "newline" =>
           \/ end2 = len /\ len - first <= w
           \/ end2 \in first + 1 .. first + w /\ F!isspace(end2)
           \/ end2 = first + w /\ \A p \in first .. first + w : ~ F!isspace(p)
  <2>1. CASE F!TooLong(first)
    <3>1. end2 = F!Wrapped(first) /\ first \in Nat
      BY <1>1, <1>2, <2>1
    <3>2. len - first > w
      BY <1>4, <2>1
    <3>. HIDE DEF end2, len
    <3>3. /\ end2 \in first + 1 .. first + w + 1
          /\ F!At(first) # "newline" =>
               \/ end2 \in first + 1 .. first + w /\ F!isspace(end2)
               \/ /\ end2 = first + w
                  /\ \A p \in first .. first + w : ~ F!isspace(p)
      BY <1>2, <3>1, WrappedIs
    <3>4. end2 \in first .. len
      BY <1>1, <1>2, <3>2, <3>3
    <3>. QED
      BY <3>3, <3>4
  <2>2. CASE ~F!TooLong(first)
    BY <1>1, <1>2, <1>4, <2>2
  <2>. QED
    BY <2>1, <2>2
<1>. HIDE DEF end2, w, len
<1>. DEFINE nl == F!Newlines(first, end2)
            broken == nl # {}
            to == IF broken THEN F!Least(nl) ELSE end2
            L == [from |-> first, to |-> to]
<1>6. /\ nl \in SUBSET Nat /\ \A p \in nl : p \in first .. end2 - 1 /\ F!At(p) = "newline"
      /\ \A p \in first .. end2 - 1 : F!At(p) = "newline" => p \in nl
  BY <1>1, <1>2, <1>5 DEF F!Newlines
<1>7. lines' = Append(lines, L) /\ line_start' = IF broken THEN to + 1 ELSE to
  BY <1>3 DEF F!PutLine
<1>. HIDE DEF nl
<1>8. broken => to \in nl /\ \A p \in nl : to <= p
  BY <1>6, LeastIs
<1>9. /\ to \in first .. end2 /\ \A p \in first .. to - 1 : F!At(p) # "newline"
      /\ broken => to \in first .. end2 - 1 /\ F!At(to) = "newline"
      /\ ~ broken => to = end2
  <2>1. CASE broken
    <3>1. to \in first .. end2 - 1 /\ F!At(to) = "newline"
      BY <1>6, <1>8, <2>1
    <3>2. ASSUME NEW p \in first .. to - 1
          PROVE  F!At(p) # "newline"
      <4>1. p \in first .. end2 - 1 /\ ~ (to <= p)
        BY <1>1, <1>2, <1>5, <3>1
      <4>. QED
        BY <1>6, <1>8, <2>1, <4>1
    <3>. QED
      BY <1>1, <1>2, <1>5, <2>1, <3>1, <3>2
  <2>2. CASE ~broken
    <3>1. to = end2 /\ \A p \in first .. end2 - 1 : p \notin nl
      BY <2>2
    <3>. QED
      BY <1>1, <1>2, <1>5, <1>6, <2>2, <3>1
  <2>. QED
    BY <2>1, <2>2
<1>. HIDE DEF broken, to
<1>10. first \in Nat /\ end2 \in Nat /\ to \in Nat /\ first <= to /\ to <= end2 /\ end2 <= len
  BY <1>1, <1>2, <1>5, <1>9
<1>11. F!At(first) = "newline" => to = first
  <2>1. SUFFICES ASSUME F!At(first) = "newline", to # first
        PROVE FALSE
    OBVIOUS
  <2>2. first \in first .. to - 1
    BY <1>10, <2>1
  <2>. QED
    BY <1>9, <2>1, <2>2
<1>12. L \in LineType /\ L.from = first /\ L.to = to
  BY <1>1, <1>10 DEF LineType, broken
<1>13. broken => F!isspace(to)
  BY <1>9 DEF F!isspace
<1>14. to - first <= w
  BY <1>1, <1>5, <1>10, <1>11
<1>15. GoodLine(L)
  <2>1. F!Newlines(first, to) = {}
    BY <1>9 DEF F!Newlines
  <2>2. ASSUME to < len, ~F!isspace(to), first < to
        PROVE  /\ to - first = w
               /\ \A p \in first .. to : ~F!isspace(p)
    <3>1. to = end2 /\ F!At(first) # "newline"
      BY <1>9, <1>10, <1>11, <1>13, <2>2
    <3>. QED
      BY <1>1, <1>5, <1>10, <2>2, <3>1
  <2>. HIDE DEF L
  <2>. QED
    BY <1>10, <1>12, <1>14, <2>1, <2>2 DEF GoodLine, w, len
<1>. HIDE DEF L
<1>16. line_start' \in to .. len
  BY <1>1, <1>7, <1>9, <1>10
<1>17. ASSUME NEW p \in line_start .. line_start' - 1
       PROVE  F!isspace(p) \/ p \in first .. to - 1
  <2>1. p \in line_start .. first - 1 \/ p \in first .. to - 1 \/ (broken /\ p = to)
    BY <1>1, <1>2, <1>7, <1>10
  <2>. QED
    BY <1>2, <1>13, <2>1
<1>18. line_start <= first
  BY <1>1, <1>2
<1>. QED
  BY <1>7, <1>12, <1>15, <1>16, <1>17, <1>18 DEF len

LEMMA ParagraphStep == ParagraphInv /\ F!Next => ParagraphInv'
<1>. SUFFICES ASSUME ParagraphInv, F!Line
     PROVE ParagraphInv'
  BY DEF F!Next
<1>1. PICK L \in LineType :
        /\ lines' = Append(lines, L) /\ GoodLine(L) /\ line_start <= L.from
        /\ line_start' \in L.to .. F!textlen
        /\ \A p \in line_start .. line_start' - 1 : F!isspace(p) \/ p \in L.from .. L.to - 1
  BY LineIs
<1>2. /\ paragraph' = paragraph /\ line_end' = F!textlen
  BY DEF F!Line
<1>3. F!textlen' = F!textlen /\ F!colwidth' = F!colwidth /\ \A p : F!isspace(p)' <=> F!isspace(p)
  BY <1>2 DEF F!textlen, F!isspace, F!At, F!colwidth
<1>4. \A M : GoodLine(M)' <=> GoodLine(M)
  BY <1>2, <1>3 DEF GoodLine, F!Newlines, F!At, F!textlen
<1>5. \A ls, at : Printed(ls, at)' <=> Printed(ls, at)
  BY <1>3 DEF Printed
<1>6. /\ F!textlen \in Nat /\ line_start \in 0 .. F!textlen
      /\ lines \in Seq(LineType) /\ Len(lines) \in Nat
      /\ \A k \in 1 .. Len(lines) : GoodLine(lines[k]) /\ lines[k].to <= line_start
      /\ \A k \in 2 .. Len(lines) : lines[k - 1].to <= lines[k].from
      /\ Printed(lines, line_start)
  BY LenProperties DEF ParagraphInv
<1>7. /\ L.from \in Nat /\ L.to \in Nat /\ L.from <= L.to
  BY <1>1 DEF LineType, GoodLine
<1>. DEFINE l == Len(lines)
<1>8. /\ lines' \in Seq(LineType) /\ Len(lines') = l + 1
      /\ \A k \in 1 .. l : lines'[k] = lines[k] /\ lines'[k] \in LineType
      /\ lines'[l + 1] = L
  BY <1>1, <1>6
<1>9. line_start' \in 0 .. F!textlen /\ line_start <= line_start' /\ L.to <= line_start'
  BY <1>1, <1>6, <1>7
<1>. HIDE DEF l
<1>10. l \in Nat
  BY <1>6 DEF l
<1>11. ASSUME NEW k \in 1 .. Len(lines')
       PROVE  GoodLine(lines'[k]) /\ lines'[k].to <= line_start'
  <2>1. CASE k = l + 1
    BY <1>1, <1>8, <1>9, <2>1
  <2>2. CASE k # l + 1
    <3>1. k \in 1 .. l
      BY <1>8, <1>10, <2>2
    <3>2. /\ lines'[k] = lines[k] /\ GoodLine(lines[k]) /\ lines[k].to <= line_start
          /\ lines[k].to \in Nat
      BY <1>6, <1>8, <3>1 DEF l, LineType
    <3>. QED
      BY <1>6, <1>9, <3>2
  <2>. QED
    BY <2>1, <2>2
<1>12. ASSUME NEW k \in 2 .. Len(lines')
       PROVE  lines'[k - 1].to <= lines'[k].from
  <2>1. CASE k = l + 1
    <3>1. k - 1 = l /\ l \in 1 .. l
      BY <1>8, <1>10, <2>1
    <3>2. /\ lines'[k - 1] = lines[l] /\ lines[l].to <= line_start /\ lines[l].to \in Nat
          /\ lines'[k] = L
      BY <1>6, <1>8, <2>1, <3>1 DEF l, LineType
    <3>. QED
      BY <1>1, <1>6, <1>7, <3>2
  <2>2. CASE k # l + 1
    <3>1. k \in 2 .. l /\ k \in 1 .. l /\ k - 1 \in 1 .. l
      BY <1>8, <1>10, <2>2
    <3>. QED
      BY <1>6, <1>8, <3>1 DEF l
  <2>. QED
    BY <2>1, <2>2
<1>13. Printed(lines', line_start')
  <2>. SUFFICES ASSUME NEW p \in 0 .. line_start' - 1, ~F!isspace(p)
       PROVE \E k \in 1 .. Len(lines') : p \in lines'[k].from .. lines'[k].to - 1
    BY DEF Printed
  <2>1. CASE p \in 0 .. line_start - 1
    <3>1. PICK k \in 1 .. l : p \in lines[k].from .. lines[k].to - 1
      BY <1>6, <2>1 DEF Printed, l
    <3>2. k \in 1 .. Len(lines')
      BY <1>8, <1>10
    <3>. QED
      BY <1>8, <3>1, <3>2
  <2>2. CASE p \notin 0 .. line_start - 1
    <3>1. p \in line_start .. line_start' - 1
      <4>1. line_start \in Nat /\ line_start' \in Nat
        BY <1>6, <1>9
      <4>2. \A x, y \in Nat : \A q \in 0 .. y - 1 : q \notin 0 .. x - 1 => q \in x .. y - 1
        OBVIOUS
      <4>. QED
        BY <2>2, <4>1, <4>2
    <3>2. p \in L.from .. L.to - 1
      BY <1>1, <3>1
    <3>3. l + 1 \in 1 .. Len(lines')
      BY <1>8, <1>10
    <3>. QED
      BY <1>8, <3>2, <3>3
  <2>. QED
    BY <2>1, <2>2
<1>. QED
  BY <1>2, <1>3, <1>4, <1>5, <1>6, <1>8, <1>9, <1>11, <1>12, <1>13 DEF ParagraphInv

LEMMA ParagraphInitInv == PartsInit => ParagraphInv
<1>. SUFFICES ASSUME PartsInit
     PROVE ParagraphInv
  OBVIOUS
<1>1. /\ F!textlen \in Nat /\ line_start = 0 /\ line_end = F!textlen
      /\ lines = <<>>
  <2>1. CASE part = "paragraph"
    <3>1. F!Init
      BY <2>1 DEF PartsInit
    <3>2. PICK l \in 0 .. MaxParagraph : paragraph \in [1 .. l -> {"x", "blank", "newline"}]
      BY <3>1 DEF F!Init
    <3>3. paragraph \in Seq({"x", "blank", "newline"})
      <4>1. MaxParagraph \in Nat
        BY ArgtableAssumption DEF F!FormattedAssumption
      <4>2. l \in Nat
        BY <3>2, <4>1
      <4>. QED
        BY <3>2, <4>2, SeqDef
    <3>. QED
      BY <3>1, <3>3 DEF F!Init, F!textlen
  <2>2. CASE part # "paragraph"
    <3>1. ParagraphRests
      BY <2>2 DEF PartsInit
    <3>2. paragraph = <<>> /\ line_start = 0 /\ line_end = 0 /\ lines = <<>>
      BY <3>1 DEF ParagraphRests
    <3>3. F!textlen = 0
      BY <3>2 DEF F!textlen
    <3>. QED
      BY <3>2, <3>3
  <2>. QED
    BY <2>1, <2>2
<1>2. Len(lines) = 0 /\ lines \in Seq(LineType)
  BY <1>1
<1>. QED
  BY <1>1, <1>2 DEF ParagraphInv, Printed

LEMMA ParagraphInvStep == ParagraphInv /\ [PartsNext]_allvars => ParagraphInv'
<1>. SUFFICES ASSUME ParagraphInv, [PartsNext]_allvars
     PROVE ParagraphInv'
  OBVIOUS
<1>1. CASE F!Next
  BY <1>1, ParagraphStep
<1>2. CASE UNCHANGED paragraphvars
  BY <1>2 DEF paragraphvars, ParagraphInv, GoodLine, Printed, F!textlen, F!colwidth,
              F!isspace, F!At, F!Newlines
<1>. QED
  BY <1>1, <1>2 DEF PartsNext, allvars

LEMMA ParagraphInvWhole == ParagraphInv => ParagraphIsWhole
<1>. SUFFICES ASSUME ParagraphInv
     PROVE ParagraphIsWhole
  OBVIOUS
<1>1. DOMAIN lines = 1 .. Len(lines)
  BY DEF ParagraphInv
<1>. QED
  BY <1>1 DEF ParagraphInv, ParagraphIsWhole, F!NothingIsLost, F!WithinColumn,
              F!BrokenOnlyIfTooLong, GoodLine, Printed

(* Wrapping a text loses no word and prints none twice: the lines follow each
   other, what lies between them is white space, no line is wider than the
   column, and a word is broken only if it has no room in a line of its own
   (arg_print_formatted_ds).  It holds for every text and all margins.  The
   invariant describes one line at a time; that the next one begins where the
   white space behind the last one ends is what joins them. *)
THEOREM NoWordIsLost == PartsSpec => []ParagraphIsWhole
BY ParagraphInitInv, ParagraphInvStep, ParagraphInvWhole, PTL DEF PartsSpec

-----------------------------------------------------------------------------
(* Strings in buffers *)

(* The buffer holds str and, behind it, its end; in a padded one nothing but
   zeros comes behind str. *)
IsText(bytes, str) ==
  /\ Len(str) < Len(bytes) /\ bytes[Len(str) + 1] = NUL
  /\ \A k \in 1 .. Len(str) : bytes[k] = str[k] /\ str[k] # NUL
Padded(bytes, str) == \A k \in Len(str) + 1 .. Len(bytes) : bytes[k] = NUL

LEMMA TextIs ==
  ASSUME NEW S, NEW bytes \in Seq(S), NEW str \in Seq(S), IsText(bytes, str)
  PROVE  /\ D!strlen(bytes) = Len(str) /\ D!String(bytes) = str /\ D!HasEnd(bytes)
<1>. DEFINE len == Len(str)
            IsEnd(k) == /\ k < Len(bytes) => bytes[k + 1] = NUL
                        /\ \A q \in 1 .. k : bytes[q] # NUL
<1>1. len \in Nat /\ Len(bytes) \in Nat /\ len < Len(bytes) /\ bytes[len + 1] = NUL
      /\ \A k \in 1 .. len : bytes[k] = str[k] /\ bytes[k] # NUL
  BY LenProperties DEF IsText
<1>. HIDE DEF len
<1>2. len \in 0 .. Len(bytes) /\ IsEnd(len)
  BY <1>1
<1>3. ASSUME NEW k \in 0 .. Len(bytes), IsEnd(k)
      PROVE  k = len
  <2>1. CASE k < len
    <3>1. k + 1 \in 1 .. len /\ k < Len(bytes)
      BY <1>1, <2>1
    <3>. QED
      BY <1>1, <1>3, <3>1
  <2>2. CASE len < k
    <3>1. len + 1 \in 1 .. k
      BY <1>1, <2>2
    <3>. QED
      BY <1>1, <1>3, <3>1
  <2>. QED
    BY <1>1, <2>1, <2>2
<1>4. D!strlen(bytes) = CHOOSE k \in 0 .. Len(bytes) : IsEnd(k)
  BY DEF D!strlen
<1>. HIDE DEF IsEnd
<1>5. D!strlen(bytes) = len
  BY <1>2, <1>3, <1>4
<1>6. D!String(bytes) = SubSeq(bytes, 1, len)
  BY <1>5 DEF D!String
<1>7. SubSeq(bytes, 1, len) = str
  <2>1. \A k \in 1 .. len : bytes[k] \in S
    BY <1>1
  <2>2. /\ SubSeq(bytes, 1, len) \in Seq(S) /\ Len(SubSeq(bytes, 1, len)) = len
        /\ \A k \in 1 .. len : SubSeq(bytes, 1, len)[k] = bytes[k]
    <3>1. /\ SubSeq(bytes, 1, len) \in Seq(S)
          /\ Len(SubSeq(bytes, 1, len)) = IF 1 <= len THEN len - 1 + 1 ELSE 0
          /\ \A k \in 1 .. len - 1 + 1 : SubSeq(bytes, 1, len)[k] = bytes[1 + k - 1]
      <4>1. 1 \in Int /\ len \in Int
        BY <1>1
      <4>. QED
        BY <2>1, <4>1, SubSeqProperties
    <3>2. \A k \in 1 .. len : k \in 1 .. len - 1 + 1 /\ 1 + k - 1 = k
      BY <1>1
    <3>. QED
      BY <1>1, <3>1, <3>2
  <2>. HIDE DEF IsEnd
  <2>3. str \in Seq(S) /\ Len(str) = len /\ \A k \in 1 .. len : SubSeq(bytes, 1, len)[k] = str[k]
    BY <1>1, <2>2 DEF len
  <2>. QED
    BY <2>2, <2>3, SeqEqual
<1>8. D!HasEnd(bytes)
  <2>1. len + 1 \in DOMAIN bytes
    BY <1>1
  <2>. QED
    BY <1>1, <2>1 DEF D!HasEnd, D!Range
<1>. QED
  BY <1>5, <1>6, <1>7, <1>8 DEF len

LEMMA OverwrittenIs ==
  ASSUME NEW S, NEW bytes \in Seq(S), NEW at \in 0 .. Len(bytes), NEW piece \in Seq(S),
         at + Len(piece) <= Len(bytes)
  PROVE  /\ D!Overwritten(bytes, at, piece) \in Seq(S)
         /\ Len(D!Overwritten(bytes, at, piece)) = Len(bytes)
         /\ \A k \in 1 .. Len(bytes) :
              D!Overwritten(bytes, at, piece)[k]
                = IF k <= at \/ k > at + Len(piece) THEN bytes[k] ELSE piece[k - at]
<1>. DEFINE len == Len(bytes)
            m == Len(piece)
            front == SubSeq(bytes, 1, at)
            back == SubSeq(bytes, at + m + 1, len)
            whole == (front \o piece) \o back
            res == SubSeq(whole, 1, len)
<1>1. /\ len \in Nat /\ m \in Nat /\ at \in Nat /\ at <= len /\ at + m <= len
      /\ \A k \in 1 .. len : bytes[k] \in S
  BY LenProperties
<1>2. /\ front \in Seq(S) /\ Len(front) = at /\ \A k \in 1 .. at : front[k] = bytes[k]
  <2>1. 1 \in Int /\ at \in Int /\ \A k \in 1 .. at : bytes[k] \in S
    BY <1>1
  <2>2. /\ front \in Seq(S) /\ Len(front) = IF 1 <= at THEN at - 1 + 1 ELSE 0
        /\ \A k \in 1 .. at - 1 + 1 : front[k] = bytes[1 + k - 1]
    BY <2>1, SubSeqProperties
  <2>3. \A k \in 1 .. at : k \in 1 .. at - 1 + 1 /\ 1 + k - 1 = k
    BY <1>1
  <2>. QED
    BY <1>1, <2>2, <2>3
<1>3. /\ back \in Seq(S) /\ Len(back) = len - (at + m)
      /\ \A k \in 1 .. len - (at + m) : back[k] = bytes[at + m + k]
  <2>1. at + m + 1 \in Int /\ len \in Int /\ \A k \in at + m + 1 .. len : bytes[k] \in S
    BY <1>1
  <2>2. /\ back \in Seq(S)
        /\ Len(back) = IF at + m + 1 <= len THEN len - (at + m + 1) + 1 ELSE 0
        /\ \A k \in 1 .. len - (at + m + 1) + 1 : back[k] = bytes[at + m + 1 + k - 1]
    BY <2>1, SubSeqProperties
  <2>3. \A k \in 1 .. len - (at + m) :
          k \in 1 .. len - (at + m + 1) + 1 /\ at + m + 1 + k - 1 = at + m + k
    BY <1>1
  <2>. QED
    BY <1>1, <2>2, <2>3
<1>. HIDE DEF front, back
<1>4. /\ front \o piece \in Seq(S) /\ Len(front \o piece) = at + m
      /\ \A k \in 1 .. at + m : (front \o piece)[k] = IF k <= at THEN front[k] ELSE piece[k - at]
  BY <1>1, <1>2, ConcatProperties
<1>5. /\ whole \in Seq(S) /\ Len(whole) = len
      /\ \A k \in 1 .. len :
           whole[k] = IF k <= at + m THEN (front \o piece)[k] ELSE back[k - (at + m)]
  <2>0. \A s1 \in Seq(S) : \A s2 \in Seq(S) :
          /\ s1 \o s2 \in Seq(S) /\ Len(s1 \o s2) = Len(s1) + Len(s2)
          /\ \A k \in 1 .. Len(s1) + Len(s2) :
               (s1 \o s2)[k] = IF k <= Len(s1) THEN s1[k] ELSE s2[k - Len(s1)]
    BY ConcatProperties
  <2>. DEFINE fp == front \o piece
  <2>1. fp \in Seq(S) /\ back \in Seq(S) /\ Len(fp) = at + m /\ Len(back) = len - (at + m)
    BY <1>3, <1>4
  <2>. HIDE DEF fp, len, m
  <2>2. /\ fp \o back \in Seq(S) /\ Len(fp \o back) = Len(fp) + Len(back)
        /\ \A k \in 1 .. Len(fp) + Len(back) :
             (fp \o back)[k] = IF k <= Len(fp) THEN fp[k] ELSE back[k - Len(fp)]
    BY <2>0, <2>1, Zenon
  <2>3. Len(fp) + Len(back) = len
    <3>1. len \in Int /\ m \in Int /\ at \in Int
      BY <1>1
    <3>. QED
      BY <2>1, <3>1
  <2>4. /\ fp \o back \in Seq(S) /\ Len(fp \o back) = len
        /\ \A k \in 1 .. len :
             (fp \o back)[k] = IF k <= at + m THEN fp[k] ELSE back[k - (at + m)]
    BY <2>1, <2>2, <2>3
  <2>. QED
    BY <2>4 DEF fp
<1>. HIDE DEF whole
<1>6. res \in Seq(S) /\ Len(res) = len /\ \A k \in 1 .. len : res[k] = whole[k]
  <2>1. 1 \in Int /\ len \in Int /\ \A k \in 1 .. len : whole[k] \in S
    BY <1>1, <1>5
  <2>2. /\ res \in Seq(S) /\ Len(res) = IF 1 <= len THEN len - 1 + 1 ELSE 0
        /\ \A k \in 1 .. len - 1 + 1 : res[k] = whole[1 + k - 1]
    BY <2>1, SubSeqProperties
  <2>3. \A k \in 1 .. len : k \in 1 .. len - 1 + 1 /\ 1 + k - 1 = k
    BY <1>1
  <2>. QED
    BY <1>1, <2>2, <2>3
<1>7. ASSUME NEW k \in 1 .. len
      PROVE  res[k] = IF k <= at \/ k > at + m THEN bytes[k] ELSE piece[k - at]
  <2>1. CASE k <= at
    <3>1. k \in 1 .. at /\ k \in 1 .. at + m /\ k <= at + m
      BY <1>1, <2>1
    <3>. QED
      BY <1>2, <1>4, <1>5, <1>6, <2>1, <3>1
  <2>2. CASE k > at + m
    <3>1. k - (at + m) \in 1 .. len - (at + m) /\ at + m + (k - (at + m)) = k
          /\ ~ (k <= at + m)
      BY <1>1, <2>2
    <3>2. whole[k] = back[k - (at + m)]
      BY <1>5, <3>1
    <3>3. back[k - (at + m)] = bytes[k]
      BY <1>3, <3>1
    <3>. QED
      BY <1>6, <2>2, <3>2, <3>3
  <2>3. CASE ~ (k <= at) /\ ~ (k > at + m)
    <3>1. k \in 1 .. at + m /\ k <= at + m
      BY <1>1, <2>3
    <3>. QED
      BY <1>4, <1>5, <1>6, <2>3, <3>1
  <2>. QED
    BY <2>1, <2>2, <2>3
<1>8. res = D!Overwritten(bytes, at, piece)
  BY DEF D!Overwritten, whole, front, back
<1>. QED
  BY <1>6, <1>7, <1>8

-----------------------------------------------------------------------------
(* The letters of the texts that are appended or set; no end among them *)
Letters == UNION {D!Range(piece) : piece \in Piece}
LettersOrEnd == Letters \cup {NUL}

LEMMA DStrConstants ==
  /\ ARG_DSTR_SIZE \in Nat /\ START_VSNBUFF \in Nat \ {0}
  /\ HalfBuffer \in Nat \ {0} /\ TooBig \in Nat /\ MaxText \in Nat
  /\ FormatSize \subseteq Nat
  /\ "nowhere" \notin Block /\ "sbuf" \notin Block /\ "caller" \notin Block
  /\ \A piece \in Piece : piece \in Seq(Letters)
  /\ NUL \notin Letters
<1>1. D!DStrAssumption
  BY ArgtableAssumption
<1>2. ASSUME NEW piece \in Piece
      PROVE  piece \in Seq(Letters)
  <2>1. piece \in Seq(D!Range(piece))
    BY <1>1 DEF D!DStrAssumption
  <2>2. D!Range(piece) \subseteq Letters
    BY DEF Letters
  <2>3. Len(piece) \in Nat /\ \A k \in 1 .. Len(piece) : piece[k] \in D!Range(piece)
    BY <2>1, LenProperties
  <2>4. piece = [k \in 1 .. Len(piece) |-> piece[k]]
    BY <2>1
  <2>. QED
    BY <2>2, <2>3, <2>4
<1>3. NUL \notin Letters
  BY <1>1 DEF D!DStrAssumption, Letters
<1>. QED
  BY <1>1, <1>2, <1>3 DEF D!DStrAssumption, D!Nowhere, D!Sbuf, D!Caller

LEMMA ZerosAre ==
  ASSUME NEW size \in Nat
  PROVE  /\ D!Zeros(size) \in Seq(LettersOrEnd) /\ Len(D!Zeros(size)) = size
         /\ \A k \in 1 .. size : D!Zeros(size)[k] = NUL
<1>1. D!Zeros(size) \in [1 .. size -> LettersOrEnd]
  BY DEF D!Zeros, LettersOrEnd
<1>. QED
  BY <1>1 DEF D!Zeros

LEMMA LettersAreBytes ==
  ASSUME NEW str \in Seq(Letters)
  PROVE  /\ str \in Seq(LettersOrEnd) /\ Len(str) \in Nat
         /\ \A k \in 1 .. Len(str) : str[k] # NUL
         /\ Append(str, NUL) \in Seq(LettersOrEnd) /\ IsText(Append(str, NUL), str)
<1>1. str \in Seq(LettersOrEnd)
  BY DEF LettersOrEnd
<1>2. Len(str) \in Nat /\ \A k \in 1 .. Len(str) : str[k] # NUL
  BY LenProperties, DStrConstants
<1>3. /\ Append(str, NUL) \in Seq(LettersOrEnd) /\ Len(Append(str, NUL)) = Len(str) + 1
      /\ Append(str, NUL)[Len(str) + 1] = NUL
      /\ \A k \in 1 .. Len(str) : Append(str, NUL)[k] = str[k]
  BY <1>1, <1>2 DEF LettersOrEnd
<1>. QED
  BY <1>1, <1>2, <1>3 DEF IsText

LEMMA CopiedIs ==
  ASSUME NEW bytes \in Seq(LettersOrEnd), NEW str \in Seq(Letters), Len(str) < Len(bytes)
  PROVE  /\ D!Copied(bytes, str) \in Seq(LettersOrEnd)
         /\ Len(D!Copied(bytes, str)) = Len(bytes)
         /\ IsText(D!Copied(bytes, str), str)
         /\ (\A k \in 1 .. Len(bytes) : bytes[k] = NUL) => Padded(D!Copied(bytes, str), str)
<1>. DEFINE piece == Append(str, NUL)
            m == Len(str)
            len == Len(bytes)
            res == D!Copied(bytes, str)
<1>1. /\ piece \in Seq(LettersOrEnd) /\ Len(piece) = m + 1 /\ m \in Nat /\ len \in Nat
      /\ piece[m + 1] = NUL /\ \A k \in 1 .. m : piece[k] = str[k] /\ str[k] # NUL
  BY LettersAreBytes, LenProperties
<1>2. res = D!Overwritten(bytes, 0, piece)
  BY DEF D!Copied
<1>. HIDE DEF piece, m, res
<1>3. 0 \in 0 .. Len(bytes) /\ 0 + Len(piece) <= Len(bytes)
  BY <1>1 DEF m
<1>4. /\ res \in Seq(LettersOrEnd) /\ Len(res) = len
      /\ \A k \in 1 .. len :
           res[k] = IF k <= 0 \/ k > 0 + Len(piece) THEN bytes[k] ELSE piece[k - 0]
  BY <1>1, <1>2, <1>3, OverwrittenIs
<1>5. ASSUME NEW k \in 1 .. len
      PROVE  res[k] = IF k > m + 1 THEN bytes[k] ELSE piece[k]
  <2>1. res[k] = IF k <= 0 \/ k > 0 + Len(piece) THEN bytes[k] ELSE piece[k - 0]
    BY <1>4
  <2>2. ~ (k <= 0) /\ k - 0 = k /\ 0 + Len(piece) = m + 1
    BY <1>1
  <2>. QED
    BY <2>1, <2>2
<1>6. m < len
  BY DEF m
<1>. HIDE DEF len
<1>7. res[m + 1] = NUL /\ \A k \in 1 .. m : res[k] = str[k] /\ str[k] # NUL
  <2>1. m + 1 \in 1 .. len /\ ~ (m + 1 > m + 1)
    BY <1>1, <1>6
  <2>2. \A k \in 1 .. m : k \in 1 .. len /\ ~ (k > m + 1)
    BY <1>1, <1>6
  <2>. QED
    BY <1>1, <1>5, <2>1, <2>2
<1>8. IsText(res, str)
  BY <1>4, <1>6, <1>7 DEF IsText, m
<1>9. (\A k \in 1 .. len : bytes[k] = NUL) => Padded(res, str)
  <2>. SUFFICES ASSUME \A k \in 1 .. len : bytes[k] = NUL, NEW k \in m + 1 .. len
       PROVE res[k] = NUL
    BY <1>4 DEF Padded, m
  <2>1. k \in 1 .. len /\ (k = m + 1 \/ k > m + 1)
    BY <1>1
  <2>. QED
    BY <1>5, <1>7, <2>1
<1>. QED
  BY <1>4, <1>8, <1>9 DEF res, len

(* A piece is put behind a text; its end was there before. *)
LEMMA PutBehindIs ==
  ASSUME NEW bytes \in Seq(LettersOrEnd), NEW str \in Seq(Letters), NEW piece \in Seq(Letters),
         IsText(bytes, str), Padded(bytes, str), Len(str) + Len(piece) < Len(bytes)
  PROVE  LET res == D!Overwritten(bytes, D!strlen(bytes), piece)
         IN  /\ res \in Seq(LettersOrEnd) /\ Len(res) = Len(bytes)
             /\ IsText(res, str \o piece) /\ Padded(res, str \o piece)
<1>. DEFINE res == D!Overwritten(bytes, D!strlen(bytes), piece)
            m == Len(str)
            l == Len(piece)
            len == Len(bytes)
            both == str \o piece
<1>1. /\ m \in Nat /\ l \in Nat /\ len \in Nat /\ m + l < len
      /\ str \in Seq(LettersOrEnd) /\ piece \in Seq(LettersOrEnd)
      /\ \A k \in 1 .. m : str[k] # NUL
      /\ \A k \in 1 .. l : piece[k] # NUL
  BY LettersAreBytes, LenProperties
<1>2. D!strlen(bytes) = m
  BY <1>1, TextIs
<1>3. /\ Len(both) = m + l
      /\ \A k \in 1 .. m + l : both[k] = IF k <= m THEN str[k] ELSE piece[k - m]
  BY ConcatProperties
<1>4. (\A k \in 1 .. m : bytes[k] = str[k]) /\ \A k \in m + 1 .. len : bytes[k] = NUL
  BY DEF IsText, Padded
<1>5. m \in 0 .. Len(bytes) /\ m + Len(piece) <= Len(bytes)
  BY <1>1
<1>6. /\ res \in Seq(LettersOrEnd) /\ Len(res) = len
      /\ \A k \in 1 .. len :
           res[k] = IF k <= m \/ k > m + Len(piece) THEN bytes[k] ELSE piece[k - m]
  <2>. HIDE DEF m
  <2>. QED
    BY <1>1, <1>2, <1>5, OverwrittenIs
<1>. HIDE DEF res, both, m, l, len
<1>7. \A k \in 1 .. len : res[k] = IF k <= m \/ k > m + l THEN bytes[k] ELSE piece[k - m]
  BY <1>6 DEF l
<1>8. ASSUME NEW k \in 1 .. m + l
      PROVE  res[k] = both[k] /\ both[k] # NUL
  <2>1. k \in 1 .. len /\ ~ (k > m + l)
    BY <1>1
  <2>2. CASE k <= m
    <3>1. k \in 1 .. m
      BY <2>2
    <3>. QED
      BY <1>1, <1>3, <1>4, <1>7, <2>1, <2>2, <3>1
  <2>3. CASE ~ (k <= m)
    <3>1. k - m \in 1 .. l
      BY <1>1, <2>3
    <3>. QED
      BY <1>1, <1>3, <1>7, <2>1, <2>3, <3>1
  <2>. QED
    BY <2>2, <2>3
<1>9. ASSUME NEW k \in m + l + 1 .. len
      PROVE  res[k] = NUL
  <2>1. k \in 1 .. len /\ k > m + l /\ k \in m + 1 .. len
    BY <1>1
  <2>. QED
    BY <1>4, <1>7, <2>1
<1>10. m + l + 1 \in m + l + 1 .. len
  BY <1>1
<1>11. IsText(res, both)
  BY <1>1, <1>3, <1>6, <1>8, <1>9, <1>10 DEF IsText
<1>12. Padded(res, both)
  BY <1>3, <1>6, <1>9 DEF Padded
<1>. QED
  BY <1>6, <1>11, <1>12 DEF res, both, len

-----------------------------------------------------------------------------
(* The string and the heap *)

(* The blocks of the heap are the text, if it is in one, and the buffer of a
   format; an append buffer is the text, and zeros are behind it. *)
HeapIs ==
  /\ data \in {"sbuf", "caller"} \cup Block /\ buff \in {"nowhere"} \cup Block
  /\ buff # data /\ DOMAIN mem = {data, buff} \cap Block
  /\ \A blk \in DOMAIN mem : mem[blk] \in Seq(LettersOrEnd)

OwnerIs ==
  \/ /\ append_data = "nowhere" /\ append_data_size = 0
     /\ free_proc = IF data \in Block THEN "dynamic" ELSE "static"
  \/ /\ append_data = data /\ data \in Block /\ free_proc = "static"
     /\ append_data_size = Len(mem[data])
     /\ Padded(mem[data], text) /\ append_used <= Len(text)

TextIsThere ==
  /\ sbuf \in Seq(LettersOrEnd) /\ Len(sbuf) = ARG_DSTR_SIZE + 1
  /\ text \in Seq(Letters)
  /\ D!At(data) \in Seq(LettersOrEnd) /\ IsText(D!At(data), text)

FormatIs ==
  /\ n \in Nat /\ out \in Seq(Letters)
  /\ buff # "nowhere" => \E str \in Seq(Letters) : IsText(mem[buff], str)

StringInv ==
  /\ exists \in BOOLEAN /\ append_used \in Nat
  /\ HeapIs /\ OwnerIs /\ TextIsThere /\ FormatIs
  /\ ~exists => data = "sbuf" /\ buff = "nowhere"

LEMMA Places == D!Nowhere = "nowhere" /\ D!Sbuf = "sbuf" /\ D!Caller = "caller"
BY DEF D!Nowhere, D!Sbuf, D!Caller

LEMMA AtIs ==
  /\ data = "sbuf" => D!At(data) = sbuf
  /\ data = "caller" => D!At(data) = kept
  /\ data \in Block => D!At(data) = mem[data]
BY DStrConstants, Places DEF D!At

LEMMA AtIsNext ==
  /\ data' = "sbuf" => D!At(data)' = sbuf'
  /\ data' = "caller" => D!At(data)' = kept'
  /\ data' \in Block => D!At(data)' = mem'[data']
BY DStrConstants, Places DEF D!At

LEMMA OwnersAre ==
  ASSUME StringInv
  PROVE  /\ D!Owned \cup D!AppendBlock = {data} \cap Block
         /\ D!Owned \cap D!AppendBlock = {}
         /\ D!AppendBlock # {} => append_data # "nowhere"
         /\ D!AppendBlock = {} => append_data = "nowhere" /\ append_data_size = 0
         /\ append_data # "nowhere" => D!Owned = {} /\ append_data_size > 0
         /\ append_data = "nowhere" => D!Owned = {data} \cap Block
<1>1. CASE append_data = "nowhere" /\ append_data_size = 0
           /\ free_proc = IF data \in Block THEN "dynamic" ELSE "static"
  BY <1>1, Places DEF D!Owned, D!AppendBlock
<1>2. CASE /\ append_data = data /\ data \in Block /\ free_proc = "static"
           /\ append_data_size = Len(mem[data])
  <2>1. data # "nowhere"
    BY <1>2, DStrConstants
  <2>2. Len(mem[data]) > 0 /\ Len(mem[data]) \in Nat
    <3>1. Len(text) < Len(mem[data]) /\ text \in Seq(Letters)
      BY <1>2, AtIs DEF StringInv, TextIsThere, IsText
    <3>2. mem[data] \in Seq(LettersOrEnd)
      BY <1>2, AtIs DEF StringInv, TextIsThere
    <3>3. Len(text) \in Nat /\ Len(mem[data]) \in Nat
      BY <3>1, <3>2, LenProperties
    <3>. QED
      BY <3>1, <3>3
  <2>. QED
    BY <1>2, <2>1, <2>2, Places DEF D!Owned, D!AppendBlock
<1>. QED
  BY <1>1, <1>2 DEF StringInv, OwnerIs

LEMMA FreshIs ==
  ASSUME NEW heap, NEW blk \in D!Fresh(heap)
  PROVE  blk \in Block /\ blk \notin DOMAIN heap
BY DEF D!Fresh

(* What was given back is not in the heap any more. *)
LEMMA GivenBackIs ==
  ASSUME StringInv, D!Idle
  PROVE  /\ DOMAIN D!GivenBack(mem) = {}
         /\ \A blk \in D!Fresh(mem) : \A bytes :
              /\ DOMAIN D!GivenBack(D!Stored(mem, blk, bytes)) = {blk}
              /\ D!GivenBack(D!Stored(mem, blk, bytes))[blk] = bytes
<1>1. DOMAIN mem = {data} \cap Block
  BY DStrConstants, Places DEF D!Idle, StringInv, HeapIs
<1>2. D!Owned \cup D!AppendBlock = {data} \cap Block
  BY OwnersAre
<1>3. ASSUME NEW blk \in D!Fresh(mem), NEW bytes
      PROVE  /\ DOMAIN D!GivenBack(D!Stored(mem, blk, bytes)) = {blk}
             /\ D!GivenBack(D!Stored(mem, blk, bytes))[blk] = bytes
  <2>1. blk \in Block /\ blk \notin DOMAIN mem
    BY FreshIs
  <2>. DEFINE st == D!Stored(mem, blk, bytes)
  <2>2. DOMAIN st = DOMAIN mem \cup {blk} /\ st[blk] = bytes
    BY DEF D!Stored
  <2>. HIDE DEF st
  <2>3. DOMAIN st \ (D!Owned \cup D!AppendBlock) = {blk}
    BY <1>1, <1>2, <2>1, <2>2
  <2>4. DOMAIN D!GivenBack(st) = {blk} /\ D!GivenBack(st)[blk] = bytes
    BY <2>2, <2>3 DEF D!GivenBack, D!Restrict
  <2>. QED
    BY <2>4 DEF st
<1>4. DOMAIN D!GivenBack(mem) = {}
  BY <1>1, <1>2 DEF D!GivenBack, D!Restrict
<1>. QED
  BY <1>3, <1>4

(* The string is set anew, and there is no append buffer. *)
LEMMA SetAnew ==
  ASSUME StringInv, D!Idle,
         exists' \in BOOLEAN, append_used' \in Nat, UNCHANGED D!format,
         append_data' = "nowhere", append_data_size' = 0,
         data' \in {"sbuf", "caller"} \cup Block,
         free_proc' = IF data' \in Block THEN "dynamic" ELSE "static",
         DOMAIN mem' = {data'} \cap Block,
         TextIsThere', ~exists' => data' = "sbuf"
  PROVE  StringInv'
<1>1. buff = "nowhere" /\ buff' = "nowhere" /\ n' = n /\ out' = out
  BY Places DEF D!Idle, D!format
<1>2. HeapIs'
  <2>1. \A blk \in DOMAIN mem' : mem'[blk] \in Seq(LettersOrEnd)
    BY AtIsNext DEF TextIsThere
  <2>. QED
    BY <1>1, <2>1, DStrConstants DEF HeapIs
<1>3. OwnerIs'
  BY DEF OwnerIs
<1>4. FormatIs'
  BY <1>1 DEF FormatIs, StringInv
<1>. QED
  BY <1>1, <1>2, <1>3, <1>4 DEF StringInv

LEMMA NoAppendBuffer ==
  ASSUME StringInv, D!SetAppend
  PROVE  append_data' = "nowhere" /\ append_data_size' = 0
BY OwnersAre, Places DEF D!SetAppend

(* The structure's buffer with no text in it *)
LEMMA NoTextIs ==
  ASSUME NEW bytes \in Seq(LettersOrEnd), Len(bytes) = ARG_DSTR_SIZE + 1
  PROVE  /\ [bytes EXCEPT ![1] = NUL] \in Seq(LettersOrEnd)
         /\ Len([bytes EXCEPT ![1] = NUL]) = ARG_DSTR_SIZE + 1
         /\ IsText([bytes EXCEPT ![1] = NUL], <<>>)
         /\ <<>> \in Seq(Letters)
<1>1. ARG_DSTR_SIZE + 1 \in Nat /\ 1 \in 1 .. Len(bytes)
  BY DStrConstants
<1>2. NUL \in LettersOrEnd
  BY DEF LettersOrEnd
<1>3. bytes = [k \in 1 .. Len(bytes) |-> bytes[k]] /\ DOMAIN bytes = 1 .. Len(bytes)
  OBVIOUS
<1>. DEFINE res == [bytes EXCEPT ![1] = NUL]
<1>4. res \in Seq(LettersOrEnd) /\ Len(res) = Len(bytes) /\ res[1] = NUL
  BY <1>1, <1>2, <1>3, ExceptSeq
<1>. HIDE DEF res
<1>5. IsText(res, <<>>)
  BY <1>1, <1>4 DEF IsText
<1>. QED
  BY <1>4, <1>5 DEF res

LEMMA ClearedIs ==
  /\ D!Zeros(ARG_DSTR_SIZE + 1) \in Seq(LettersOrEnd)
  /\ Len(D!Zeros(ARG_DSTR_SIZE + 1)) = ARG_DSTR_SIZE + 1
  /\ IsText(D!Zeros(ARG_DSTR_SIZE + 1), <<>>) /\ <<>> \in Seq(Letters)
<1>1. ARG_DSTR_SIZE + 1 \in Nat /\ 1 \in 1 .. ARG_DSTR_SIZE + 1
  BY DStrConstants
<1>. QED
  BY <1>1, ZerosAre DEF IsText

LEMMA SetSteps ==
  ASSUME StringInv
  PROVE  /\ D!Create => StringInv'
         /\ D!Destroy => StringInv'
         /\ D!Reset => StringInv'
         /\ D!SetNull => StringInv'
         /\ \A str \in Piece : D!SetVolatile(str) => StringInv'
         /\ \A str \in Piece : D!SetStatic(str) => StringInv'
         /\ \A str \in Piece : D!SetDynamic(str) => StringInv'
<1>0. ARG_DSTR_SIZE + 1 \in Nat /\ "sbuf" \notin Block /\ "caller" \notin Block
      /\ "nowhere" \notin Block
  BY DStrConstants
<1>. DEFINE Cleared == D!Zeros(ARG_DSTR_SIZE + 1)
<1>1. ASSUME D!Create
      PROVE  StringInv'
  <2>1. /\ data = "sbuf" /\ buff = "nowhere" /\ DOMAIN mem = {}
    BY <1>0, <1>1, Places DEF D!Create, StringInv, HeapIs
  <2>2. /\ exists' = TRUE /\ mem' = mem /\ n' = n /\ buff' = buff /\ out' = out
        /\ sbuf' = D!Zeros(ARG_DSTR_SIZE + 1) /\ data' = "sbuf" /\ free_proc' = "static"
        /\ append_data' = "nowhere" /\ append_data_size' = 0 /\ append_used' = 0
        /\ text' = <<>>
    BY <1>1, Places DEF D!Create, D!Clear, D!format
  <2>3. TextIsThere'
    BY <2>2, ClearedIs, AtIsNext DEF TextIsThere
  <2>4. HeapIs'
    BY <1>0, <2>1, <2>2 DEF HeapIs
  <2>5. OwnerIs'
    BY <1>0, <2>2 DEF OwnerIs
  <2>6. FormatIs'
    BY <2>1, <2>2 DEF FormatIs, StringInv
  <2>. QED
    BY <2>1, <2>2, <2>3, <2>4, <2>5, <2>6 DEF StringInv
<1>2. ASSUME D!Destroy
      PROVE  StringInv'
  <2>1. D!Idle /\ DOMAIN D!GivenBack(mem) = {}
    BY <1>2, GivenBackIs DEF D!Destroy
  <2>2. /\ mem' = D!GivenBack(mem) /\ exists' = FALSE /\ UNCHANGED D!format
        /\ sbuf' = D!Zeros(ARG_DSTR_SIZE + 1) /\ data' = "sbuf" /\ free_proc' = "static"
        /\ append_data' = "nowhere" /\ append_data_size' = 0 /\ append_used' = 0
        /\ text' = <<>>
    BY <1>2, Places DEF D!Destroy, D!Clear, D!Without, D!GivenBack
  <2>3. TextIsThere'
    BY <2>2, ClearedIs, AtIsNext DEF TextIsThere
  <2>. QED
    BY <1>0, <2>1, <2>2, <2>3, SetAnew
<1>3. ASSUME D!Reset
      PROVE  StringInv'
  <2>1. D!Idle /\ DOMAIN D!GivenBack(mem) = {}
    BY <1>3, GivenBackIs DEF D!Reset
  <2>2. /\ mem' = D!GivenBack(mem) /\ exists' = exists /\ UNCHANGED D!format
        /\ sbuf' = [sbuf EXCEPT ![1] = NUL] /\ data' = "sbuf" /\ free_proc' = "static"
        /\ append_data' = "nowhere" /\ append_data_size' = 0 /\ append_used' = append_used
        /\ text' = <<>>
    BY <1>3, Places DEF D!Reset, D!Without, D!GivenBack
  <2>3. sbuf \in Seq(LettersOrEnd) /\ Len(sbuf) = ARG_DSTR_SIZE + 1
    BY DEF StringInv, TextIsThere
  <2>4. TextIsThere'
    BY <2>2, <2>3, NoTextIs, AtIsNext DEF TextIsThere
  <2>. QED
    BY <1>0, <2>1, <2>2, <2>4, SetAnew DEF StringInv
<1>4. ASSUME D!SetNull
      PROVE  StringInv'
  <2>1. D!Idle /\ DOMAIN D!GivenBack(mem) = {}
    BY <1>4, GivenBackIs DEF D!SetNull
  <2>2. /\ mem' = D!GivenBack(mem) /\ exists' = exists /\ UNCHANGED D!format
        /\ sbuf' = [sbuf EXCEPT ![1] = NUL] /\ data' = "sbuf" /\ free_proc' = "static"
        /\ append_data' = "nowhere" /\ append_data_size' = 0 /\ append_used' = append_used
        /\ text' = <<>>
    BY <1>4, Places, NoAppendBuffer DEF D!SetNull, D!SetAppend
  <2>3. sbuf \in Seq(LettersOrEnd) /\ Len(sbuf) = ARG_DSTR_SIZE + 1
    BY DEF StringInv, TextIsThere
  <2>4. TextIsThere'
    BY <2>2, <2>3, NoTextIs, AtIsNext DEF TextIsThere
  <2>. QED
    BY <1>0, <2>1, <2>2, <2>4, SetAnew DEF StringInv
(* A text in a block of its own *)
<1>5. ASSUME D!Idle, NEW str \in Piece, NEW blk \in D!Fresh(mem),
             data' = blk, free_proc' = "dynamic", sbuf' = sbuf,
             mem' = D!GivenBack(D!Stored(mem, blk, Append(str, NUL))),
             text' = str, D!SetAppend
      PROVE  StringInv'
  <2>1. blk \in Block
    BY FreshIs
  <2>2. DOMAIN mem' = {blk} /\ mem'[blk] = Append(str, NUL)
    BY <1>5, GivenBackIs
  <2>3. str \in Seq(Letters)
    BY DStrConstants
  <2>4. Append(str, NUL) \in Seq(LettersOrEnd) /\ IsText(Append(str, NUL), str)
    BY <2>3, LettersAreBytes
  <2>5. D!At(data)' = Append(str, NUL)
    BY <1>5, <2>1, <2>2, AtIsNext
  <2>6. TextIsThere'
    BY <1>5, <2>3, <2>4, <2>5 DEF TextIsThere, StringInv
  <2>7. /\ append_data' = "nowhere" /\ append_data_size' = 0 /\ exists' = exists
        /\ append_used' = append_used /\ UNCHANGED D!format /\ exists
    BY <1>5, NoAppendBuffer DEF D!SetAppend, D!Idle
  <2>. QED
    BY <1>5, <2>1, <2>2, <2>6, <2>7, SetAnew DEF StringInv
<1>6. ASSUME NEW str \in Piece, D!SetVolatile(str)
      PROVE  StringInv'
  <2>1. CASE Len(str) > ARG_DSTR_SIZE
    <3>1. PICK blk \in D!Fresh(mem) :
            /\ data' = blk /\ free_proc' = "dynamic" /\ sbuf' = sbuf
            /\ mem' = D!GivenBack(D!Stored(mem, blk, Append(str, NUL)))
      BY <1>6, <2>1 DEF D!SetVolatile
    <3>. QED
      BY <1>5, <1>6, <3>1 DEF D!SetVolatile
  <2>2. CASE ~ (Len(str) > ARG_DSTR_SIZE)
    <3>1. /\ D!Idle /\ sbuf' = D!Copied(sbuf, str) /\ data' = "sbuf" /\ free_proc' = "static"
          /\ mem' = D!GivenBack(mem) /\ text' = str /\ D!SetAppend
      BY <1>6, <2>2, Places DEF D!SetVolatile
    <3>2. str \in Seq(Letters) /\ Len(str) < ARG_DSTR_SIZE + 1
      <4>1. str \in Seq(Letters) /\ ARG_DSTR_SIZE \in Nat
        BY DStrConstants
      <4>2. Len(str) \in Nat
        BY <4>1, LenProperties
      <4>. QED
        BY <2>2, <4>1, <4>2
    <3>3. sbuf \in Seq(LettersOrEnd) /\ Len(sbuf) = ARG_DSTR_SIZE + 1
      BY DEF StringInv, TextIsThere
    <3>4. /\ sbuf' \in Seq(LettersOrEnd) /\ Len(sbuf') = ARG_DSTR_SIZE + 1
          /\ IsText(sbuf', str)
      BY <3>1, <3>2, <3>3, CopiedIs
    <3>5. TextIsThere'
      BY <3>1, <3>2, <3>4, AtIsNext DEF TextIsThere
    <3>6. /\ append_data' = "nowhere" /\ append_data_size' = 0 /\ exists' = exists
          /\ append_used' = append_used /\ UNCHANGED D!format
      BY <3>1, NoAppendBuffer DEF D!SetAppend
    <3>7. DOMAIN mem' = {}
      BY <3>1, GivenBackIs
    <3>. QED
      BY <1>0, <3>1, <3>5, <3>6, <3>7, SetAnew DEF StringInv
  <2>. QED
    BY <2>1, <2>2
<1>7. ASSUME NEW str \in Piece, D!SetStatic(str)
      PROVE  StringInv'
  <2>1. /\ D!Idle /\ kept' = Append(str, NUL) /\ data' = "caller" /\ free_proc' = "static"
        /\ mem' = D!GivenBack(mem) /\ text' = str /\ D!SetAppend /\ sbuf' = sbuf
    BY <1>7, Places DEF D!SetStatic
  <2>2. str \in Seq(Letters)
    BY DStrConstants
  <2>3. Append(str, NUL) \in Seq(LettersOrEnd) /\ IsText(Append(str, NUL), str)
    BY <2>2, LettersAreBytes
  <2>4. TextIsThere'
    BY <2>1, <2>2, <2>3, AtIsNext DEF TextIsThere, StringInv
  <2>5. /\ append_data' = "nowhere" /\ append_data_size' = 0 /\ exists' = exists /\ exists
        /\ append_used' = append_used /\ UNCHANGED D!format
    BY <2>1, NoAppendBuffer DEF D!SetAppend, D!Idle
  <2>6. DOMAIN mem' = {}
    BY <2>1, GivenBackIs
  <2>. QED
    BY <1>0, <2>1, <2>4, <2>5, <2>6, SetAnew DEF StringInv
<1>8. ASSUME NEW str \in Piece, D!SetDynamic(str)
      PROVE  StringInv'
  <2>1. PICK blk \in D!Fresh(mem) :
          /\ data' = blk /\ free_proc' = "dynamic"
          /\ mem' = D!GivenBack(D!Stored(mem, blk, Append(str, NUL)))
    BY <1>8 DEF D!SetDynamic
  <2>. QED
    BY <1>5, <1>8, <2>1 DEF D!SetDynamic
<1>. QED
  BY <1>1, <1>2, <1>3, <1>4, <1>6, <1>7, <1>8

-----------------------------------------------------------------------------
(* What arg_dstr_cat and its like come upon *)
LEMMA TextAtHand ==
  ASSUME StringInv
  PROVE  /\ text \in Seq(Letters) /\ Len(text) \in Nat
         /\ D!String(D!At(data)) = text /\ D!HasEnd(D!At(data))
         /\ D!Dropped = {} /\ D!Used = Len(text)
<1>1. /\ text \in Seq(Letters) /\ text \in Seq(LettersOrEnd) /\ Len(text) \in Nat
      /\ D!At(data) \in Seq(LettersOrEnd) /\ IsText(D!At(data), text)
  BY LettersAreBytes DEF StringInv, TextIsThere
<1>2. /\ D!strlen(D!At(data)) = Len(text) /\ D!String(D!At(data)) = text
      /\ D!HasEnd(D!At(data))
  BY <1>1, TextIs
<1>3. CASE append_data = "nowhere" /\ append_data_size = 0
  <2>1. data # append_data
    BY <1>3, DStrConstants DEF StringInv, HeapIs
  <2>2. ~ (append_data_size > TooBig)
    BY <1>3, DStrConstants
  <2>. QED
    BY <1>1, <1>2, <2>1, <2>2 DEF D!Used, D!Dropped
<1>4. CASE append_data = data /\ data \in Block /\ append_used <= Len(text)
  <2>1. D!Dropped = {}
    BY <1>4 DEF D!Dropped
  <2>2. CASE D!At(data)[append_used + 1] # NUL
    BY <1>1, <1>2, <2>1, <2>2 DEF D!Used
  <2>3. CASE D!At(data)[append_used + 1] = NUL
    <3>1. append_used \in Nat
      BY DEF StringInv
    <3>2. ~ (append_used + 1 \in 1 .. Len(text))
      BY <1>1, <2>3 DEF IsText
    <3>3. append_used = Len(text)
      BY <1>1, <1>4, <3>1, <3>2
    <3>4. D!Used = append_used
      BY <1>4, <2>3 DEF D!Used
    <3>. QED
      BY <1>1, <1>2, <2>1, <3>3, <3>4
  <2>. QED
    BY <2>2, <2>3
<1>. QED
  BY <1>3, <1>4 DEF StringInv, OwnerIs

LEMMA SpaceIs ==
  ASSUME NEW total \in Nat \ {0}
  PROVE  D!Space(total) \in Nat /\ D!Space(total) > total
<1>1. HalfBuffer \in Nat \ {0}
  BY DStrConstants
<1>. QED
  BY <1>1 DEF D!Space

LEMMA AttachStep ==
  ASSUME StringInv, exists, NEW piece \in Seq(Letters),
         NEW after, after = {buff} \cap Block,
         D!Attach(piece, Len(piece) + 1, after),
         buff' = "nowhere", n' \in Nat, out' \in Seq(Letters)
  PROVE  StringInv'
<1>. DEFINE total == (Len(piece) + 1) + D!Used
            grows == total >= append_data_size
            bytes == IF grows THEN D!Copied(D!Zeros(D!Space(total)), text)
                     ELSE IF data # append_data THEN D!Copied(mem[append_data], text)
                     ELSE mem[append_data]
            res == D!Overwritten(bytes, D!strlen(bytes), piece)
            gone == D!Owned \cup {} \cup after
                      \cup (IF grows THEN D!Replaced(append_data) ELSE {})
            heirs == IF grows THEN D!Fresh(D!Without({})) ELSE {append_data}
            room == IF grows THEN D!Space(total) ELSE append_data_size
<1>1. /\ text \in Seq(Letters) /\ Len(text) \in Nat
      /\ D!String(D!At(data)) = text /\ D!Dropped = {} /\ D!Used = Len(text)
      /\ Len(piece) \in Nat /\ "nowhere" \notin Block
  BY TextAtHand, LettersAreBytes, DStrConstants
<1>2. PICK blk \in heirs :
        /\ mem' = D!Restrict(D!Stored(mem, blk, res), {blk} \cup (DOMAIN mem \ gone))
        /\ append_data' = blk /\ data' = blk
        /\ append_data_size' = room
        /\ append_used' = D!Used
        /\ free_proc' = "static"
        /\ text' = text \o piece
        /\ exists' = exists /\ sbuf' = sbuf
  <2>. DEFINE old == D!String(D!At(data))
              drop == D!Dropped
              block == IF drop = {} THEN append_data ELSE D!Nowhere
              size == IF drop = {} THEN append_data_size ELSE 0
              more == total >= size
              buffer == IF more THEN D!Copied(D!Cleared(D!Space(total)), old)
                        ELSE IF data # append_data THEN D!Copied(mem[block], old)
                        ELSE mem[block]
              Taken(b_) ==
                /\ mem' = D!Restrict(D!Stored(mem, b_, D!Overwritten(buffer, D!strlen(buffer), piece)),
                            {b_} \cup (DOMAIN mem \ (D!Owned \cup drop \cup after
                                \cup (IF more THEN D!Replaced(block) ELSE {}))))
                /\ append_data' = b_ /\ data' = b_
                /\ append_data_size' = IF more THEN D!Space(total) ELSE size
                /\ append_used' = D!Used
                /\ free_proc' = "static"
                /\ text' = text \o piece
                /\ UNCHANGED <<exists, sbuf, kept>>
  <2>1. \E b_ \in IF more THEN D!Fresh(D!Without(drop)) ELSE {block} : Taken(b_)
    BY DEF D!Attach
  <2>2. /\ old = text /\ drop = {} /\ block = append_data /\ size = append_data_size
        /\ (more <=> grows)
    BY <1>1
  <2>3. buffer = bytes
    BY <2>2 DEF D!Cleared
  <2>4. PICK b_ \in heirs : Taken(b_)
    BY <2>1, <2>2
  <2>. HIDE DEF buffer, bytes
  <2>. QED
    BY <2>2, <2>3, <2>4
<1>3. total = Len(piece) + 1 + Len(text) /\ total \in Nat \ {0}
  BY <1>1
<1>4. \/ /\ append_data = "nowhere" /\ append_data_size = 0 /\ D!Owned = {data} \cap Block
      \/ /\ append_data = data /\ data \in Block /\ D!Owned = {}
         /\ append_data_size = Len(mem[data]) /\ append_data # "nowhere"
         /\ Padded(mem[data], text)
  BY <1>1, OwnersAre DEF StringInv, OwnerIs
<1>5. ~grows => append_data = data /\ data \in Block
  BY <1>3, <1>4
<1>6. /\ bytes \in Seq(LettersOrEnd) /\ Len(bytes) = room
      /\ IsText(bytes, text) /\ Padded(bytes, text) /\ room > total
  <2>1. CASE grows
    <3>1. D!Space(total) \in Nat /\ D!Space(total) > total
      BY <1>3, SpaceIs
    <3>. DEFINE zeros == D!Zeros(D!Space(total))
    <3>2. /\ zeros \in Seq(LettersOrEnd) /\ Len(zeros) = D!Space(total)
          /\ \A k \in 1 .. Len(zeros) : zeros[k] = NUL
      BY <3>1, ZerosAre
    <3>3. Len(text) < Len(zeros)
      BY <1>1, <1>3, <3>1, <3>2
    <3>4. bytes = D!Copied(zeros, text) /\ room = D!Space(total)
      BY <2>1
    <3>. HIDE DEF zeros, bytes, room, total
    <3>. QED
      BY <1>1, <3>1, <3>2, <3>3, <3>4, CopiedIs
  <2>2. CASE ~grows
    <3>1. append_data = data /\ data \in Block /\ bytes = mem[data] /\ room = append_data_size
      BY <1>5, <2>2
    <3>2. D!At(data) = mem[data]
      BY <3>1, AtIs
    <3>3. mem[data] \in Seq(LettersOrEnd) /\ IsText(mem[data], text)
      BY <3>2 DEF StringInv, TextIsThere
    <3>4. room = Len(mem[data]) /\ Padded(mem[data], text)
      BY <1>1, <1>4, <3>1
    <3>5. room \in Nat
      BY <3>3, <3>4, LenProperties
    <3>6. room > total
      BY <1>3, <2>2, <3>1, <3>5
    <3>. QED
      BY <3>1, <3>3, <3>4, <3>6
  <2>. QED
    BY <2>1, <2>2
<1>7. Len(text) + Len(piece) < Len(bytes)
  <2>1. Len(bytes) \in Nat
    BY <1>6, LenProperties
  <2>. HIDE DEF bytes, room, total
  <2>. QED
    BY <1>1, <1>3, <1>6, <2>1
<1>8. /\ res \in Seq(LettersOrEnd) /\ Len(res) = room
      /\ IsText(res, text \o piece) /\ Padded(res, text \o piece)
  <2>. HIDE DEF bytes, room, total
  <2>. QED
    BY <1>1, <1>6, <1>7, PutBehindIs
<1>. HIDE DEF bytes, res
<1>9. blk \in Block /\ {blk} \cup (DOMAIN mem \ gone) = {blk}
  <2>1. DOMAIN mem = {data, buff} \cap Block
    BY DEF StringInv, HeapIs
  <2>2. CASE grows
    <3>1. blk \in Block
      BY <1>2, <2>2, FreshIs
    <3>2. gone = D!Owned \cup after \cup D!Replaced(append_data)
      BY <2>2
    <3>3. D!Replaced(append_data) = IF append_data = "nowhere" THEN {} ELSE {append_data}
      BY Places DEF D!Replaced
    <3>. HIDE DEF gone
    <3>4. DOMAIN mem \subseteq gone
      BY <1>4, <2>1, <3>2, <3>3
    <3>. QED
      BY <3>1, <3>4
  <2>3. CASE ~grows
    <3>1. blk = data /\ data \in Block
      BY <1>2, <1>5, <2>3
    <3>2. after \subseteq gone
      OBVIOUS
    <3>. HIDE DEF gone
    <3>. QED
      BY <2>1, <3>1, <3>2
  <2>. QED
    BY <2>2, <2>3
<1>. HIDE DEF gone
<1>10. DOMAIN mem' = {blk} /\ mem'[blk] = res
  <2>. DEFINE st == D!Stored(mem, blk, res)
  <2>1. st[blk] = res
    BY DEF D!Stored
  <2>. HIDE DEF st
  <2>2. mem' = D!Restrict(st, {blk})
    BY <1>2, <1>9 DEF st
  <2>. QED
    BY <2>1, <2>2 DEF D!Restrict
<1>11. D!At(data)' = res
  BY <1>2, <1>9, <1>10, AtIsNext
<1>12. text' \in Seq(Letters) /\ Len(text') = Len(text) + Len(piece)
  BY <1>1, <1>2, ConcatProperties
<1>13. HeapIs'
  BY <1>1, <1>2, <1>8, <1>9, <1>10 DEF HeapIs
<1>14. OwnerIs'
  <2>1. append_used' <= Len(text')
    BY <1>1, <1>2, <1>12
  <2>2. Padded(mem'[data'], text') /\ append_data_size' = Len(mem'[data'])
    BY <1>2, <1>8, <1>10
  <2>. QED
    BY <1>2, <1>9, <2>1, <2>2 DEF OwnerIs
<1>15. TextIsThere'
  BY <1>2, <1>8, <1>11, <1>12 DEF TextIsThere, StringInv
<1>16. FormatIs'
  BY DEF FormatIs
<1>. QED
  BY <1>1, <1>2, <1>13, <1>14, <1>15, <1>16 DEF StringInv

-----------------------------------------------------------------------------
(* The buffer of a format holds the output, or as much of it as has room. *)
LEMMA TryIs ==
  ASSUME NEW output \in Seq(Letters), NEW size \in Nat
  PROVE  /\ D!Try(output, size) \in Seq(LettersOrEnd)
         /\ \E str \in Seq(Letters) : IsText(D!Try(output, size), str)
<1>. DEFINE cut == IF Len(output) < size THEN Len(output) ELSE size
            str == SubSeq(output, 1, cut)
            zeros == D!Zeros(size + 2)
<1>1. Len(output) \in Nat /\ \A k \in 1 .. Len(output) : output[k] \in Letters
  BY LenProperties
<1>2. cut \in Nat /\ cut <= Len(output) /\ cut <= size
  BY <1>1
<1>. HIDE DEF cut
<1>3. str \in Seq(Letters) /\ Len(str) = cut
  <2>1. 1 \in Int /\ cut \in Int /\ \A k \in 1 .. cut : output[k] \in Letters
    BY <1>1, <1>2
  <2>2. str \in Seq(Letters) /\ Len(str) = IF 1 <= cut THEN cut - 1 + 1 ELSE 0
    BY <2>1, SubSeqProperties
  <2>. QED
    BY <1>2, <2>2
<1>4. zeros \in Seq(LettersOrEnd) /\ Len(zeros) = size + 2
  BY ZerosAre
<1>. HIDE DEF str, zeros
<1>5. Len(str) < Len(zeros)
  BY <1>2, <1>3, <1>4
<1>6. D!Copied(zeros, str) \in Seq(LettersOrEnd) /\ IsText(D!Copied(zeros, str), str)
  BY <1>3, <1>4, <1>5, CopiedIs
<1>7. D!Try(output, size) = D!Copied(zeros, str)
  BY DEF D!Try, zeros, str, cut
<1>. QED
  BY <1>3, <1>6, <1>7

(* A buffer is taken for a format; the heap has none for it. *)
LEMMA FormatStep ==
  ASSUME StringInv, exists, UNCHANGED <<exists, D!string, D!append, text>>,
         n' \in Nat, out' \in Seq(Letters),
         NEW heap, DOMAIN heap = {data} \cap Block, \A q \in DOMAIN heap : heap[q] = mem[q],
         NEW blk \in D!Fresh(heap), buff' = blk,
         mem' = D!Stored(heap, blk, D!Try(out', n'))
  PROVE  StringInv'
<1>1. /\ exists' = exists /\ sbuf' = sbuf /\ kept' = kept /\ data' = data
      /\ free_proc' = free_proc /\ append_data' = append_data
      /\ append_data_size' = append_data_size /\ append_used' = append_used /\ text' = text
  BY DEF D!string, D!append
<1>4. blk \in Block /\ blk \notin DOMAIN heap
  BY FreshIs
<1>5. /\ DOMAIN mem' = ({data} \cap Block) \cup {blk}
      /\ mem'[blk] = D!Try(out', n')
      /\ \A q \in {data} \cap Block : mem'[q] = mem[q]
  BY <1>4 DEF D!Stored
<1>6. /\ D!Try(out', n') \in Seq(LettersOrEnd)
      /\ \E str \in Seq(Letters) : IsText(D!Try(out', n'), str)
  BY TryIs
<1>7. HeapIs'
  <2>1. blk # data
    BY <1>4
  <2>2. \A q \in {data} \cap Block : mem[q] \in Seq(LettersOrEnd)
    BY AtIs DEF StringInv, TextIsThere
  <2>3. \A q \in DOMAIN mem' : mem'[q] \in Seq(LettersOrEnd)
    BY <1>5, <1>6, <2>2
  <2>4. DOMAIN mem' = {data', buff'} \cap Block
    BY <1>1, <1>4, <1>5
  <2>. QED
    BY <1>1, <1>4, <2>1, <2>3, <2>4 DEF HeapIs, StringInv
<1>8. OwnerIs'
  BY <1>1, <1>5 DEF OwnerIs, StringInv
<1>9. TextIsThere'
  <2>1. D!At(data)' = D!At(data)
    BY <1>1, <1>5, AtIs, AtIsNext DEF StringInv, HeapIs
  <2>. QED
    BY <1>1, <2>1 DEF TextIsThere, StringInv
<1>10. FormatIs'
  BY <1>5, <1>6 DEF FormatIs
<1>. QED
  BY <1>1, <1>7, <1>8, <1>9, <1>10 DEF StringInv

LEMMA AppendSteps ==
  ASSUME StringInv
  PROVE  /\ \A str \in Piece : D!Cat(str) => StringInv'
         /\ \A str \in Piece : \A c \in D!Range(str) : D!Catc(c) => StringInv'
         /\ \A str \in Piece : \A length \in FormatSize : D!Catf(str, length) => StringInv'
         /\ D!CatfAgain => StringInv'
         /\ D!CatfEnd => StringInv'
<1>0. "nowhere" \notin Block
  BY DStrConstants
<1>1. ASSUME D!Idle
      PROVE  exists /\ buff = "nowhere" /\ {buff} \cap Block = {}
  BY <1>0, <1>1, Places DEF D!Idle
<1>2. n \in Nat /\ out \in Seq(Letters) /\ text \in Seq(Letters) /\ Len(text) \in Nat
  BY TextAtHand DEF StringInv, FormatIs
<1>3. ASSUME NEW str \in Piece, D!Cat(str)
      PROVE  StringInv'
  <2>1. str \in Seq(Letters)
    BY DStrConstants
  <2>2. /\ D!Idle /\ D!Attach(str, Len(str) + 1, {})
        /\ n' = n /\ buff' = buff /\ out' = out
    BY <1>3 DEF D!Cat, D!format
  <2>. QED
    BY <1>1, <1>2, <2>1, <2>2, AttachStep
<1>4. ASSUME NEW str \in Piece, NEW c \in D!Range(str), D!Catc(c)
      PROVE  StringInv'
  <2>1. <<c>> \in Seq(Letters) /\ 2 = Len(<<c>>) + 1
    BY DEF Letters
  <2>2. /\ D!Idle /\ D!Attach(<<c>>, Len(<<c>>) + 1, {})
        /\ n' = n /\ buff' = buff /\ out' = out
    BY <1>4, <2>1 DEF D!Catc, D!format
  <2>. QED
    BY <1>1, <1>2, <2>1, <2>2, AttachStep
<1>5. ASSUME NEW str \in Piece, NEW length \in FormatSize, D!Catf(str, length)
      PROVE  StringInv'
  <2>1. str \in Seq(Letters) /\ length \in Nat /\ START_VSNBUFF \in Nat
    BY DStrConstants
  <2>2. /\ D!Idle /\ out' = str
        /\ n' = IF 2 * length < START_VSNBUFF THEN START_VSNBUFF ELSE 2 * length
        /\ UNCHANGED <<exists, D!string, D!append, text>>
    BY <1>5 DEF D!Catf
  <2>3. PICK blk \in D!Fresh(mem) :
          buff' = blk /\ mem' = D!Stored(mem, blk, D!Try(out', n'))
    BY <1>5 DEF D!Catf
  <2>4. n' \in Nat
    BY <2>1, <2>2
  <2>5. DOMAIN mem = {data} \cap Block
    BY <1>0, <1>1, <2>2 DEF StringInv, HeapIs
  <2>. QED
    BY <1>1, <2>1, <2>2, <2>3, <2>4, <2>5, FormatStep
<1>6. ASSUME D!CatfAgain
      PROVE  StringInv'
  <2>1. /\ buff # "nowhere" /\ n' = D!Larger /\ out' = out
        /\ UNCHANGED <<exists, D!string, D!append, text>>
    BY <1>6, Places DEF D!CatfAgain
  <2>2. exists
    BY <2>1 DEF StringInv
  <2>3. n' \in Nat
    <3>1. Len(out) \in Nat
      BY <1>2, LenProperties
    <3>. QED
      BY <1>2, <2>1, <3>1 DEF D!Larger
  <2>4. PICK blk \in D!Fresh(D!Without({buff})) :
          buff' = blk /\ mem' = D!Stored(D!Without({buff}), blk, D!Try(out', n'))
    BY <1>6, <2>1 DEF D!CatfAgain
  <2>5. /\ DOMAIN D!Without({buff}) = {data} \cap Block
        /\ \A q \in DOMAIN D!Without({buff}) : D!Without({buff})[q] = mem[q]
    BY DEF D!Without, D!Restrict, StringInv, HeapIs
  <2>. QED
    BY <1>2, <2>1, <2>2, <2>3, <2>4, <2>5, FormatStep
<1>7. ASSUME D!CatfEnd
      PROVE  StringInv'
  <2>1. /\ buff # "nowhere"
        /\ D!Attach(D!String(mem[buff]), D!strlen(mem[buff]) + 1, {buff})
        /\ n' = 0 /\ buff' = "nowhere" /\ out' = <<>>
    BY <1>7, Places DEF D!CatfEnd
  <2>2. exists /\ buff \in Block /\ mem[buff] \in Seq(LettersOrEnd)
    <3>1. buff \in Block /\ buff \in DOMAIN mem
      BY <2>1 DEF StringInv, HeapIs
    <3>. QED
      BY <2>1, <3>1 DEF StringInv, HeapIs
  <2>3. PICK str \in Seq(Letters) : IsText(mem[buff], str)
    BY <2>1 DEF StringInv, FormatIs
  <2>4. D!strlen(mem[buff]) = Len(str) /\ D!String(mem[buff]) = str
    BY <2>2, <2>3, LettersAreBytes, TextIs
  <2>5. {buff} = {buff} \cap Block /\ 0 \in Nat /\ <<>> \in Seq(Letters)
    BY <2>2
  <2>. QED
    BY <2>1, <2>2, <2>4, <2>5, AttachStep
<1>. QED
  BY <1>3, <1>4, <1>5, <1>6, <1>7

-----------------------------------------------------------------------------
LEMMA StringInitInv == PartsInit => StringInv
<1>. SUFFICES ASSUME PartsInit
     PROVE StringInv
  OBVIOUS
<1>0. "nowhere" \notin Block /\ "sbuf" \notin Block /\ "caller" \notin Block
  BY DStrConstants
<1>1. /\ exists = FALSE /\ mem = <<>> /\ sbuf = D!Zeros(ARG_DSTR_SIZE + 1)
      /\ data = "sbuf" /\ free_proc = "static"
      /\ append_data = "nowhere" /\ append_data_size = 0 /\ append_used = 0
      /\ text = <<>> /\ n = 0 /\ buff = "nowhere" /\ out = <<>>
  BY Places DEF PartsInit, D!Init
<1>2. DOMAIN mem = {}
  <2>1. \A s : s = <<>> => DOMAIN s = {}
    OBVIOUS
  <2>. QED
    BY <1>1, <2>1
<1>3. HeapIs
  BY <1>0, <1>1, <1>2 DEF HeapIs
<1>4. OwnerIs
  BY <1>0, <1>1 DEF OwnerIs
<1>5. TextIsThere
  BY <1>1, ClearedIs, AtIs DEF TextIsThere
<1>6. FormatIs
  BY <1>1 DEF FormatIs
<1>. QED
  BY <1>1, <1>3, <1>4, <1>5, <1>6 DEF StringInv

LEMMA StringInvStep == StringInv /\ [PartsNext]_allvars => StringInv'
<1>. SUFFICES ASSUME StringInv, [PartsNext]_allvars
     PROVE StringInv'
  OBVIOUS
<1>1. CASE D!Next
  BY <1>1, SetSteps, AppendSteps DEF D!Next
<1>2. CASE UNCHANGED stringvars
  BY <1>2 DEF stringvars, StringInv, HeapIs, OwnerIs, TextIsThere, FormatIs, D!At
<1>. QED
  BY <1>1, <1>2 DEF PartsNext, allvars

LEMMA StringInvSound == StringInv => StringIsSound
<1>. SUFFICES ASSUME StringInv
     PROVE StringIsSound
  OBVIOUS
<1>0. "nowhere" \notin Block /\ "sbuf" \notin Block /\ "caller" \notin Block
  BY DStrConstants
<1>1. /\ data \in {"sbuf", "caller"} \cup Block /\ buff \in {"nowhere"} \cup Block
      /\ buff # data /\ DOMAIN mem = {data, buff} \cap Block
  BY DEF StringInv, HeapIs
<1>2. D!AppendBufferIsTheText
  BY Places DEF D!AppendBufferIsTheText, StringInv, OwnerIs
<1>3. D!ReadsAsWritten
  BY TextAtHand DEF D!ReadsAsWritten
<1>4. D!EveryBlockHasItsOwner
  <2>1. D!Owned \cup D!AppendBlock = {data} \cap Block /\ D!Owned \cap D!AppendBlock = {}
    BY OwnersAre
  <2>2. DOMAIN mem = ({data} \cap Block) \cup ({buff} \ {"nowhere"})
    BY <1>0, <1>1
  <2>3. buff \notin {data} \cap Block
    BY <1>1
  <2>. QED
    BY <2>1, <2>2, <2>3, Places DEF D!EveryBlockHasItsOwner
<1>5. D!TypeOK
  <2>1. \/ /\ append_data = "nowhere" /\ append_data_size = 0
        \/ /\ append_data = data /\ data \in Block /\ append_data # "nowhere"
           /\ append_data_size = Len(mem[append_data])
    BY <1>0 DEF StringInv, OwnerIs
  <2>2. append_data \in {"nowhere"} \cup DOMAIN mem
    BY <1>1, <2>1
  <2>3. append_data_size = IF append_data = "nowhere" THEN 0 ELSE Len(mem[append_data])
    BY <2>1
  <2>4. /\ data \in {"sbuf", "caller"} \cup DOMAIN mem /\ buff \in {"nowhere"} \cup DOMAIN mem
        /\ DOMAIN mem \subseteq Block
    BY <1>1
  <2>5. free_proc \in {"static", "dynamic"}
    BY DEF StringInv, OwnerIs
  <2>. QED
    BY <2>2, <2>3, <2>4, <2>5, Places DEF D!TypeOK, StringInv, TextIsThere, FormatIs
<1>. QED
  BY <1>2, <1>3, <1>4, <1>5 DEF StringIsSound

(* However its buffers changed, a string reads as what was set and appended,
   ends within its buffer, and every block of memory has one owner
   (arg_dstr_set, arg_dstr_cat, arg_dstr_catc, arg_dstr_catf, arg_dstr_reset,
   setup_append_buf).  It holds for texts, formats and buffers of every length,
   because zeros are behind the text in an append buffer, so that a piece that
   is put there has an end. *)
THEOREM StringsReadAsWritten == PartsSpec => []StringIsSound
BY StringInitInv, StringInvStep, StringInvSound, PTL DEF PartsSpec

-----------------------------------------------------------------------------
(* The text of an option *)

LEMMA SameBytes ==
  /\ \A bytes : O!strlen(bytes) = D!strlen(bytes)
  /\ \A bytes : O!String(bytes) = D!String(bytes)
  /\ \A bytes : O!HasEnd(bytes) <=> D!HasEnd(bytes)
  /\ \A size : O!Zeros(size) = D!Zeros(size)
  /\ \A bytes, at, piece : O!Overwritten(bytes, at, piece) = D!Overwritten(bytes, at, piece)
  /\ \A bytes, piece : O!Copied(bytes, piece) = D!Copied(bytes, piece)
<1>1. \A bytes : O!strlen(bytes) = D!strlen(bytes)
  BY DEF O!strlen, D!strlen
<1>2. \A bytes : O!String(bytes) = D!String(bytes)
  <2>. TAKE bytes
  <2>1. O!strlen(bytes) = D!strlen(bytes)
    BY <1>1
  <2>. QED
    BY <2>1 DEF O!String, D!String
<1>3. \A bytes : O!HasEnd(bytes) <=> D!HasEnd(bytes)
  BY DEF O!HasEnd, D!HasEnd, O!Range, D!Range
<1>4. \A size : O!Zeros(size) = D!Zeros(size)
  BY DEF O!Zeros, D!Zeros
<1>5. \A bytes, at, piece : O!Overwritten(bytes, at, piece) = D!Overwritten(bytes, at, piece)
  BY DEF O!Overwritten, D!Overwritten
<1>6. \A bytes, piece : O!Copied(bytes, piece) = D!Copied(bytes, piece)
  BY <1>5 DEF O!Copied, D!Copied
<1>. QED
  BY <1>1, <1>2, <1>3, <1>4, <1>5, <1>6

LEMMA StrlenIs ==
  ASSUME NEW S, NEW bytes \in Seq(S), NEW len \in 0 .. Len(bytes),
         len < Len(bytes) => bytes[len + 1] = NUL,
         \A k \in 1 .. len : bytes[k] # NUL
  PROVE  D!strlen(bytes) = len
<1>. DEFINE IsEnd(k) == /\ k < Len(bytes) => bytes[k + 1] = NUL
                        /\ \A q \in 1 .. k : bytes[q] # NUL
<1>1. len \in Nat /\ Len(bytes) \in Nat
  BY LenProperties
<1>2. IsEnd(len)
  OBVIOUS
<1>3. ASSUME NEW k \in 0 .. Len(bytes), IsEnd(k)
      PROVE  k = len
  <2>1. CASE k < len
    <3>1. k + 1 \in 1 .. len /\ k < Len(bytes)
      BY <1>1, <2>1
    <3>. QED
      BY <1>1, <1>3, <3>1
  <2>2. CASE len < k
    <3>1. len + 1 \in 1 .. k
      BY <1>1, <2>2
    <3>. QED
      BY <1>1, <1>3, <3>1
  <2>. QED
    BY <1>1, <2>1, <2>2
<1>4. D!strlen(bytes) = CHOOSE k \in 0 .. Len(bytes) : IsEnd(k)
  BY DEF D!strlen
<1>. HIDE DEF IsEnd
<1>. QED
  BY <1>2, <1>3, <1>4

(* The end of the text as it is found from a place in it, if no more than the
   first hi bytes are looked at. *)
LEMMA StrlenBehind ==
  ASSUME NEW S, NEW bytes \in Seq(S), NEW str \in Seq(S), IsText(bytes, str),
         NEW lo \in 0 .. Len(str), NEW hi \in lo .. Len(bytes)
  PROVE  lo + D!strlen(SubSeq(bytes, lo + 1, hi)) = IF Len(str) < hi THEN Len(str) ELSE hi
<1>. DEFINE m == Len(str)
            sub == SubSeq(bytes, lo + 1, hi)
            len == IF m < hi THEN m - lo ELSE hi - lo
<1>1. /\ m \in Nat /\ Len(bytes) \in Nat /\ m < Len(bytes) /\ bytes[m + 1] = NUL
      /\ \A k \in 1 .. m : bytes[k] # NUL
  BY LenProperties DEF IsText
<1>2. lo \in Nat /\ hi \in Nat /\ lo <= m /\ lo <= hi /\ hi <= Len(bytes)
  BY <1>1
<1>. HIDE DEF m
<1>3. /\ sub \in Seq(S) /\ Len(sub) = hi - lo
      /\ \A k \in 1 .. hi - lo : sub[k] = bytes[lo + k]
  <2>1. \A k \in lo + 1 .. hi : bytes[k] \in S
    BY <1>1, <1>2
  <2>2. /\ sub \in Seq(S) /\ Len(sub) = IF lo + 1 <= hi THEN hi - (lo + 1) + 1 ELSE 0
        /\ \A k \in 1 .. hi - (lo + 1) + 1 : sub[k] = bytes[lo + 1 + k - 1]
    <3>1. lo + 1 \in Int /\ hi \in Int
      BY <1>2
    <3>. QED
      BY <2>1, <3>1, SubSeqProperties
  <2>3. hi - (lo + 1) + 1 = hi - lo /\ \A k \in 1 .. hi - lo : lo + 1 + k - 1 = lo + k
    BY <1>2
  <2>. QED
    BY <1>2, <2>2, <2>3
<1>. HIDE DEF sub
<1>4. len \in 0 .. Len(sub)
  BY <1>1, <1>2, <1>3
<1>5. len < Len(sub) => sub[len + 1] = NUL
  <2>1. len < Len(sub) => m < hi /\ len + 1 \in 1 .. hi - lo /\ lo + (len + 1) = m + 1
    BY <1>1, <1>2, <1>3
  <2>. QED
    BY <1>1, <1>3, <2>1
<1>6. \A k \in 1 .. len : sub[k] # NUL
  <2>1. \A k \in 1 .. len : k \in 1 .. hi - lo /\ lo + k \in 1 .. m
    BY <1>1, <1>2
  <2>. QED
    BY <1>1, <1>3, <2>1
<1>. HIDE DEF len
<1>7. D!strlen(sub) = len
  BY <1>3, <1>4, <1>5, <1>6, StrlenIs
<1>8. lo + len = IF m < hi THEN m ELSE hi
  BY <1>1, <1>2 DEF len
<1>. QED
  BY <1>7, <1>8 DEF sub, m

(* A text and its end are written behind the first bytes of another one. *)
LEMMA WrittenBehind ==
  ASSUME NEW S, NUL \in S, NEW bytes \in Seq(S), NEW front \in Seq(S), NEW piece \in Seq(S),
         \A k \in 1 .. Len(front) : bytes[k] = front[k] /\ front[k] # NUL,
         \A k \in 1 .. Len(piece) : piece[k] # NUL,
         Len(front) + Len(piece) < Len(bytes)
  PROVE  LET res == D!Overwritten(bytes, Len(front), Append(piece, NUL))
         IN  /\ res \in Seq(S) /\ Len(res) = Len(bytes)
             /\ IsText(res, front \o piece)
<1>. DEFINE at == Len(front)
            m == Len(piece)
            ended == Append(piece, NUL)
            res == D!Overwritten(bytes, at, ended)
            both == front \o piece
<1>1. at \in Nat /\ m \in Nat /\ Len(bytes) \in Nat /\ at + m < Len(bytes)
  BY LenProperties
<1>2. /\ ended \in Seq(S) /\ Len(ended) = m + 1 /\ ended[m + 1] = NUL
      /\ \A k \in 1 .. m : ended[k] = piece[k]
  BY AppendProperties
<1>3. /\ Len(both) = at + m
      /\ \A k \in 1 .. at + m : both[k] = IF k <= at THEN front[k] ELSE piece[k - at]
  BY ConcatProperties
<1>4. /\ \A k \in 1 .. at : bytes[k] = front[k] /\ front[k] # NUL
      /\ \A k \in 1 .. m : piece[k] # NUL
  OBVIOUS
<1>. HIDE DEF at, m, ended, both
<1>5. at \in 0 .. Len(bytes) /\ at + Len(ended) <= Len(bytes)
  BY <1>1, <1>2
<1>6. /\ res \in Seq(S) /\ Len(res) = Len(bytes)
      /\ \A k \in 1 .. Len(bytes) :
           res[k] = IF k <= at \/ k > at + Len(ended) THEN bytes[k] ELSE ended[k - at]
  BY <1>2, <1>5, OverwrittenIs
<1>. HIDE DEF res
<1>7. res[at + m + 1] = NUL
  <2>. DEFINE k == at + m + 1
  <2>1. k \in 1 .. Len(bytes) /\ ~ (k <= at) /\ ~ (k > at + Len(ended)) /\ k - at = m + 1
    BY <1>1, <1>2
  <2>. HIDE DEF k
  <2>2. res[k] = ended[m + 1]
    BY <1>6, <2>1
  <2>. QED
    BY <1>2, <2>2 DEF k
<1>8. ASSUME NEW k \in 1 .. at + m
      PROVE  res[k] = both[k] /\ both[k] # NUL
  <2>1. CASE k <= at
    <3>1. k \in 1 .. at /\ k \in 1 .. Len(bytes)
      BY <1>1, <2>1
    <3>. QED
      BY <1>3, <1>4, <1>6, <2>1, <3>1
  <2>2. CASE ~ (k <= at)
    <3>1. k - at \in 1 .. m /\ k \in 1 .. Len(bytes) /\ ~ (k > at + Len(ended))
      BY <1>1, <1>2, <2>2
    <3>. QED
      BY <1>2, <1>3, <1>4, <1>6, <2>2, <3>1
  <2>. QED
    BY <2>1, <2>2
<1>9. IsText(res, both)
  <2>1. Len(both) < Len(res)
    BY <1>1, <1>3, <1>6
  <2>2. res[Len(both) + 1] = NUL
    BY <1>3, <1>7
  <2>3. \A k \in 1 .. Len(both) : res[k] = both[k] /\ both[k] # NUL
    BY <1>3, <1>8
  <2>. QED
    BY <2>1, <2>2, <2>3 DEF IsText
<1>. QED
  BY <1>6, <1>9 DEF res, both, ended, at

-----------------------------------------------------------------------------
(* What the calls print *)

TextsOf(o) == O!Range(o.longs) \cup {o.shorts, o.datatype}
Glyphs == O!Signs \cup UNION {UNION {O!Range(t) : t \in TextsOf(o)} : o \in Options}
GlyphsOrEnd == Glyphs \cup {NUL}

LEMMA OptionConstants ==
  /\ Size \in Nat /\ Size > 5 /\ NUL \notin Glyphs /\ AnOption \in Options
  /\ O!Signs \subseteq Glyphs
  /\ \A o \in Options :
       /\ o.shorts \in Seq(Glyphs) /\ o.datatype \in Seq(Glyphs)
       /\ o.longs \in Seq(Seq(Glyphs))
       /\ \A k \in 1 .. Len(o.longs) : o.longs[k] # <<>>
<1>1. O!OptionTextAssumption /\ AnOption \in Options
  BY ArgtableAssumption
<1>2. NUL \notin Glyphs
  BY <1>1 DEF O!OptionTextAssumption, Glyphs, TextsOf
<1>3. ASSUME NEW o \in Options
      PROVE  /\ o.shorts \in Seq(Glyphs) /\ o.datatype \in Seq(Glyphs)
             /\ o.longs \in Seq(Seq(Glyphs))
             /\ \A k \in 1 .. Len(o.longs) : o.longs[k] # <<>>
  <2>1. /\ o.longs \in Seq(O!Range(o.longs)) /\ <<>> \notin O!Range(o.longs)
        /\ \A t \in TextsOf(o) : t \in Seq(O!Range(t))
    BY <1>1 DEF O!OptionTextAssumption, TextsOf
  <2>2. ASSUME NEW t \in TextsOf(o)  PROVE t \in Seq(Glyphs)
    <3>1. O!Range(t) \subseteq Glyphs
      BY DEF Glyphs
    <3>2. t \in Seq(O!Range(t))
      BY <2>1
    <3>. QED
      BY <3>1, <3>2, SeqMonotonic
  <2>3. O!Range(o.longs) \subseteq Seq(Glyphs)
    BY <2>2 DEF TextsOf
  <2>4. o.longs \in Seq(Seq(Glyphs))
    BY <2>1, <2>3, SeqMonotonic
  <2>5. \A k \in 1 .. Len(o.longs) : o.longs[k] \in O!Range(o.longs)
    BY <2>4, LenProperties DEF O!Range
  <2>. QED
    BY <2>1, <2>2, <2>4, <2>5 DEF TextsOf
<1>4. O!Signs \subseteq Glyphs
  BY DEF Glyphs
<1>. QED
  BY <1>1, <1>2, <1>3, <1>4 DEF O!OptionTextAssumption

CallType == [function : {"arg_cat", "strncat"}, piece : Seq(Glyphs)]

(* The calls make v out of u, and strncat, which needs the pointer to be at
   the end, comes only behind arg_cat, which moves it there. *)
Leads(cs, u, v) ==
  /\ cs \in Seq(CallType)
  /\ \A k \in 2 .. Len(cs) : cs[k].function = "strncat" => cs[k - 1].function = "arg_cat"
  /\ \E ts \in [0 .. Len(cs) -> Seq(Glyphs)] :
       /\ ts[0] = u /\ ts[Len(cs)] = v
       /\ \A k \in 1 .. Len(cs) : ts[k] = ts[k - 1] \o cs[k].piece

Prints(cs, u, v) ==
  /\ Leads(cs, u, v)
  /\ Len(cs) # 0 => cs[1].function = "arg_cat"

LEMMA PrintsNothing ==
  ASSUME NEW u \in Seq(Glyphs)
  PROVE  Prints(<<>>, u, u)
<1>. DEFINE ts == [k \in 0 .. 0 |-> u]
<1>1. ts \in [0 .. 0 -> Seq(Glyphs)] /\ ts[0] = u
  OBVIOUS
<1>2. Len(<<>>) = 0 /\ <<>> \in Seq(CallType) /\ 1 .. 0 = {} /\ 2 .. 0 = {}
  OBVIOUS
<1>. HIDE DEF ts
<1>. QED
  BY <1>1, <1>2 DEF Prints, Leads

LEMMA OneCall ==
  ASSUME NEW u \in Seq(Glyphs), NEW piece \in Seq(Glyphs), NEW c \in CallType, c.piece = piece
  PROVE  Leads(<<c>>, u, u \o piece)
<1>. DEFINE ts == [k \in 0 .. 1 |-> IF k = 0 THEN u ELSE u \o piece]
<1>1. u \o piece \in Seq(Glyphs)
  BY ConcatProperties
<1>2. ts \in [0 .. 1 -> Seq(Glyphs)] /\ ts[0] = u /\ ts[1] = u \o piece
  BY <1>1
<1>3. Len(<<c>>) = 1 /\ <<c>> \in Seq(CallType) /\ <<c>>[1] = c
  OBVIOUS
<1>. HIDE DEF ts
<1>4. \A k \in 1 .. 1 : k = 1 /\ k - 1 = 0
  OBVIOUS
<1>5. 2 .. 1 = {}
  OBVIOUS
<1>. QED
  BY <1>2, <1>3, <1>4, <1>5 DEF Leads

LEMMA CatPrints ==
  ASSUME NEW u \in Seq(Glyphs), NEW piece \in Seq(Glyphs)
  PROVE  Prints(O!Cat(piece), u, u \o piece) /\ u \o piece \in Seq(Glyphs)
<1>. DEFINE c == [function |-> "arg_cat", piece |-> piece]
<1>1. c \in CallType /\ c.piece = piece /\ c.function = "arg_cat"
  BY DEF CallType
<1>2. O!Cat(piece) = <<c>> /\ <<c>>[1] = c
  BY DEF O!Cat
<1>. HIDE DEF c
<1>3. Leads(<<c>>, u, u \o piece)
  BY <1>1, OneCall
<1>4. u \o piece \in Seq(Glyphs)
  BY ConcatProperties
<1>. QED
  BY <1>1, <1>2, <1>3, <1>4 DEF Prints

LEMMA LeadsOn ==
  ASSUME NEW cs, NEW cs2, NEW u, NEW v, NEW x, Leads(cs, u, v), Leads(cs2, v, x),
         Len(cs) # 0 /\ Len(cs2) # 0 /\ cs2[1].function = "strncat" =>
           cs[Len(cs)].function = "arg_cat"
  PROVE  Leads(cs \o cs2, u, x)
<1>. DEFINE m == Len(cs)
            m2 == Len(cs2)
            all == cs \o cs2
<1>1. cs \in Seq(CallType) /\ cs2 \in Seq(CallType) /\ m \in Nat /\ m2 \in Nat
  BY LenProperties DEF Leads
<1>2. /\ all \in Seq(CallType) /\ Len(all) = m + m2
      /\ \A k \in 1 .. m + m2 : all[k] = IF k <= m THEN cs[k] ELSE cs2[k - m]
  BY <1>1, ConcatProperties
<1>3. PICK ts \in [0 .. m -> Seq(Glyphs)] :
        /\ ts[0] = u /\ ts[m] = v
        /\ \A k \in 1 .. m : ts[k] = ts[k - 1] \o cs[k].piece
  BY DEF Leads
<1>4. PICK ts2 \in [0 .. m2 -> Seq(Glyphs)] :
        /\ ts2[0] = v /\ ts2[m2] = x
        /\ \A k \in 1 .. m2 : ts2[k] = ts2[k - 1] \o cs2[k].piece
  BY DEF Leads
<1>5. /\ \A k \in 2 .. m : cs[k].function = "strncat" => cs[k - 1].function = "arg_cat"
      /\ \A k \in 2 .. m2 : cs2[k].function = "strncat" => cs2[k - 1].function = "arg_cat"
  BY DEF Leads
<1>6. m # 0 /\ m2 # 0 /\ cs2[1].function = "strncat" => cs[m].function = "arg_cat"
  OBVIOUS
<1>. HIDE DEF m, m2, all
<1>. DEFINE both == [k \in 0 .. m + m2 |-> IF k <= m THEN ts[k] ELSE ts2[k - m]]
<1>7. both \in [0 .. m + m2 -> Seq(Glyphs)]
  <2>1. \A k \in 0 .. m + m2 : (k <= m => k \in 0 .. m) /\ (~ (k <= m) => k - m \in 0 .. m2)
    BY <1>1
  <2>. QED
    BY <1>3, <1>4, <2>1
<1>8. both[0] = u /\ both[m + m2] = x
  <2>1. both[0] = u
    <3>1. 0 \in 0 .. m + m2 /\ 0 <= m
      BY <1>1
    <3>. QED
      BY <1>3, <3>1
  <2>2. both[m + m2] = x
    <3>1. m + m2 \in 0 .. m + m2
      BY <1>1
    <3>2. CASE m2 = 0
      <4>1. m + m2 = m /\ m <= m /\ v = x
        BY <1>1, <1>4, <3>2
      <4>. QED
        BY <1>3, <3>1, <4>1
    <3>3. CASE m2 # 0
      <4>. DEFINE l == m + m2
      <4>1. l \in 0 .. m + m2 /\ ~ (l <= m) /\ l - m = m2
        BY <1>1, <3>3
      <4>. HIDE DEF l
      <4>2. both[l] = ts2[m2]
        BY <4>1
      <4>. QED
        BY <1>4, <4>2 DEF l
    <3>. QED
      BY <3>2, <3>3
  <2>. QED
    BY <2>1, <2>2
<1>9. ASSUME NEW k \in 1 .. m + m2
      PROVE  both[k] = both[k - 1] \o all[k].piece
  <2>1. k \in 0 .. m + m2 /\ k - 1 \in 0 .. m + m2
    BY <1>1
  <2>2. CASE k <= m
    <3>1. k \in 1 .. m /\ k - 1 <= m
      BY <1>1, <2>2
    <3>. QED
      BY <1>2, <1>3, <2>1, <2>2, <3>1
  <2>3. CASE k = m + 1
    <3>1. 1 \in 1 .. m2
      BY <1>1, <2>3
    <3>2. ~ (k <= m) /\ k - m = 1 /\ k - 1 = m /\ m <= m
      BY <1>1, <2>3
    <3>3. both[k] = ts2[1]
      BY <2>1, <3>2
    <3>4. both[k - 1] = ts[m]
      BY <2>1, <3>2
    <3>5. all[k] = cs2[1]
      BY <1>2, <2>1, <3>2
    <3>6. ts2[1] = ts2[0] \o cs2[1].piece
      <4>1. 1 - 1 = 0
        OBVIOUS
      <4>. QED
        BY <1>4, <3>1, <4>1
    <3>. QED
      BY <1>3, <1>4, <3>3, <3>4, <3>5, <3>6
  <2>4. CASE k > m + 1
    <3>1. k - m \in 1 .. m2 /\ ~ (k <= m) /\ ~ (k - 1 <= m) /\ k - 1 - m = k - m - 1
      BY <1>1, <2>4
    <3>2. both[k] = ts2[k - m] /\ both[k - 1] = ts2[k - m - 1] /\ all[k] = cs2[k - m]
      BY <1>2, <2>1, <3>1
    <3>. QED
      BY <1>4, <3>1, <3>2
  <2>5. k <= m \/ k = m + 1 \/ k > m + 1
    BY <1>1
  <2>. HIDE DEF both
  <2>. QED
    BY <2>2, <2>3, <2>4, <2>5
<1>0. \A k \in 2 .. m + m2 : k \in 1 .. m + m2 /\ k - 1 \in 1 .. m + m2
  BY <1>1
<1>10. ASSUME NEW k \in 2 .. m + m2, all[k].function = "strncat"
       PROVE  all[k - 1].function = "arg_cat"
  <2>1. k \in 1 .. m + m2 /\ k - 1 \in 1 .. m + m2
    BY <1>0
  <2>2. CASE k <= m
    <3>1. k \in 2 .. m /\ k - 1 <= m
      BY <1>1, <2>2
    <3>. QED
      BY <1>2, <1>5, <1>10, <2>1, <2>2, <3>1
  <2>3. CASE k = m + 1
    <3>1. ~ (k <= m) /\ k - m = 1 /\ k - 1 = m /\ m <= m /\ m # 0 /\ m2 # 0
      BY <1>1, <2>3
    <3>. QED
      BY <1>2, <1>6, <1>10, <2>1, <3>1
  <2>4. CASE k > m + 1
    <3>1. k - m \in 2 .. m2 /\ ~ (k <= m) /\ ~ (k - 1 <= m) /\ k - 1 - m = k - m - 1
      BY <1>1, <2>4
    <3>. QED
      BY <1>2, <1>5, <1>10, <2>1, <3>1
  <2>5. k <= m \/ k = m + 1 \/ k > m + 1
    BY <1>1
  <2>. QED
    BY <2>2, <2>3, <2>4, <2>5
<1>. HIDE DEF both
<1>. QED
  BY <1>2, <1>7, <1>8, <1>9, <1>10 DEF Leads, all

LEMMA PrintsOn ==
  ASSUME NEW cs, NEW cs2, NEW u, NEW v, NEW x, Prints(cs, u, v), Prints(cs2, v, x)
  PROVE  Prints(cs \o cs2, u, x)
<1>1. Leads(cs, u, v) /\ Leads(cs2, v, x)
  BY DEF Prints
<1>2. cs \in Seq(CallType) /\ cs2 \in Seq(CallType)
  BY <1>1 DEF Leads
<1>3. /\ (Len(cs) # 0 => cs[1].function = "arg_cat")
      /\ (Len(cs2) # 0 => cs2[1].function = "arg_cat")
  BY DEF Prints
<1>4. Leads(cs \o cs2, u, x)
  <2>1. "arg_cat" # "strncat"
    OBVIOUS
  <2>. QED
    BY <1>1, <1>3, <2>1, LeadsOn
<1>5. /\ Len(cs \o cs2) = Len(cs) + Len(cs2) /\ Len(cs) \in Nat /\ Len(cs2) \in Nat
      /\ \A k \in 1 .. Len(cs) + Len(cs2) :
           (cs \o cs2)[k] = IF k <= Len(cs) THEN cs[k] ELSE cs2[k - Len(cs)]
  BY <1>2, ConcatProperties, LenProperties
<1>6. ASSUME Len(cs \o cs2) # 0  PROVE (cs \o cs2)[1].function = "arg_cat"
  <2>1. 1 \in 1 .. Len(cs) + Len(cs2)
    BY <1>5, <1>6
  <2>2. CASE Len(cs) # 0
    <3>1. 1 <= Len(cs)
      BY <1>5, <2>2
    <3>. QED
      BY <1>3, <1>5, <2>1, <2>2, <3>1
  <2>3. CASE Len(cs) = 0
    <3>1. ~ (1 <= Len(cs)) /\ 1 - Len(cs) = 1 /\ Len(cs2) # 0
      BY <1>5, <1>6, <2>3
    <3>. QED
      BY <1>3, <1>5, <2>1, <3>1
  <2>. QED
    BY <2>2, <2>3
<1>. QED
  BY <1>4, <1>6 DEF Prints

(* A long name *)
LEMMA NamePrints ==
  ASSUME NEW u \in Seq(Glyphs), NEW name \in Seq(Glyphs)
  PROVE  Prints(O!Cat(<<"-", "-">>) \o O!Ncat(name), u, u \o (<<"-", "-">> \o name))
<1>. DEFINE dashes == <<"-", "-">>
            c == [function |-> "strncat", piece |-> name]
            cs == O!Cat(dashes)
<1>1. dashes \in Seq(Glyphs)
  <2>1. "-" \in Glyphs
    BY OptionConstants DEF O!Signs
  <2>. QED
    BY <2>1
<1>2. c \in CallType /\ c.piece = name
  BY DEF CallType
<1>3. O!Ncat(name) = <<c>> /\ Len(<<c>>) = 1
  BY DEF O!Ncat
<1>4. Len(cs) = 1 /\ cs[1].function = "arg_cat"
  BY DEF O!Cat
<1>. HIDE DEF dashes, c, cs
<1>5. Prints(cs, u, u \o dashes) /\ u \o dashes \in Seq(Glyphs)
  BY <1>1, CatPrints DEF cs
<1>6. Leads(<<c>>, u \o dashes, (u \o dashes) \o name)
  BY <1>2, <1>5, OneCall
<1>7. Leads(cs \o <<c>>, u, (u \o dashes) \o name)
  <2>1. Leads(cs, u, u \o dashes) /\ cs[Len(cs)].function = "arg_cat"
    BY <1>4, <1>5 DEF Prints
  <2>. QED
    BY <1>6, <2>1, LeadsOn
<1>8. (u \o dashes) \o name = u \o (dashes \o name)
  BY <1>1, ConcatAssociative
<1>9. (cs \o <<c>>)[1] = cs[1]
  <2>1. cs \in Seq(CallType) /\ <<c>> \in Seq(CallType)
    BY <1>5, <1>6 DEF Prints, Leads
  <2>2. \A k \in 1 .. Len(cs) + Len(<<c>>) :
          (cs \o <<c>>)[k] = IF k <= Len(cs) THEN cs[k] ELSE <<c>>[k - Len(cs)]
    BY <2>1, ConcatProperties
  <2>3. 1 \in 1 .. Len(cs) + Len(<<c>>) /\ 1 <= Len(cs)
    BY <1>3, <1>4
  <2>. QED
    BY <2>2, <2>3
<1>. QED
  BY <1>3, <1>4, <1>7, <1>8, <1>9 DEF Prints, cs, dashes

(* What is left to be printed after one call *)
LEMMA LeadsTail ==
  ASSUME NEW cs, NEW u, NEW v, Leads(cs, u, v), cs # <<>>
  PROVE  /\ Head(cs) \in CallType /\ u \in Seq(Glyphs)
         /\ Leads(Tail(cs), u \o Head(cs).piece, v)
         /\ Tail(cs) # <<>> /\ Head(Tail(cs)).function = "strncat" =>
              Head(cs).function = "arg_cat"
<1>. DEFINE m == Len(cs)
            t == Tail(cs)
<1>1. cs \in Seq(CallType) /\ m \in Nat \ {0}
  BY EmptySeq DEF Leads
<1>2. /\ Head(cs) = cs[1] /\ cs[1] \in CallType /\ t \in Seq(CallType) /\ Len(t) = m - 1
      /\ \A k \in 1 .. m - 1 : t[k] = cs[k + 1]
  BY <1>1, HeadTailProperties
<1>3. PICK ts \in [0 .. m -> Seq(Glyphs)] :
        /\ ts[0] = u /\ ts[m] = v
        /\ \A k \in 1 .. m : ts[k] = ts[k - 1] \o cs[k].piece
  BY DEF Leads
<1>4. \A k \in 2 .. m : cs[k].function = "strncat" => cs[k - 1].function = "arg_cat"
  BY DEF Leads
<1>5. t # <<>> => Head(t) = t[1] /\ m - 1 # 0
  BY <1>2, EmptySeq
<1>. HIDE DEF m, t
<1>. DEFINE ts2 == [k \in 0 .. m - 1 |-> ts[k + 1]]
<1>6. ts2 \in [0 .. m - 1 -> Seq(Glyphs)]
  <2>1. \A k \in 0 .. m - 1 : k + 1 \in 0 .. m
    BY <1>1
  <2>. QED
    BY <1>3, <2>1
<1>7. ts2[0] = u \o cs[1].piece /\ ts2[m - 1] = v
  <2>1. 0 \in 0 .. m - 1 /\ m - 1 \in 0 .. m - 1 /\ 0 + 1 = 1 /\ m - 1 + 1 = m
        /\ 1 \in 1 .. m /\ 1 - 1 = 0
    BY <1>1
  <2>. QED
    BY <1>3, <2>1
<1>8. \A k \in 1 .. m - 1 : ts2[k] = ts2[k - 1] \o t[k].piece
  <2>. SUFFICES ASSUME NEW k \in 1 .. m - 1
                PROVE  ts2[k] = ts2[k - 1] \o t[k].piece
    OBVIOUS
  <2>. DEFINE r == k + 1
  <2>1. /\ k \in 0 .. m - 1 /\ k - 1 \in 0 .. m - 1 /\ k - 1 + 1 = k
        /\ r \in 1 .. m /\ r - 1 = k
    BY <1>1
  <2>2. ts2[k] = ts[r] /\ ts2[k - 1] = ts[k] /\ t[k] = cs[r]
    BY <1>2, <2>1
  <2>. HIDE DEF r, ts2
  <2>. QED
    BY <1>3, <2>1, <2>2
<1>9. \A k \in 2 .. m - 1 : t[k].function = "strncat" => t[k - 1].function = "arg_cat"
  <2>. SUFFICES ASSUME NEW k \in 2 .. m - 1, t[k].function = "strncat"
                PROVE  t[k - 1].function = "arg_cat"
    OBVIOUS
  <2>. DEFINE r == k + 1
              q == k - 1
  <2>1. k \in 1 .. m - 1 /\ q \in 1 .. m - 1 /\ r \in 2 .. m /\ r - 1 = k /\ q + 1 = k
    BY <1>1
  <2>2. t[k] = cs[r] /\ t[q] = cs[k]
    BY <1>2, <2>1
  <2>. HIDE DEF r, q
  <2>. QED
    BY <1>4, <2>1, <2>2 DEF q
<1>. HIDE DEF ts2
<1>10. Leads(t, u \o cs[1].piece, v)
  BY <1>2, <1>6, <1>7, <1>8, <1>9 DEF Leads
<1>11. t # <<>> /\ Head(t).function = "strncat" => cs[1].function = "arg_cat"
  <2>1. t # <<>> => 2 \in 2 .. m /\ 1 \in 1 .. m - 1 /\ 2 - 1 = 1 /\ 1 + 1 = 2
    BY <1>1, <1>5
  <2>. QED
    BY <1>2, <1>4, <1>5, <2>1
<1>12. u \in Seq(Glyphs)
  BY <1>1, <1>3
<1>. QED
  BY <1>2, <1>10, <1>11, <1>12 DEF t

-----------------------------------------------------------------------------
(* What is true of 0 and of every number behind one it is true of *)
LEMMA UpToAll ==
  ASSUME NEW m \in Nat, NEW T, 0 \in T, \A q \in 0 .. m - 1 : q \in T => q + 1 \in T
  PROVE  \A q \in 0 .. m : q \in T
<1>. DEFINE wrong == {q \in 0 .. m : q \notin T}
<1>1. ASSUME wrong # {}  PROVE FALSE
  <2>1. wrong \in SUBSET Nat
    OBVIOUS
  <2>2. \A q \in wrong : q \in 0 .. m /\ q \notin T
    OBVIOUS
  <2>3. \A q \in 0 .. m : q \notin wrong => q \in T
    OBVIOUS
  <2>. HIDE DEF wrong
  <2>4. PICK q \in wrong : \A r \in wrong : q <= r
    BY <1>1, <2>1, LeastNumber
  <2>5. q \in 0 .. m /\ q \notin T /\ q # 0
    BY <2>2, <2>4
  <2>6. q - 1 \in 0 .. m - 1 /\ q - 1 \in 0 .. m /\ q - 1 + 1 = q /\ ~ (q <= q - 1)
    BY <2>5
  <2>7. q - 1 \in T
    BY <2>3, <2>4, <2>6
  <2>. QED
    BY <2>5, <2>6, <2>7
<1>. QED
  BY <1>1

(* The texts that FlattenSeq puts together, one sequence after the other *)
LEMMA FlattenTexts ==
  ASSUME NEW S, NEW seqs \in Seq(Seq(S))
  PROVE  \E fl \in [0 .. Len(seqs) -> Seq(S)] :
           /\ fl[0] = <<>> /\ fl[Len(seqs)] = FlattenSeq(seqs)
           /\ \A k \in 1 .. Len(seqs) : fl[k] = fl[k - 1] \o seqs[k]
<1>. DEFINE m == Len(seqs)
<1>1. m \in Nat /\ \A k \in 1 .. m : seqs[k] \in Seq(S)
  BY LenProperties
<1>2. CASE m = 0
  <2>1. seqs = <<>> /\ FlattenSeq(seqs) = seqs
    BY <1>2, EmptySeq DEF FlattenSeq
  <2>. DEFINE fl == [k \in 0 .. 0 |-> <<>>]
  <2>2. fl \in [0 .. 0 -> Seq(S)] /\ fl[0] = <<>>
    OBVIOUS
  <2>. HIDE DEF fl
  <2>3. 1 .. 0 = {}
    OBVIOUS
  <2>. QED
    BY <1>2, <2>1, <2>2, <2>3
<1>3. CASE m # 0
  <2>1. PICK gl : Flattens(seqs, m, gl) /\ FlattenSeq(seqs) = gl[m]
    <3>1. m \in Nat \ {0}
      BY <1>1, <1>3
    <3>. QED
      BY <3>1, FlattenIs
  <2>. HIDE DEF m
  <2>. DEFINE fl == [k \in 0 .. m |-> IF k = 0 THEN <<>> ELSE gl[k]]
  <2>2. \A k \in 1 .. m : gl[k] = IF k = 1 THEN seqs[k] ELSE gl[k - 1] \o seqs[k]
    BY <2>1 DEF Flattens
  <2>3. fl[0] = <<>> /\ \A k \in 1 .. m : fl[k] = gl[k]
    <3>1. 0 \in 0 .. m /\ \A k \in 1 .. m : k \in 0 .. m /\ k # 0
      BY <1>1
    <3>. QED
      BY <3>1
  <2>4. fl = [k \in 0 .. m |-> fl[k]]
    OBVIOUS
  <2>. HIDE DEF fl
  <2>5. ASSUME NEW k \in 1 .. m
        PROVE  fl[k] = fl[k - 1] \o seqs[k]
    <3>1. CASE k = 1
      <4>1. k - 1 = 0 /\ seqs[k] \in Seq(S)
        BY <1>1, <3>1
      <4>2. <<>> \o seqs[k] = seqs[k]
        BY <4>1, ConcatEmptySeq
      <4>. QED
        BY <2>2, <2>3, <3>1, <4>1, <4>2
    <3>2. CASE k # 1
      <4>1. k - 1 \in 1 .. m
        BY <1>1, <3>2
      <4>. QED
        BY <2>2, <2>3, <3>2, <4>1
    <3>. QED
      BY <3>1, <3>2
  <2>6. \A k \in 0 .. m : fl[k] \in Seq(S)
    <3>. DEFINE T == {k \in 0 .. m : fl[k] \in Seq(S)}
    <3>1. 0 \in T
      <4>1. 0 \in 0 .. m /\ <<>> \in Seq(S)
        BY <1>1, EmptySeq
      <4>. QED
        BY <2>3, <4>1
    <3>2. ASSUME NEW k \in 0 .. m - 1, k \in T  PROVE k + 1 \in T
      <4>. DEFINE r == k + 1
      <4>1. r \in 1 .. m /\ r \in 0 .. m /\ r - 1 = k /\ fl[k] \in Seq(S)
        BY <1>1, <3>2
      <4>. HIDE DEF r
      <4>2. fl[r] = fl[k] \o seqs[r] /\ seqs[r] \in Seq(S)
        BY <1>1, <2>5, <4>1
      <4>3. fl[r] \in Seq(S)
        BY <4>1, <4>2, ConcatProperties
      <4>4. r \in T
        BY <4>1, <4>3
      <4>. QED
        BY <4>4 DEF r
    <3>3. \A k \in T : fl[k] \in Seq(S)
      OBVIOUS
    <3>. HIDE DEF T
    <3>4. \A k \in 0 .. m : k \in T
      BY <1>1, <3>1, <3>2, UpToAll
    <3>. QED
      BY <3>3, <3>4
  <2>7. fl \in [0 .. m -> Seq(S)]
    BY <2>4, <2>6
  <2>8. fl[m] = FlattenSeq(seqs)
    <3>1. m \in 1 .. m
      BY <1>1, <1>3 DEF m
    <3>. QED
      BY <2>1, <2>3, <3>1
  <2>. QED
    BY <2>3, <2>5, <2>7, <2>8 DEF m
<1>. QED
  BY <1>2, <1>3

(* Calls that are put together print one behind the other. *)
LEMMA PrintsAll ==
  ASSUME NEW cs \in Seq(Seq(CallType)), NEW ts, ts[0] \in Seq(Glyphs),
         \A k \in 1 .. Len(cs) : Prints(cs[k], ts[k - 1], ts[k])
  PROVE  Prints(O!FlattenSeq(cs), ts[0], ts[Len(cs)])
<1>. DEFINE m == Len(cs)
<1>1. m \in Nat
  BY LenProperties
<1>2. PICK fl \in [0 .. m -> Seq(CallType)] :
        /\ fl[0] = <<>> /\ fl[m] = FlattenSeq(cs)
        /\ \A k \in 1 .. m : fl[k] = fl[k - 1] \o cs[k]
  BY FlattenTexts
<1>3. O!FlattenSeq(cs) = FlattenSeq(cs)
  BY DEF O!FlattenSeq, FlattenSeq
<1>4. \A k \in 1 .. m : Prints(cs[k], ts[k - 1], ts[k])
  OBVIOUS
<1>. HIDE DEF m
<1>. DEFINE T == {k \in 0 .. m : Prints(fl[k], ts[0], ts[k])}
<1>5. 0 \in T
  BY <1>1, <1>2, PrintsNothing
<1>6. ASSUME NEW k \in 0 .. m - 1, k \in T  PROVE k + 1 \in T
  <2>. DEFINE r == k + 1
  <2>1. r \in 1 .. m /\ r \in 0 .. m /\ r - 1 = k
    BY <1>1
  <2>2. Prints(fl[k], ts[0], ts[k])
    BY <1>6
  <2>. HIDE DEF r
  <2>3. fl[r] = fl[k] \o cs[r] /\ Prints(cs[r], ts[k], ts[r])
    BY <1>2, <1>4, <2>1
  <2>4. Prints(fl[r], ts[0], ts[r])
    BY <2>2, <2>3, PrintsOn
  <2>5. r \in T
    BY <2>1, <2>4
  <2>. QED
    BY <2>5 DEF r
<1>7. \A k \in T : Prints(fl[k], ts[0], ts[k])
  OBVIOUS
<1>. HIDE DEF T
<1>8. m \in T
  <2>1. \A k \in 0 .. m : k \in T
    BY <1>1, <1>5, <1>6, UpToAll
  <2>2. m \in 0 .. m
    BY <1>1
  <2>. QED
    BY <2>1, <2>2
<1>. QED
  BY <1>2, <1>3, <1>7, <1>8 DEF m

-----------------------------------------------------------------------------
(* The text that the calls of an option print *)

(* t[k] is what is printed up to the k-th way, with separators between. *)
BeforeWay(t, sep, k) == IF k = 1 THEN t[0] ELSE t[k - 1] \o sep
Told(t, ways, sep, u) ==
  /\ t \in [0 .. Len(ways) -> Seq(Glyphs)] /\ t[0] = u
  /\ \A k \in 1 .. Len(ways) : t[k] = BeforeWay(t, sep, k) \o ways[k]

LEMMA TextsAreASeq ==
  ASSUME NEW m \in Nat, NEW CONSTANT S, NEW CONSTANT s \in [1 .. m -> S]
  PROVE  s \in Seq(S) /\ Len(s) = m
OBVIOUS

(* The same text, put together from left to right and from right to left *)
Grouped(s1, s2, s3) == (s1 \o s2) \o s3 = s1 \o (s2 \o s3)
Regrouped(s1, s2, s3, s4) == ((s1 \o s2) \o s3) \o s4 = s1 \o (s2 \o (s3 \o s4))

LEMMA Regroup ==
  ASSUME NEW s1 \in Seq(Glyphs), NEW s2 \in Seq(Glyphs), NEW s3 \in Seq(Glyphs)
  PROVE  Grouped(s1, s2, s3)
BY ConcatAssociative DEF Grouped

LEMMA RegroupMore ==
  ASSUME NEW s1 \in Seq(Glyphs), NEW s2 \in Seq(Glyphs), NEW s3 \in Seq(Glyphs), NEW s4 \in Seq(Glyphs)
  PROVE  Regrouped(s1, s2, s3, s4)
<1>1. s1 \o s2 \in Seq(Glyphs) /\ s3 \o s4 \in Seq(Glyphs)
  BY ConcatProperties
<1>2. Grouped(s1 \o s2, s3, s4) /\ Grouped(s1, s2, s3 \o s4)
  BY <1>1, Regroup
<1>. QED
  BY <1>2 DEF Grouped, Regrouped

LEMMA JoinedIs ==
  ASSUME NEW ways \in Seq(Seq(Glyphs)), NEW sep \in Seq(Glyphs), NEW u \in Seq(Glyphs)
  PROVE  \E t : Told(t, ways, sep, u) /\ t[Len(ways)] = u \o O!Joined(ways, sep)
<1>. DEFINE m == Len(ways)
            seqs == [k \in 1 .. m |-> IF k = 1 THEN ways[k] ELSE sep \o ways[k]]
<1>1. m \in Nat /\ DOMAIN ways = 1 .. m /\ \A k \in 1 .. m : ways[k] \in Seq(Glyphs)
  BY LenProperties
<1>2. \A k \in 1 .. m : sep \o ways[k] \in Seq(Glyphs)
  BY <1>1, ConcatProperties
<1>3. seqs \in Seq(Seq(Glyphs)) /\ Len(seqs) = m
  <2>1. seqs \in [1 .. m -> Seq(Glyphs)]
    BY <1>1, <1>2
  <2>. HIDE DEF seqs, m
  <2>. QED
    BY <1>1, <2>1, TextsAreASeq
<1>4. O!Joined(ways, sep) = FlattenSeq(seqs)
  <2>1. O!Joined(ways, sep) = O!FlattenSeq(seqs)
    BY <1>1 DEF O!Joined
  <2>. HIDE DEF seqs
  <2>. QED
    BY <2>1 DEF O!FlattenSeq, FlattenSeq
<1>5. PICK gl \in [0 .. m -> Seq(Glyphs)] :
        /\ gl[0] = <<>> /\ gl[m] = FlattenSeq(seqs)
        /\ \A k \in 1 .. m : gl[k] = gl[k - 1] \o seqs[k]
  <2>. HIDE DEF seqs, m
  <2>. QED
    BY <1>3, FlattenTexts
<1>. DEFINE t == [k \in 0 .. m |-> u \o gl[k]]
<1>. HIDE DEF m
<1>6. \A k \in 0 .. m : gl[k] \in Seq(Glyphs) /\ u \o gl[k] \in Seq(Glyphs)
  <2>1. \A s1, s2 \in Seq(Glyphs) : s1 \o s2 \in Seq(Glyphs)
    BY ConcatProperties
  <2>. QED
    BY <1>5, <2>1
<1>7. t \in [0 .. m -> Seq(Glyphs)] /\ \A k \in 0 .. m : t[k] = u \o gl[k]
  BY <1>6
<1>8. t[0] = u
  <2>1. 0 \in 0 .. m /\ u \o <<>> = u
    BY <1>1, ConcatEmptySeq
  <2>. QED
    BY <1>5, <1>7, <2>1
<1>9. ASSUME NEW k \in 1 .. m
      PROVE  t[k] = BeforeWay(t, sep, k) \o ways[k]
  <2>1. k \in 0 .. m /\ k - 1 \in 0 .. m
    BY <1>1
  <2>2. t[k] = u \o (gl[k - 1] \o seqs[k]) /\ t[k - 1] = u \o gl[k - 1]
    BY <1>5, <1>7, <2>1
  <2>3. CASE k = 1
    <3>1. gl[k - 1] = <<>> /\ seqs[k] = ways[k] /\ ways[k] \in Seq(Glyphs)
      BY <1>1, <1>5, <2>3
    <3>2. <<>> \o ways[k] = ways[k]
      BY <3>1, ConcatEmptySeq
    <3>3. t[k] = u \o ways[k]
      BY <2>2, <3>1, <3>2
    <3>. HIDE DEF t
    <3>. QED
      BY <1>8, <2>3, <3>3 DEF BeforeWay
  <2>4. CASE k # 1
    <3>1. seqs[k] = sep \o ways[k] /\ ways[k] \in Seq(Glyphs) /\ gl[k - 1] \in Seq(Glyphs)
          /\ u \o gl[k - 1] \in Seq(Glyphs)
      BY <1>1, <1>6, <2>1, <2>4
    <3>2. PICK g \in Seq(Glyphs) : g = gl[k - 1]
      BY <3>1
    <3>3. PICK w \in Seq(Glyphs) : w = ways[k]
      BY <3>1
    <3>4. ((u \o g) \o sep) \o w = u \o (g \o (sep \o w))
      <4>1. Regrouped(u, g, sep, w)
        BY RegroupMore
      <4>. QED
        BY <4>1 DEF Regrouped
    <3>5. t[k] = u \o (g \o (sep \o w)) /\ t[k - 1] = u \o g
      BY <2>2, <3>1, <3>2, <3>3
    <3>. HIDE DEF t
    <3>6. BeforeWay(t, sep, k) = (u \o g) \o sep
      BY <2>4, <3>5 DEF BeforeWay
    <3>. QED
      BY <3>3, <3>4, <3>5, <3>6
  <2>. QED
    BY <2>3, <2>4
<1>10. t[m] = u \o O!Joined(ways, sep)
  <2>1. m \in 0 .. m
    BY <1>1
  <2>. QED
    BY <1>4, <1>5, <1>7, <2>1
<1>. HIDE DEF t
<1>. QED
  BY <1>7, <1>8, <1>9, <1>10 DEF Told, m

(* One of the two loops over the names of an option *)
LEMMA LoopPrints ==
  ASSUME NEW ways \in Seq(Seq(Glyphs)), NEW sep \in Seq(Glyphs), NEW u \in Seq(Glyphs),
         NEW t, Told(t, ways, sep, u),
         NEW lo \in Nat, NEW m \in Nat, lo + m <= Len(ways),
         NEW w, \A k \in 1 .. m : \A v \in Seq(Glyphs) : Prints(w[k], v, v \o ways[lo + k]),
         NEW cs, cs = [k \in 1 .. m |-> w[k] \o (IF k < m THEN O!Cat(sep) ELSE <<>>)]
  PROVE  Prints(O!FlattenSeq(cs), IF m = 0 THEN t[lo] ELSE BeforeWay(t, sep, lo + 1), t[lo + m])
<1>. DEFINE ts == [k \in 0 .. m |-> IF k = m THEN t[lo + m] ELSE BeforeWay(t, sep, lo + k + 1)]
<1>1. Len(ways) \in Nat
  BY LenProperties
<1>2. /\ \A k \in 0 .. Len(ways) : t[k] \in Seq(Glyphs)
      /\ \A k \in 1 .. Len(ways) : t[k] = BeforeWay(t, sep, k) \o ways[k]
  BY DEF Told
<1>3. \A k \in 1 .. Len(ways) : BeforeWay(t, sep, k) \in Seq(Glyphs)
  <2>1. \A s1, s2 \in Seq(Glyphs) : s1 \o s2 \in Seq(Glyphs)
    BY ConcatProperties
  <2>2. \A k \in 1 .. Len(ways) : 0 \in 0 .. Len(ways) /\ k - 1 \in 0 .. Len(ways)
    BY <1>1
  <2>. QED
    BY <1>2, <2>1, <2>2 DEF BeforeWay
<1>4. ASSUME NEW k \in 1 .. m
      PROVE  Prints(cs[k], ts[k - 1], ts[k])
  <2>1. /\ lo + k \in 1 .. Len(ways) /\ lo + k \in 0 .. Len(ways)
        /\ k - 1 \in 0 .. m /\ k \in 0 .. m /\ k - 1 # m /\ lo + (k - 1) + 1 = lo + k
    BY <1>1
  <2>. DEFINE v == BeforeWay(t, sep, lo + k)
              v2 == t[lo + k]
              next == IF k < m THEN O!Cat(sep) ELSE <<>>
              v3 == IF k < m THEN v2 \o sep ELSE v2
  <2>2. ts[k - 1] = v
    BY <2>1
  <2>3. v \in Seq(Glyphs) /\ v2 \in Seq(Glyphs) /\ v2 = v \o ways[lo + k]
    BY <1>2, <1>3, <2>1
  <2>4. Prints(w[k], v, v2)
    <3>. HIDE DEF v, v2
    <3>. QED
      BY <2>3
  <2>5. Prints(next, v2, v3)
    <3>. HIDE DEF v2
    <3>. QED
      BY <2>3, CatPrints, PrintsNothing
  <2>6. cs[k] = w[k] \o next
    OBVIOUS
  <2>7. ts[k] = v3
    <3>1. CASE k < m
      <4>. DEFINE r == lo + k + 1
      <4>1. k # m /\ r # 1 /\ r - 1 = lo + k
        BY <3>1
      <4>2. ts[k] = BeforeWay(t, sep, r)
        BY <2>1, <4>1
      <4>. HIDE DEF r, ts
      <4>3. BeforeWay(t, sep, r) = t[lo + k] \o sep
        BY <4>1 DEF BeforeWay
      <4>. QED
        BY <3>1, <4>2, <4>3
    <3>2. CASE ~ (k < m)
      <4>1. k = m
        BY <3>2
      <4>. QED
        BY <2>1, <3>2, <4>1
    <3>. QED
      BY <3>1, <3>2
  <2>. HIDE DEF v, v2, v3, next, ts
  <2>. QED
    BY <2>2, <2>4, <2>5, <2>6, <2>7, PrintsOn
<1>5. cs \in Seq(Seq(CallType)) /\ Len(cs) = m
  <2>1. \A k \in 1 .. m : cs[k] \in Seq(CallType)
    <3>. HIDE DEF ts
    <3>. QED
      BY <1>4 DEF Prints, Leads
  <2>2. cs = [k \in 1 .. m |-> cs[k]]
    OBVIOUS
  <2>3. cs \in [1 .. m -> Seq(CallType)]
    BY <2>1, <2>2
  <2>. QED
    BY <2>3
<1>6. /\ ts[0] = IF m = 0 THEN t[lo] ELSE BeforeWay(t, sep, lo + 1)
      /\ ts[m] = t[lo + m]
  <2>1. 0 \in 0 .. m /\ m \in 0 .. m /\ lo + 0 + 1 = lo + 1 /\ (m = 0 => lo + m = lo)
    OBVIOUS
  <2>. QED
    BY <2>1
<1>7. ts[0] \in Seq(Glyphs)
  <2>1. (m = 0 => lo \in 0 .. Len(ways)) /\ (m # 0 => lo + 1 \in 1 .. Len(ways))
    BY <1>1
  <2>. HIDE DEF ts
  <2>. QED
    BY <1>2, <1>3, <1>6, <2>1
<1>. HIDE DEF ts
<1>8. Prints(O!FlattenSeq(cs), ts[0], ts[Len(cs)])
  BY <1>4, <1>5, <1>7, PrintsAll
<1>. QED
  BY <1>5, <1>6, <1>8

LEMMA WaysAre ==
  ASSUME NEW o \in Options
  PROVE  /\ O!Ways(o) \in Seq(Seq(Glyphs))
         /\ Len(o.shorts) \in Nat /\ Len(o.longs) \in Nat
         /\ DOMAIN o.shorts = 1 .. Len(o.shorts) /\ DOMAIN o.longs = 1 .. Len(o.longs)
         /\ Len(O!Ways(o)) = Len(o.shorts) + Len(o.longs)
         /\ \A k \in 1 .. Len(o.shorts) :
              /\ O!Ways(o)[k] = <<"-", o.shorts[k]>> /\ <<"-", o.shorts[k]>> \in Seq(Glyphs)
         /\ \A k \in 1 .. Len(o.longs) :
              /\ O!Ways(o)[Len(o.shorts) + k] = <<"-", "-">> \o o.longs[k]
              /\ o.longs[k] \in Seq(Glyphs) /\ o.longs[k] # <<>>
<1>. DEFINE m == Len(o.shorts)
            m2 == Len(o.longs)
            short == [k \in 1 .. m |-> <<"-", o.shorts[k]>>]
            long == [k \in 1 .. m2 |-> <<"-", "-">> \o o.longs[k]]
<1>1. /\ o.shorts \in Seq(Glyphs) /\ o.longs \in Seq(Seq(Glyphs)) /\ "-" \in Glyphs
      /\ \A k \in 1 .. m2 : o.longs[k] # <<>>
  BY OptionConstants DEF O!Signs
<1>2. /\ m \in Nat /\ m2 \in Nat /\ DOMAIN o.shorts = 1 .. m /\ DOMAIN o.longs = 1 .. m2
      /\ \A k \in 1 .. m : o.shorts[k] \in Glyphs
      /\ \A k \in 1 .. m2 : o.longs[k] \in Seq(Glyphs)
  BY <1>1, LenProperties
<1>3. O!Ways(o) = short \o long
  BY <1>2 DEF O!Ways
<1>4. \A k \in 1 .. m : <<"-", o.shorts[k]>> \in Seq(Glyphs)
  BY <1>1, <1>2
<1>5. \A k \in 1 .. m2 : <<"-", "-">> \o o.longs[k] \in Seq(Glyphs)
  <2>1. <<"-", "-">> \in Seq(Glyphs)
    BY <1>1
  <2>2. \A s1, s2 \in Seq(Glyphs) : s1 \o s2 \in Seq(Glyphs)
    BY ConcatProperties
  <2>. QED
    BY <1>2, <2>1, <2>2
<1>. HIDE DEF m, m2
<1>6. short \in Seq(Seq(Glyphs)) /\ Len(short) = m
  <2>1. short \in [1 .. m -> Seq(Glyphs)]
    BY <1>4
  <2>. HIDE DEF short
  <2>. QED
    BY <1>2, <2>1, TextsAreASeq
<1>7. long \in Seq(Seq(Glyphs)) /\ Len(long) = m2
  <2>1. long \in [1 .. m2 -> Seq(Glyphs)]
    BY <1>5
  <2>. HIDE DEF long
  <2>. QED
    BY <1>2, <2>1, TextsAreASeq
<1>8. /\ (\A k \in 1 .. m : short[k] = <<"-", o.shorts[k]>>)
      /\ \A k \in 1 .. m2 : long[k] = <<"-", "-">> \o o.longs[k]
  OBVIOUS
<1>. HIDE DEF short, long
<1>9. /\ short \o long \in Seq(Seq(Glyphs)) /\ Len(short \o long) = m + m2
      /\ \A k \in 1 .. m + m2 : (short \o long)[k] = IF k <= m THEN short[k] ELSE long[k - m]
  BY <1>6, <1>7, ConcatProperties
<1>10. \A k \in 1 .. m : (short \o long)[k] = <<"-", o.shorts[k]>>
  <2>1. \A k \in 1 .. m : k \in 1 .. m + m2 /\ k <= m
    BY <1>2
  <2>. QED
    BY <1>8, <1>9, <2>1
<1>11. \A k \in 1 .. m2 : (short \o long)[m + k] = <<"-", "-">> \o o.longs[k]
  <2>. SUFFICES ASSUME NEW k \in 1 .. m2
                PROVE  (short \o long)[m + k] = <<"-", "-">> \o o.longs[k]
    OBVIOUS
  <2>. DEFINE r == m + k
  <2>1. r \in 1 .. m + m2 /\ ~ (r <= m) /\ r - m = k
    BY <1>2
  <2>. HIDE DEF r
  <2>2. (short \o long)[r] = long[k]
    BY <1>9, <2>1
  <2>3. (short \o long)[r] = <<"-", "-">> \o o.longs[k]
    BY <1>8, <2>2
  <2>. QED
    BY <2>3 DEF r
<1>. QED
  BY <1>1, <1>2, <1>3, <1>4, <1>9, <1>10, <1>11 DEF m, m2

ValueText(o) ==
  IF o.datatype = O!NoText THEN <<>>
  ELSE IF o.optvalue THEN <<"[">> \o o.datatype \o <<"]">> ELSE o.datatype

LEMMA ValuePrints ==
  ASSUME NEW o \in Options, NEW u \in Seq(Glyphs)
  PROVE  Prints(O!Value(o), u, u \o ValueText(o))
<1>. DEFINE left == <<"[">>
            right == <<"]">>
            val == o.datatype
<1>1. left \in Seq(Glyphs) /\ right \in Seq(Glyphs) /\ val \in Seq(Glyphs)
  <2>1. "[" \in O!Signs /\ "]" \in O!Signs
    BY DEF O!Signs
  <2>2. "[" \in Glyphs /\ "]" \in Glyphs /\ val \in Seq(Glyphs)
    BY <2>1, OptionConstants
  <2>. QED
    BY <2>2
<1>2. CASE val = O!NoText
  BY <1>2, PrintsNothing, ConcatEmptySeq DEF O!Value, ValueText
<1>3. CASE val # O!NoText /\ o.optvalue
  <2>1. O!Value(o) = (O!Cat(left) \o O!Cat(val)) \o O!Cat(right)
        /\ ValueText(o) = (left \o val) \o right
    BY <1>3 DEF O!Value, ValueText
  <2>. HIDE DEF left, right, val
  <2>2. Prints(O!Cat(left), u, u \o left) /\ u \o left \in Seq(Glyphs)
    BY <1>1, CatPrints
  <2>3. Prints(O!Cat(val), u \o left, (u \o left) \o val) /\ (u \o left) \o val \in Seq(Glyphs)
    BY <1>1, <2>2, CatPrints
  <2>4. Prints(O!Cat(right), (u \o left) \o val, ((u \o left) \o val) \o right)
    BY <1>1, <2>3, CatPrints
  <2>5. ((u \o left) \o val) \o right = u \o ((left \o val) \o right)
    <3>2. left \o val \in Seq(Glyphs)
      BY <1>1, ConcatProperties
    <3>3. Grouped(u, left, val) /\ Grouped(u, left \o val, right)
      BY <1>1, <3>2, Regroup
    <3>. QED
      BY <3>3 DEF Grouped
  <2>. QED
    BY <2>1, <2>2, <2>3, <2>4, <2>5, PrintsOn
<1>4. CASE val # O!NoText /\ ~ o.optvalue
  <2>1. O!Value(o) = O!Cat(val) /\ ValueText(o) = val
    BY <1>4 DEF O!Value, ValueText
  <2>. QED
    BY <1>1, <2>1, CatPrints
<1>. QED
  BY <1>2, <1>3, <1>4

(* A text that is printed only sometimes *)
LEMMA MaybePrints ==
  ASSUME NEW u \in Seq(Glyphs), NEW piece \in Seq(Glyphs), NEW cond \in BOOLEAN
  PROVE  /\ Prints(IF cond THEN O!Cat(piece) ELSE <<>>, u, u \o (IF cond THEN piece ELSE <<>>))
         /\ u \o (IF cond THEN piece ELSE <<>>) \in Seq(Glyphs)
<1>1. u \o <<>> = u
  BY ConcatEmptySeq
<1>. QED
  BY <1>1, CatPrints, PrintsNothing

BeforeValue(o) ==
  IF o.datatype = O!NoText THEN <<>>
  ELSE IF o.longs # <<>> THEN <<"=">> ELSE IF o.shorts # <<>> THEN <<" ">> ELSE <<>>

LEMMA BeforeValuePrints ==
  ASSUME NEW o \in Options, NEW u \in Seq(Glyphs)
  PROVE  /\ Prints(IF o.datatype = O!NoText THEN <<>>
                   ELSE IF o.longs # <<>> THEN O!Cat(<<"=">>)
                   ELSE IF o.shorts # <<>> THEN O!Cat(<<" ">>) ELSE <<>>,
                   u, u \o BeforeValue(o))
         /\ u \o BeforeValue(o) \in Seq(Glyphs)
<1>1. <<"=">> \in Seq(Glyphs) /\ <<" ">> \in Seq(Glyphs)
  <2>1. "=" \in O!Signs /\ " " \in O!Signs
    BY DEF O!Signs
  <2>2. "=" \in Glyphs /\ " " \in Glyphs
    BY <2>1, OptionConstants
  <2>3. \A sign \in Glyphs : <<sign>> \in Seq(Glyphs)
    OBVIOUS
  <2>. QED
    BY <2>2, <2>3, Zenon
<1>2. u \o <<>> = u
  BY ConcatEmptySeq
<1>. QED
  BY <1>1, <1>2, CatPrints, PrintsNothing DEF BeforeValue

(* All ways to give an option *)
LEMMA OptionvPrints ==
  ASSUME NEW o \in Options, NEW u \in Seq(Glyphs), NEW sep \in Seq(Glyphs)
  PROVE  Prints(O!arg_cat_optionv(o, sep), u,
                ((u \o O!Joined(O!Ways(o), sep)) \o BeforeValue(o)) \o ValueText(o))
<1>. DEFINE m == Len(o.shorts)
            m2 == Len(o.longs)
            ways == O!Ways(o)
            w == [k \in 1 .. m |-> O!Cat(<<"-", o.shorts[k]>>)]
            w2 == [k \in 1 .. m2 |-> O!Cat(<<"-", "-">>) \o O!Ncat(o.longs[k])]
            cs == [k \in 1 .. m |-> O!Cat(<<"-", o.shorts[k]>>)
                                      \o (IF k < m THEN O!Cat(sep) ELSE <<>>)]
            cs2 == [k \in 1 .. m2 |-> O!Cat(<<"-", "-">>) \o O!Ncat(o.longs[k])
                                        \o (IF k < m2 THEN O!Cat(sep) ELSE <<>>)]
            between == IF o.shorts # <<>> /\ o.longs # <<>> THEN O!Cat(sep) ELSE <<>>
            before == IF o.datatype = O!NoText THEN <<>>
                      ELSE IF o.longs # <<>> THEN O!Cat(<<"=">>)
                      ELSE IF o.shorts # <<>> THEN O!Cat(<<" ">>) ELSE <<>>
            value == O!Value(o)
<1>1. /\ ways \in Seq(Seq(Glyphs)) /\ m \in Nat /\ m2 \in Nat
      /\ DOMAIN o.shorts = 1 .. m /\ DOMAIN o.longs = 1 .. m2
      /\ Len(ways) = m + m2
      /\ \A k \in 1 .. m : ways[k] = <<"-", o.shorts[k]>> /\ <<"-", o.shorts[k]>> \in Seq(Glyphs)
      /\ \A k \in 1 .. m2 : ways[m + k] = <<"-", "-">> \o o.longs[k] /\ o.longs[k] \in Seq(Glyphs)
  BY WaysAre
<1>2. (o.shorts # <<>> <=> m # 0) /\ (o.longs # <<>> <=> m2 # 0)
  BY OptionConstants, EmptySeq
<1>3. O!arg_cat_optionv(o, sep)
        = (((O!FlattenSeq(cs) \o between) \o O!FlattenSeq(cs2)) \o before) \o value
  BY <1>1 DEF O!arg_cat_optionv
<1>4. PICK t : Told(t, ways, sep, u) /\ t[Len(ways)] = u \o O!Joined(ways, sep)
  <2>. HIDE DEF ways
  <2>. QED
    BY <1>1, JoinedIs
<1>5. \A k \in 1 .. m : \A v \in Seq(Glyphs) : Prints(w[k], v, v \o ways[0 + k])
  <2>. SUFFICES ASSUME NEW k \in 1 .. m, NEW v \in Seq(Glyphs)
                PROVE  Prints(w[k], v, v \o ways[0 + k])
    OBVIOUS
  <2>1. 0 + k = k /\ w[k] = O!Cat(<<"-", o.shorts[k]>>)
    BY <1>1
  <2>. HIDE DEF w, ways
  <2>. QED
    BY <1>1, <2>1, CatPrints
<1>6. \A k \in 1 .. m2 : \A v \in Seq(Glyphs) : Prints(w2[k], v, v \o ways[m + k])
  <2>. SUFFICES ASSUME NEW k \in 1 .. m2, NEW v \in Seq(Glyphs)
                PROVE  Prints(w2[k], v, v \o ways[m + k])
    OBVIOUS
  <2>1. w2[k] = O!Cat(<<"-", "-">>) \o O!Ncat(o.longs[k])
    OBVIOUS
  <2>. HIDE DEF w2, ways
  <2>. QED
    BY <1>1, <2>1, NamePrints
<1>7. /\ cs = [k \in 1 .. m |-> w[k] \o (IF k < m THEN O!Cat(sep) ELSE <<>>)]
      /\ cs2 = [k \in 1 .. m2 |-> w2[k] \o (IF k < m2 THEN O!Cat(sep) ELSE <<>>)]
  OBVIOUS
<1>8. /\ between = IF m # 0 /\ m2 # 0 THEN O!Cat(sep) ELSE <<>>
  BY <1>2
<1>9. \A k \in 0 .. Len(ways) : t[k] \in Seq(Glyphs)
  BY <1>4 DEF Told
<1>10. t[0] = u
  BY <1>4 DEF Told
<1>11. \A v \in Seq(Glyphs) : Prints(before, v, v \o BeforeValue(o)) /\ v \o BeforeValue(o) \in Seq(Glyphs)
  BY BeforeValuePrints
<1>. HIDE DEF m, m2, ways, w, w2, cs, cs2, between, before, value
<1>12. Prints(O!FlattenSeq(cs), u, t[m])
  <2>1. 0 \in Nat /\ 0 + m <= Len(ways) /\ 0 + m = m /\ 0 + 1 = 1
    BY <1>1
  <2>2. Prints(O!FlattenSeq(cs), IF m = 0 THEN t[0] ELSE BeforeWay(t, sep, 0 + 1), t[0 + m])
    BY <1>1, <1>4, <1>5, <1>7, <2>1, LoopPrints
  <2>3. BeforeWay(t, sep, 1) = t[0]
    BY DEF BeforeWay
  <2>. QED
    BY <1>10, <2>1, <2>2, <2>3
<1>. DEFINE v2 == IF m2 = 0 THEN t[m] ELSE BeforeWay(t, sep, m + 1)
<1>13. Prints(O!FlattenSeq(cs2), v2, t[m + m2])
  <2>1. m + m2 <= Len(ways)
    BY <1>1
  <2>. QED
    BY <1>1, <1>4, <1>6, <1>7, <2>1, LoopPrints
<1>14. Prints(between, t[m], v2)
  <2>1. t[m] \in Seq(Glyphs)
    BY <1>1, <1>9
  <2>2. CASE m # 0 /\ m2 # 0
    <3>. DEFINE r == m + 1
    <3>1. r # 1 /\ r - 1 = m
      BY <1>1, <2>2
    <3>2. v2 = t[m] \o sep
      <4>1. v2 = BeforeWay(t, sep, r)
        BY <2>2
      <4>. HIDE DEF r, v2
      <4>. QED
        BY <3>1, <4>1 DEF BeforeWay
    <3>. QED
      BY <1>8, <2>1, <2>2, <3>2, CatPrints
  <2>3. CASE ~ (m # 0 /\ m2 # 0)
    <3>1. v2 = t[m]
      BY <1>1, <2>3 DEF BeforeWay
    <3>. QED
      BY <1>8, <2>1, <2>3, <3>1, PrintsNothing
  <2>. QED
    BY <2>2, <2>3
<1>. HIDE DEF v2
<1>. DEFINE v == u \o O!Joined(ways, sep)
<1>15. v = t[m + m2] /\ v \in Seq(Glyphs)
  <2>. HIDE DEF v
  <2>1. v = t[Len(ways)]
    BY <1>4 DEF v
  <2>2. Len(ways) = m + m2 /\ Len(ways) \in 0 .. Len(ways)
    BY <1>1
  <2>. QED
    BY <1>9, <2>1, <2>2
<1>16. Prints((O!FlattenSeq(cs) \o between) \o O!FlattenSeq(cs2), u, v)
  <2>1. Prints(O!FlattenSeq(cs) \o between, u, v2)
    BY <1>12, <1>14, PrintsOn
  <2>. QED
    BY <1>13, <1>15, <2>1, PrintsOn
<1>. HIDE DEF v
<1>17. Prints(((O!FlattenSeq(cs) \o between) \o O!FlattenSeq(cs2)) \o before, u, v \o BeforeValue(o))
       /\ v \o BeforeValue(o) \in Seq(Glyphs)
  BY <1>11, <1>15, <1>16, PrintsOn
<1>18. Prints(value, v \o BeforeValue(o), (v \o BeforeValue(o)) \o ValueText(o))
  BY <1>17, ValuePrints DEF value
<1>19. Prints((((O!FlattenSeq(cs) \o between) \o O!FlattenSeq(cs2)) \o before) \o value, u,
              (v \o BeforeValue(o)) \o ValueText(o))
  BY <1>17, <1>18, PrintsOn
<1>. QED
  BY <1>3, <1>19 DEF v, ways

LEMMA SignTexts ==
  /\ <<"=">> \in Seq(Glyphs) /\ <<" ">> \in Seq(Glyphs) /\ <<"|">> \in Seq(Glyphs)
  /\ <<",", " ">> \in Seq(Glyphs) /\ <<"-", "-">> \in Seq(Glyphs)
  /\ <<" ", " ", " ", " ">> \in Seq(Glyphs)
<1>1. /\ "=" \in O!Signs /\ " " \in O!Signs /\ "|" \in O!Signs /\ "," \in O!Signs
      /\ "-" \in O!Signs
  BY DEF O!Signs
<1>2. /\ "=" \in Glyphs /\ " " \in Glyphs /\ "|" \in Glyphs /\ "," \in Glyphs
      /\ "-" \in Glyphs
  BY <1>1, OptionConstants
<1>3. /\ \A c \in Glyphs : <<c>> \in Seq(Glyphs) /\ <<c, c>> \in Seq(Glyphs)
                           /\ <<c, c, c, c>> \in Seq(Glyphs)
      /\ \A c, c2 \in Glyphs : <<c, c2>> \in Seq(Glyphs)
  OBVIOUS
<1>. QED
  BY <1>2, <1>3, Zenon

LEMMA JoinedOne ==
  ASSUME NEW way \in Seq(Glyphs), NEW sep \in Seq(Glyphs), NEW u \in Seq(Glyphs)
  PROVE  u \o O!Joined(<<way>>, sep) = u \o way /\ u \o O!Joined(<<>>, sep) = u
<1>1. u \o O!Joined(<<way>>, sep) = u \o way
  <2>1. <<way>> \in Seq(Seq(Glyphs)) /\ Len(<<way>>) = 1 /\ <<way>>[1] = way
    OBVIOUS
  <2>2. PICK t : Told(t, <<way>>, sep, u) /\ t[1] = u \o O!Joined(<<way>>, sep)
    BY <2>1, JoinedIs
  <2>3. t[1] = BeforeWay(t, sep, 1) \o way /\ t[0] = u
    <3>. DEFINE ways == <<way>>
    <3>1. 1 \in 1 .. Len(ways) /\ ways[1] = way /\ Told(t, ways, sep, u)
      BY <2>1, <2>2
    <3>. HIDE DEF ways
    <3>. QED
      BY <3>1 DEF Told
  <2>. QED
    BY <2>2, <2>3 DEF BeforeWay
<1>2. u \o O!Joined(<<>>, sep) = u
  <2>1. <<>> \in Seq(Seq(Glyphs)) /\ Len(<<>>) = 0
    OBVIOUS
  <2>2. PICK t : Told(t, <<>>, sep, u) /\ t[0] = u \o O!Joined(<<>>, sep)
    BY <2>1, JoinedIs
  <2>. QED
    BY <2>2 DEF Told
<1>. QED
  BY <1>1, <1>2

LEMMA IndentIs ==
  ASSUME NEW o \in Options, NEW s \in O!Styles
  PROVE  /\ O!Indent(o, s) \in Seq(Glyphs) /\ Len(O!Indent(o, s)) \in 0 .. 4
         /\ s = "syntax" => O!Indent(o, s) = <<>>
<1>2. <<" ", " ", " ", " ">> \in Seq(Glyphs) /\ Len(<<" ", " ", " ", " ">>) = 4
  BY SignTexts
<1>3. <<>> \in Seq(Glyphs) /\ Len(<<>>) = 0
  OBVIOUS
<1>4. CASE s = "gnu" /\ o.shorts = <<>> /\ o.longs # <<>>
  <2>1. O!Indent(o, s) = <<" ", " ", " ", " ">> /\ s # "syntax"
    BY <1>4 DEF O!Indent
  <2>2. 4 \in 0 .. 4
    OBVIOUS
  <2>. QED
    BY <1>2, <2>1, <2>2, Zenon
<1>5. CASE ~ (s = "gnu" /\ o.shorts = <<>> /\ o.longs # <<>>)
  <2>1. O!Indent(o, s) = <<>>
    BY <1>5 DEF O!Indent
  <2>2. 0 \in 0 .. 4
    OBVIOUS
  <2>. QED
    BY <1>3, <2>1, <2>2, Zenon
<1>. QED
  BY <1>4, <1>5

(* The calls of an option print the text that the reader should see. *)
LEMMA CallsPrint ==
  ASSUME NEW o \in Options, NEW s \in O!Styles
  PROVE  Prints(O!CallsOf(o, s), O!Indent(o, s), O!WholeText(o, s))
<1>. DEFINE u == O!Indent(o, s)
            sep == O!SeparatorOf(s)
            m == Len(o.shorts)
            m2 == Len(o.longs)
            all == O!Ways(o)
            ways == O!ShownWays(o, s)
            before == IF o.datatype = O!NoText \/ ways = <<>> THEN <<>>
                      ELSE IF Len(ways[Len(ways)]) > 2 THEN <<"=">> ELSE <<" ">>
<1>1. u \in Seq(Glyphs) /\ sep \in Seq(Glyphs) /\ (s = "syntax" => u = <<>>)
  BY IndentIs, SignTexts DEF O!SeparatorOf
<1>2. /\ all \in Seq(Seq(Glyphs)) /\ m \in Nat /\ m2 \in Nat /\ Len(all) = m + m2
      /\ \A k \in 1 .. m : all[k] = <<"-", o.shorts[k]>> /\ <<"-", o.shorts[k]>> \in Seq(Glyphs)
      /\ \A k \in 1 .. m2 : /\ all[m + k] = <<"-", "-">> \o o.longs[k]
                            /\ o.longs[k] \in Seq(Glyphs) /\ o.longs[k] # <<>>
  BY WaysAre
<1>3. (o.shorts # <<>> <=> m # 0) /\ (o.longs # <<>> <=> m2 # 0) /\ (all # <<>> <=> m + m2 # 0)
  BY <1>2, OptionConstants, EmptySeq
<1>4. O!WholeText(o, s) = ((u \o O!Joined(ways, sep)) \o before) \o ValueText(o)
  BY DEF O!WholeText, ValueText
<1>5. ways = IF s = "syntax" /\ all # <<>> THEN <<all[1]>> ELSE all
  BY DEF O!ShownWays
<1>6. \A k \in 1 .. m : Len(all[k]) = 2
  <2>. HIDE DEF m, all
  <2>. SUFFICES ASSUME NEW k \in 1 .. m  PROVE Len(all[k]) = 2
    OBVIOUS
  <2>. DEFINE c == o.shorts[k]
  <2>1. all[k] = <<"-", c>>
    BY <1>2
  <2>. HIDE DEF c
  <2>2. Len(<<"-", c>>) = 2
    OBVIOUS
  <2>. QED
    BY <2>1, <2>2
<1>7. \A k \in 1 .. m2 : Len(all[m + k]) > 2
  <2>. SUFFICES ASSUME NEW k \in 1 .. m2  PROVE Len(all[m + k]) > 2
    OBVIOUS
  <2>1. <<"-", "-">> \in Seq(Glyphs) /\ Len(<<"-", "-">>) = 2
    BY SignTexts
  <2>2. o.longs[k] \in Seq(Glyphs) /\ Len(o.longs[k]) \in Nat \ {0}
    BY <1>2, EmptySeq
  <2>3. Len(<<"-", "-">> \o o.longs[k]) = 2 + Len(o.longs[k])
    BY <2>1, <2>2, ConcatProperties
  <2>4. all[m + k] = <<"-", "-">> \o o.longs[k]
    BY <1>2
  <2>. QED
    BY <2>2, <2>3, <2>4
<1>8. before = IF o.datatype = O!NoText \/ ways = <<>> THEN <<>>
               ELSE IF Len(ways[Len(ways)]) > 2 THEN <<"=">> ELSE <<" ">>
  OBVIOUS
<1>. HIDE DEF u, sep, m, m2, all, ways, before
<1>9. CASE s # "syntax"
  <2>1. ways = all /\ O!CallsOf(o, s) = O!arg_cat_optionv(o, sep)
    BY <1>5, <1>9 DEF O!CallsOf, sep
  <2>2. before = BeforeValue(o)
    <3>1. CASE m2 # 0
      <4>1. m2 \in 1 .. m2 /\ m + m2 # 0 /\ Len(all) = m + m2
        BY <1>2, <3>1
      <4>2. Len(all[m + m2]) > 2
        BY <1>7, <4>1
      <4>. QED
        BY <1>3, <1>8, <2>1, <3>1, <4>1, <4>2 DEF BeforeValue
    <3>2. CASE m2 = 0 /\ m # 0
      <4>1. m \in 1 .. m /\ m + m2 # 0 /\ Len(all) = m
        BY <1>2, <3>2
      <4>2. Len(all[m]) = 2 /\ ~ (2 > 2)
        BY <1>6, <4>1
      <4>. QED
        BY <1>3, <1>8, <2>1, <3>2, <4>1, <4>2 DEF BeforeValue
    <3>3. CASE m2 = 0 /\ m = 0
      <4>1. m + m2 = 0
        BY <3>3
      <4>. QED
        BY <1>3, <1>8, <2>1, <3>3, <4>1 DEF BeforeValue
    <3>. QED
      BY <3>1, <3>2, <3>3
  <2>3. Prints(O!arg_cat_optionv(o, sep), u,
               ((u \o O!Joined(all, sep)) \o BeforeValue(o)) \o ValueText(o))
    BY <1>1, OptionvPrints DEF all
  <2>. QED
    BY <1>4, <2>1, <2>2, <2>3 DEF u
<1>10. CASE s = "syntax" /\ m # 0
  <2>. DEFINE way == <<"-", o.shorts[1]>>
              piece == IF o.datatype # O!NoText THEN <<" ">> ELSE <<>>
              maybe == IF o.datatype # O!NoText THEN O!Cat(<<" ">>) ELSE <<>>
  <2>1. 1 \in 1 .. m /\ m + m2 # 0
    BY <1>2, <1>10
  <2>2. ways = <<way>> /\ way \in Seq(Glyphs) /\ Len(way) = 2 /\ ways # <<>> /\ Len(ways) = 1
        /\ ways[1] = way
    BY <1>2, <1>3, <1>5, <1>10, <2>1
  <2>3. before = piece
    <3>1. ~ (2 > 2)
      OBVIOUS
    <3>. QED
      BY <1>8, <2>2, <3>1
  <2>4. O!CallsOf(o, s) = (O!Cat(way) \o maybe) \o O!Value(o)
    BY <1>3, <1>10 DEF O!CallsOf, O!arg_cat_option
  <2>5. u \o O!Joined(ways, sep) = u \o way
    <3>. HIDE DEF way
    <3>. QED
      BY <1>1, <2>2, JoinedOne
  <2>6. <<" ">> \in Seq(Glyphs)
    BY SignTexts
  <2>7. \A v \in Seq(Glyphs) : Prints(maybe, v, v \o piece) /\ v \o piece \in Seq(Glyphs)
    BY <2>6, MaybePrints
  <2>. HIDE DEF way, piece, maybe
  <2>8. Prints(O!Cat(way), u, u \o way) /\ u \o way \in Seq(Glyphs)
    BY <1>1, <2>2, CatPrints
  <2>9. Prints(O!Cat(way) \o maybe, u, (u \o way) \o piece) /\ (u \o way) \o piece \in Seq(Glyphs)
    BY <2>7, <2>8, PrintsOn
  <2>10. Prints(O!Value(o), (u \o way) \o piece, ((u \o way) \o piece) \o ValueText(o))
    BY <2>9, ValuePrints
  <2>11. Prints((O!Cat(way) \o maybe) \o O!Value(o), u, ((u \o way) \o piece) \o ValueText(o))
    BY <2>9, <2>10, PrintsOn
  <2>. QED
    BY <1>4, <2>3, <2>4, <2>5, <2>11 DEF u
<1>11. CASE s = "syntax" /\ m = 0 /\ m2 # 0
  <2>. DEFINE way == <<"-", "-">> \o o.longs[1]
              piece == IF o.datatype # O!NoText THEN <<"=">> ELSE <<>>
              maybe == IF o.datatype # O!NoText THEN O!Cat(<<"=">>) ELSE <<>>
              named == O!Cat(<<"-", "-">>) \o O!Ncat(o.longs[1])
  <2>1. 1 \in 1 .. m2 /\ m + m2 # 0 /\ m + 1 = 1
    BY <1>2, <1>11
  <2>2. o.longs[1] \in Seq(Glyphs) /\ all[1] = way /\ Len(all[1]) > 2
    BY <1>2, <1>7, <2>1
  <2>3. way \in Seq(Glyphs)
    <3>1. <<"-", "-">> \in Seq(Glyphs)
      BY SignTexts
    <3>. QED
      BY <2>2, <3>1, ConcatProperties
  <2>4. ways = <<all[1]>> /\ ways # <<>> /\ Len(ways) = 1 /\ ways[1] = all[1]
    BY <1>3, <1>5, <1>11, <2>1
  <2>5. before = piece
    BY <1>8, <2>2, <2>4
  <2>6. O!CallsOf(o, s) = (named \o maybe) \o O!Value(o)
    BY <1>3, <1>11 DEF O!CallsOf, O!arg_cat_option
  <2>7. Prints(named, u, u \o way)
    BY <1>1, <2>2, NamePrints
  <2>8. <<"=">> \in Seq(Glyphs)
    BY SignTexts
  <2>9. \A v \in Seq(Glyphs) : Prints(maybe, v, v \o piece) /\ v \o piece \in Seq(Glyphs)
    BY <2>8, MaybePrints
  <2>10. u \o O!Joined(ways, sep) = u \o way /\ u \o way \in Seq(Glyphs)
    <3>. HIDE DEF way
    <3>1. ways = <<way>>
      BY <2>2, <2>4
    <3>2. u \o O!Joined(<<way>>, sep) = u \o way
      BY <1>1, <2>3, JoinedOne
    <3>3. u \o way \in Seq(Glyphs)
      BY <1>1, <2>3, ConcatProperties
    <3>. QED
      BY <3>1, <3>2, <3>3
  <2>. HIDE DEF way, piece, maybe, named
  <2>11. Prints(named \o maybe, u, (u \o way) \o piece) /\ (u \o way) \o piece \in Seq(Glyphs)
    BY <2>7, <2>9, <2>10, PrintsOn
  <2>12. Prints(O!Value(o), (u \o way) \o piece, ((u \o way) \o piece) \o ValueText(o))
    BY <2>11, ValuePrints
  <2>13. Prints((named \o maybe) \o O!Value(o), u, ((u \o way) \o piece) \o ValueText(o))
    BY <2>11, <2>12, PrintsOn
  <2>. QED
    BY <1>4, <2>5, <2>6, <2>10, <2>13 DEF u
<1>12. CASE s = "syntax" /\ m = 0 /\ m2 = 0
  <2>1. m + m2 = 0
    BY <1>12
  <2>2. ways = <<>> /\ before = <<>>
    BY <1>3, <1>5, <1>8, <2>1
  <2>3. O!CallsOf(o, s) = O!Value(o)
    BY <1>3, <1>12 DEF O!CallsOf, O!arg_cat_option
  <2>4. u \o O!Joined(ways, sep) = u /\ u \o <<>> = u
    BY <1>1, <2>2, JoinedOne, ConcatEmptySeq
  <2>5. Prints(O!Value(o), u, u \o ValueText(o))
    BY <1>1, ValuePrints
  <2>. QED
    BY <1>4, <2>2, <2>3, <2>4, <2>5 DEF u
<1>. QED
  BY <1>9, <1>10, <1>11, <1>12

-----------------------------------------------------------------------------
(* The buffer *)

LEMMA PrefixIs ==
  ASSUME NEW S, NEW str \in Seq(S), NEW e \in 0 .. Len(str)
  PROVE  /\ SubSeq(str, 1, e) \in Seq(S) /\ Len(SubSeq(str, 1, e)) = e
         /\ \A k \in 1 .. e : SubSeq(str, 1, e)[k] = str[k]
         /\ e = Len(str) => SubSeq(str, 1, e) = str
<1>1. Len(str) \in Nat /\ \A k \in 1 .. Len(str) : str[k] \in S
  BY LenProperties
<1>2. e \in Nat /\ \A k \in 1 .. e : str[k] \in S
  BY <1>1
<1>3. /\ SubSeq(str, 1, e) \in Seq(S)
      /\ Len(SubSeq(str, 1, e)) = IF 1 <= e THEN e - 1 + 1 ELSE 0
      /\ \A k \in 1 .. e - 1 + 1 : SubSeq(str, 1, e)[k] = str[1 + k - 1]
  <2>1. 1 \in Int /\ e \in Int
    BY <1>2
  <2>. QED
    BY <1>2, <2>1, SubSeqProperties
<1>4. (IF 1 <= e THEN e - 1 + 1 ELSE 0) = e /\ e - 1 + 1 = e /\ \A k \in 1 .. e : 1 + k - 1 = k
  BY <1>2
<1>5. e = Len(str) => SubSeq(str, 1, e) = str
  BY SubSeqFull
<1>. QED
  BY <1>3, <1>4, <1>5

(* Of the text w as much is shown as fits. *)
Shown(str, w) ==
  IF Len(w) <= Size - 2 THEN str = w ELSE Len(str) \in {Size - 2, Size - 1}

LEMMA GlyphsJoined ==
  \A s1, s2 \in Seq(Glyphs) : s1 \o s2 \in Seq(Glyphs) /\ Len(s1 \o s2) = Len(s1) + Len(s2)
BY ConcatProperties

(* How much of a piece of pl letters arg_cat adds to sl letters *)
CatTakes(sl, pl, e, l) ==
  /\ e = IF sl < Size - 2 THEN sl ELSE Size - 2
  /\ l = IF pl < Size - 2 - e THEN pl ELSE Size - 2 - e

LEMMA CatRoom ==
  ASSUME NEW sl \in Nat, NEW pl \in Nat, Size > 5, NEW e, NEW l, CatTakes(sl, pl, e, l)
  PROVE  /\ e \in 0 .. sl /\ l \in 0 .. pl /\ e \in Nat /\ l \in Nat
         /\ sl <= Size - 2 => e = sl /\ l = IF pl < Size - 2 - sl THEN pl ELSE Size - 2 - sl
         /\ sl >= Size - 2 => e = Size - 2 /\ l = 0
<1>1. /\ Size \in Nat
      /\ e = IF sl < Size - 2 THEN sl ELSE Size - 2
      /\ l = IF pl < Size - 2 - e THEN pl ELSE Size - 2 - e
  BY OptionConstants DEF CatTakes
<1>2. CASE sl <= Size - 2
  <2>1. e = sl
    BY <1>1, <1>2
  <2>2. l \in 0 .. pl /\ l \in Nat /\ l = IF pl < Size - 2 - sl THEN pl ELSE Size - 2 - sl
    BY <1>1, <1>2, <2>1
  <2>3. sl >= Size - 2 => e = Size - 2 /\ l = 0
    BY <1>1, <1>2, <2>1, <2>2
  <2>. QED
    BY <2>1, <2>2, <2>3
<1>3. CASE ~ (sl <= Size - 2)
  <2>1. e = Size - 2 /\ e \in Nat /\ e \in 0 .. sl
    BY <1>1, <1>3
  <2>2. l = 0
    BY <1>1, <2>1
  <2>. QED
    BY <1>1, <1>3, <2>1, <2>2
<1>. QED
  BY <1>2, <1>3

LEMMA ShownByCat ==
  ASSUME NEW str \in Seq(Glyphs), NEW w \in Seq(Glyphs), NEW p \in Seq(Glyphs),
         Shown(str, w), Len(str) <= Size - 1,
         NEW e, NEW l, CatTakes(Len(str), Len(p), e, l)
  PROVE  Shown(SubSeq(str, 1, e) \o SubSeq(p, 1, l), w \o p)
<1>1. Size \in Nat /\ Size > 5 /\ Len(str) \in Nat /\ Len(w) \in Nat /\ Len(p) \in Nat
  BY OptionConstants, LenProperties
<1>2. e \in 0 .. Len(str) /\ l \in 0 .. Len(p) /\ e \in Nat /\ l \in Nat
  BY <1>1, CatRoom
<1>0. /\ Len(str) <= Size - 2 =>
           e = Len(str) /\ l = IF Len(p) < Size - 2 - Len(str) THEN Len(p) ELSE Size - 2 - Len(str)
      /\ Len(str) >= Size - 2 => e = Size - 2 /\ l = 0
  BY <1>1, CatRoom
<1>. DEFINE front == SubSeq(str, 1, e)
            q == SubSeq(p, 1, l)
<1>3. front \in Seq(Glyphs) /\ Len(front) = e /\ (e = Len(str) => front = str)
  BY <1>2, PrefixIs
<1>4. q \in Seq(Glyphs) /\ Len(q) = l /\ (l = Len(p) => q = p)
  BY <1>2, PrefixIs
<1>. HIDE DEF front, q
<1>5. Len(front \o q) = e + l
  BY <1>3, <1>4, GlyphsJoined
<1>6. Len(w \o p) = Len(w) + Len(p)
  BY GlyphsJoined
<1>7. CASE Len(w \o p) <= Size - 2
  <2>1. Len(w) <= Size - 2
    BY <1>1, <1>6, <1>7
  <2>2. str = w
    BY <2>1 DEF Shown
  <2>3. e = Len(str)
    BY <1>0, <2>1, <2>2
  <2>4. l = Len(p)
    <3>1. Len(w) + Len(p) <= Size - 2 /\ l = IF Len(p) < Size - 2 - Len(w) THEN Len(p) ELSE Size - 2 - Len(w)
      BY <1>0, <1>6, <1>7, <2>1, <2>2
    <3>. QED
      BY <1>1, <3>1
  <2>. QED
    BY <1>3, <1>4, <1>7, <2>2, <2>3, <2>4 DEF Shown, front, q
<1>8. CASE ~ (Len(w \o p) <= Size - 2)
  <2>1. e + l = Size - 2
    <3>1. CASE Len(w) <= Size - 2
      <4>1. str = w
        BY <3>1 DEF Shown
      <4>2. e = Len(w) /\ l = IF Len(p) < Size - 2 - Len(w) THEN Len(p) ELSE Size - 2 - Len(w)
        BY <1>0, <3>1, <4>1
      <4>3. ~ (Len(w) + Len(p) <= Size - 2)
        BY <1>6, <1>8
      <4>. QED
        BY <1>1, <3>1, <4>2, <4>3
    <3>2. CASE ~ (Len(w) <= Size - 2)
      <4>1. Len(str) \in {Size - 2, Size - 1}
        BY <3>2 DEF Shown
      <4>2. Len(str) >= Size - 2
        BY <1>1, <4>1
      <4>3. e = Size - 2 /\ l = 0
        BY <1>0, <4>2
      <4>. QED
        BY <1>1, <4>3
    <3>. QED
      BY <3>1, <3>2
  <2>. QED
    BY <1>5, <1>8, <2>1 DEF Shown, front, q
<1>. QED
  BY <1>7, <1>8

(* How much of it strncat adds *)
NcatTakes(sl, pl, l) == l = IF pl < Size - 1 - sl THEN pl ELSE Size - 1 - sl

LEMMA ShownByStrncat ==
  ASSUME NEW str \in Seq(Glyphs), NEW w \in Seq(Glyphs), NEW p \in Seq(Glyphs),
         Shown(str, w), Len(str) <= Size - 2,
         NEW l, NcatTakes(Len(str), Len(p), l)
  PROVE  Shown(str \o SubSeq(p, 1, l), w \o p)
<1>1. Size \in Nat /\ Size > 5 /\ Len(str) \in Nat /\ Len(w) \in Nat /\ Len(p) \in Nat
  BY OptionConstants, LenProperties
<1>0. l = IF Len(p) < Size - 1 - Len(str) THEN Len(p) ELSE Size - 1 - Len(str)
  BY DEF NcatTakes
<1>2. l \in 0 .. Len(p) /\ l \in Nat
  BY <1>0, <1>1
<1>. DEFINE q == SubSeq(p, 1, l)
<1>3. q \in Seq(Glyphs) /\ Len(q) = l /\ (l = Len(p) => q = p)
  BY <1>2, PrefixIs
<1>. HIDE DEF q
<1>4. Len(str \o q) = Len(str) + l
  BY <1>3, GlyphsJoined
<1>5. Len(w \o p) = Len(w) + Len(p)
  BY GlyphsJoined
<1>6. CASE Len(w \o p) <= Size - 2
  <2>1. Len(w) <= Size - 2
    BY <1>1, <1>5, <1>6
  <2>2. str = w
    BY <2>1 DEF Shown
  <2>3. l = Len(p)
    BY <1>0, <1>1, <1>5, <1>6, <2>2
  <2>. QED
    BY <1>3, <1>6, <2>2, <2>3 DEF Shown, q
<1>7. CASE ~ (Len(w \o p) <= Size - 2)
  <2>1. Len(str) + l \in {Size - 2, Size - 1}
    <3>1. CASE Len(w) <= Size - 2
      <4>1. str = w
        BY <3>1 DEF Shown
      <4>. QED
        BY <1>0, <1>1, <1>5, <1>7, <4>1
    <3>2. CASE ~ (Len(w) <= Size - 2)
      <4>1. Len(str) \in {Size - 2, Size - 1}
        BY <3>2 DEF Shown
      <4>2. Len(str) = Size - 2
        BY <1>1, <4>1
      <4>. QED
        BY <1>0, <1>1, <1>2, <4>2
    <3>. QED
      BY <3>1, <3>2
  <2>. QED
    BY <1>4, <1>7, <2>1 DEF Shown, q
<1>. QED
  BY <1>6, <1>7

(* A piece is written behind the first e letters of the text. *)
LEMMA PieceWritten ==
  ASSUME NEW bytes \in Seq(GlyphsOrEnd), NEW str \in Seq(Glyphs), IsText(bytes, str),
         NEW e \in 0 .. Len(str), NEW p \in Seq(Glyphs), NEW l \in 0 .. Len(p),
         e + l < Len(bytes)
  PROVE  LET res == O!Overwritten(bytes, e, Append(SubSeq(p, 1, l), NUL))
             str2 == SubSeq(str, 1, e) \o SubSeq(p, 1, l)
         IN  /\ res \in Seq(GlyphsOrEnd) /\ Len(res) = Len(bytes)
             /\ str2 \in Seq(Glyphs) /\ IsText(res, str2) /\ Len(str2) = e + l
<1>. DEFINE front == SubSeq(str, 1, e)
            q == SubSeq(p, 1, l)
            res == O!Overwritten(bytes, e, Append(q, NUL))
<1>1. /\ front \in Seq(Glyphs) /\ Len(front) = e /\ \A k \in 1 .. e : front[k] = str[k]
  BY PrefixIs
<1>2. q \in Seq(Glyphs) /\ Len(q) = l
  BY PrefixIs
<1>3. res = D!Overwritten(bytes, e, Append(q, NUL))
  BY SameBytes
<1>4. \A k \in 1 .. Len(str) : bytes[k] = str[k] /\ str[k] # NUL
  BY DEF IsText
<1>5. Len(str) \in Nat /\ \A k \in 1 .. e : k \in 1 .. Len(str)
  BY LenProperties
<1>. HIDE DEF front, q, res
<1>6. front \in Seq(GlyphsOrEnd) /\ q \in Seq(GlyphsOrEnd) /\ NUL \in GlyphsOrEnd
  BY <1>1, <1>2 DEF GlyphsOrEnd
<1>7. /\ \A k \in 1 .. Len(front) : bytes[k] = front[k] /\ front[k] # NUL
      /\ \A k \in 1 .. Len(q) : q[k] # NUL
      /\ Len(front) + Len(q) < Len(bytes)
  <2>1. \A k \in 1 .. Len(q) : q[k] \in Glyphs
    BY <1>2, LenProperties
  <2>. QED
    BY <1>1, <1>2, <1>4, <1>5, <2>1, OptionConstants
<1>8. res \in Seq(GlyphsOrEnd) /\ Len(res) = Len(bytes) /\ IsText(res, front \o q)
  BY <1>1, <1>3, <1>6, <1>7, WrittenBehind
<1>9. front \o q \in Seq(Glyphs) /\ Len(front \o q) = e + l
  BY <1>1, <1>2, ConcatProperties
<1>. QED
  BY <1>8, <1>9 DEF front, q, res

-----------------------------------------------------------------------------
(* The buffer holds as much of what was printed so far as fits, and the calls
   that are left print the rest.  arg_cat leaves the pointer at the end of the
   text, so that strncat behind it has the room it is told. *)
OptionInv ==
  /\ option \in Options /\ style \in O!Styles
  /\ syntax \in Seq(GlyphsOrEnd) /\ Len(syntax) = Size
  /\ dest \in 0 .. Size - 2 /\ ndest \in Nat /\ dest + ndest = Size - 1
  /\ \E str, w \in Seq(Glyphs) :
       /\ IsText(syntax, str) /\ Shown(str, w)
       /\ Leads(calls, w, O!WholeText(option, style))
       /\ dest <= Len(str)
       /\ calls # <<>> /\ Head(calls).function = "strncat" => dest = Len(str)

LEMMA ArgCatStep == OptionInv /\ O!ArgCat => OptionInv'
<1>. SUFFICES ASSUME OptionInv, O!ArgCat
     PROVE OptionInv'
  OBVIOUS
<1>. DEFINE p == Head(calls).piece
            whole == O!WholeText(option, style)
            e == O!AtEnd
            l == O!Least(Len(p), dest + ndest - 1 - e)
<1>1. /\ option \in Options /\ style \in O!Styles
      /\ syntax \in Seq(GlyphsOrEnd) /\ Len(syntax) = Size
      /\ dest \in 0 .. Size - 2 /\ ndest \in Nat /\ dest + ndest = Size - 1
      /\ Size \in Nat /\ Size > 5
  BY OptionConstants DEF OptionInv
<1>2. PICK str, w \in Seq(Glyphs) :
        /\ IsText(syntax, str) /\ Shown(str, w) /\ Leads(calls, w, whole)
        /\ dest <= Len(str)
  BY DEF OptionInv
<1>3. /\ calls # <<>> /\ Head(calls).function = "arg_cat"
      /\ syntax' = O!Overwritten(syntax, e, Append(SubSeq(p, 1, l), NUL))
      /\ dest' = e + l /\ ndest' = dest + ndest - (e + l)
      /\ calls' = Tail(calls) /\ option' = option /\ style' = style
  BY DEF O!ArgCat, O!Rest
<1>4. p \in Seq(Glyphs) /\ Leads(Tail(calls), w \o p, whole)
  BY <1>2, <1>3, LeadsTail DEF CallType
<1>5. Len(str) \in Nat /\ Len(p) \in Nat /\ Len(str) < Size
  BY <1>1, <1>2, <1>4, LenProperties DEF IsText
<1>6. e = IF Len(str) < Size - 2 THEN Len(str) ELSE Size - 2
  <2>1. dest + ndest - 1 = Size - 2
    BY <1>1
  <2>2. e = dest + D!strlen(SubSeq(syntax, dest + 1, Size - 2))
    BY <2>1, SameBytes DEF O!AtEnd, O!Behind
  <2>3. dest \in 0 .. Len(str) /\ Size - 2 \in dest .. Len(syntax)
    BY <1>1, <1>2, <1>5
  <2>4. str \in Seq(GlyphsOrEnd)
    BY DEF GlyphsOrEnd
  <2>. QED
    BY <1>1, <1>2, <2>2, <2>3, <2>4, StrlenBehind
<1>7. l = IF Len(p) < Size - 2 - e THEN Len(p) ELSE Size - 2 - e
  <2>1. e \in Int
    BY <1>1, <1>5, <1>6
  <2>. HIDE DEF e
  <2>2. dest + ndest - 1 - e = Size - 2 - e
    BY <1>1, <2>1
  <2>3. l = O!Least(Len(p), Size - 2 - e)
    BY <2>2
  <2>. QED
    BY <2>3 DEF O!Least
<1>. HIDE DEF e, l, p, whole
<1>0. CatTakes(Len(str), Len(p), e, l)
  BY <1>6, <1>7 DEF CatTakes
<1>8. /\ e \in 0 .. Len(str) /\ e \in Nat /\ l \in 0 .. Len(p) /\ l \in Nat
      /\ e + l \in 0 .. Size - 2
  <2>1. /\ e \in 0 .. Len(str) /\ e \in Nat /\ l \in 0 .. Len(p) /\ l \in Nat
        /\ Len(str) <= Size - 2 =>
             e = Len(str) /\ l = IF Len(p) < Size - 2 - Len(str) THEN Len(p) ELSE Size - 2 - Len(str)
        /\ Len(str) >= Size - 2 => e = Size - 2 /\ l = 0
    BY <1>0, <1>1, <1>5, CatRoom
  <2>2. e + l \in 0 .. Size - 2
    BY <1>1, <1>5, <2>1
  <2>. QED
    BY <2>1, <2>2
<1>. DEFINE str2 == SubSeq(str, 1, e) \o SubSeq(p, 1, l)
<1>9. /\ syntax' \in Seq(GlyphsOrEnd) /\ Len(syntax') = Size
      /\ str2 \in Seq(Glyphs) /\ IsText(syntax', str2) /\ Len(str2) = e + l
  <2>1. e + l < Len(syntax)
    BY <1>1, <1>8
  <2>. QED
    BY <1>1, <1>2, <1>3, <1>4, <1>8, <2>1, PieceWritten
<1>10. Shown(str2, w \o p)
  <2>1. Len(str) <= Size - 1
    BY <1>1, <1>5
  <2>. QED
    BY <1>0, <1>2, <1>4, <2>1, ShownByCat
<1>11. w \o p \in Seq(Glyphs)
  BY <1>4, ConcatProperties
<1>12. /\ dest' \in 0 .. Size - 2 /\ ndest' \in Nat /\ dest' + ndest' = Size - 1
       /\ dest' = Len(str2)
  <2>. HIDE DEF str2
  <2>1. dest + ndest - (e + l) = Size - 1 - (e + l)
    BY <1>1, <1>8
  <2>. QED
    BY <1>1, <1>3, <1>8, <1>9, <2>1
<1>. HIDE DEF str2
<1>13. O!WholeText(option', style') = whole
  BY <1>3 DEF whole
<1>14. Leads(calls', w \o p, O!WholeText(option', style'))
  BY <1>3, <1>4, <1>13
<1>15. dest' <= Len(str2)
  BY <1>1, <1>12
<1>16. option' \in Options /\ style' \in O!Styles
  BY <1>1, <1>3
<1>. QED
  BY <1>9, <1>10, <1>11, <1>12, <1>14, <1>15, <1>16 DEF OptionInv

LEMMA StrncatStep == OptionInv /\ O!Strncat => OptionInv'
<1>. SUFFICES ASSUME OptionInv, O!Strncat
     PROVE OptionInv'
  OBVIOUS
<1>. DEFINE p == Head(calls).piece
            whole == O!WholeText(option, style)
            e == dest + O!strlen(SubSeq(syntax, dest + 1, Size))
            l == O!Least(Len(p), ndest)
<1>1. /\ option \in Options /\ style \in O!Styles
      /\ syntax \in Seq(GlyphsOrEnd) /\ Len(syntax) = Size
      /\ dest \in 0 .. Size - 2 /\ ndest \in Nat /\ dest + ndest = Size - 1
      /\ Size \in Nat /\ Size > 5
  BY OptionConstants DEF OptionInv
<1>2. /\ calls # <<>> /\ Head(calls).function = "strncat"
      /\ syntax' = O!Overwritten(syntax, e, Append(SubSeq(p, 1, l), NUL))
      /\ calls' = Tail(calls) /\ option' = option /\ style' = style
      /\ dest' = dest /\ ndest' = ndest
  BY DEF O!Strncat
<1>3. PICK str, w \in Seq(Glyphs) :
        /\ IsText(syntax, str) /\ Shown(str, w) /\ Leads(calls, w, whole)
        /\ dest = Len(str)
  BY <1>2 DEF OptionInv
<1>4. /\ p \in Seq(Glyphs) /\ Leads(Tail(calls), w \o p, whole)
      /\ ~ (Tail(calls) # <<>> /\ Head(Tail(calls)).function = "strncat")
  <2>1. Head(calls).function # "arg_cat"
    BY <1>2
  <2>. QED
    BY <1>2, <1>3, <2>1, LeadsTail DEF CallType
<1>5. Len(str) \in Nat /\ Len(p) \in Nat /\ Len(str) < Size
  BY <1>1, <1>3, <1>4, LenProperties DEF IsText
<1>6. e = Len(str)
  <2>1. e = dest + D!strlen(SubSeq(syntax, dest + 1, Size))
    BY SameBytes
  <2>2. dest \in 0 .. Len(str) /\ Size \in dest .. Len(syntax)
    BY <1>1, <1>3, <1>5
  <2>3. str \in Seq(GlyphsOrEnd)
    BY DEF GlyphsOrEnd
  <2>. QED
    BY <1>1, <1>3, <1>5, <2>1, <2>2, <2>3, StrlenBehind
<1>7. l = IF Len(p) < Size - 1 - Len(str) THEN Len(p) ELSE Size - 1 - Len(str)
  <2>1. ndest = Size - 1 - Len(str)
    BY <1>1, <1>3
  <2>. QED
    BY <2>1 DEF O!Least
<1>. HIDE DEF e, l, p, whole
<1>0. NcatTakes(Len(str), Len(p), l)
  BY <1>7 DEF NcatTakes
<1>8. /\ e \in 0 .. Len(str) /\ l \in 0 .. Len(p) /\ l \in Nat /\ e + l < Size
      /\ Len(str) <= Size - 2
  BY <1>1, <1>3, <1>5, <1>6, <1>7
<1>. DEFINE str2 == SubSeq(str, 1, e) \o SubSeq(p, 1, l)
<1>9. /\ syntax' \in Seq(GlyphsOrEnd) /\ Len(syntax') = Size
      /\ str2 \in Seq(Glyphs) /\ IsText(syntax', str2) /\ Len(str2) = e + l
  BY <1>1, <1>2, <1>3, <1>4, <1>8, PieceWritten
<1>10. Shown(str2, w \o p)
  <2>1. SubSeq(str, 1, e) = str
    BY <1>6, <1>8, PrefixIs
  <2>2. Shown(str \o SubSeq(p, 1, l), w \o p)
    BY <1>0, <1>3, <1>4, <1>8, ShownByStrncat
  <2>. QED
    BY <2>1, <2>2
<1>11. w \o p \in Seq(Glyphs)
  BY <1>4, ConcatProperties
<1>12. dest' <= Len(str2)
  <2>. HIDE DEF str2
  <2>1. dest' = e /\ e \in Nat
    BY <1>2, <1>3, <1>5, <1>6
  <2>2. e <= e + l
    BY <1>8, <2>1
  <2>. QED
    BY <1>9, <2>1, <2>2
<1>. HIDE DEF str2
<1>13. O!WholeText(option', style') = whole
  BY <1>2 DEF whole
<1>14. Leads(calls', w \o p, O!WholeText(option', style'))
  BY <1>2, <1>4, <1>13
<1>15. /\ option' \in Options /\ style' \in O!Styles
       /\ dest' \in 0 .. Size - 2 /\ ndest' \in Nat /\ dest' + ndest' = Size - 1
       /\ ~ (calls' # <<>> /\ Head(calls').function = "strncat")
  BY <1>1, <1>2, <1>4
<1>. QED
  BY <1>9, <1>10, <1>11, <1>12, <1>14, <1>15 DEF OptionInv

LEMMA UpToFour == \A k \in 0 .. 4 : k \in Nat /\ k <= 4
OBVIOUS

LEMMA OptionRestsInv == OptionRests => OptionInv
<1>. SUFFICES ASSUME OptionRests
     PROVE OptionInv
  OBVIOUS
<1>. DEFINE str == <<"-", "d">>
            o == AnOption
            ways == O!Ways(o)
<1>1. /\ option = o /\ style = "option" /\ calls = <<>>
      /\ syntax = [k \in 1 .. Size |-> IF k = 1 THEN "-" ELSE IF k = 2 THEN "d" ELSE NUL]
      /\ dest = 2 /\ ndest = Size - 3
  BY DEF OptionRests
<1>2. /\ Size \in Nat /\ Size > 5 /\ o \in Options /\ "option" \in O!Styles
  BY OptionConstants DEF O!Styles
<1>3. o.shorts = <<"d">> /\ o.longs = <<>> /\ o.datatype = O!NoText
  BY DEF AnOption, NoText, O!NoText
<1>4. str \in Seq(Glyphs) /\ "-" # NUL /\ "d" # NUL
  <2>0. "-" \in O!Signs
    BY DEF O!Signs
  <2>1. o.shorts \in Seq(Glyphs) /\ "-" \in Glyphs /\ NUL \notin Glyphs
    BY <1>2, <2>0, OptionConstants
  <2>2. "d" \in Glyphs
    BY <1>3, <2>1
  <2>. QED
    BY <2>1, <2>2
<1>5. syntax \in Seq(GlyphsOrEnd) /\ Len(syntax) = Size
  <2>1. syntax \in [1 .. Size -> GlyphsOrEnd]
    <3>1. "-" \in GlyphsOrEnd /\ "d" \in GlyphsOrEnd /\ NUL \in GlyphsOrEnd
      BY <1>4 DEF GlyphsOrEnd
    <3>. QED
      BY <1>1, <3>1
  <2>. QED
    BY <1>2, <2>1
<1>6. IsText(syntax, str)
  <2>1. Len(str) = 2 /\ str[1] = "-" /\ str[2] = "d" /\ \A k \in 1 .. 2 : k = 1 \/ k = 2
    OBVIOUS
  <2>2. syntax[1] = "-" /\ syntax[2] = "d" /\ syntax[3] = NUL
    BY <1>1, <1>2
  <2>3. 2 < Len(syntax) /\ 2 + 1 = 3
    BY <1>2, <1>5
  <2>. HIDE DEF str
  <2>. QED
    BY <1>4, <2>1, <2>2, <2>3 DEF IsText
<1>7. Len(str) = 2 /\ Shown(str, str)
  BY <1>2 DEF Shown
<1>8. O!WholeText(o, "option") = str
  <2>. DEFINE sep == O!SeparatorOf("option")
  <2>1. sep \in Seq(Glyphs) /\ <<>> \in Seq(Glyphs)
    <3>1. sep = <<"|">>
      BY DEF O!SeparatorOf
    <3>2. <<"|">> \in Seq(Glyphs)
      BY SignTexts, Zenon
    <3>3. <<>> \in Seq(Glyphs)
      OBVIOUS
    <3>. HIDE DEF sep
    <3>. QED
      BY <3>1, <3>2, <3>3
  <2>2. ways = <<str>>
    <3>1. Len(o.shorts) = 1 /\ Len(o.longs) = 0 /\ 1 \in 1 .. 1 /\ o.shorts[1] = "d"
      BY <1>3
    <3>0. 1 + 0 = 1
      OBVIOUS
    <3>2. ways \in Seq(Seq(Glyphs)) /\ Len(ways) = 1 /\ ways[1] = str
      <4>. DEFINE sh == o.shorts
                  lg == o.longs
      <4>1. /\ ways \in Seq(Seq(Glyphs)) /\ Len(ways) = Len(sh) + Len(lg)
            /\ \A k \in 1 .. Len(sh) : ways[k] = <<"-", sh[k]>>
        BY <1>2, WaysAre
      <4>. HIDE DEF ways
      <4>2. Len(sh) = 1 /\ Len(lg) = 0 /\ sh[1] = "d"
        BY <3>1
      <4>. HIDE DEF sh, lg
      <4>. QED
        BY <3>0, <3>1, <4>1, <4>2
    <3>3. <<str>> \in Seq(Seq(Glyphs)) /\ Len(<<str>>) = 1 /\ <<str>>[1] = str
      BY <1>4
    <3>4. \A k \in 1 .. 1 : k = 1
      OBVIOUS
    <3>. HIDE DEF ways, str
    <3>. QED
      BY <3>2, <3>3, <3>4, SeqEqual
  <2>3. O!ShownWays(o, "option") = ways /\ O!Indent(o, "option") = <<>>
    BY DEF O!ShownWays, O!Indent
  <2>4. O!WholeText(o, "option") = ((<<>> \o O!Joined(ways, sep)) \o <<>>) \o <<>>
    BY <1>3, <2>3 DEF O!WholeText
  <2>5. <<>> \o O!Joined(<<str>>, sep) = <<>> \o str
    <3>. HIDE DEF str, sep
    <3>. QED
      BY <1>4, <2>1, JoinedOne
  <2>6. <<>> \o str = str /\ str \o <<>> = str
    <3>. HIDE DEF str
    <3>. QED
      BY <1>4, ConcatEmptySeq
  <2>. HIDE DEF str, ways, sep
  <2>. QED
    BY <2>2, <2>4, <2>5, <2>6
<1>9. Leads(<<>>, str, str)
  BY <1>4, PrintsNothing DEF Prints
<1>10. 2 \in 0 .. Size - 2 /\ Size - 3 \in Nat /\ 2 + (Size - 3) = Size - 1
  BY <1>2
<1>11. Leads(calls, str, O!WholeText(option, style))
  BY <1>1, <1>8, <1>9
<1>12. /\ option \in Options /\ style \in O!Styles /\ calls = <<>> /\ dest = 2
       /\ dest \in 0 .. Size - 2 /\ ndest \in Nat /\ dest + ndest = Size - 1 /\ 2 <= 2
  BY <1>1, <1>2, <1>10
<1>. HIDE DEF str, o
<1>. QED
  BY <1>4, <1>5, <1>6, <1>7, <1>11, <1>12 DEF OptionInv

LEMMA OptionBegins == O!Init => OptionInv
<1>. SUFFICES ASSUME O!Init
     PROVE OptionInv
  OBVIOUS
<1>. DEFINE u == O!Indent(option, style)
            zeros == D!Zeros(Size)
<1>1. /\ option \in Options /\ style \in O!Styles
      /\ calls = O!CallsOf(option, style)
      /\ syntax = D!Overwritten(zeros, 0, Append(u, NUL))
      /\ dest = 0 /\ ndest = Size - 1
  BY SameBytes DEF O!Init, O!Room, D!Copied
<1>2. Size \in Nat /\ Size > 5
  BY OptionConstants
<1>3. u \in Seq(Glyphs) /\ Len(u) \in 0 .. 4
  BY <1>1, IndentIs
<1>4. Prints(calls, u, O!WholeText(option, style))
  BY <1>1, CallsPrint
<1>5. zeros \in Seq(GlyphsOrEnd) /\ Len(zeros) = Size
  <2>1. zeros \in [1 .. Size -> GlyphsOrEnd]
    BY DEF D!Zeros, GlyphsOrEnd
  <2>. QED
    BY <1>2, <2>1
<1>. HIDE DEF u, zeros
<1>6. /\ syntax \in Seq(GlyphsOrEnd) /\ Len(syntax) = Size /\ IsText(syntax, u)
  <2>. DEFINE front == <<>>
  <2>1. u \in Seq(GlyphsOrEnd) /\ NUL \in GlyphsOrEnd
    BY <1>3 DEF GlyphsOrEnd
  <2>2. \A k \in 1 .. Len(u) : u[k] # NUL
    BY <1>3, LenProperties, OptionConstants
  <2>3. front \in Seq(GlyphsOrEnd) /\ Len(front) = 0 /\ 1 .. Len(front) = {}
    OBVIOUS
  <2>4. front \o u = u
    BY <1>3, ConcatEmptySeq
  <2>5. 0 + Len(u) < Len(zeros)
    <3>1. Len(u) \in Nat /\ Len(u) <= 4
      BY <1>3, UpToFour, Zenon
    <3>2. 0 + Len(u) < Size
      BY <1>2, <3>1
    <3>. QED
      BY <1>5, <3>2
  <2>. HIDE DEF front
  <2>6. /\ \A k \in 1 .. Len(front) : zeros[k] = front[k] /\ front[k] # NUL
        /\ Len(front) + Len(u) < Len(zeros)
    BY <2>3, <2>5
  <2>7. LET res == D!Overwritten(zeros, Len(front), Append(u, NUL))
        IN  res \in Seq(GlyphsOrEnd) /\ Len(res) = Len(zeros) /\ IsText(res, front \o u)
    BY <1>5, <2>1, <2>2, <2>3, <2>6, WrittenBehind
  <2>. QED
    BY <1>1, <1>5, <2>3, <2>4, <2>7
<1>7. Shown(u, u)
  <2>1. Len(u) <= Size - 2
    <3>1. Len(u) \in Nat /\ Len(u) <= 4
      BY <1>3, UpToFour, Zenon
    <3>. QED
      BY <1>2, <3>1
  <2>. QED
    BY <2>1 DEF Shown
<1>8. Leads(calls, u, O!WholeText(option, style))
      /\ ~ (calls # <<>> /\ Head(calls).function = "strncat")
  <2>1. calls \in Seq(CallType) /\ (Len(calls) # 0 => calls[1].function = "arg_cat")
    BY <1>4 DEF Prints, Leads
  <2>2. calls # <<>> => Len(calls) # 0 /\ Head(calls) = calls[1]
    BY <2>1, EmptySeq
  <2>. QED
    BY <1>4, <2>1, <2>2 DEF Prints
<1>9. 0 \in 0 .. Size - 2 /\ Size - 1 \in Nat /\ 0 + (Size - 1) = Size - 1 /\ 0 <= Len(u)
  BY <1>2, <1>3
<1>. QED
  BY <1>1, <1>3, <1>6, <1>7, <1>8, <1>9 DEF OptionInv

LEMMA OptionInvInit == PartsInit => OptionInv
BY OptionRestsInv, OptionBegins DEF PartsInit

LEMMA OptionInvStep == OptionInv /\ [PartsNext]_allvars => OptionInv'
<1>. SUFFICES ASSUME OptionInv, [PartsNext]_allvars
     PROVE OptionInv'
  OBVIOUS
<1>1. CASE O!ArgCat
  BY <1>1, ArgCatStep
<1>2. CASE O!Strncat
  BY <1>2, StrncatStep
<1>3. CASE UNCHANGED optionvars
  BY <1>3 DEF OptionInv, optionvars
<1>. QED
  BY <1>1, <1>2, <1>3 DEF PartsNext, allvars, O!Next

LEMMA OptionInvWhole == OptionInv => OptionTextIsWhole
<1>. SUFFICES ASSUME OptionInv
     PROVE OptionTextIsWhole
  OBVIOUS
<1>. DEFINE whole == O!WholeText(option, style)
<1>1. /\ option \in Options /\ style \in O!Styles
      /\ syntax \in Seq(GlyphsOrEnd) /\ Len(syntax) = Size
      /\ dest \in 0 .. Size - 2 /\ dest + ndest = Size - 1
      /\ Size \in Nat
  BY OptionConstants DEF OptionInv
<1>2. PICK str, w \in Seq(Glyphs) :
        IsText(syntax, str) /\ Shown(str, w) /\ Leads(calls, w, whole)
  BY DEF OptionInv
<1>3. D!strlen(syntax) = Len(str) /\ D!String(syntax) = str /\ D!HasEnd(syntax)
  <2>1. str \in Seq(GlyphsOrEnd)
    BY DEF GlyphsOrEnd
  <2>. QED
    BY <1>1, <1>2, <2>1, TextIs
<1>4. O!strlen(syntax) = Len(str) /\ O!String(syntax) = str /\ O!HasEnd(syntax)
  BY <1>3, SameBytes
<1>5. calls = <<>> => w = whole
  BY <1>2 DEF Leads
<1>6. O!WholeIfItFits
  <2>. SUFFICES ASSUME calls = <<>>
       PROVE IF Len(whole) < Size - 1 THEN O!String(syntax) = whole
             ELSE O!strlen(syntax) \in {Size - 2, Size - 1}
    BY DEF O!WholeIfItFits
  <2>1. w = whole /\ Len(w) \in Nat
    BY <1>2, <1>5, LenProperties
  <2>2. Len(w) < Size - 1 <=> Len(w) <= Size - 2
    BY <1>1, <2>1
  <2>. QED
    BY <1>2, <1>4, <2>1, <2>2 DEF Shown
<1>. QED
  BY <1>1, <1>4, <1>6 DEF OptionTextIsWhole, O!TypeOK, O!InBuffer

(* The text of an option ends within its buffer, whatever names and value it
   is made of, and is whole if it fits and fills the buffer if it does not:
   for every option, every size of the buffer and every text that was typed
   (arg_cat, arg_cat_option, arg_cat_optionv). *)
THEOREM OptionsShownWhole == PartsSpec => []OptionTextIsWhole
BY OptionInvInit, OptionInvStep, OptionInvWhole, PTL DEF PartsSpec
=============================================================================
