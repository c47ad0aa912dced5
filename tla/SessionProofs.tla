---------------------------- MODULE SessionProofs ----------------------------
(***************************************************************************)
(* What a session sees of the pages.  Module BTree implements module       *)
(* Table, for every leaf size, set of ids and content of unwritten memory: *)
(* whatever the pages do, a client sees a bag of rows.  An insert moves    *)
(* cells within a leaf, to a new leaf and, when the root is split, to      *)
(* another page; each of these is a bijection of the cells before it and   *)
(* the cells after it but for the new one, so the number of rows with each *)
(* id is what it was, and one more of the id that was inserted.            *)
(*                                                                         *)
(* And the prompt, for every width of int and long, every size of the      *)
(* columns and every set of lines: what a line is understood as and stored *)
(* as is what was typed, and the exit status of a session tells what the   *)
(* file holds.  A line that ends in a newline is prepared as it is, an id  *)
(* that an int can hold is itself modulo the values of an int, and a text  *)
(* that fits leaves room for its NUL.  Between the lines of a session the  *)
(* file is what the session found, and the pages in memory hold a row more *)
(* for each one reported.                                                  *)
(***************************************************************************)
EXTENDS Repl, MCBTree, BTreeOrderProofs, FunctionTheorems

-----------------------------------------------------------------------------
(* Cells and their keys *)

KeyOf(pages, x) == pages[x[1]].cells[x[2]]

(* The cells that hold an id, of which Copies is the number. *)
Slots(pages, k) == {x \in Cells(pages) : KeyOf(pages, x) = k}

LEMMA CellsAre ==
  ASSUME NEW n, NEW pages, Sound(n, pages)
  PROVE  \A x : x \in Cells(pages) <=>
           \E p \in Leaves(pages) : \E c \in DOMAIN pages[p].cells : x = <<p, c>>
<1>1. ASSUME NEW x \in Cells(pages)
      PROVE  \E p \in Leaves(pages) : \E c \in DOMAIN pages[p].cells : x = <<p, c>>
  <2>1. /\ x[1] \in Leaves(pages) /\ x[2] \in DOMAIN pages[x[1]].cells
        /\ x = <<x[1], x[2]>>
    BY DEF Cells
  <2>. QED
    BY <2>1
<1>. QED
  BY <1>1, StoredAre

LEMMA CellParts ==
  ASSUME NEW n, NEW pages, Sound(n, pages), NEW x \in Cells(pages)
  PROVE  /\ x[1] \in Leaves(pages) /\ x[2] \in DOMAIN pages[x[1]].cells
         /\ x = <<x[1], x[2]>>
BY DEF Cells

LEMMA SlotsAreFinite ==
  ASSUME NEW n, NEW pages, Sound(n, pages), NEW k
  PROVE  /\ IsFiniteSet(Slots(pages, k))
         /\ Copies(pages, k) = Cardinality(Slots(pages, k))
         /\ Copies(pages, k) \in Nat
<1>1. Slots(pages, k) \subseteq Cells(pages)
  BY DEF Slots
<1>2. IsFiniteSet(Slots(pages, k))
  BY <1>1, CellsAreFinite, FS_Subset
<1>3. Copies(pages, k) = Cardinality(Slots(pages, k))
  BY DEF Copies, Slots, KeyOf
<1>. QED
  BY <1>2, <1>3, FS_CardinalityType

-----------------------------------------------------------------------------
(* One row more *)

(* result holds the rows of pages, wherever they are now, and a new one. *)
OneMore(pages, key, result) ==
  \E f, new :
    /\ f \in Bijection(Cells(pages), Cells(result) \ {new})
    /\ new \in Cells(result) /\ KeyOf(result, new) = key
    /\ \A x \in Cells(pages) : KeyOf(result, f[x]) = KeyOf(pages, x)

LEMMA OneMoreCopy ==
  ASSUME NEW n, NEW pages, Sound(n, pages), NEW n1, NEW result, Sound(n1, result),
         NEW key, OneMore(pages, key, result), NEW k
  PROVE  Copies(result, k) = IF k = key THEN Copies(pages, k) + 1
                             ELSE Copies(pages, k)
<1>1. PICK f, new :
        /\ f \in Bijection(Cells(pages), Cells(result) \ {new})
        /\ new \in Cells(result) /\ KeyOf(result, new) = key
        /\ \A x \in Cells(pages) : KeyOf(result, f[x]) = KeyOf(pages, x)
  BY DEF OneMore
<1>. DEFINE S == Slots(pages, k)
            T == Slots(result, k) \ {new}
            g == [x \in S |-> f[x]]
<1>2. /\ \A x \in Cells(pages) : f[x] \in Cells(result) /\ f[x] # new
      /\ \A x, y \in Cells(pages) : f[x] = f[y] => x = y
      /\ \A y \in Cells(result) : y # new => \E x \in Cells(pages) : f[x] = y
  <2>1. /\ f \in [Cells(pages) -> Cells(result) \ {new}]
        /\ \A x, y \in Cells(pages) : f[x] = f[y] => x = y
        /\ \A y \in Cells(result) \ {new} : \E x \in Cells(pages) : f[x] = y
    BY <1>1 DEF Bijection, Injection, Surjection, IsInjective
  <2>. QED
    BY <2>1
<1>3. g \in Bijection(S, T)
  <2>1. \A x \in S : x \in Cells(pages) /\ g[x] = f[x] /\ g[x] \in T
    BY <1>1, <1>2 DEF Slots
  <2>2. \A y \in T : \E x \in S : g[x] = y
    BY <1>1, <1>2 DEF Slots
  <2>3. g \in [S -> T]
    BY <2>1
  <2>4. \A x, y \in S : g[x] = g[y] => x = y
    BY <1>2, <2>1
  <2>. HIDE DEF g, S, T
  <2>. QED
    BY <2>2, <2>3, <2>4 DEF Bijection, Injection, Surjection, IsInjective
<1>4. Cardinality(T) = Cardinality(S)
  <2>1. IsFiniteSet(S) /\ ExistsBijection(S, T)
    BY <1>3, SlotsAreFinite DEF ExistsBijection
  <2>. HIDE DEF S, T
  <2>. QED
    BY <2>1, FS_Bijection
<1>5. Cardinality(T) = IF new \in Slots(result, k)
                       THEN Cardinality(Slots(result, k)) - 1
                       ELSE Cardinality(Slots(result, k))
  BY SlotsAreFinite, FS_RemoveElement
<1>6. new \in Slots(result, k) <=> k = key
  BY <1>1 DEF Slots
<1>7. /\ Copies(pages, k) = Cardinality(S) /\ Copies(pages, k) \in Nat
      /\ Copies(result, k) = Cardinality(Slots(result, k))
      /\ Copies(result, k) \in Nat
  BY SlotsAreFinite
<1>. DEFINE a == Copies(pages, k)
            b == Copies(result, k)
<1>. HIDE DEF S, T, g
<1>8. k = key => a = b - 1
  BY <1>4, <1>5, <1>6, <1>7
<1>9. k # key => a = b
  BY <1>4, <1>5, <1>6, <1>7
<1>10. a \in Nat /\ b \in Nat
  BY <1>7
<1>. HIDE DEF a, b
<1>11. b = IF k = key THEN a + 1 ELSE a
  BY <1>8, <1>9, <1>10
<1>. QED
  BY <1>11 DEF a, b

LEMMA OneMoreCell ==
  ASSUME NEW n, NEW pages, Sound(n, pages), NEW n1, NEW result, Sound(n1, result),
         NEW key, OneMore(pages, key, result)
  PROVE  /\ Cardinality(Cells(pages)) \in Nat
         /\ Cardinality(Cells(result)) = Cardinality(Cells(pages)) + 1
         /\ StoredKeys(result) \subseteq StoredKeys(pages) \cup {key}
<1>1. PICK f, new :
        /\ f \in Bijection(Cells(pages), Cells(result) \ {new})
        /\ new \in Cells(result) /\ KeyOf(result, new) = key
        /\ \A x \in Cells(pages) : KeyOf(result, f[x]) = KeyOf(pages, x)
  BY DEF OneMore
<1>2. IsFiniteSet(Cells(pages)) /\ IsFiniteSet(Cells(result))
  BY CellsAreFinite
<1>3. Cardinality(Cells(result) \ {new}) = Cardinality(Cells(pages))
  <2>1. ExistsBijection(Cells(pages), Cells(result) \ {new})
    BY <1>1 DEF ExistsBijection
  <2>. QED
    BY <1>2, <2>1, FS_Bijection
<1>4. Cardinality(Cells(result) \ {new}) = Cardinality(Cells(result)) - 1
  BY <1>1, <1>2, FS_RemoveElement
<1>5. Cardinality(Cells(pages)) \in Nat /\ Cardinality(Cells(result)) \in Nat
  BY <1>2, FS_CardinalityType
<1>6. \A y \in Cells(result) : y # new => \E x \in Cells(pages) : f[x] = y
  BY <1>1 DEF Bijection, Surjection
<1>7. ASSUME NEW y \in Cells(result)
      PROVE  KeyOf(result, y) \in StoredKeys(pages) \cup {key}
  <2>1. CASE y = new
    BY <1>1, <2>1
  <2>2. CASE y # new
    <3>1. PICK x \in Cells(pages) : f[x] = y
      BY <1>6, <2>2
    <3>. QED
      BY <1>1, <3>1 DEF StoredKeys, KeyOf
  <2>. QED
    BY <2>1, <2>2
<1>. DEFINE a == Cardinality(Cells(pages))
            b == Cardinality(Cells(result))
<1>8. b = a + 1
  <2>1. a \in Nat /\ b \in Nat /\ a = b - 1
    BY <1>3, <1>4, <1>5
  <2>. HIDE DEF a, b
  <2>. QED
    BY <2>1
<1>9. StoredKeys(result) \subseteq StoredKeys(pages) \cup {key}
  BY <1>7 DEF StoredKeys, KeyOf
<1>. QED
  BY <1>5, <1>8, <1>9

LEMMA NewPlaces ==
  ASSUME NEW cells \in Seq(Nat), NEW pos \in 0 .. Len(cells), NEW key \in Nat
  PROVE  LET s == InsertAt(cells, pos + 1, key)
             len == Len(cells)
         IN  /\ DOMAIN s = 1 .. len + 1 /\ pos + 1 \in DOMAIN s
             /\ s[pos + 1] = key
             /\ \A c \in 1 .. len : c <= pos => s[c] = cells[c]
             /\ \A c \in 1 .. len : c > pos => s[c + 1] = cells[c]
<1>. DEFINE s == InsertAt(cells, pos + 1, key)
            len == Len(cells)
<1>1. /\ s \in Seq(Nat) /\ Len(s) = len + 1
      /\ \A i \in 1 .. len + 1 :
           s[i] = IF i <= pos THEN cells[i]
                  ELSE IF i = pos + 1 THEN key ELSE cells[i - 1]
  BY InsertedCells, ZenonT(60)
<1>2. DOMAIN s = 1 .. len + 1 /\ len \in Nat
  BY <1>1
<1>. HIDE DEF s, len
<1>3. pos \in 0 .. len
  BY DEF len
<1>4. \A c \in 1 .. len : c <= pos => s[c] = cells[c]
  BY <1>1, <1>2
<1>5. ASSUME NEW c \in 1 .. len, c > pos
      PROVE  s[c + 1] = cells[c]
  <2>1. /\ c + 1 \in 1 .. len + 1 /\ ~(c + 1 <= pos) /\ c + 1 # pos + 1
        /\ (c + 1) - 1 = c
    BY <1>2, <1>3, <1>5
  <2>. QED
    BY <1>1, <2>1
<1>6. s[pos + 1] = key /\ pos + 1 \in 1 .. len + 1
  <2>1. pos + 1 \in 1 .. len + 1 /\ ~(pos + 1 <= pos)
    BY <1>2, <1>3
  <2>. QED
    BY <1>1, <2>1
<1>. QED
  BY <1>2, <1>4, <1>5, <1>6 DEF s, len

(* The cells s, leaf p's with the new one among them, are in the places that
   place says, and the other leaves are what they were. *)
Places(pages, p, s, result, place) ==
  LET others == Leaves(pages) \ {p}
  IN  /\ \A i \in DOMAIN s : /\ place[i] \in Cells(result)
                            /\ KeyOf(result, place[i]) = s[i]
                            /\ place[i][1] \notin others
      /\ \A i, j \in DOMAIN s : place[i] = place[j] => i = j
      /\ \A q \in others : q \in Leaves(result) /\ result[q].cells = pages[q].cells
      /\ \A x \in Cells(result) : \/ x[1] \in others
                                 \/ \E i \in DOMAIN s : place[i] = x

LEMMA RowPlaced ==
  ASSUME NEW n, NEW pages, Sound(n, pages), NEW n1, NEW result, Sound(n1, result),
         NEW p \in Leaves(pages), NEW key \in Nat,
         NEW pos \in 0 .. Len(pages[p].cells),
         NEW place,
         Places(pages, p, InsertAt(pages[p].cells, pos + 1, key), result, place)
  PROVE  OneMore(pages, key, result)
<1>. DEFINE cells == pages[p].cells
            len == Len(cells)
            s == InsertAt(cells, pos + 1, key)
            new == place[pos + 1]
            f == [x \in Cells(pages) |->
                    IF x[1] # p THEN x
                    ELSE IF x[2] <= pos THEN place[x[2]] ELSE place[x[2] + 1]]
<1>1. /\ cells \in Seq(Nat) /\ len \in Nat /\ DOMAIN cells = 1 .. len
      /\ pos \in 0 .. len
  BY LeafCellsType
<1>. HIDE DEF cells
<1>2. /\ DOMAIN s = 1 .. len + 1 /\ pos + 1 \in DOMAIN s /\ s[pos + 1] = key
      /\ \A c \in 1 .. len : c <= pos => s[c] = cells[c]
      /\ \A c \in 1 .. len : c > pos => s[c + 1] = cells[c]
  BY <1>1, NewPlaces
<1>. HIDE DEF s
<1>0. /\ \A i \in DOMAIN s : /\ place[i] \in Cells(result)
                            /\ KeyOf(result, place[i]) = s[i]
                            /\ place[i][1] \notin Leaves(pages) \ {p}
      /\ \A i, j \in DOMAIN s : place[i] = place[j] => i = j
      /\ \A q \in Leaves(pages) \ {p} : /\ q \in Leaves(result)
                                       /\ result[q].cells = pages[q].cells
      /\ \A x \in Cells(result) : \/ x[1] \in Leaves(pages) \ {p}
                                 \/ \E i \in DOMAIN s : place[i] = x
  BY Zenon DEF Places, s, cells
<1>. USE <1>0
<1>. HIDE DEF new, f, len
<1>3. /\ new \in Cells(result) /\ KeyOf(result, new) = key
      /\ new[1] \notin Leaves(pages) \ {p}
  BY <1>2 DEF new
(* The cells of the other leaves stay, the others go where place says. *)
<1>4. ASSUME NEW x \in Cells(pages)
      PROVE  \/ /\ x[1] \in Leaves(pages) \ {p} /\ f[x] = x
             \/ /\ x = <<p, x[2]>> /\ x[2] \in 1 .. len /\ x[2] <= pos
                /\ f[x] = place[x[2]]
             \/ /\ x = <<p, x[2]>> /\ x[2] \in 1 .. len /\ x[2] > pos
                /\ f[x] = place[x[2] + 1]
  <2>1. /\ x[1] \in Leaves(pages) /\ x[2] \in DOMAIN pages[x[1]].cells
        /\ x = <<x[1], x[2]>>
    BY CellParts
  <2>. QED
    BY <1>1, <2>1 DEF cells, f
<1>5. \A x \in Cells(result) : x[1] \in Leaves(pages) \ {p} => x \in Cells(pages)
  <2>1. ASSUME NEW x \in Cells(result), x[1] \in Leaves(pages) \ {p}
        PROVE  x \in Cells(pages)
    <3>1. x[2] \in DOMAIN result[x[1]].cells /\ x = <<x[1], x[2]>>
      BY CellParts
    <3>2. x[2] \in DOMAIN pages[x[1]].cells
      BY <2>1, <3>1
    <3>. QED
      BY <2>1, <3>1, <3>2, CellsAre
  <2>. QED
    BY <2>1
<1>6. \A x \in Cells(pages) : x[1] \in Leaves(pages) \ {p} =>
        x \in Cells(result) /\ KeyOf(result, x) = KeyOf(pages, x)
  <2>1. ASSUME NEW x \in Cells(pages), x[1] \in Leaves(pages) \ {p}
        PROVE  x \in Cells(result) /\ KeyOf(result, x) = KeyOf(pages, x)
    <3>1. x[2] \in DOMAIN pages[x[1]].cells /\ x = <<x[1], x[2]>>
      BY CellParts
    <3>2. x[2] \in DOMAIN result[x[1]].cells /\ x[1] \in Leaves(result)
      BY <2>1, <3>1
    <3>3. x \in Cells(result)
      BY <3>1, <3>2, CellsAre
    <3>. QED
      BY <2>1, <3>3 DEF KeyOf
  <2>. QED
    BY <2>1
<1>7. ASSUME NEW x \in Cells(pages)
      PROVE  /\ f[x] \in Cells(result) \ {new}
             /\ KeyOf(result, f[x]) = KeyOf(pages, x)
  <2>1. CASE x[1] \in Leaves(pages) \ {p} /\ f[x] = x
    BY <1>3, <1>6, <2>1
  <2>2. ASSUME NEW c \in 1 .. len, x = <<p, c>>, c <= pos, f[x] = place[c]
        PROVE  /\ f[x] \in Cells(result) \ {new}
               /\ KeyOf(result, f[x]) = KeyOf(pages, x)
    <3>1. c \in DOMAIN s /\ c # pos + 1 /\ s[c] = cells[c]
      BY <1>1, <1>2, <2>2
    <3>2. KeyOf(pages, x) = cells[c]
      BY <2>2 DEF KeyOf, cells
    <3>. QED
      BY <1>2, <2>2, <3>1, <3>2 DEF new
  <2>3. ASSUME NEW c \in 1 .. len, x = <<p, c>>, c > pos, f[x] = place[c + 1]
        PROVE  /\ f[x] \in Cells(result) \ {new}
               /\ KeyOf(result, f[x]) = KeyOf(pages, x)
    <3>1. c + 1 \in DOMAIN s /\ c + 1 # pos + 1 /\ s[c + 1] = cells[c]
      BY <1>1, <1>2, <2>3
    <3>2. KeyOf(pages, x) = cells[c]
      BY <2>3 DEF KeyOf, cells
    <3>. QED
      BY <1>2, <2>3, <3>1, <3>2 DEF new
  <2>. QED
    BY <1>4, <2>1, <2>2, <2>3
<1>8. ASSUME NEW x \in Cells(pages), NEW y \in Cells(pages), f[x] = f[y]
      PROVE  x = y
  <2>. DEFINE Other(z) == z[1] \in Leaves(pages) \ {p} /\ f[z] = z
              Own(z) == \E c \in 1 .. len, i \in DOMAIN s :
                          /\ z = <<p, c>> /\ f[z] = place[i]
                          /\ i = IF c <= pos THEN c ELSE c + 1
  <2>1. ASSUME NEW z \in Cells(pages)
        PROVE  Other(z) \/ Own(z)
    <3>1. \A c \in 1 .. len : c \in DOMAIN s /\ c + 1 \in DOMAIN s
      BY <1>1, <1>2
    <3>2. \A c \in 1 .. len : c > pos => ~(c <= pos)
      BY <1>1
    <3>. QED
      BY <1>4, <3>1, <3>2
  <2>2. CASE Other(x) /\ Other(y)
    BY <1>8, <2>2
  <2>3. \A z \in Cells(pages) : Own(z) => f[z][1] \notin Leaves(pages) \ {p}
    OBVIOUS
  <2>4. CASE Own(x) /\ Own(y)
    <3>1. PICK c \in 1 .. len, i \in DOMAIN s :
            /\ x = <<p, c>> /\ f[x] = place[i]
            /\ i = IF c <= pos THEN c ELSE c + 1
      BY <2>4
    <3>2. PICK d \in 1 .. len, j \in DOMAIN s :
            /\ y = <<p, d>> /\ f[y] = place[j]
            /\ j = IF d <= pos THEN d ELSE d + 1
      BY <2>4
    <3>3. i = j
      BY <1>8, <3>1, <3>2
    <3>4. c = d
      BY <1>1, <3>1, <3>2, <3>3
    <3>. QED
      BY <3>1, <3>2, <3>4
  <2>. HIDE DEF Own
  <2>. QED
    BY <1>8, <2>1, <2>2, <2>3, <2>4
<1>9. ASSUME NEW y \in Cells(result), y # new
      PROVE  \E x \in Cells(pages) : f[x] = y
  <2>1. CASE y[1] \in Leaves(pages) \ {p}
    <3>1. y \in Cells(pages)
      BY <1>5, <2>1
    <3>. QED
      BY <2>1, <3>1 DEF f
  <2>2. ASSUME NEW i \in DOMAIN s, place[i] = y
        PROVE  \E x \in Cells(pages) : f[x] = y
    <3>1. i # pos + 1 /\ i \in 1 .. len + 1
      BY <1>2, <1>9, <2>2 DEF new
    <3>2. ASSUME NEW c \in 1 .. len, i = IF c <= pos THEN c ELSE c + 1
          PROVE  \E x \in Cells(pages) : f[x] = y
      <4>. DEFINE x == <<p, c>>
      <4>1. x \in Cells(pages) /\ x[1] = p /\ x[2] = c
        BY <1>1, CellsAre DEF cells
      <4>. HIDE DEF x
      <4>2. f[x] = place[i]
        BY <3>2, <4>1 DEF f
      <4>. QED
        BY <2>2, <4>1, <4>2
    <3>3. \/ i \in 1 .. len /\ i <= pos
          \/ i - 1 \in 1 .. len /\ i - 1 > pos /\ i = (i - 1) + 1
      BY <1>1, <3>1
    <3>4. i - 1 > pos => ~(i - 1 <= pos)
      BY <1>1, <3>1
    <3>. QED
      BY <3>2, <3>3, <3>4
  <2>. QED
    BY <2>1, <2>2
<1>10. f \in Bijection(Cells(pages), Cells(result) \ {new})
  <2>1. f \in [Cells(pages) -> Cells(result) \ {new}]
    BY <1>7 DEF f
  <2>. QED
    BY <1>8, <1>9, <2>1 DEF Bijection, Injection, Surjection, IsInjective
<1>11. /\ f \in Bijection(Cells(pages), Cells(result) \ {new})
       /\ new \in Cells(result) /\ KeyOf(result, new) = key
       /\ \A x \in Cells(pages) : KeyOf(result, f[x]) = KeyOf(pages, x)
  BY <1>3, <1>7, <1>10
<1>. QED
  BY <1>11, Zenon DEF OneMore

(* The leaf has room. *)
LEMMA RowInLeaf ==
  ASSUME NEW n, NEW pages, Sound(n, pages), NEW p \in Leaves(pages),
         NEW key \in Nat, NEW pos \in 0 .. Len(pages[p].cells),
         Sound(n, WithRow(pages, p, pos, key))
  PROVE  OneMore(pages, key, WithRow(pages, p, pos, key))
<1>. DEFINE old == pages[p]
            cells == old.cells
            s == InsertAt(cells, pos + 1, key)
            page == [old EXCEPT !.num = @ + 1, !.cells = InsertAt(@, pos + 1, key)]
            result == WithRow(pages, p, pos, key)
            place == [i \in DOMAIN s |-> <<p, i>>]
<1>1. /\ DOMAIN pages = 0 .. n - 1 /\ p \in 0 .. n - 1 /\ old \in Page
      /\ old.type = "leaf"
  BY DEF Sound, UpTo, Leaves
<1>2. page.cells = s /\ page.type = "leaf"
  BY <1>1 DEF Page
<1>3. result = [pages EXCEPT ![p] = page]
  BY DEF WithRow
<1>. HIDE DEF page, result
<1>4. /\ DOMAIN result = 0 .. n - 1 /\ result[p] = page
      /\ \A q \in 0 .. n - 1 : q # p => result[q] = pages[q]
  BY <1>1, <1>3
<1>5. Leaves(result) = Leaves(pages)
  BY <1>1, <1>2, <1>4 DEF Leaves
<1>6. /\ \A q \in Leaves(pages) \ {p} : /\ q \in Leaves(result)
                                        /\ result[q].cells = pages[q].cells
      /\ result[p].cells = s
  BY <1>1, <1>2, <1>4, <1>5 DEF Leaves
<1>. HIDE DEF s, cells, old
<1>7. Sound(n, result)
  BY DEF result
<1>8. ASSUME NEW i \in DOMAIN s
      PROVE  /\ place[i] \in Cells(result) /\ KeyOf(result, place[i]) = s[i]
             /\ place[i][1] \notin Leaves(pages) \ {p} /\ place[i][2] = i
  BY <1>5, <1>6, <1>7, CellsAre DEF KeyOf
<1>9. ASSUME NEW x \in Cells(result)
      PROVE  \/ x[1] \in Leaves(pages) \ {p}
             \/ \E i \in DOMAIN s : place[i] = x
  BY <1>5, <1>6, <1>7, CellParts
<1>. HIDE DEF place
<1>10. \A i, j \in DOMAIN s : place[i] = place[j] => i = j
  BY <1>8
<1>11. Places(pages, p, s, result, place)
  BY <1>6, <1>8, <1>9, <1>10 DEF Places
<1>12. OneMore(pages, key, result)
  BY <1>7, <1>11, RowPlaced DEF s, cells, old
<1>. QED
  BY <1>12 DEF result

(* The leaf is split: its cells go to leaves a and b. *)
Apportioned(pages, p, result, a, lower, b, upper) ==
  LET others == Leaves(pages) \ {p}
  IN  /\ a # b /\ a \notin others /\ b \notin others
      /\ Leaves(result) = others \cup {a, b}
      /\ result[a].cells = lower /\ result[b].cells = upper
      /\ \A q \in others : result[q].cells = pages[q].cells

LEMMA RowInHalves ==
  ASSUME NEW n, NEW pages, Sound(n, pages), NEW n1, NEW result, Sound(n1, result),
         NEW p \in Leaves(pages), NEW key \in Nat,
         NEW pos \in 0 .. Len(pages[p].cells), NEW lower, NEW upper,
         Halving(InsertAt(pages[p].cells, pos + 1, key), lower, upper),
         NEW a, NEW b, Apportioned(pages, p, result, a, lower, b, upper)
  PROVE  OneMore(pages, key, result)
<1>. DEFINE s == InsertAt(pages[p].cells, pos + 1, key)
            l == LeftSplitCount
            r == RightSplitCount
            place == [i \in DOMAIN s |-> IF i <= l THEN <<a, i>> ELSE <<b, i - l>>]
            others == Leaves(pages) \ {p}
<1>0. /\ a # b /\ a \notin others /\ b \notin others
      /\ Leaves(result) = others \cup {a, b}
      /\ result[a].cells = lower /\ result[b].cells = upper
      /\ \A q \in others : result[q].cells = pages[q].cells
  BY DEF Apportioned
<1>. HIDE DEF others
<1>1. /\ DOMAIN s = 1 .. l + r /\ DOMAIN lower = 1 .. l /\ DOMAIN upper = 1 .. r
      /\ l \in Nat /\ r \in Nat
      /\ \A c \in 1 .. l : lower[c] = s[c]
      /\ \A c \in 1 .. r : upper[c] = s[l + c]
  <2>1. /\ l \in Nat /\ r \in Nat /\ l + r = LeafMaxCells + 1
    BY SplitCounts
  <2>2. /\ s \in Seq(Nat) /\ Len(s) = LeafMaxCells + 1
        /\ lower \in Seq(Nat) /\ Len(lower) = l
        /\ upper \in Seq(Nat) /\ Len(upper) = r
        /\ \A c \in 1 .. l : lower[c] = s[c]
        /\ \A c \in 1 .. r : upper[c] = s[l + c]
    BY Zenon DEF Halving
  <2>. HIDE DEF s, l, r
  <2>. QED
    BY <2>1, <2>2
<1>. HIDE DEF s, l, r
<1>2. ASSUME NEW i \in DOMAIN s
      PROVE  \/ /\ i \in 1 .. l /\ place[i] = <<a, i>> /\ lower[i] = s[i]
             \/ /\ i - l \in 1 .. r /\ place[i] = <<b, i - l>>
                /\ upper[i - l] = s[i]
  <2>1. CASE i <= l
    BY <1>1, <2>1
  <2>2. CASE i > l
    <3>1. i - l \in 1 .. r /\ l + (i - l) = i /\ ~(i <= l)
      BY <1>1, <2>2
    <3>. QED
      BY <1>1, <3>1
  <2>. QED
    BY <1>1, <2>1, <2>2
<1>3. ASSUME NEW x \in Cells(result)
      PROVE  \/ x[1] \in others
             \/ \E i \in DOMAIN s : place[i] = x
  <2>1. /\ x[1] \in Leaves(result) /\ x[2] \in DOMAIN result[x[1]].cells
        /\ x = <<x[1], x[2]>>
    BY CellParts
  <2>2. CASE x[1] = a
    <3>1. x[2] \in 1 .. l
      BY <1>0, <1>1, <2>1, <2>2
    <3>2. x[2] \in DOMAIN s /\ x[2] <= l
      BY <1>1, <3>1
    <3>. QED
      BY <2>1, <2>2, <3>2
  <2>3. CASE x[1] = b
    <3>1. x[2] \in 1 .. r
      BY <1>0, <1>1, <2>1, <2>3
    <3>2. /\ l + x[2] \in DOMAIN s /\ ~(l + x[2] <= l) /\ (l + x[2]) - l = x[2]
      BY <1>1, <3>1
    <3>. QED
      BY <2>1, <2>3, <3>2
  <2>. QED
    BY <1>0, <2>1, <2>2, <2>3
<1>. HIDE DEF place
<1>4. ASSUME NEW i \in DOMAIN s
      PROVE  /\ place[i] \in Cells(result) /\ KeyOf(result, place[i]) = s[i]
             /\ place[i][1] \notin others
  <2>1. CASE i \in 1 .. l /\ place[i] = <<a, i>> /\ lower[i] = s[i]
    BY <1>0, <1>1, <2>1, CellsAre DEF KeyOf
  <2>2. CASE i - l \in 1 .. r /\ place[i] = <<b, i - l>> /\ upper[i - l] = s[i]
    BY <1>0, <1>1, <2>2, CellsAre DEF KeyOf
  <2>. QED
    BY <1>2, <2>1, <2>2
<1>5. \A i, j \in DOMAIN s : place[i] = place[j] => i = j
  <2>1. ASSUME NEW i \in DOMAIN s, NEW j \in DOMAIN s, place[i] = place[j]
        PROVE  i = j
    <3>1. i \in Int /\ j \in Int /\ l \in Int
      BY <1>1
    <3>2. i = j \/ i - l = j - l
      BY <1>0, <1>2, <2>1
    <3>. QED
      BY <3>1, <3>2
  <2>. QED
    BY <2>1
<1>6. Places(pages, p, s, result, place)
  BY <1>0, <1>3, <1>4, <1>5 DEF Places, others
<1>. QED
  BY <1>6, RowPlaced DEF s

(* An insert adds its row, whichever of the four ways it goes. *)
LEMMA GrownIsOneMore ==
  ASSUME NEW n, NEW pages, NEW pos, NEW key, NEW w \in Nat, NEW n1, NEW result,
         Grown(n, pages, pos, key, w, n1, result), Sound(n1, result)
  PROVE  OneMore(pages, key, result)
<1>1. ASSUME RootPlaced(n, pages, pos, key)
      PROVE  /\ Sound(n, pages) /\ Leaves(pages) = {Root} /\ n = 1
             /\ key \in Nat /\ pos \in 0 .. Len(pages[Root].cells)
  BY <1>1, LeavesAre DEF RootPlaced, Divides
<1>2. ASSUME NEW i, Placed(n, pages, i, pos, key)
      PROVE  /\ Sound(n, pages) /\ n \in Nat /\ Leaves(pages) = 1 .. n - 1
             /\ Kid(pages, i) \in 1 .. n - 1 /\ key \in Nat
             /\ KidCells(pages)[i] = pages[Kid(pages, i)].cells
             /\ pos \in 0 .. Len(pages[Kid(pages, i)].cells)
  <2>1. /\ Sound(n, pages) /\ IsNode(pages) /\ i \in 0 .. Fanout(pages)
        /\ key \in Nat /\ Divides(KidCells(pages)[i], pos, key)
    BY <1>2 DEF Placed, Aims
  <2>2. /\ Leaves(pages) = 1 .. n - 1 /\ n \in Nat
        /\ Kid(pages, i) \in Leaves(pages)
    <3>1. /\ Leaves(pages) = 1 .. NumLeaves(pages) /\ n = NumLeaves(pages) + 1
          /\ NumLeaves(pages) \in 1 .. 4
          /\ Leaves(pages) = {Kid(pages, j) : j \in 0 .. Fanout(pages)}
      BY <2>1, LeavesAre
    <3>. QED
      BY <2>1, <3>1
  <2>3. KidCells(pages)[i] = pages[Kid(pages, i)].cells
    BY <2>1 DEF KidCells
  <2>. QED
    BY <2>1, <2>2, <2>3 DEF Divides
<1>3. CASE /\ RootPlaced(n, pages, pos, key)
           /\ n1 = n /\ result = WithRow(pages, Root, pos, key)
  BY <1>1, <1>3, RowInLeaf
<1>4. CASE /\ RootPlaced(n, pages, pos, key)
           /\ Len(pages[Root].cells) = LeafMaxCells /\ n1 = 3
           /\ Heightened(SplitPages(n, pages, Root, pos, key, w), result)
  <2>. DEFINE lower == LowerHalf(pages[Root], pos, key)
              upper == UpperHalf(pages[Root], pos, key)
  <2>1. /\ Halving(InsertAt(pages[Root].cells, pos + 1, key), lower, upper)
        /\ IsNode(result) /\ Fanout(result) = 1
        /\ Kid(result, 0) = 2 /\ Kid(result, 1) = 1
        /\ KidCells(result)[0] = lower /\ KidCells(result)[1] = upper
    BY <1>4, RootSplitShape
  <2>. HIDE DEF lower, upper
  <2>2. result[2].cells = lower /\ result[1].cells = upper
    BY <2>1 DEF KidCells
  <2>3. Leaves(result) = {2, 1}
    <3>1. Leaves(result) = 1 .. NumLeaves(result) /\ 3 = NumLeaves(result) + 1
          /\ NumLeaves(result) \in 1 .. 4
      BY <1>4, <2>1, LeavesAre
    <3>. QED
      BY <3>1
  <2>4. Leaves(pages) \ {Root} = {}
    BY <1>1, <1>4
  <2>5. /\ Root \in Leaves(pages) /\ 2 # 1
        /\ Leaves(result) = (Leaves(pages) \ {Root}) \cup {2, 1}
        /\ \A q \in Leaves(pages) \ {Root} : result[q].cells = pages[q].cells
    BY <1>1, <1>4, <2>3, <2>4
  <2>6. Apportioned(pages, Root, result, 2, lower, 1, upper)
    BY <2>2, <2>4, <2>5 DEF Apportioned
  <2>. QED
    BY <1>1, <1>4, <2>1, <2>5, <2>6, RowInHalves
<1>5. ASSUME NEW i, Placed(n, pages, i, pos, key), n1 = n,
             result = WithRow(pages, Kid(pages, i), pos, key)
      PROVE  OneMore(pages, key, result)
  <2>. DEFINE p == Kid(pages, i)
  <2>1. Sound(n, pages) /\ p \in Leaves(pages) /\ key \in Nat
        /\ pos \in 0 .. Len(pages[p].cells) /\ Sound(n, result)
    BY <1>2, <1>5
  <2>. HIDE DEF p
  <2>2. OneMore(pages, key, WithRow(pages, p, pos, key))
    BY <1>5, <2>1, RowInLeaf DEF p
  <2>. QED
    BY <1>5, <2>2 DEF p
<1>6. ASSUME NEW i, Placed(n, pages, i, pos, key),
             Fanout(pages) < InternalMaxCells,
             Len(KidCells(pages)[i]) = LeafMaxCells, n1 = n + 1,
             result = ChildSplit(n, pages, Kid(pages, i), pos, key, w)
      PROVE  OneMore(pages, key, result)
  <2>. DEFINE p == Kid(pages, i)
              lower == LowerHalf(pages[p], pos, key)
              upper == UpperHalf(pages[p], pos, key)
  <2>1. /\ SplitShape(n, pages, result, i, lower, upper)
        /\ Halving(Crowded(pages, i, pos, key)[i], lower, upper)
    BY <1>6, ChildSplitShape
  <2>. HIDE DEF lower, upper
  <2>2. /\ Sound(n, pages) /\ n \in Nat /\ Leaves(pages) = 1 .. n - 1
        /\ p \in 1 .. n - 1 /\ key \in Nat
        /\ KidCells(pages)[i] = pages[p].cells
        /\ pos \in 0 .. Len(pages[p].cells)
    BY <1>2, <1>6
  <2>3. Crowded(pages, i, pos, key)[i] = InsertAt(pages[p].cells, pos + 1, key)
    BY <1>6, <2>2, CrowdedOrder
  <2>4. /\ result[p].cells = lower /\ result[n].cells = upper
        /\ \A q \in 1 .. n - 1 : q # p => result[q] = pages[q]
    BY <2>1 DEF SplitShape
  <2>. HIDE DEF p
  <2>5. Leaves(result) = 1 .. n
    <3>1. IsNode(result)
      BY <1>6, <2>1, SplitKids DEF p
    <3>2. Leaves(result) = 1 .. NumLeaves(result) /\ n + 1 = NumLeaves(result) + 1
          /\ NumLeaves(result) \in 1 .. 4
      BY <1>6, <3>1, LeavesAre
    <3>3. NumLeaves(result) = n
      BY <2>2, <3>2
    <3>. QED
      BY <3>2, <3>3
  <2>6. /\ p # n /\ p \notin Leaves(pages) \ {p} /\ n \notin Leaves(pages) \ {p}
        /\ Leaves(result) = (Leaves(pages) \ {p}) \cup {p, n}
        /\ \A q \in Leaves(pages) \ {p} : result[q].cells = pages[q].cells
    BY <2>2, <2>4, <2>5
  <2>7. Apportioned(pages, p, result, p, lower, n, upper)
    BY <2>4, <2>6 DEF Apportioned
  <2>8. p \in Leaves(pages)
    BY <2>2
  <2>9. Halving(InsertAt(pages[p].cells, pos + 1, key), lower, upper)
    BY <2>1, <2>3
  <2>. QED
    BY <1>6, <2>2, <2>7, <2>8, <2>9, RowInHalves
<1>. QED
  BY <1>3, <1>4, <1>5, <1>6 DEF Grown

-----------------------------------------------------------------------------
(* How many rows there are *)

LEMMA LoneLeafCells ==
  ASSUME NEW n, NEW pages, Sound(n, pages), ~IsNode(pages)
  PROVE  Cardinality(Cells(pages)) = Len(pages[Root].cells)
<1>. DEFINE len == Len(pages[Root].cells)
            f == [i \in 1 .. len |-> <<Root, i>>]
<1>1. /\ Leaves(pages) = {Root} /\ pages[Root].cells \in Seq(Nat)
      /\ len \in Nat /\ DOMAIN pages[Root].cells = 1 .. len
  BY LeavesAre, RootLeafFacts
<1>2. \A x : x \in Cells(pages) <=> \E i \in 1 .. len : x = <<Root, i>>
  BY <1>1, CellsAre
<1>. HIDE DEF len
<1>3. f \in Bijection(1 .. len, Cells(pages))
  <2>1. f \in [1 .. len -> Cells(pages)]
    BY <1>2
  <2>2. \A i, j \in 1 .. len : f[i] = f[j] => i = j
    OBVIOUS
  <2>3. \A y \in Cells(pages) : \E i \in 1 .. len : f[i] = y
    BY <1>2
  <2>. HIDE DEF f
  <2>. QED
    BY <2>1, <2>2, <2>3 DEF Bijection, Injection, Surjection, IsInjective
<1>4. IsFiniteSet(1 .. len) /\ Cardinality(1 .. len) = len
  <2>1. IsFiniteSet(1 .. len) /\ Cardinality(1 .. len) = IF 1 > len THEN 0 ELSE len - 1 + 1
    BY <1>1, FS_Interval
  <2>. QED
    BY <1>1, <2>1
<1>5. Cardinality(Cells(pages)) = Cardinality(1 .. len)
  <2>1. ExistsBijection(1 .. len, Cells(pages))
    BY <1>3 DEF ExistsBijection
  <2>. QED
    BY <1>4, <2>1, FS_Bijection
<1>. QED
  BY <1>4, <1>5 DEF len

LEMMA OnePageIsLeaf ==
  ASSUME NEW pages, Sound(1, pages)
  PROVE  ~IsNode(pages)
BY LeavesAre DEF IsNode

(* What a tree holds: ids of clients, and more of them than fit on one page as
   soon as it has a second level. *)
Kept(pages) ==
  /\ StoredKeys(pages) \subseteq Keys
  /\ IsNode(pages) => Cardinality(Cells(pages)) > LeafMaxCells

LEMMA EmptyIsKept ==
  ASSUME NEW pages, Sound(1, pages), pages[Root].cells = <<>>
  PROVE  /\ Kept(pages) /\ Cells(pages) = {}
<1>1. ~IsNode(pages) /\ Leaves(pages) = {Root}
  BY OnePageIsLeaf, LeavesAre
<1>2. Cells(pages) = {}
  BY <1>1, CellsAre
<1>. QED
  BY <1>1, <1>2 DEF Kept, StoredKeys

LEMMA GrownIsKept ==
  ASSUME NEW n, NEW pages, NEW pos, NEW key \in Keys, NEW w \in Nat, NEW n1,
         NEW result, Grown(n, pages, pos, key, w, n1, result),
         Sound(n1, result), Kept(pages)
  PROVE  Kept(result) /\ OneMore(pages, key, result)
<1>1. Sound(n, pages)
  BY DEF Grown, RootPlaced, Placed
<1>2. OneMore(pages, key, result)
  BY GrownIsOneMore
<1>. DEFINE a == Cardinality(Cells(pages))
            b == Cardinality(Cells(result))
<1>3. /\ a \in Nat /\ b = a + 1
      /\ StoredKeys(result) \subseteq StoredKeys(pages) \cup {key}
  BY <1>1, <1>2, OneMoreCell
<1>4. StoredKeys(result) \subseteq Keys
  BY <1>3 DEF Kept
<1>5. LeafMaxCells \in Nat
  BY SplitCounts
<1>6. CASE ~IsNode(pages) /\ Len(pages[Root].cells) = LeafMaxCells
  <2>1. a = LeafMaxCells
    BY <1>1, <1>6, LoneLeafCells
  <2>2. b > LeafMaxCells
    BY <1>3, <1>5, <2>1
  <2>. QED
    BY <1>2, <1>4, <2>2 DEF Kept
<1>7. CASE IsNode(pages)
  <2>1. a > LeafMaxCells
    BY <1>7 DEF Kept
  <2>2. b > LeafMaxCells
    BY <1>3, <1>5, <2>1
  <2>. QED
    BY <1>2, <1>4, <2>2 DEF Kept
<1>8. CASE RootPlaced(n, pages, pos, key) /\ n1 = n
  <2>1. n1 = 1
    BY <1>8, RootLeafFacts DEF RootPlaced
  <2>2. ~IsNode(result)
    BY <2>1, OnePageIsLeaf
  <2>. QED
    BY <1>2, <1>4, <2>2 DEF Kept
<1>. QED
  BY <1>6, <1>7, <1>8 DEF Grown, RootPlaced, Placed

(* The invariant of the refinement. *)
TableInv ==
  /\ ScanInv
  /\ Running => Kept(db.pages)
  /\ disk # EmptyFile => Kept(disk.pages)

LEMMA RunningIsKept ==
  ASSUME TableInv, Running
  PROVE  \E n, pages : /\ db = Db(n, pages) /\ db.pages = pages
                       /\ Sound(n, pages) /\ Ordered(pages)
                       /\ Chained(pages) /\ Kept(pages)
<1>1. PICK n, pages : /\ db = Db(n, pages) /\ db.pages = pages
                      /\ Sound(n, pages) /\ Ordered(pages)
  BY RunningIsOrdered DEF TableInv, ScanInv
<1>. QED
  BY <1>1 DEF TableInv, ScanInv

(* What an insert does: it finds the key where it looks, or adds the row, or
   the process ends. *)
LEMMA InsertDoes ==
  ASSUME NEW n, NEW pages, db = Db(n, pages), Sound(n, pages), Ordered(pages),
         NEW key \in Keys, NEW w \in Words, Insert(key, w)
  PROVE  \E pos \in LeafPositions(pages[FindLeaf(pages, key)], key) :
           \/ /\ LooksDuplicate(pages, pos, key)
              /\ db' = db /\ reply' = Reply("duplicate", <<key>>)
           \/ /\ db' \in Lost /\ reply' = Reply("none", <<>>)
           \/ /\ ~LooksDuplicate(pages, pos, key)
              /\ reply' = Reply("inserted", <<key>>)
              /\ \E n1, result : /\ db' = Db(n1, result) /\ Sound(n1, result)
                                 /\ Grown(n, pages, pos, key, w, n1, result)
<1>1. db.pages = pages /\ key \in Nat
  BY Fates, BTreeAssumption
<1>. DEFINE leaf == FindLeaf(pages, key)
<1>2. PICK pos \in LeafPositions(pages[leaf], key) :
        IF LooksDuplicate(pages, pos, key)
        THEN reply' = Reply("duplicate", <<key>>) /\ db' = db
        ELSE /\ db' = LeafInsert(db, leaf, pos, key, w)
             /\ reply' = IF db'.fate = "runs" THEN Reply("inserted", <<key>>)
                                              ELSE Reply("none", <<>>)
  BY <1>1 DEF Insert
<1>3. CASE LooksDuplicate(pages, pos, key)
  BY <1>2, <1>3
<1>4. CASE ~LooksDuplicate(pages, pos, key)
  <2>. DEFINE d == LeafInsert(Db(n, pages), leaf, pos, key, w)
  <2>1. \/ d \in Lost
        \/ \E n1, result : /\ d = Db(n1, result) /\ Sound(n1, result)
                           /\ Grown(n, pages, pos, key, w, n1, result)
    BY <1>1, <1>2, InsertCases
  <2>2. /\ db' = d
        /\ reply' = IF db'.fate = "runs" THEN Reply("inserted", <<key>>)
                                         ELSE Reply("none", <<>>)
    BY <1>2, <1>4
  <2>. HIDE DEF d
  <2>3. CASE d \in Lost
    <3>1. db' \in Lost /\ db'.fate # "runs"
      BY <2>2, <2>3, Fates
    <3>. QED
      BY <2>2, <3>1
  <2>4. ASSUME NEW n1, NEW result, d = Db(n1, result), Sound(n1, result),
               Grown(n, pages, pos, key, w, n1, result)
        PROVE  /\ reply' = Reply("inserted", <<key>>)
               /\ db' = Db(n1, result)
    <3>1. db' = Db(n1, result) /\ db'.fate = "runs"
      BY <2>2, <2>4, Fates
    <3>. QED
      BY <2>2, <3>1
  <2>. QED
    BY <1>4, <2>1, <2>3, <2>4
<1>. QED
  BY <1>3, <1>4

LEMMA TableInvIsKept ==
  ASSUME TableInv, [Next]_vars
  PROVE  TableInv'
<1>1. ScanInv /\ ScanInv' /\ OrderInv
  BY ChainIsKept DEF TableInv, ScanInv
<1>2. ASSUME NEW w \in Words, Open(w)
      PROVE  TableInv'
  <2>1. disk' = disk
    BY <1>2 DEF Open
  <2>2. Kept(db'.pages)
    <3>1. ASSUME NEW pages, db' = Db(1, pages), Sound(1, pages),
                 pages[Root].cells = <<>>
          PROVE  Kept(db'.pages)
      BY <3>1, EmptyIsKept, Fates
    <3>2. CASE /\ disk # EmptyFile
               /\ db' = [num_pages |-> disk.num_pages, pages |-> disk.pages,
                         fate |-> "runs"]
      BY <3>2 DEF TableInv
    <3>. QED
      BY <1>1, <1>2, <3>1, <3>2, OpenedTree, OrderInvIsInv
  <2>. QED
    BY <1>1, <2>1, <2>2 DEF TableInv
<1>3. ASSUME NEW key \in Keys, NEW w \in Words, Insert(key, w)
      PROVE  TableInv'
  <2>1. disk' = disk /\ Running
    BY <1>3 DEF Insert
  <2>2. PICK n, pages : /\ db = Db(n, pages) /\ db.pages = pages
                        /\ Sound(n, pages) /\ Ordered(pages) /\ Kept(pages)
    BY <2>1, RunningIsKept
  <2>3. Running' => Kept(db'.pages)
    <3>1. CASE db' = db
      BY <2>2, <3>1
    <3>2. CASE db' \in Lost
      BY <3>2, Fates DEF Running
    <3>3. ASSUME NEW pos, NEW n1, NEW result, db' = Db(n1, result),
                 Sound(n1, result), Grown(n, pages, pos, key, w, n1, result)
          PROVE  Kept(db'.pages)
      <4>1. w \in Nat
        BY BTreeAssumption
      <4>2. Kept(result)
        BY <2>2, <3>3, <4>1, GrownIsKept
      <4>. QED
        BY <3>3, <4>2, Fates
    <3>. QED
      BY <1>3, <2>2, <3>1, <3>2, <3>3, InsertDoes
  <2>. QED
    BY <1>1, <2>1, <2>3 DEF TableInv
<1>4. CASE Select \/ UNCHANGED vars
  BY <1>1, <1>4 DEF Select, vars, TableInv, Running
<1>5. CASE Close
  <2>1. /\ Running /\ ~Running'
        /\ disk' = [num_pages |-> db.num_pages, pages |-> db.pages]
    BY <1>5, Fates DEF Close, Running
  <2>2. disk'.pages = db.pages
    BY <2>1
  <2>. QED
    BY <1>1, <2>1, <2>2 DEF TableInv
<1>6. CASE Kill
  <2>1. ~Running' /\ disk' = disk
    BY <1>6, Fates DEF Kill, Running
  <2>. QED
    BY <1>1, <2>1 DEF TableInv
<1>. QED
  BY <1>2, <1>3, <1>4, <1>5, <1>6 DEF Next

LEMMA TableInvHolds == Spec => []TableInv
<1>1. Init => TableInv
  BY Fates DEF Init, TableInv, ScanInv, OrderInv, Running
<1>2. TableInv /\ [Next]_vars => TableInv'
  BY TableInvIsKept
<1>. QED
  BY <1>1, <1>2, PTL DEF Spec

-----------------------------------------------------------------------------
(* The bag of the rows *)

LEMMA BagType ==
  ASSUME NEW n, NEW pages, Sound(n, pages)
  PROVE  BagOf(pages) \in [Keys -> Nat]
BY SlotsAreFinite DEF BagOf

LEMMA BagAfter ==
  ASSUME NEW n, NEW pages, Sound(n, pages), NEW n1, NEW result, Sound(n1, result),
         NEW key \in Keys, OneMore(pages, key, result)
  PROVE  BagOf(result) = [BagOf(pages) EXCEPT ![key] = @ + 1]
<1>1. \A k \in Keys : Copies(result, k) = IF k = key THEN Copies(pages, k) + 1
                                          ELSE Copies(pages, k)
  BY OneMoreCopy
<1>. QED
  BY <1>1 DEF BagOf

LEMMA BagOfNothing ==
  ASSUME NEW pages, Cells(pages) = {}
  PROVE  BagOf(pages) = [k \in Keys |-> 0]
<1>1. \A k \in Keys : Copies(pages, k) = 0
  <2>1. \A k : {c \in Cells(pages) : pages[c[1]].cells[c[2]] = k} = {}
    OBVIOUS
  <2>. QED
    BY <2>1, FS_EmptySet DEF Copies
<1>. QED
  BY <1>1 DEF BagOf

LEMMA NoBag == BagOf(NoPages) = [k \in Keys |-> 0]
<1>1. Leaves(NoPages) = {}
  BY DEF Leaves, NoPages
<1>2. Cells(NoPages) = {}
  BY <1>1 DEF Cells
<1>. QED
  BY <1>2, BagOfNothing

LEMMA StoredIsPositive ==
  ASSUME NEW n, NEW pages, Sound(n, pages), StoredKeys(pages) \subseteq Keys
  PROVE  StoredKeys(pages) = {k \in Keys : BagOf(pages)[k] > 0}
<1>1. ASSUME NEW k \in Keys
      PROVE  BagOf(pages)[k] > 0 <=> k \in StoredKeys(pages)
  <2>1. /\ IsFiniteSet(Slots(pages, k)) /\ BagOf(pages)[k] = Cardinality(Slots(pages, k))
        /\ BagOf(pages)[k] \in Nat
    BY SlotsAreFinite DEF BagOf
  <2>2. BagOf(pages)[k] = 0 <=> Slots(pages, k) = {}
    BY <2>1, FS_EmptySet
  <2>3. Slots(pages, k) # {} <=> k \in StoredKeys(pages)
    BY DEF Slots, StoredKeys, KeyOf
  <2>. QED
    BY <2>1, <2>2, <2>3
<1>. QED
  BY <1>1

-----------------------------------------------------------------------------
(* All the rows of the bag *)

RowsOf(bag) == UNION {{k} \X (1 .. bag[k]) : k \in Keys}

(* The rows of the bag and the cells are equally many. *)
LEMMA AllRows ==
  ASSUME NEW n, NEW pages, Sound(n, pages), StoredKeys(pages) \subseteq Keys
  PROVE  Cardinality(RowsOf(BagOf(pages))) = Cardinality(Cells(pages))
<1>. DEFINE C == Cells(pages)
            R == RowsOf(BagOf(pages))
            num(k) == Copies(pages, k)
            S(k) == Slots(pages, k)
            F == [k \in Keys |-> CHOOSE f : f \in Bijection(1 .. num(k), S(k))]
            g == [y \in R |-> F[y[1]][y[2]]]
<1>1. \A k \in Keys : BagOf(pages)[k] = num(k) /\ num(k) \in Nat
  BY SlotsAreFinite DEF BagOf
<1>2. ASSUME NEW k \in Keys
      PROVE  F[k] \in Bijection(1 .. num(k), S(k))
  <2>1. IsFiniteSet(S(k)) /\ num(k) = Cardinality(S(k))
    BY SlotsAreFinite
  <2>. HIDE DEF S, num
  <2>2. ExistsBijection(1 .. num(k), S(k))
    BY <2>1, FS_CardinalityType
  <2>3. \E f : f \in Bijection(1 .. num(k), S(k))
    BY <2>2 DEF ExistsBijection
  <2>. QED
    BY <2>3
<1>. HIDE DEF F
<1>3. ASSUME NEW k \in Keys
      PROVE  /\ \A c \in 1 .. num(k) : F[k][c] \in S(k)
             /\ \A c, d \in 1 .. num(k) : F[k][c] = F[k][d] => c = d
             /\ \A x \in S(k) : \E c \in 1 .. num(k) : F[k][c] = x
  <2>. HIDE DEF S, num
  <2>. QED
    BY <1>2 DEF Bijection, Injection, Surjection, IsInjective
<1>4. \A x : x \in S(KeyOf(pages, x)) <=> x \in C
  BY DEF Slots
<1>5. \A k : \A x \in S(k) : x \in C /\ KeyOf(pages, x) = k
  BY DEF Slots
<1>6. \A x \in C : KeyOf(pages, x) \in Keys
  BY DEF StoredKeys, KeyOf
<1>7. \A y : y \in R <=> \E k \in Keys : \E c \in 1 .. num(k) : y = <<k, c>>
  BY <1>1 DEF RowsOf
<1>. HIDE DEF C, R, S, num
<1>8. g \in Bijection(R, C)
  <2>1. ASSUME NEW y \in R
        PROVE  /\ y[1] \in Keys /\ y[2] \in 1 .. num(y[1]) /\ y = <<y[1], y[2]>>
               /\ g[y] = F[y[1]][y[2]] /\ g[y] \in S(y[1])
    <3>1. PICK k \in Keys : \E c \in 1 .. num(k) : y = <<k, c>>
      BY <1>7
    <3>2. y[1] \in Keys /\ y[2] \in 1 .. num(y[1]) /\ y = <<y[1], y[2]>>
      BY <3>1
    <3>. QED
      BY <1>3, <3>2
  <2>2. g \in [R -> C]
    BY <1>5, <2>1
  <2>3. ASSUME NEW y \in R, NEW z \in R, g[y] = g[z]
        PROVE  y = z
    <3>1. y[1] = z[1]
      BY <1>5, <2>1, <2>3
    <3>2. F[y[1]][y[2]] = F[y[1]][z[2]] /\ z[2] \in 1 .. num(y[1])
      BY <2>1, <2>3, <3>1
    <3>3. y[2] = z[2]
      BY <1>3, <2>1, <3>2
    <3>. QED
      BY <2>1, <3>1, <3>3
  <2>4. ASSUME NEW x \in C
        PROVE  \E y \in R : g[y] = x
    <3>. DEFINE k == KeyOf(pages, x)
    <3>1. k \in Keys /\ x \in S(k)
      BY <1>4, <1>6
    <3>. HIDE DEF k
    <3>2. PICK c \in 1 .. num(k) : F[k][c] = x
      BY <1>3, <3>1
    <3>3. <<k, c>> \in R
      BY <1>7, <3>1
    <3>. QED
      BY <3>2, <3>3
  <2>. HIDE DEF g
  <2>. QED
    BY <2>2, <2>3, <2>4 DEF Bijection, Injection, Surjection, IsInjective
<1>9. ExistsBijection(C, R)
  BY <1>8, Fun_ExistsBijSymmetric DEF ExistsBijection
<1>10. IsFiniteSet(C)
  BY CellsAreFinite DEF C
<1>11. Cardinality(R) = Cardinality(C)
  BY <1>9, <1>10, FS_Bijection
<1>. QED
  BY <1>11 DEF C, R

(* As long as the rows fit on one page the root is a leaf, *)
LEMMA OnePageIsEnough ==
  ASSUME NEW n, NEW pages, Sound(n, pages), Kept(pages),
         Cardinality(RowsOf(BagOf(pages))) <= LeafMaxCells
  PROVE  ~IsNode(pages)
<1>1. Cardinality(RowsOf(BagOf(pages))) = Cardinality(Cells(pages))
  BY AllRows DEF Kept
<1>. DEFINE a == Cardinality(Cells(pages))
<1>2. a \in Nat /\ LeafMaxCells \in Nat /\ a <= LeafMaxCells
  BY <1>1, CellsAreFinite, FS_CardinalityType, SplitCounts
<1>3. IsNode(pages) => a > LeafMaxCells
  BY DEF Kept
<1>. HIDE DEF a
<1>. QED
  BY <1>2, <1>3

(* and the search for a key that the root is compared with ends in the root. *)
LEMMA LoneDuplicate ==
  ASSUME NEW n, NEW pages, Sound(n, pages), Ordered(pages), ~IsNode(pages),
         NEW key \in Nat,
         NEW pos \in LeafPositions(pages[FindLeaf(pages, key)], key)
  PROVE  LooksDuplicate(pages, pos, key) <=> key \in StoredKeys(pages)
<1>. DEFINE cells == pages[Root].cells
<1>1. /\ pages[Root].type = "leaf" /\ cells \in Seq(Nat)
      /\ pages[Root].num = Len(cells) /\ Leaves(pages) = {Root}
  BY RootLeafFacts, LeavesAre
<1>2. FindLeaf(pages, key) = Root
  BY <1>1 DEF FindLeaf, StepDown
<1>3. Divides(cells, pos, key)
  BY <1>1, <1>2, FoundPosition DEF Ordered
<1>4. LooksDuplicate(pages, pos, key) <=> pos < Len(cells) /\ cells[pos + 1] = key
  BY <1>1 DEF LooksDuplicate, LeafKey
<1>5. key \in StoredKeys(pages) <=> \E c \in DOMAIN cells : cells[c] = key
  BY <1>1, StoredAre
<1>. HIDE DEF cells
<1>6. /\ DOMAIN cells = 1 .. Len(cells) /\ Len(cells) \in Nat
      /\ pos \in 0 .. Len(cells)
  BY <1>1, <1>3 DEF Divides
<1>7. pos < Len(cells) => pos + 1 \in DOMAIN cells
  BY <1>6
<1>8. (\E c \in DOMAIN cells : cells[c] = key)
        => pos < Len(cells) /\ cells[pos + 1] = key
  BY <1>3, <1>6 DEF Divides
<1>. QED
  BY <1>4, <1>5, <1>7, <1>8

-----------------------------------------------------------------------------
(* What a scan shows *)

(* A scan prints every cell at most once. *)
LEMMA ScanNoMore ==
  ASSUME NEW n, NEW pages, Sound(n, pages), Threaded(pages),
         NEW rows \in Scans(pages), NEW k
  PROVE  Cardinality({i \in DOMAIN rows : rows[i] = k}) <= Copies(pages, k)
<1>. DEFINE p == FindLeaf(pages, 0)
            m == NumLeaves(pages)
<1>1. PICK pos \in LeafPositions(pages[p], 0) : rows = RowsFrom(pages, p, pos)
  BY DEF Scans
<1>2. p \in Leaves(pages)
  <2>1. p \in 0 .. n - 1 /\ pages[p].type = "leaf"
    BY FindLeafFinds
  <2>2. DOMAIN pages = 0 .. n - 1
    BY DEF Sound, UpTo
  <2>. QED
    BY <2>1, <2>2 DEF Leaves
<1>. HIDE DEF p
<1>3. pos \in Nat
  <2>1. pages[p].cells \in Seq(Nat)
    BY <1>2, LeafCellsType
  <2>2. pos \in 0 .. Len(pages[p].cells) /\ Len(pages[p].cells) \in Nat
    BY <2>1, LeafPositionRange
  <2>. QED
    BY <2>2
<1>4. PICK f : Threads(f, m, Leaves(pages), pages)
  BY DEF Threaded
<1>5. PICK a \in 1 .. m : f[a] = p
  BY <1>2, <1>4 DEF Threads
<1>. DEFINE seqs == Rest(f, a, pages)
            all == FlattenSeq(seqs)
            count == m + 1 - a
            R == {i \in DOMAIN rows : rows[i] = k}
<1>6. /\ Joins(all, seqs, count) /\ Drawn(all, seqs, count)
      /\ rows = SubSeq(all, pos + 1, Len(all))
  BY <1>1, <1>3, <1>4, <1>5, RowsFromLeaf
<1>7. /\ m \in 1 .. 4 /\ count \in 1 .. 4
      /\ \A j \in 1 .. count : /\ seqs[j] = pages[f[a - 1 + j]].cells
                               /\ a - 1 + j \in 1 .. m
  <2>1. m \in 1 .. 4
    BY LeavesAre
  <2>2. \A j \in 1 .. count : a - 1 + j \in 1 .. m
    BY <2>1
  <2>. QED
    BY <2>1, <2>2 DEF Rest
<1>. HIDE DEF seqs, all, count, m
<1>8. \A i \in DOMAIN rows : pos + i \in DOMAIN all /\ rows[i] = all[pos + i]
  <2>1. all \in Seq(Nat)
    BY <1>6 DEF Joins
  <2>2. DOMAIN all = 1 .. Len(all) /\ Len(all) \in Nat
    BY <2>1
  <2>3. \A i \in pos + 1 .. Len(all) : all[i] \in Nat
    BY <1>3, <2>1, <2>2
  <2>4. /\ rows \in Seq(Nat)
        /\ Len(rows) = IF pos + 1 <= Len(all) THEN Len(all) - (pos + 1) + 1 ELSE 0
        /\ \A i \in 1 .. Len(all) - (pos + 1) + 1 : rows[i] = all[(pos + 1) + i - 1]
    BY <1>3, <1>6, <2>2, <2>3, SubSeqProperties
  <2>5. DOMAIN rows = 1 .. Len(rows)
    BY <2>4
  <2>. DEFINE len == Len(all)
              size == Len(rows)
  <2>6. len \in Nat /\ size = (IF pos + 1 <= len THEN len - (pos + 1) + 1 ELSE 0)
    BY <2>2, <2>4
  <2>. HIDE DEF len, size
  <2>7. ASSUME NEW i \in 1 .. size
        PROVE  /\ pos + i \in 1 .. len /\ (pos + 1) + i - 1 = pos + i
               /\ i \in 1 .. len - (pos + 1) + 1
    BY <1>3, <2>6
  <2>. QED
    BY <2>2, <2>4, <2>5, <2>7 DEF len, size
<1>9. PICK from, cell :
        /\ \A x \in DOMAIN all :
             /\ from[x] \in 1 .. count /\ cell[x] \in DOMAIN seqs[from[x]]
             /\ all[x] = seqs[from[x]][cell[x]]
        /\ \A x, y \in DOMAIN all :
             from[x] = from[y] /\ cell[x] = cell[y] => x = y
  BY <1>6, Zenon DEF Drawn, DrawnBy
<1>. DEFINE h == [i \in R |-> <<f[a - 1 + from[pos + i]], cell[pos + i]>>]
<1>10. ASSUME NEW i \in R
       PROVE  h[i] \in Slots(pages, k)
  <2>1. /\ pos + i \in DOMAIN all /\ all[pos + i] = k
    BY <1>8
  <2>. DEFINE x == pos + i
              j == from[x]
  <2>2. /\ j \in 1 .. count /\ cell[x] \in DOMAIN seqs[j] /\ seqs[j][cell[x]] = k
    BY <1>9, <2>1
  <2>3. h[i] = <<f[a - 1 + j], cell[x]>>
    OBVIOUS
  <2>. HIDE DEF x, j, h
  <2>4. seqs[j] = pages[f[a - 1 + j]].cells /\ f[a - 1 + j] \in Leaves(pages)
    BY <1>4, <1>7, <2>2 DEF Threads
  <2>5. <<f[a - 1 + j], cell[x]>> \in Cells(pages)
    BY <2>2, <2>4, CellsAre
  <2>. QED
    BY <2>2, <2>3, <2>4, <2>5 DEF Slots, KeyOf
<1>11. ASSUME NEW i \in R, NEW j \in R, h[i] = h[j]
       PROVE  i = j
  <2>1. pos + i \in DOMAIN all /\ pos + j \in DOMAIN all
    BY <1>8
  <2>. DEFINE x == pos + i
              y == pos + j
              b == from[x]
              c == from[y]
  <2>2. f[a - 1 + b] = f[a - 1 + c] /\ cell[x] = cell[y]
    BY <1>11
  <2>3. b \in 1 .. count /\ c \in 1 .. count
    BY <1>9, <2>1
  <2>. HIDE DEF b, c, x, y
  <2>4. a - 1 + b = a - 1 + c
    BY <1>4, <1>7, <2>2, <2>3 DEF Threads
  <2>5. b = c
    BY <1>7, <2>3, <2>4
  <2>6. x = y
    BY <1>9, <2>1, <2>2, <2>5 DEF x, y, b, c
  <2>7. i \in Int /\ j \in Int
    <3>1. rows \in Seq(Nat)
      BY ScansAreRows
    <3>. QED
      BY <3>1
  <2>. QED
    BY <1>3, <2>6, <2>7 DEF x, y
<1>12. h \in Injection(R, Slots(pages, k))
  <2>1. h \in [R -> Slots(pages, k)]
    BY <1>10
  <2>. HIDE DEF h, R
  <2>. QED
    BY <1>11, <2>1 DEF Injection, IsInjective
<1>13. /\ IsFiniteSet(Slots(pages, k))
       /\ Copies(pages, k) = Cardinality(Slots(pages, k))
  BY SlotsAreFinite
<1>. HIDE DEF h, R
<1>14. Cardinality(R) <= Cardinality(Slots(pages, k))
  BY <1>12, <1>13, FS_Injection
<1>. QED
  BY <1>13, <1>14 DEF R

(* No id is stored twice if no id is in two cells. *)
LEMMA OnceIsUnique ==
  ASSUME NEW n, NEW pages, Sound(n, pages), StoredKeys(pages) \subseteq Keys,
         \A k \in Keys : BagOf(pages)[k] <= 1
  PROVE  UniqueKeys(pages)
<1>. DEFINE C == Cells(pages)
            T == StoredKeys(pages)
            g == [x \in C |-> KeyOf(pages, x)]
<1>1. ASSUME NEW x \in C, NEW y \in C, KeyOf(pages, x) = KeyOf(pages, y)
      PROVE  x = y
  <2>. DEFINE k == KeyOf(pages, x)
              S == Slots(pages, k)
  <2>1. x \in S /\ y \in S /\ k \in Keys
    BY <1>1 DEF Slots, StoredKeys, KeyOf
  <2>2. IsFiniteSet(S) /\ Cardinality(S) \in Nat /\ Cardinality(S) <= 1
    <3>1. k \in Keys /\ BagOf(pages)[k] = Copies(pages, k)
      BY <2>1 DEF BagOf
    <3>. QED
      BY <3>1, SlotsAreFinite
  <2>. HIDE DEF S, k
  <2>3. Cardinality(S \ {x}) = Cardinality(S) - 1 /\ IsFiniteSet(S \ {x})
    BY <2>1, <2>2, FS_RemoveElement
  <2>4. Cardinality(S \ {x}) \in Nat
    BY <2>3, FS_CardinalityType
  <2>5. Cardinality(S \ {x}) = 0
    BY <2>2, <2>3, <2>4
  <2>6. S \ {x} = {}
    BY <2>3, <2>5, FS_EmptySet
  <2>. QED
    BY <2>1, <2>6
<1>2. g \in Bijection(C, T)
  <2>1. g \in [C -> T]
    BY DEF StoredKeys, KeyOf
  <2>2. \A y \in T : \E x \in C : g[x] = y
    BY DEF StoredKeys, KeyOf
  <2>3. \A x, y \in C : g[x] = g[y] => x = y
    BY <1>1
  <2>. HIDE DEF g, C, T
  <2>. QED
    BY <2>1, <2>2, <2>3 DEF Bijection, Injection, Surjection, IsInjective
<1>3. IsFiniteSet(C) /\ ExistsBijection(C, T)
  BY <1>2, CellsAreFinite DEF ExistsBijection
<1>. HIDE DEF C, T
<1>4. Cardinality(T) = Cardinality(C)
  BY <1>3, FS_Bijection
<1>. QED
  BY <1>4 DEF UniqueKeys, C, T

-----------------------------------------------------------------------------
(* Every step is one of the table *)

(* Table counts with an instance of FiniteSets of its own. *)
LEMMA SameCount == \A S : Client!Cardinality(S) = Cardinality(S)
BY DEF Client!Cardinality, Cardinality

LEMMA ClosedHoldsNothing ==
  /\ BagOf(Closed.pages) = Client!Empty
  /\ \A lost \in Lost : BagOf(lost.pages) = Client!Empty
  /\ BagOf(EmptyFile.pages) = Client!Empty
BY NoBag DEF Closed, Lost, Exited, Outside, EmptyFile, Client!Empty

LEMMA OpenStarts ==
  ASSUME TableInv, NEW w \in Words, Open(w)
  PROVE  Client!Start
<1>1. /\ ~Running /\ disk' = disk /\ reply' = [kind |-> "none", rows |-> <<>>]
  BY DEF Open, Reply
<1>2. Inv
  BY OrderInvIsInv DEF TableInv, ScanInv
<1>3. CASE disk = EmptyFile
  <2>1. PICK pages : /\ db' = Db(1, pages) /\ Sound(1, pages)
                     /\ pages[Root].cells = <<>>
    BY <1>2, <1>3, OpenedTree
  <2>2. Cells(pages) = {} /\ db'.pages = pages /\ Running'
    BY <2>1, EmptyIsKept, Fates DEF Running
  <2>3. BagOf(db'.pages) = BagOf(disk.pages)
    <3>1. BagOf(pages) = Client!Empty
      BY <2>2, BagOfNothing DEF Client!Empty
    <3>. QED
      BY <1>3, <2>2, <3>1, ClosedHoldsNothing
  <2>. QED
    BY <1>1, <2>2, <2>3 DEF Client!Start, Client!NoReply
<1>4. CASE disk # EmptyFile
  <2>1. disk.num_pages # 0
    BY <1>2, <1>4 DEF Inv, Sound
  <2>2. db' = [num_pages |-> disk.num_pages, pages |-> disk.pages, fate |-> "runs"]
    BY <2>1 DEF Open
  <2>3. db'.pages = disk.pages /\ Running'
    BY <2>2 DEF Running
  <2>4. BagOf(db'.pages) = BagOf(disk.pages)
    BY <2>3
  <2>. QED
    BY <1>1, <2>3, <2>4 DEF Client!Start, Client!NoReply
<1>. QED
  BY <1>3, <1>4

LEMMA CloseStops ==
  ASSUME Close
  PROVE  Client!Stop
<1>1. /\ Running /\ reply' = [kind |-> "none", rows |-> <<>>]
      /\ db' = Closed /\ disk'.pages = db.pages
  BY DEF Close, Reply
<1>2. ~Running' /\ BagOf(db'.pages) = Client!Empty
  BY <1>1, ClosedHoldsNothing, Fates DEF Running
<1>. QED
  BY <1>1, <1>2 DEF Client!Stop, Client!NoReply

LEMMA EndDies ==
  ASSUME Running, db' \in Lost \cup {Closed}, disk' = disk,
         reply' = Reply("none", <<>>)
  PROVE  Client!Die
<1>1. ~Running' /\ BagOf(db'.pages) = Client!Empty
  BY ClosedHoldsNothing, Fates DEF Running
<1>. QED
  BY <1>1 DEF Client!Die, Client!NoReply, Reply

LEMMA InsertAdds ==
  ASSUME TableInv, NEW key \in Keys, NEW w \in Words, Insert(key, w)
  PROVE  Client!Add(key) \/ Client!Reject(key) \/ Client!Die
<1>1. Running /\ disk' = disk /\ key \in Nat /\ w \in Nat
  BY BTreeAssumption DEF Insert
<1>2. PICK n, pages : /\ db = Db(n, pages) /\ db.pages = pages
                      /\ Sound(n, pages) /\ Ordered(pages) /\ Kept(pages)
  BY <1>1, RunningIsKept
<1>3. PICK pos \in LeafPositions(pages[FindLeaf(pages, key)], key) :
        \/ /\ LooksDuplicate(pages, pos, key)
           /\ db' = db /\ reply' = Reply("duplicate", <<key>>)
        \/ /\ db' \in Lost /\ reply' = Reply("none", <<>>)
        \/ /\ ~LooksDuplicate(pages, pos, key)
           /\ reply' = Reply("inserted", <<key>>)
           /\ \E n1, result : /\ db' = Db(n1, result) /\ Sound(n1, result)
                              /\ Grown(n, pages, pos, key, w, n1, result)
  BY <1>2, InsertDoes
<1>4. Client!OnePage => (LooksDuplicate(pages, pos, key) <=> key \in Client!Stored)
  <2>1. ASSUME Client!OnePage
        PROVE  LooksDuplicate(pages, pos, key) <=> key \in Client!Stored
    <3>1. Cardinality(RowsOf(BagOf(pages))) <= LeafMaxCells
      BY <1>2, <2>1, SameCount DEF Client!OnePage, Client!All, RowsOf
    <3>2. ~IsNode(pages)
      BY <1>2, <3>1, OnePageIsEnough
    <3>3. LooksDuplicate(pages, pos, key) <=> key \in StoredKeys(pages)
      BY <1>1, <1>2, <3>2, LoneDuplicate
    <3>4. StoredKeys(pages) = Client!Stored
      BY <1>2, StoredIsPositive DEF Kept, Client!Stored
    <3>. QED
      BY <3>3, <3>4
  <2>. QED
    BY <2>1
<1>5. CASE /\ LooksDuplicate(pages, pos, key)
           /\ db' = db /\ reply' = Reply("duplicate", <<key>>)
  <2>1. BagOf(db.pages)' = BagOf(db.pages) /\ BagOf(disk.pages)' = BagOf(disk.pages)
        /\ Running' = Running
    BY <1>1, <1>5 DEF Running
  <2>. QED
    BY <1>1, <1>4, <1>5, <2>1 DEF Client!Reject, Reply
<1>6. CASE db' \in Lost /\ reply' = Reply("none", <<>>)
  BY <1>1, <1>6, EndDies
<1>7. ASSUME ~LooksDuplicate(pages, pos, key),
             reply' = Reply("inserted", <<key>>),
             NEW n1, NEW result, db' = Db(n1, result), Sound(n1, result),
             Grown(n, pages, pos, key, w, n1, result)
      PROVE  Client!Add(key)
  <2>1. OneMore(pages, key, result)
    BY <1>1, <1>2, <1>7, GrownIsKept
  <2>2. BagOf(result) = [BagOf(pages) EXCEPT ![key] = @ + 1]
    BY <1>2, <1>7, <2>1, BagAfter
  <2>3. db'.pages = result /\ Running'
    BY <1>7, Fates DEF Running
  <2>4. BagOf(db.pages)' = [BagOf(db.pages) EXCEPT ![key] = @ + 1]
    BY <1>2, <2>2, <2>3
  <2>5. BagOf(disk.pages)' = BagOf(disk.pages)
    BY <1>1
  <2>. QED
    BY <1>1, <1>4, <1>7, <2>3, <2>4, <2>5 DEF Client!Add, Reply
<1>. QED
  BY <1>3, <1>5, <1>6, <1>7

LEMMA SelectShows ==
  ASSUME TableInv, Select
  PROVE  Client!Show
<1>1. Running /\ db' = db /\ disk' = disk
  BY DEF Select
<1>2. PICK n, pages : /\ db.pages = pages /\ Sound(n, pages) /\ Ordered(pages)
                      /\ Chained(pages) /\ Kept(pages)
  BY <1>1, RunningIsKept
<1>3. PICK rows \in Scans(pages) : reply' = Reply("rows", rows)
  BY <1>2 DEF Select
<1>4. reply'.kind = "rows" /\ reply'.rows = rows
  BY <1>3 DEF Reply
<1>5. \A k \in Keys : Cardinality({i \in DOMAIN rows : rows[i] = k})
                        <= BagOf(pages)[k]
  BY <1>2, ScanNoMore DEF Chained, BagOf
<1>6. ASSUME Client!Unique
      PROVE  /\ {rows[i] : i \in DOMAIN rows} = Client!Stored
             /\ \A i, j \in DOMAIN rows : i < j => rows[i] < rows[j]
  <2>1. UniqueKeys(pages)
    BY <1>2, <1>6, OnceIsUnique DEF Kept, Client!Unique
  <2>2. PICK f : /\ Threads(f, NumLeaves(pages), Leaves(pages), pages)
                 /\ Ranked(Rest(f, 1, pages)) /\ rows = RowsFrom(pages, f[1], 0)
    BY <1>2, <2>1, ScanStarts
  <2>3. Range(rows) = StoredKeys(pages) /\ Increasing(rows)
    BY <1>2, <2>2, WholeScan
  <2>4. StoredKeys(pages) = Client!Stored
    BY <1>2, StoredIsPositive DEF Kept, Client!Stored
  <2>. QED
    BY <2>3, <2>4 DEF Range, Increasing
<1>7. BagOf(db.pages)' = BagOf(db.pages) /\ BagOf(disk.pages)' = BagOf(disk.pages)
      /\ Running' = Running
  BY <1>1 DEF Running
<1>. QED
  BY <1>1, <1>2, <1>4, <1>5, <1>6, <1>7, SameCount DEF Client!Show

LEMMA StepsAreRows ==
  TableInv /\ [Next]_vars => [Client!Next]_(Client!vars)
<1>. SUFFICES ASSUME TableInv, [Next]_vars
              PROVE  Client!Next \/ UNCHANGED Client!vars
  OBVIOUS
<1>1. ASSUME NEW w \in Words, Open(w)
      PROVE  Client!Next
  BY <1>1, OpenStarts DEF Client!Next
<1>2. ASSUME NEW key \in Keys, NEW w \in Words, Insert(key, w)
      PROVE  Client!Next
  BY <1>2, InsertAdds DEF Client!Next
<1>3. CASE Select
  BY <1>3, SelectShows DEF Client!Next
<1>4. CASE Close
  BY <1>4, CloseStops DEF Client!Next
<1>5. CASE Kill
  <2>1. Client!Die
    BY <1>5, EndDies DEF Kill
  <2>. QED
    BY <2>1 DEF Client!Next
<1>6. CASE UNCHANGED vars
  <2>1. BagOf(db.pages)' = BagOf(db.pages) /\ BagOf(disk.pages)' = BagOf(disk.pages)
        /\ Running' = Running /\ reply' = reply
    BY <1>6 DEF Running, vars
  <2>. QED
    BY <2>1 DEF Client!vars
<1>. QED
  BY <1>1, <1>2, <1>3, <1>4, <1>5, <1>6 DEF Next

(* ImplementsTable, of the statements of src/statement.c and the sessions of
   src/database.c: whatever leaves and nodes an insert writes, a client sees a
   bag of rows that gains the row that was reported, loses none, and is saved
   by an orderly end of the session and by no other. *)
THEOREM PagesAreATable == Spec => ImplementsTable
<1>1. Init => Client!Init
  <2>. SUFFICES ASSUME Init PROVE Client!Init
    OBVIOUS
  <2>1. /\ db = Closed /\ disk = EmptyFile
        /\ reply = [kind |-> "none", rows |-> <<>>]
    BY DEF Init, Reply
  <2>2. ~Running
    BY <2>1, Fates DEF Running
  <2>. QED
    BY <2>1, <2>2, ClosedHoldsNothing DEF Client!Init
<1>. QED
  BY <1>1, TableInvHolds, StepsAreRows, PTL DEF Spec, ImplementsTable, Client!Spec

-----------------------------------------------------------------------------
(* Numbers *)

LEMMA Remainder ==
  ASSUME NEW a \in Int, NEW m \in Nat \ {0}
  PROVE  a % m \in 0 .. m - 1
OBVIOUS

(* The numbers from -m to m - 1 modulo m. *)
LEMMA SmallRemainder ==
  ASSUME NEW m \in Nat \ {0}, NEW a \in Int
  PROVE  /\ a \in 0 .. m - 1 => a % m = a
         /\ a \in -m .. -1 => a % m = a + m
OBVIOUS

LEMMA IntSize == Ints \in Nat \ {0} /\ IntMax \in Nat /\ Ints = 2 * IntMax + 2
BY StatementAssumption DEF Ints

LEMMA SaturatedType ==
  ASSUME NEW number \in Int
  PROVE  Saturated(number) \in Int
BY StatementAssumption DEF Saturated

(* atoi is never above INT_MAX, whatever the digits say, *)
LEMMA AtoiRange ==
  ASSUME NEW number \in Int
  PROVE  /\ Atoi(number) \in Int
         /\ Atoi(number) >= 0 => Atoi(number) \in 0 .. IntMax
<1>. DEFINE low == Saturated(number) % Ints
<1>1. low \in 0 .. Ints - 1
  BY SaturatedType, IntSize, Remainder
<1>2. Atoi(number) = IF low <= IntMax THEN low ELSE low - Ints
  BY DEF Atoi
<1>. HIDE DEF low
<1>. QED
  BY <1>1, <1>2, IntSize

(* and of a number that an int can hold it is that number. *)
LEMMA AtoiSame ==
  ASSUME NEW number \in Int, InInt(number)
  PROVE  Atoi(number) = number
<1>. DEFINE low == Saturated(number) % Ints
<1>1. number \in -IntMax - 1 .. IntMax
  BY DEF InInt
<1>2. Saturated(number) = number
  BY <1>1, StatementAssumption DEF Saturated
<1>3. Atoi(number) = IF low <= IntMax THEN low ELSE low - Ints
  BY DEF Atoi
<1>4. CASE number >= 0
  <2>1. number \in 0 .. Ints - 1
    BY <1>1, <1>4, IntSize
  <2>2. low = number
    BY <1>2, <2>1, IntSize, SmallRemainder
  <2>. QED
    BY <1>1, <1>3, <2>2, IntSize
<1>5. CASE number < 0
  <2>1. number \in -Ints .. -1
    BY <1>1, <1>5, IntSize
  <2>2. low = number + Ints
    BY <1>2, <2>1, IntSize, SmallRemainder
  <2>. HIDE DEF low
  <2>. QED
    BY <1>1, <1>3, <2>2, IntSize
<1>. QED
  BY <1>4, <1>5

-----------------------------------------------------------------------------
(* Lines *)

LEMMA WordParts ==
  ASSUME NEW words \in Seq(Word), NEW k \in 1 .. Len(words)
  PROVE  words[k].number \in Int /\ words[k].length \in Nat \ {0}
<1>1. words[k] \in Word
  OBVIOUS
<1>. QED
  BY <1>1 DEF Word

LEMMA ShortenedWord ==
  ASSUME NEW word \in Word, word.length # 1
  PROVE  Shortened(word) \in Word
<1>1. word.length \in Nat \ {0} /\ word.length - 1 \in Nat \ {0}
  BY DEF Word
<1>2. word.begins \in Keyword /\ "none" \in Keyword /\ "." \in Keyword
  BY DEF Word, Keyword
<1>. QED
  BY <1>1, <1>2 DEF Shortened, Word

LEMMA BufferIsLine ==
  ASSUME NEW line \in Line
  PROVE  Buffer(line) \in Line
<1>1. /\ line.words \in Seq(Word) /\ line.blank \in BOOLEAN
      /\ line.newline \in BOOLEAN
  BY DEF Line
<1>2. CASE line.newline
  BY <1>2 DEF Buffer
<1>3. CASE ~line.newline /\ (line.blank \/ line.words = <<>>)
  <2>1. Buffer(line) = [line EXCEPT !.blank = FALSE]
    BY <1>3 DEF Buffer, WithoutLastCharacter
  <2>. QED
    BY <2>1 DEF Line
<1>4. CASE ~line.newline /\ ~(line.blank \/ line.words = <<>>)
  <2>. DEFINE words == line.words
              left == IF Last(words).length = 1 THEN Front(words)
                      ELSE Append(Front(words), Shortened(Last(words)))
  <2>1. Buffer(line) = [line EXCEPT !.words = left]
    BY <1>4 DEF Buffer, WithoutLastCharacter
  <2>2. Front(words) \in Seq(Word) /\ Last(words) \in Word
    BY <1>1, <1>4 DEF Front, Last
  <2>3. left \in Seq(Word)
    BY <2>2, ShortenedWord
  <2>. HIDE DEF left
  <2>. QED
    BY <2>1, <2>3 DEF Line
<1>. QED
  BY <1>2, <1>3, <1>4

(* What a line may be prepared as: only an insert that is accepted has a row,
   and that one is in the line, but for its id. *)
LEMMA PrepareCases ==
  ASSUME NEW line \in Line
  PROVE  LET words == line.words
             statement == Prepare(line)
         IN  \/ /\ statement.result \in {"syntax_error", "string_too_long",
                                         "select", "unrecognized"}
                /\ statement.row = NoRow
             \/ /\ statement = Prepared("negative_id", NoRow)
                /\ Len(words) >= 4 /\ words \in Seq(Word)
                /\ Atoi(words[2].number) < 0
             \/ /\ Len(words) >= 4 /\ words \in Seq(Word)
                /\ Atoi(words[2].number) \in 0 .. IntMax
                /\ Fits(words[3].length, words[4].length)
                /\ statement =
                     Prepared("insert", [id |-> Atoi(words[2].number),
                                         username |-> words[3].length,
                                         email |-> words[4].length])
<1>. DEFINE words == line.words
            statement == Prepare(line)
<1>1. words \in Seq(Word)
  BY DEF Line
<1>2. CASE ~StartsWithInsert(line) \/ Len(words) < 4
  BY <1>2 DEF Prepare, PrepareInsert, Prepared
<1>3. CASE StartsWithInsert(line) /\ ~(Len(words) < 4)
  <2>1. Len(words) >= 4 /\ statement = PrepareInsert(words)
    BY <1>1, <1>3 DEF Prepare
  <2>2. words[2].number \in Int
    <3>1. 2 \in 1 .. Len(words)
      BY <1>1, <2>1
    <3>. QED
      BY <1>1, <3>1, WordParts
  <2>. DEFINE id == Atoi(words[2].number)
  <2>3. id \in Int /\ (id >= 0 => id \in 0 .. IntMax)
    BY <2>2, AtoiRange
  <2>4. CASE id < 0
    BY <1>1, <1>3, <2>1, <2>4 DEF PrepareInsert
  <2>5. CASE ~(id < 0) /\ ~Fits(words[3].length, words[4].length)
    BY <1>3, <2>1, <2>5 DEF PrepareInsert, Prepared
  <2>6. CASE ~(id < 0) /\ Fits(words[3].length, words[4].length)
    <3>1. id \in 0 .. IntMax
      BY <2>3, <2>6
    <3>2. statement = Prepared("insert", [id |-> id, username |-> words[3].length,
                                          email |-> words[4].length])
      BY <1>3, <2>1, <2>6, Zenon DEF PrepareInsert
    <3>. QED
      BY <1>1, <2>1, <2>6, <3>1, <3>2
  <2>. QED
    BY <2>4, <2>5, <2>6
<1>. QED
  BY <1>2, <1>3

LEMMA PreparedType ==
  ASSUME NEW line \in Line
  PROVE  /\ Prepare(line).result \in {"insert", "select", "syntax_error",
                                      "negative_id", "string_too_long",
                                      "unrecognized"}
         /\ Prepare(line).row.id \in Keys
<1>. DEFINE statement == Prepare(line)
            id == Atoi(line.words[2].number)
<1>1. 0 \in Keys /\ \A k \in 0 .. IntMax : k \in Keys
  BY ReplAssumption, IntSize
<1>2. NoRow.id = 0
  BY DEF NoRow
<1>3. \A r, row : Prepared(r, row).result = r /\ Prepared(r, row).row = row
  BY DEF Prepared
<1>4. CASE /\ statement.result \in {"syntax_error", "string_too_long",
                                    "select", "unrecognized"}
           /\ statement.row = NoRow
  BY <1>1, <1>2, <1>4
<1>5. CASE statement = Prepared("negative_id", NoRow)
  BY <1>1, <1>2, <1>3, <1>5
<1>6. CASE /\ id \in 0 .. IntMax
           /\ statement = Prepared("insert", [id |-> id,
                                             username |-> line.words[3].length,
                                             email |-> line.words[4].length])
  <2>1. statement.result = "insert" /\ statement.row.id = id
    BY <1>3, <1>6
  <2>. QED
    BY <1>1, <1>6, <2>1
<1>. QED
  BY <1>4, <1>5, <1>6, PrepareCases

(* A line with its newline, and an id that an int can hold. *)
LEMMA TypedIsMeant ==
  ASSUME NEW line \in Line, line.newline, Len(line.words) > 1,
         InInt(line.words[2].number)
  PROVE  LET words == line.words
             statement == Prepare(Buffer(line))
         IN  /\ statement.result = "insert" =>
                  statement.row = [id |-> words[2].number,
                                   username |-> words[3].length,
                                   email |-> words[4].length]
             /\ statement.result = "negative_id" => words[2].number < 0
<1>1. Buffer(line) = line
  BY DEF Buffer
<1>2. line.words \in Seq(Word)
  BY DEF Line
<1>3. line.words[2].number \in Int
  <2>1. 2 \in 1 .. Len(line.words)
    BY <1>2
  <2>. QED
    BY <1>2, <2>1, WordParts
<1>4. Atoi(line.words[2].number) = line.words[2].number
  BY <1>3, AtoiSame
<1>5. \A r, row : Prepared(r, row).result = r /\ Prepared(r, row).row = row
  BY DEF Prepared
<1>. QED
  BY <1>1, <1>4, <1>5, PrepareCases

-----------------------------------------------------------------------------
(* The bytes of a row *)

Byte == {"c", "NUL"}

(* A text and its NUL in a column: NULs from there to the end. *)
LEMMA ColumnOfText ==
  ASSUME NEW length \in Nat, NEW size \in Nat, length < size
  PROVE  LET column == Column(Text(length), size)
         IN  /\ column \in Seq(Byte) /\ Len(column) = size
             /\ \A k \in 1 .. size : column[k] = IF k <= length THEN "c" ELSE "NUL"
<1>. DEFINE text == Text(length)
            column == Column(text, size)
<1>1. /\ text \in [1 .. length + 1 -> Byte] /\ length + 1 \in Nat
      /\ \A k \in 1 .. length + 1 : text[k] = IF k <= length THEN "c" ELSE "NUL"
  BY DEF Text, Byte
<1>2. text \in Seq(Byte) /\ Len(text) = length + 1
  BY <1>1, SeqDef
<1>. HIDE DEF text
<1>3. \A k \in 1 .. size : column[k] = IF k <= Len(text) THEN text[k] ELSE "NUL"
  BY DEF Column
<1>4. ASSUME NEW k \in 1 .. size
      PROVE  column[k] = IF k <= length THEN "c" ELSE "NUL"
  <2>1. CASE k <= length + 1
    <3>1. k \in 1 .. length + 1
      BY <2>1
    <3>. QED
      BY <1>1, <1>2, <1>3, <2>1, <3>1
  <2>2. CASE ~(k <= length + 1)
    BY <1>2, <1>3, <2>2
  <2>. QED
    BY <2>1, <2>2
<1>5. column \in [1 .. size -> Byte]
  <2>1. DOMAIN column = 1 .. size /\ column = [k \in 1 .. size |-> column[k]]
    BY DEF Column
  <2>. HIDE DEF column
  <2>. QED
    BY <1>4, <2>1 DEF Byte
<1>. HIDE DEF column
<1>6. column \in Seq(Byte) /\ Len(column) = size
  BY <1>5, SeqDef
<1>. QED
  BY <1>4, <1>6 DEF column, text

(* What is printed of a text stops at its NUL. *)
LEMMA PrintedText ==
  ASSUME NEW bytes \in Seq(Byte), NEW k \in Nat, NEW length \in Nat,
         k + length <= Len(bytes), bytes[k + length] = "NUL",
         \A j \in k .. k + length - 1 : bytes[j] = "c"
  PROVE  PrintedFrom(bytes, k) = length
<1>. DEFINE ends == {j \in k .. Len(bytes) : bytes[j] = "NUL"}
            end == CHOOSE j \in ends : \A l \in ends : j <= l
<1>1. k + length \in ends
  OBVIOUS
<1>2. \A l \in ends : l \in Nat /\ k + length <= l
  <2>. SUFFICES ASSUME NEW l \in ends, l < k + length PROVE FALSE
    OBVIOUS
  <2>1. l \in k .. k + length - 1 /\ bytes[l] = "NUL"
    OBVIOUS
  <2>. QED
    BY <2>1
<1>. HIDE DEF ends
<1>3. end \in ends /\ \A l \in ends : end <= l
  BY <1>1, <1>2
<1>. HIDE DEF end
<1>4. end = k + length
  BY <1>1, <1>2, <1>3
<1>5. PrintedFrom(bytes, k) = end - k
  BY <1>1 DEF PrintedFrom, ends, end
<1>. QED
  BY <1>4, <1>5

(* The row of texts that fit comes back from its bytes. *)
LEMMA RowPrintedBack ==
  ASSUME NEW id, NEW username \in Nat, NEW email \in Nat, Fits(username, email)
  PROVE  LET row == [id |-> id, username |-> username, email |-> email]
         IN  RowPrinted(id, RowSerialize(row)) = row
<1>. DEFINE row == [id |-> id, username |-> username, email |-> email]
            bytes == RowSerialize(row)
            first == Column(Text(username), UsernameSize + 1)
            second == Column(Text(email), EmailSize + 1)
            u == UsernameSize + 1
            e == EmailSize + 1
<1>1. u \in Nat /\ e \in Nat /\ username < u /\ email < e
  BY StatementAssumption DEF Fits
<1>2. bytes = first \o second
  BY DEF RowSerialize, TextSizes
<1>3. /\ first \in Seq(Byte) /\ Len(first) = u
      /\ \A k \in 1 .. u : first[k] = IF k <= username THEN "c" ELSE "NUL"
  BY <1>1, ColumnOfText
<1>4. /\ second \in Seq(Byte) /\ Len(second) = e
      /\ \A k \in 1 .. e : second[k] = IF k <= email THEN "c" ELSE "NUL"
  BY <1>1, ColumnOfText
<1>5. TextSizes[1] = u
  BY DEF TextSizes
<1>. HIDE DEF first, second, u, e, bytes
<1>6. /\ bytes \in Seq(Byte) /\ Len(bytes) = u + e
      /\ \A k \in 1 .. u + e : bytes[k] = IF k <= u THEN first[k] ELSE second[k - u]
  BY <1>2, <1>3, <1>4, ConcatProperties
<1>7. PrintedFrom(bytes, 1) = username
  <2>1. /\ 1 + username \in 1 .. u /\ 1 + username \in 1 .. u + e
        /\ ~(1 + username <= username)
    BY <1>1
  <2>2. bytes[1 + username] = "NUL"
    BY <1>3, <1>6, <2>1
  <2>3. ASSUME NEW j \in 1 .. 1 + username - 1
        PROVE  bytes[j] = "c"
    <3>1. j \in 1 .. u /\ j \in 1 .. u + e /\ j <= username
      BY <1>1
    <3>. QED
      BY <1>3, <1>6, <3>1
  <2>4. 1 + username <= Len(bytes)
    BY <1>1, <1>6
  <2>. QED
    BY <1>6, <2>2, <2>3, <2>4, PrintedText
<1>8. PrintedFrom(bytes, u + 1) = email
  <2>. DEFINE from == u + 1
  <2>1. /\ from + email \in 1 .. u + e /\ ~(from + email <= u)
        /\ from + email - u = email + 1 /\ email + 1 \in 1 .. e
        /\ ~(email + 1 <= email) /\ from \in Nat
    BY <1>1
  <2>2. bytes[from + email] = "NUL"
    <3>. DEFINE at == from + email
    <3>1. /\ at \in 1 .. u + e /\ ~(at <= u)
          /\ at - u = email + 1
      BY <1>1, <2>1
    <3>. HIDE DEF at
    <3>2. bytes[at] = second[email + 1]
      BY <1>6, <3>1
    <3>3. bytes[at] = "NUL"
      BY <1>4, <2>1, <3>2
    <3>. QED
      BY <3>3 DEF at
  <2>3. ASSUME NEW j \in from .. from + email - 1
        PROVE  bytes[j] = "c"
    <3>1. /\ j \in 1 .. u + e /\ ~(j <= u) /\ j - u \in 1 .. e /\ j - u <= email
      BY <1>1
    <3>. QED
      BY <1>4, <1>6, <3>1
  <2>4. from + email <= Len(bytes)
    BY <1>1, <1>6
  <2>. HIDE DEF from
  <2>5. PrintedFrom(bytes, from) = email
    BY <1>6, <2>1, <2>2, <2>3, <2>4, PrintedText
  <2>. QED
    BY <2>5 DEF from
<1>9. RowPrinted(id, bytes) = [id |-> id, username |-> PrintedFrom(bytes, 1),
                               email |-> PrintedFrom(bytes, u + 1)]
  BY <1>5 DEF RowPrinted
<1>. QED
  BY <1>7, <1>8, <1>9 DEF bytes

(* Every row that is accepted does. *)
LEMMA AcceptedComesBack ==
  ASSUME NEW line \in Line, Prepare(line).result = "insert"
  PROVE  LET row == Prepare(line).row
         IN  RowPrinted(row.id, RowSerialize(row)) = row
<1>. DEFINE words == line.words
            id == Atoi(words[2].number)
            row == [id |-> id, username |-> words[3].length,
                    email |-> words[4].length]
<1>1. \A r, rw : Prepared(r, rw).result = r /\ Prepared(r, rw).row = rw
  BY DEF Prepared
<1>2. /\ Len(words) >= 4 /\ words \in Seq(Word)
      /\ Fits(words[3].length, words[4].length)
      /\ Prepare(line) = Prepared("insert", row)
  BY <1>1, PrepareCases
<1>3. words[3].length \in Nat /\ words[4].length \in Nat
  <2>1. 3 \in 1 .. Len(words) /\ 4 \in 1 .. Len(words)
    BY <1>2
  <2>. QED
    BY <1>2, <2>1, WordParts
<1>4. RowPrinted(id, RowSerialize(row)) = row
  BY <1>2, <1>3, RowPrintedBack
<1>5. row.id = id
  OBVIOUS
<1>. QED
  BY <1>1, <1>2, <1>4, <1>5

-----------------------------------------------------------------------------
(* The sessions *)

(* What was reported is in the pages while the session runs; when it has ended
   the status tells where it is. *)
Plus(bag, more) == [k \in Keys |-> bag[k] + more[k]]

(* The file that held from once the first k of pages are written to it. *)
Larger(a, b) == IF a < b THEN b ELSE a

WrittenUpTo(from, pages, k) ==
  [ num_pages |-> Larger(from.num_pages, k),
    pages |-> [q \in 0 .. Larger(from.num_pages, k) - 1 |->
                 IF q < k THEN pages[q] ELSE from.pages[q]] ]

(* How far a close has come.  No session has fewer pages than it found. *)
Saving ==
  /\ saved <= db.num_pages /\ disk.num_pages <= db.num_pages
  /\ saved = 0 => ~short
  /\ ~closing => saved = 0
  /\ ~short => file = WrittenUpTo(disk, db.pages, saved)

Accounted ==
  IF running THEN /\ found = disk
                  /\ Rows(db.pages) = Plus(Rows(disk.pages), reported)
                  /\ Saving
             ELSE StatusTellsSaved

(* Whatever was understood was understood of the last line. *)
Understood == prepared \in {Nothing, Prepare(Buffer(typed))}

ReplInv == TableInv /\ ReplTypeOK /\ Understood /\ Accounted

LEMMA RowsAreTheBag == \A pages : Rows(pages) = BagOf(pages)
BY DEF Rows, BagOf

(* Whatever the prompt does is a step of the database or none. *)
LEMMA PromptSteps == [ReplNext]_vars_ => [Next]_vars
<1>. SUFFICES ASSUME [ReplNext]_vars_ PROVE [Next]_vars
  OBVIOUS
<1>1. ASSUME NEW w \in Words, StartSession(w)
      PROVE  Next
  BY <1>1 DEF StartSession, Next
<1>2. CASE CannotOpen
  BY <1>2 DEF CannotOpen
<1>3. CASE Cleanup \/ FlushPage
  BY <1>3 DEF Cleanup, FlushPage
<1>4. CASE FinishClose \/ TransferFails \/ Killed
  BY <1>4 DEF FinishClose, TransferFails, Killed, Next
<1>5. ASSUME NEW line \in Lines
      PROVE  /\ Meta(line) => UNCHANGED vars
             /\ Exit(line) => Cleanup
             /\ NotPrepared(line) => UNCHANGED vars
             /\ ExecuteSelect(line) => Next
  BY DEF Meta, Exit, NotPrepared, ExecuteSelect, Next
<1>6. ASSUME NEW line \in Lines, NEW w \in Words, ExecuteInsert(line, w)
      PROVE  Next
  <2>1. line \in Line
    BY ReplAssumption
  <2>2. Buffer(line) \in Line
    BY <2>1, BufferIsLine
  <2>3. Prepare(Buffer(line)).row.id \in Keys
    BY <2>2, PreparedType
  <2>. QED
    BY <1>6, <2>3 DEF ExecuteInsert, Next
<1>7. CASE UNCHANGED vars_
  BY <1>7 DEF vars_
<1>. QED
  BY <1>1, <1>2, <1>3, <1>4, <1>5, <1>6, <1>7, Zenon DEF ReplNext, EndOfInput

(* The pages of the store, in memory or in the file, are a sound tree or none:
   how many rows of an id they hold is a number. *)
LEMMA RowsType ==
  ASSUME TableInv
  PROVE  /\ Running => Rows(db.pages) \in [Keys -> Nat]
         /\ Rows(disk.pages) \in [Keys -> Nat]
<1>1. Inv
  BY OrderInvIsInv DEF TableInv, ScanInv
<1>2. ASSUME Running
      PROVE  Rows(db.pages) \in [Keys -> Nat]
  <2>1. PICK n, pages : db.pages = pages /\ Sound(n, pages)
    BY <1>2, RunningIsKept
  <2>. QED
    BY <2>1, BagType, RowsAreTheBag
<1>3. CASE disk = EmptyFile
  <2>1. Rows(disk.pages) = [k \in Keys |-> 0]
    BY <1>3, RowsAreTheBag, ClosedHoldsNothing DEF Client!Empty
  <2>. QED
    BY <1>2, <2>1
<1>4. CASE disk # EmptyFile
  <2>1. Sound(disk.num_pages, disk.pages)
    BY <1>1, <1>4 DEF Inv
  <2>. QED
    BY <1>2, <2>1, BagType, RowsAreTheBag
<1>. QED
  BY <1>3, <1>4

LEMMA PlusNone ==
  ASSUME NEW bag \in [Keys -> Nat]
  PROVE  Plus(bag, None) = bag
BY DEF Plus, None

(* A file and the database in memory count their pages. *)
LEMMA PagesCounted ==
  ASSUME TableInv
  PROVE  /\ disk.num_pages \in Nat
         /\ disk = [num_pages |-> disk.num_pages, pages |-> disk.pages]
         /\ DOMAIN disk.pages = 0 .. disk.num_pages - 1
         /\ disk.pages = [q \in DOMAIN disk.pages |-> disk.pages[q]]
         /\ Running => /\ db.num_pages \in Nat
                       /\ DOMAIN db.pages = 0 .. db.num_pages - 1
                       /\ db.pages = [q \in DOMAIN db.pages |-> db.pages[q]]
<1>1. Inv
  BY OrderInvIsInv DEF TableInv, ScanInv
<1>2. ASSUME Running
      PROVE  /\ db.num_pages \in Nat
             /\ DOMAIN db.pages = 0 .. db.num_pages - 1
             /\ db.pages = [q \in DOMAIN db.pages |-> db.pages[q]]
  <2>1. PICK n, pages : n \in Nat /\ db = Db(n, pages) /\ Sound(n, pages)
    BY <1>1, <1>2, RunningIsSound
  <2>2. db.num_pages = n /\ db.pages = pages /\ pages \in [0 .. n - 1 -> Page]
    BY <2>1, Fates DEF Sound, UpTo
  <2>. QED
    BY <2>1, <2>2
<1>3. CASE disk = EmptyFile
  BY <1>2, <1>3 DEF EmptyFile, NoPages
<1>4. CASE disk # EmptyFile
  <2>1. PICK n, pages : /\ disk = [num_pages |-> n, pages |-> pages]
                        /\ Sound(n, pages)
    BY <1>1, <1>4 DEF Inv
  <2>2. n \in Nat /\ pages \in [0 .. n - 1 -> Page]
    BY <2>1 DEF Sound, UpTo
  <2>. QED
    BY <1>2, <2>1, <2>2
<1>. QED
  BY <1>3, <1>4

LEMMA NothingWritten ==
  ASSUME TableInv, NEW pages
  PROVE  WrittenUpTo(disk, pages, 0) = disk
<1>1. /\ disk.num_pages \in Nat
      /\ disk = [num_pages |-> disk.num_pages, pages |-> disk.pages]
      /\ DOMAIN disk.pages = 0 .. disk.num_pages - 1
      /\ disk.pages = [q \in DOMAIN disk.pages |-> disk.pages[q]]
  BY PagesCounted
<1>2. Larger(disk.num_pages, 0) = disk.num_pages
  BY <1>1 DEF Larger
<1>3. [q \in 0 .. disk.num_pages - 1 |->
        IF q < 0 THEN pages[q] ELSE disk.pages[q]] = disk.pages
  BY <1>1
<1>. QED
  BY <1>1, <1>2, <1>3 DEF WrittenUpTo

LEMMA OneMoreWritten ==
  ASSUME TableInv, Running, NEW k \in Nat, k < db.num_pages
  PROVE  PutPage(WrittenUpTo(disk, db.pages, k), k, db.pages[k])
           = WrittenUpTo(disk, db.pages, k + 1)
<1>. DEFINE n == disk.num_pages
            old == WrittenUpTo(disk, db.pages, k)
            new == WrittenUpTo(disk, db.pages, k + 1)
            put == PutPage(old, k, db.pages[k])
<1>1. n \in Nat
  BY PagesCounted
<1>2. /\ old.num_pages = Larger(n, k) /\ DOMAIN old.pages = 0 .. Larger(n, k) - 1
      /\ \A q \in DOMAIN old.pages :
           old.pages[q] = IF q < k THEN db.pages[q] ELSE disk.pages[q]
  BY DEF WrittenUpTo
<1>. HIDE DEF old
<1>3. put.num_pages = Larger(n, k + 1)
  BY <1>1, <1>2 DEF PutPage, Larger
<1>4. DOMAIN old.pages \cup {k} = 0 .. Larger(n, k + 1) - 1
  BY <1>1, <1>2 DEF Larger
<1>5. ASSUME NEW q \in 0 .. Larger(n, k + 1) - 1
      PROVE  (IF q = k THEN db.pages[k] ELSE old.pages[q])
               = (IF q < k + 1 THEN db.pages[q] ELSE disk.pages[q])
  <2>1. q \in Nat
    BY <1>1 DEF Larger
  <2>2. CASE q = k
    BY <2>2
  <2>3. CASE q # k
    <3>1. q \in DOMAIN old.pages
      BY <1>4, <2>3
    <3>2. old.pages[q] = IF q < k THEN db.pages[q] ELSE disk.pages[q]
      BY <1>2, <3>1
    <3>. QED
      BY <2>1, <2>3, <3>2
  <2>. QED
    BY <2>2, <2>3
<1>6. put = [num_pages |-> Larger(n, k + 1),
             pages |-> [q \in 0 .. Larger(n, k + 1) - 1 |->
                          IF q = k THEN db.pages[k] ELSE old.pages[q]]]
  BY <1>3, <1>4 DEF PutPage
<1>. QED
  BY <1>5, <1>6 DEF WrittenUpTo, old

LEMMA AllWritten ==
  ASSUME TableInv, Running, disk.num_pages <= db.num_pages
  PROVE  WrittenUpTo(disk, db.pages, db.num_pages)
           = [num_pages |-> db.num_pages, pages |-> db.pages]
<1>. DEFINE n == db.num_pages
<1>1. /\ n \in Nat /\ disk.num_pages \in Nat
      /\ db.pages = [q \in 0 .. n - 1 |-> db.pages[q]]
  BY PagesCounted
<1>2. Larger(disk.num_pages, n) = n
  BY <1>1 DEF Larger
<1>3. [q \in 0 .. n - 1 |-> IF q < n THEN db.pages[q] ELSE disk.pages[q]]
        = [q \in 0 .. n - 1 |-> db.pages[q]]
  BY <1>1
<1>. QED
  BY <1>1, <1>2, <1>3 DEF WrittenUpTo

LEMMA StartKept ==
  ASSUME ReplInv, NEW w \in Words, StartSession(w)
  PROVE  (ReplTypeOK /\ Understood /\ Accounted)'
<1>1. /\ ~running /\ running' = TRUE /\ status' = "none"
      /\ found' = disk /\ reported' = None /\ Open(w)
      /\ file' = disk /\ saved' = 0 /\ short' = FALSE /\ closing' = closing
      /\ UNCHANGED <<typed, prepared, answer, lines>>
  BY DEF StartSession, BeginsWith, shown
<1>2. Client!Start
  BY <1>1, OpenStarts DEF ReplInv
<1>3. /\ Running' /\ BagOf(db.pages)' = BagOf(disk.pages)
      /\ disk' = disk
  BY <1>1, <1>2 DEF Client!Start, Open
<1>4. None \in [Keys -> Nat]
  BY DEF None
<1>5. ReplTypeOK'
  BY <1>1, <1>3, <1>4 DEF ReplInv, ReplTypeOK
<1>6. Understood'
  BY <1>1 DEF ReplInv, Understood
<1>7. Rows(db'.pages) = Plus(Rows(disk.pages), None)
  <2>1. Rows(disk.pages) \in [Keys -> Nat]
    BY RowsType DEF ReplInv
  <2>. QED
    BY <1>3, <2>1, PlusNone, RowsAreTheBag
<1>8. Saving'
  <2>1. disk.num_pages \in Nat /\ WrittenUpTo(disk, db'.pages, 0) = disk
    BY PagesCounted, NothingWritten DEF ReplInv
  <2>2. disk.num_pages <= db'.num_pages /\ db'.num_pages \in Nat
    <3>1. CASE disk = EmptyFile
      <4>1. Inv
        BY OrderInvIsInv DEF ReplInv, TableInv, ScanInv
      <4>2. PICK pages : db' = Db(1, pages)
        BY <1>1, <3>1, <4>1, OpenedTree
      <4>. QED
        BY <3>1, <4>2, Fates DEF EmptyFile
    <3>2. CASE disk # EmptyFile
      <4>1. disk.num_pages # 0
        BY <3>2, OrderInvIsInv DEF ReplInv, TableInv, ScanInv, Inv, Sound
      <4>. QED
        BY <1>1, <2>1, <4>1 DEF Open
    <3>. QED
      BY <3>1, <3>2
  <2>. QED
    BY <1>1, <1>3, <2>1, <2>2 DEF Saving
<1>. QED
  BY <1>1, <1>3, <1>5, <1>6, <1>7, <1>8 DEF Accounted

(* A session that could not begin: the file is what it was. *)
LEMMA CannotOpenKept ==
  ASSUME ReplInv, CannotOpen
  PROVE  (ReplTypeOK /\ Understood /\ Accounted)'
<1>1. /\ ~running /\ running' = running /\ status' = "SIGSEGV"
      /\ found' = file /\ file' = file /\ reported' = None /\ UNCHANGED vars
      /\ saved' = 0 /\ short' = FALSE /\ closing' = closing
      /\ UNCHANGED <<typed, prepared, answer, lines>>
  BY DEF CannotOpen, BeginsWith, shown
<1>2. db' = db /\ disk' = disk
  BY <1>1 DEF vars
<1>3. None \in [Keys -> Nat]
  BY DEF None
<1>4. ReplTypeOK'
  BY <1>1, <1>2, <1>3 DEF ReplInv, ReplTypeOK, Running
<1>5. Understood'
  BY <1>1 DEF ReplInv, Understood
<1>6. Accounted'
  BY <1>1 DEF Accounted, StatusTellsSaved
<1>. QED
  BY <1>4, <1>5, <1>6

(* The end of a process. *)
LEMMA EndShown ==
  ASSUME ReplInv, NEW with \in {"0", "1", "SIGSEGV", "SIGKILL"}, Ends(with),
         ~Running'
  PROVE  (ReplTypeOK /\ Understood)'
<1>1. /\ running' = FALSE /\ status' = with /\ typed' = NoLine
      /\ prepared' = Nothing /\ lines' = 0 /\ closing' = FALSE
      /\ reported' = reported /\ saved' = saved /\ short' = short
  BY DEF Ends, ForgetLine
<1>2. NoLine \in Line
  BY DEF NoLine, Line
<1>3. Nothing.result = "nothing" /\ Nothing.row.id \in Keys
  <2>1. 0 \in Keys
    BY ReplAssumption, IntSize
  <2>. QED
    BY <2>1 DEF Nothing, Prepared, NoRow
<1>4. ReplTypeOK'
  <2>1. 0 \in 0 .. MaxLines
    BY ReplAssumption
  <2>2. running' = Running'
    BY <1>1 DEF Running
  <2>3. reported' \in [Keys -> Nat] /\ saved' \in Nat /\ short' \in BOOLEAN
    BY <1>1 DEF ReplInv, ReplTypeOK
  <2>. QED
    BY <1>1, <1>2, <1>3, <2>1, <2>2, <2>3 DEF ReplTypeOK
<1>5. Understood'
  BY <1>1 DEF Understood
<1>. QED
  BY <1>4, <1>5

(* An end that is not orderly: while no page was written the file is what it
   was. *)
LEMMA EndKept ==
  ASSUME ReplInv, running, NEW with \in {"1", "SIGSEGV", "SIGKILL"}, Ends(with),
         ~Running'
  PROVE  (ReplTypeOK /\ Understood /\ Accounted)'
<1>1. (ReplTypeOK /\ Understood)'
  BY EndShown
<1>2. /\ running' = FALSE /\ status' = with /\ file' = file
      /\ saved' = saved /\ found' = found
  BY DEF Ends
<1>3. saved = 0 => file = found
  <2>1. TableInv /\ Saving /\ found = disk
    BY DEF ReplInv, Accounted
  <2>. QED
    BY <2>1, NothingWritten DEF Saving
<1>4. Accounted'
  BY <1>2, <1>3 DEF Accounted, StatusTellsSaved
<1>. QED
  BY <1>1, <1>4

LEMMA BrokenOffKept ==
  ASSUME ReplInv, TransferFails \/ Killed
  PROVE  (ReplTypeOK /\ Understood /\ Accounted)'
<1>1. running /\ Kill /\ (Ends("1") \/ Ends("SIGKILL"))
  BY DEF TransferFails, Killed
<1>2. ~Running'
  BY <1>1, Fates DEF Kill, Running
<1>. QED
  BY <1>1, <1>2, EndKept

(* The orderly end: every page is written. *)
LEMMA FinishKept ==
  ASSUME ReplInv, FinishClose
  PROVE  (ReplTypeOK /\ Understood /\ Accounted)'
<1>1. /\ closing /\ ~MorePages /\ Ends("0")
      /\ IF short THEN Kill ELSE Close
  BY DEF FinishClose
<1>2. running /\ Running /\ Saving /\ found = disk /\ saved \in Nat
      /\ Rows(db.pages) = Plus(Rows(disk.pages), reported)
  BY <1>1 DEF ReplInv, ReplTypeOK, Accounted
<1>3. ~Running'
  BY <1>1, Fates DEF Kill, Close, Running
<1>4. (ReplTypeOK /\ Understood)'
  BY <1>1, <1>3, EndShown
<1>5. /\ running' = FALSE /\ status' = "0" /\ file' = file /\ short' = short
      /\ saved' = saved /\ found' = found /\ reported' = reported
  BY <1>1 DEF Ends
<1>6. ASSUME ~short
      PROVE  /\ Rows(file'.pages) = Plus(Rows(found.pages), reported)
             /\ file' = disk'
  <2>1. disk' = [num_pages |-> db.num_pages, pages |-> db.pages]
    BY <1>1, <1>6 DEF Close
  <2>2. saved = db.num_pages
    BY <1>1, <1>2, PagesCounted DEF MorePages, Saving, ReplInv
  <2>3. file = WrittenUpTo(disk, db.pages, db.num_pages)
    BY <1>2, <1>6, <2>2 DEF Saving
  <2>4. file = disk'
    BY <1>2, <2>1, <2>3, AllWritten DEF Saving, ReplInv
  <2>5. file.pages = db.pages
    BY <2>1, <2>4
  <2>. QED
    BY <1>2, <1>5, <2>4, <2>5
<1>7. Accounted'
  BY <1>5, <1>6 DEF Accounted, StatusTellsSaved, Plus
<1>. QED
  BY <1>4, <1>7

(* .exit, and the end of the input *)
LEMMA CleanupKept ==
  ASSUME ReplInv, Cleanup
  PROVE  (ReplTypeOK /\ Understood /\ Accounted)'
<1>1. /\ running /\ ~closing /\ closing' = TRUE /\ typed' = NoLine
      /\ prepared' = Nothing /\ lines' = 0
      /\ UNCHANGED <<vars, running, status, reported, file, saved, short, found>>
  BY DEF Cleanup, AtPrompt, ForgetLine
<1>2. db' = db /\ disk' = disk /\ Running' = Running
  BY <1>1 DEF vars, Running
<1>3. NoLine \in Line
  BY DEF NoLine, Line
<1>4. Nothing.result = "nothing" /\ Nothing.row.id \in Keys /\ 0 \in 0 .. MaxLines
  BY ReplAssumption, IntSize DEF Nothing, Prepared, NoRow
<1>5. ReplTypeOK'
  BY <1>1, <1>2, <1>3, <1>4 DEF ReplInv, ReplTypeOK
<1>6. Understood'
  BY <1>1 DEF Understood
<1>7. Accounted'
  BY <1>1, <1>2 DEF ReplInv, Accounted, Saving
<1>. QED
  BY <1>5, <1>6, <1>7

LEMMA FlushKept ==
  ASSUME ReplInv, FlushPage
  PROVE  (ReplTypeOK /\ Understood /\ Accounted)'
<1>1. /\ closing /\ saved < db.num_pages /\ saved' = saved + 1
      /\ \/ file' = PutPage(file, saved, db.pages[saved]) /\ short' = short
         \/ short' = TRUE
      /\ UNCHANGED <<vars, running, status, closing, reported, found>>
      /\ UNCHANGED <<typed, prepared, answer, lines>>
  BY DEF FlushPage, MorePages, shown
<1>2. db' = db /\ disk' = disk /\ Running' = Running
  BY <1>1 DEF vars, Running
<1>3. /\ running /\ Running /\ saved \in Nat /\ short \in BOOLEAN
      /\ Saving /\ found = disk /\ TableInv
      /\ Rows(db.pages) = Plus(Rows(disk.pages), reported)
  BY <1>1 DEF ReplInv, ReplTypeOK, Accounted
<1>4. ReplTypeOK'
  <2>1. saved' \in Nat
    BY <1>1, <1>3
  <2>2. short' \in BOOLEAN
    BY <1>1, <1>3, Zenon
  <2>3. /\ running' = running /\ status' = status /\ closing' = closing
        /\ typed' = typed /\ prepared' = prepared /\ lines' = lines
        /\ reported' = reported
    BY <1>1
  <2>. QED
    BY <1>2, <2>1, <2>2, <2>3 DEF ReplInv, ReplTypeOK
<1>5. Understood'
  BY <1>1 DEF ReplInv, Understood
<1>6. Saving'
  <2>1. db.num_pages \in Nat
    BY <1>3, PagesCounted
  <2>2. ASSUME ~short'
        PROVE  file' = WrittenUpTo(disk, db.pages, saved + 1)
    <3>1. /\ file' = PutPage(file, saved, db.pages[saved])
          /\ file = WrittenUpTo(disk, db.pages, saved)
      BY <1>1, <1>3, <2>2 DEF Saving
    <3>. QED
      BY <1>1, <1>3, <3>1, OneMoreWritten
  <2>. QED
    BY <1>1, <1>2, <1>3, <2>1, <2>2 DEF Saving
<1>7. Accounted'
  BY <1>1, <1>2, <1>3, <1>6 DEF Accounted
<1>. QED
  BY <1>4, <1>5, <1>7

(* A line after which the process still runs. *)
LEMMA LineKept ==
  ASSUME ReplInv, NEW line \in Lines, Reads(line),
         running' = running, status' = status,
         prepared' \in {Nothing, Prepare(Buffer(line))},
         Running', disk' = disk, reported' \in [Keys -> Nat],
         Rows(db'.pages) = Plus(Rows(disk.pages), reported'),
         db'.num_pages \in Nat, db.num_pages <= db'.num_pages
  PROVE  (ReplTypeOK /\ Understood /\ Accounted)'
<1>1. /\ running /\ ~closing /\ lines < MaxLines /\ lines' = lines + 1
      /\ typed' = line /\ found' = found
      /\ UNCHANGED <<file, closing, saved, short>>
  BY DEF Reads, AtPrompt, saving
<1>2. line \in Line /\ MaxLines \in Nat
  BY ReplAssumption
<1>3. lines' \in 0 .. MaxLines
  BY <1>1, <1>2 DEF ReplInv, ReplTypeOK
<1>4. /\ prepared'.result \in {"nothing", "insert", "select", "syntax_error",
                               "negative_id", "string_too_long", "unrecognized"}
      /\ prepared'.row.id \in Keys
  <2>1. CASE prepared' = Nothing
    <3>1. 0 \in Keys
      BY ReplAssumption, IntSize
    <3>. QED
      BY <2>1, <3>1 DEF Nothing, Prepared, NoRow
  <2>2. CASE prepared' = Prepare(Buffer(line))
    BY <1>2, <2>2, BufferIsLine, PreparedType
  <2>. QED
    BY <2>1, <2>2
<1>5. ReplTypeOK'
  BY <1>1, <1>2, <1>3, <1>4 DEF ReplInv, ReplTypeOK, Running
<1>6. Understood'
  BY <1>1 DEF Understood
<1>7. Saving'
  <2>1. /\ TableInv /\ Saving /\ saved = 0 /\ Running
    BY <1>1 DEF ReplInv, ReplTypeOK, Accounted, Saving
  <2>2. disk.num_pages \in Nat /\ db.num_pages \in Nat
    BY <2>1, PagesCounted
  <2>3. file = disk /\ WrittenUpTo(disk, db'.pages, 0) = disk
    BY <2>1, NothingWritten DEF Saving
  <2>. QED
    BY <1>1, <2>1, <2>2, <2>3 DEF Saving
<1>8. Accounted'
  BY <1>1, <1>7 DEF ReplInv, Accounted
<1>. QED
  BY <1>5, <1>6, <1>8

(* A line that leaves the rows as they are. *)
LEMMA SameRowsKept ==
  ASSUME ReplInv, NEW line \in Lines, Reads(line),
         running' = running, status' = status,
         prepared' \in {Nothing, Prepare(Buffer(line))},
         UNCHANGED <<db, disk, reported>>
  PROVE  (ReplTypeOK /\ Understood /\ Accounted)'
<1>1. /\ running /\ running = Running /\ reported \in [Keys -> Nat]
  BY DEF Reads, AtPrompt, ReplInv, ReplTypeOK
<1>2. Running' /\ db.num_pages \in Nat
  BY <1>1, PagesCounted DEF Running, ReplInv
<1>3. Rows(db'.pages) = Plus(Rows(disk.pages), reported')
  BY <1>1 DEF ReplInv, Accounted
<1>. QED
  BY <1>1, <1>2, <1>3, LineKept

(* No insert gives a page back. *)
LEMMA GrownIsMore ==
  ASSUME NEW n, NEW pages, NEW pos, NEW key, NEW w, NEW n1, NEW result,
         Sound(n, pages), Grown(n, pages, pos, key, w, n1, result)
  PROVE  n \in Nat /\ n1 \in Nat /\ n <= n1
<1>1. n \in Nat
  BY DEF Sound
<1>2. RootPlaced(n, pages, pos, key) => n = 1
  BY RootLeafFacts DEF RootPlaced
<1>. QED
  BY <1>1, <1>2 DEF Grown

(* An insert the process survives adds the row it reports, or reports that it
   did not. *)
LEMMA InsertKept ==
  ASSUME ReplInv, NEW line \in Lines, NEW w \in Words, ExecuteInsert(line, w)
  PROVE  (ReplTypeOK /\ Understood /\ Accounted)'
<1>. DEFINE statement == Prepare(Buffer(line))
            id == statement.row.id
<1>1. running /\ Insert(id, w)
  BY DEF ExecuteInsert, AtPrompt
<1>2. IF db'.fate # "runs" THEN \E with \in {"1", "SIGSEGV"} : Ends(with)
      ELSE /\ Reads(line)
           /\ prepared' = statement
           /\ running' = running /\ status' = status
           /\ reported' = IF reply'.kind = "duplicate" THEN reported
                          ELSE [reported EXCEPT ![id] = @ + 1]
  BY DEF ExecuteInsert, Aftermath, Says
<1>3. line \in Line /\ id \in Keys
  BY ReplAssumption, BufferIsLine, PreparedType
<1>. HIDE DEF id, statement
<1>4. disk' = disk /\ Running
  BY <1>1 DEF Insert
<1>5. CASE db'.fate # "runs"
  <2>1. ~Running'
    BY <1>5 DEF Running
  <2>2. PICK with \in {"1", "SIGSEGV"} : Ends(with)
    BY <1>2, <1>5
  <2>. QED
    BY <1>1, <2>1, <2>2, EndKept
<1>6. CASE db'.fate = "runs"
  <2>1. /\ Reads(line) /\ prepared' = statement
        /\ running' = running /\ status' = status
        /\ reported' = IF reply'.kind = "duplicate" THEN reported
                       ELSE [reported EXCEPT ![id] = @ + 1]
    BY <1>2, <1>6
  <2>2. PICK n, pages : /\ db = Db(n, pages) /\ db.pages = pages
                        /\ Sound(n, pages) /\ Ordered(pages) /\ Kept(pages)
    BY <1>4, RunningIsKept DEF ReplInv
  <2>3. PICK pos \in LeafPositions(pages[FindLeaf(pages, id)], id) :
          \/ db' = db /\ reply' = Reply("duplicate", <<id>>)
          \/ db' \in Lost
          \/ /\ reply' = Reply("inserted", <<id>>)
             /\ \E n1, result : /\ db' = Db(n1, result) /\ Sound(n1, result)
                                /\ Grown(n, pages, pos, id, w, n1, result)
    BY <1>1, <1>3, <2>2, InsertDoes
  <2>4. CASE db' = db /\ reply' = Reply("duplicate", <<id>>)
    <3>1. reported' = reported
      BY <2>1, <2>4 DEF Reply
    <3>. QED
      BY <1>4, <2>1, <2>4, <3>1, SameRowsKept DEF statement
  <2>5. db' \notin Lost
    BY <1>6, Fates
  <2>6. ASSUME NEW n1, NEW result, reply' = Reply("inserted", <<id>>),
               db' = Db(n1, result), Sound(n1, result),
               Grown(n, pages, pos, id, w, n1, result)
        PROVE  (ReplTypeOK /\ Understood /\ Accounted)'
    <3>1. reported' = [reported EXCEPT ![id] = @ + 1]
      BY <2>1, <2>6 DEF Reply
    <3>2. OneMore(pages, id, result)
      <4>1. w \in Nat
        BY BTreeAssumption
      <4>. QED
        BY <1>3, <2>2, <2>6, <4>1, GrownIsKept
    <3>3. Rows(result) = [Rows(pages) EXCEPT ![id] = @ + 1]
      BY <1>3, <2>2, <2>6, <3>2, BagAfter, RowsAreTheBag
    <3>4. db'.pages = result /\ Running'
      BY <1>6, <2>6, Fates DEF Running
    <3>5. /\ reported \in [Keys -> Nat] /\ Rows(disk.pages) \in [Keys -> Nat]
          /\ Rows(pages) = Plus(Rows(disk.pages), reported)
      BY <1>1, <2>2, RowsType DEF ReplInv, ReplTypeOK, Accounted
    <3>6. reported' \in [Keys -> Nat]
      BY <1>3, <3>1, <3>5
    <3>7. Rows(result) = Plus(Rows(disk.pages), reported')
      <4>. DEFINE bag == Rows(disk.pages)
      <4>1. \A k \in Keys : Plus(bag, reported)[k] = bag[k] + reported[k]
        BY DEF Plus
      <4>. HIDE DEF bag
      <4>2. Rows(result) = [Plus(bag, reported) EXCEPT ![id] = @ + 1]
        BY <3>3, <3>5 DEF bag
      <4>3. [Plus(bag, reported) EXCEPT ![id] = @ + 1]
              = [k \in Keys |-> IF k = id THEN (bag[k] + reported[k]) + 1
                                ELSE bag[k] + reported[k]]
        BY <1>3 DEF Plus
      <4>4. \A k \in Keys : bag[k] + reported'[k]
                              = IF k = id THEN (bag[k] + reported[k]) + 1
                                ELSE bag[k] + reported[k]
        BY <1>3, <3>1, <3>5 DEF bag
      <4>. QED
        BY <4>2, <4>3, <4>4 DEF Plus, bag
    <3>8. db'.num_pages \in Nat /\ db.num_pages <= db'.num_pages
      BY <2>2, <2>6, GrownIsMore, Fates
    <3>. QED
      BY <1>4, <2>1, <3>4, <3>6, <3>7, <3>8, LineKept DEF statement
  <2>. QED
    BY <2>3, <2>4, <2>5, <2>6
<1>. QED
  BY <1>5, <1>6

LEMMA ReplInductive ==
  ASSUME ReplInv, [ReplNext]_vars_
  PROVE  ReplInv'
<1>1. TableInv'
  BY PromptSteps, TableInvIsKept DEF ReplInv
<1>. DEFINE Goal == (ReplTypeOK /\ Understood /\ Accounted)'
<1>2. ASSUME NEW w \in Words, StartSession(w)
      PROVE  Goal
  BY <1>2, StartKept
<1>3. ASSUME CannotOpen
      PROVE  Goal
  BY <1>3, CannotOpenKept
<1>4. ASSUME Cleanup
      PROVE  Goal
  BY <1>4, CleanupKept
<1>5. ASSUME FlushPage \/ FinishClose \/ TransferFails \/ Killed
      PROVE  Goal
  BY <1>5, FlushKept, FinishKept, BrokenOffKept
<1>6. ASSUME NEW line \in Lines, Meta(line)
      PROVE  Goal
  <2>1. /\ Reads(line) /\ prepared' = Nothing
        /\ running' = running /\ status' = status
        /\ UNCHANGED <<db, disk, reported>>
    BY <1>6 DEF Meta, Says, vars
  <2>. QED
    BY <2>1, SameRowsKept
<1>7. ASSUME NEW line \in Lines, NotPrepared(line)
      PROVE  Goal
  <2>1. /\ Reads(line) /\ prepared' = Prepare(Buffer(line))
        /\ running' = running /\ status' = status
        /\ UNCHANGED <<db, disk, reported>>
    BY <1>7 DEF NotPrepared, Says, vars
  <2>. QED
    BY <2>1, SameRowsKept
<1>8. ASSUME NEW line \in Lines, ExecuteSelect(line)
      PROVE  Goal
  <2>1. /\ Reads(line) /\ prepared' = Prepare(Buffer(line))
        /\ running' = running /\ status' = status
        /\ UNCHANGED <<db, disk, reported>>
    BY <1>8 DEF ExecuteSelect, Says, Select
  <2>. QED
    BY <2>1, SameRowsKept
<1>9. ASSUME NEW line \in Lines, NEW w \in Words, ExecuteInsert(line, w)
      PROVE  Goal
  BY <1>9, InsertKept
<1>10. ASSUME UNCHANGED vars_
      PROVE  Goal
  <2>1. /\ db' = db /\ disk' = disk /\ running' = running /\ status' = status
        /\ typed' = typed /\ prepared' = prepared /\ lines' = lines
        /\ reported' = reported /\ found' = found /\ file' = file
        /\ closing' = closing /\ saved' = saved /\ short' = short
    BY <1>10 DEF vars_, vars, shown, saving
  <2>2. Running' = Running
    BY <2>1 DEF Running
  <2>. QED
    BY <2>1, <2>2
       DEF ReplInv, ReplTypeOK, Understood, Accounted, Saving, StatusTellsSaved
<1>11. \A line \in Lines : Exit(line) => Cleanup
  BY DEF Exit
<1>12. Goal
  <2>. HIDE DEF Goal
  <2>. QED
    BY <1>2, <1>3, <1>4, <1>5, <1>6, <1>7, <1>8, <1>9, <1>10, <1>11
       DEF ReplNext, EndOfInput
<1>. QED
  BY <1>1, <1>12 DEF ReplInv

LEMMA ReplInvHolds == ReplSpec => []ReplInv
<1>1. ReplInit => ReplInv
  <2>. SUFFICES ASSUME ReplInit PROVE ReplInv
    OBVIOUS
  <2>1. /\ db = Closed /\ disk = EmptyFile /\ running = FALSE
        /\ status = "none" /\ typed = NoLine /\ prepared = Nothing
        /\ lines = 0 /\ reported = None /\ found = file /\ file = disk
        /\ closing = FALSE /\ saved = 0 /\ short = FALSE
    BY DEF ReplInit, Init
  <2>2. ~Running
    BY <2>1, Fates DEF Running
  <2>3. TableInv
    BY <2>1, <2>2, Fates DEF TableInv, ScanInv, OrderInv
  <2>4. ReplTypeOK
    <3>1. NoLine \in Line
      BY DEF NoLine, Line
    <3>2. 0 \in Keys /\ 0 \in 0 .. MaxLines
      BY ReplAssumption, IntSize
    <3>3. Nothing.result = "nothing" /\ Nothing.row.id \in Keys
      BY <3>2 DEF Nothing, Prepared, NoRow
    <3>4. None \in [Keys -> Nat]
      BY DEF None
    <3>5. running = Running
      BY <2>1, <2>2 DEF Running
    <3>. QED
      BY <2>1, <3>1, <3>2, <3>3, <3>4, <3>5 DEF ReplTypeOK
  <2>5. Understood
    BY <2>1 DEF Understood
  <2>6. Accounted
    BY <2>1 DEF Accounted, StatusTellsSaved
  <2>. QED
    BY <2>3, <2>4, <2>5, <2>6 DEF ReplInv
<1>2. ReplInv /\ [ReplNext]_vars_ => ReplInv'
  BY ReplInductive
<1>. QED
  BY <1>1, <1>2, PTL DEF ReplSpec

-----------------------------------------------------------------------------
(* Theorems *)

(* ReplTypeOK: no id that statement_prepare_insert accepts is one the rows of
   the tree could not have, and the process runs while its database is open. *)
THEOREM PromptTypes == ReplSpec => []ReplTypeOK
<1>1. ReplInv => ReplTypeOK
  BY DEF ReplInv
<1>. QED
  BY <1>1, ReplInvHolds, PTL

(* StatusTellsSaved, of main, database_close, pager_flush and every exit of
   src/btree.c: for every tree and every set of lines, a close that wrote every
   page whole has saved each row the session reported once more than it found
   it; an end before the first page is written leaves the file as it was, and
   of one after it, or of a write that fell short, no such thing is said. *)
THEOREM StatusIsTrue == ReplSpec => []StatusTellsSaved
<1>1. ReplInv => StatusTellsSaved
  BY DEF ReplInv, ReplTypeOK, Accounted, StatusTellsSaved
<1>. QED
  BY <1>1, ReplInvHolds, PTL

(* StoredAsTyped, of input_read, statement_prepare_insert, row_serialize and
   row_print: for every width of int and long and every size of a column, the
   row of a line is the one it says and comes back from its bytes. *)
THEOREM LinesAreKept == ReplSpec => []StoredAsTyped
<1>1. ReplInv => StoredAsTyped
  <2>. SUFFICES ASSUME ReplInv PROVE StoredAsTyped
    OBVIOUS
  <2>1. typed \in Line
    BY DEF ReplInv, ReplTypeOK
  <2>2. Nothing.result = "nothing"
    BY DEF Nothing, Prepared
  <2>3. CASE prepared = Nothing
    BY <2>2, <2>3 DEF StoredAsTyped, MeansWhatWasTyped, RowComesBack
  <2>4. CASE prepared = Prepare(Buffer(typed))
    <3>1. MeansWhatWasTyped
      BY <2>1, <2>4, TypedIsMeant DEF MeansWhatWasTyped
    <3>2. RowComesBack
      <4>1. Buffer(typed) \in Line
        BY <2>1, BufferIsLine
      <4>. QED
        BY <2>4, <4>1, AcceptedComesBack DEF RowComesBack
    <3>. QED
      BY <3>1, <3>2 DEF StoredAsTyped
  <2>. QED
    BY <2>3, <2>4 DEF ReplInv, Understood
<1>. QED
  BY <1>1, ReplInvHolds, PTL

=============================================================================
