---------------------------- MODULE PagerProofs ------------------------------
(***************************************************************************)
(* What module Pager keeps for every size of a page, of the array and of   *)
(* the writes that are cut short.                                          *)
(***************************************************************************)
EXTENDS MCPager, TLAPS

-----------------------------------------------------------------------------
(* Arithmetic of pages and units *)

LEMMA TimesGrows ==
  ASSUME NEW n \in Nat, NEW a \in Nat, NEW b \in Nat, a <= b
  PROVE  a * n \in Nat /\ a * n <= b * n
  OBVIOUS

LEMMA NextTimes ==
  ASSUME NEW n \in Nat, NEW a \in Nat
  PROVE  (a + 1) * n = a * n + n
  OBVIOUS

LEMMA DivideRest ==
  ASSUME NEW n \in Nat \ {0}, NEW l \in Nat
  PROVE  /\ l \div n \in Nat
         /\ (l \div n) * n <= l
         /\ l % n = 0 => (l \div n) * n = l
  OBVIOUS

LEMMA DivideAtMost ==
  ASSUME NEW n \in Nat \ {0}, NEW l \in Nat, NEW m \in Nat, l <= m * n
  PROVE  l \div n <= m
  OBVIOUS

-----------------------------------------------------------------------------
(* The inductive invariant *)

Slots == 0 .. MaxPages - 1

PagerRecord ==
  [file_length : Nat, num_pages : 0 .. MaxPages,
   pages : [Slots -> PageContent \cup {NULL}]]

Types ==
  /\ file \in Seq(Unit) /\ before \in Seq(Unit)
  /\ phase \in {"none", "refused", "running", "closing", "outside"}
  /\ closing \in Nat /\ session \in 0 .. MaxSessions
  /\ pager \in PagerRecord \/ pager = NoPager
  /\ InSession => pager \in PagerRecord /\ session > 0

(* No write goes behind the last page the array has room for. *)
FileFits == Len(file) <= MaxPages * PageUnits

(* Until it closes the session leaves the file alone. *)
FileAsFound ==
  /\ phase # "closing" => closing = 0
  /\ phase = "running" => file = before /\ pager.file_length = Len(file)

FromHereOrBefore(unit, k) ==
  unit = session \/ IF k <= Len(before) THEN unit = before[k] ELSE unit = Junk

(* What is in the cache is the session's or what the file had there. *)
CachedAsFound ==
  InSession => \A p \in Slots : pager.pages[p] # NULL =>
    \A u \in 1 .. PageUnits : FromHereOrBefore(pager.pages[p][u], p * PageUnits + u)

IInv ==
  /\ Types /\ FileFits /\ FileAsFound /\ CachedAsFound
  /\ CachedOrSaved /\ UnusedIsNew /\ OldOrNew

-----------------------------------------------------------------------------
(* A page is never NULL, and a loaded one is what the file has. *)
LEMMA PageIsNotNull ==
  ASSUME NEW page \in PageContent
  PROVE  page # NULL
  <1>1. DOMAIN page = 1 .. PageUnits  BY DEF PageContent
  <1>2. 1 \in DOMAIN page  BY <1>1, PagerAssumption
  <1>3. DOMAIN <<>> = {}  OBVIOUS
  <1> QED  BY <1>2, <1>3 DEF NULL

LEMMA LoadedAsFound ==
  ASSUME IInv, phase = "running", NEW p \in Slots
  PROVE  /\ Loaded(p) \in PageContent
         /\ \A u \in 1 .. PageUnits : FromHereOrBefore(Loaded(p)[u], p * PageUnits + u)
  <1> USE PagerAssumption
  <1>1. /\ file = before /\ pager.file_length = Len(file) /\ file \in Seq(Unit)
        /\ Len(file) \in Nat
    BY DEF IInv, FileAsFound, Types
  <1>2. p \in Nat /\ p * PageUnits \in Nat  BY TimesGrows DEF Slots
  <1>3. ASSUME NEW u \in 1 .. PageUnits
        PROVE  /\ Loaded(p)[u] = IF p * PageUnits + u <= Len(file)
                                 THEN file[p * PageUnits + u] ELSE Junk
               /\ Loaded(p)[u] \in Unit
    <2>1. Loaded(p)[u] = IF p * PageUnits + u <= Len(file)
                         THEN file[p * PageUnits + u] ELSE Junk
      BY <1>1 DEF Loaded
    <2>2. p * PageUnits + u <= Len(file) => p * PageUnits + u \in 1 .. Len(file)
      BY <1>1, <1>2
    <2>3. p * PageUnits + u <= Len(file) => file[p * PageUnits + u] \in Unit
      BY <2>2, <1>1
    <2> QED  BY <2>1, <2>3 DEF Unit
  <1>4. Loaded(p) \in PageContent
    <2>1. Loaded(p) = [u \in 1 .. PageUnits |-> Loaded(p)[u]]  BY DEF Loaded
    <2> QED  BY <2>1, <1>3 DEF PageContent
  <1> QED  BY <1>1, <1>3, <1>4 DEF FromHereOrBefore

(* What pager_get_page returns: the page is there, the others are as before,
   and the count covers both. *)
LEMMA GetPageKeeps ==
  ASSUME IInv, phase = "running", NEW p \in Slots, p <= pager.num_pages
  PROVE  LET g == GetPage(pager, p) IN
         /\ g \in PagerRecord
         /\ g.file_length = pager.file_length
         /\ g.pages[p] \in PageContent
         /\ g.pages[p] = IF pager.pages[p] # NULL THEN pager.pages[p] ELSE Loaded(p)
         /\ \A q \in Slots \ {p} : g.pages[q] = pager.pages[q]
         /\ \A u \in 1 .. PageUnits : FromHereOrBefore(g.pages[p][u], p * PageUnits + u)
         /\ g.num_pages = IF p = pager.num_pages THEN p + 1 ELSE pager.num_pages
  <1> DEFINE g == GetPage(pager, p)
  <1>1. pager \in PagerRecord  BY DEF IInv, Types, InSession
  <1>2. p \in Nat /\ p + 1 \in 0 .. MaxPages  BY PagerAssumption DEF Slots
  <1>3. CASE pager.pages[p] # NULL
    <2>1. g = pager  BY <1>3 DEF GetPage
    <2>2. p < pager.num_pages
      BY <1>1, <1>3 DEF IInv, UnusedIsNew, PagerRecord
    <2>3. \A u \in 1 .. PageUnits : FromHereOrBefore(g.pages[p][u], p * PageUnits + u)
      BY <1>3, <2>1 DEF IInv, CachedAsFound, InSession
    <2>4. g.pages[p] \in PageContent  BY <1>1, <1>3, <2>1 DEF PagerRecord
    <2>5. pager.num_pages \in Nat  BY <1>1 DEF PagerRecord
    <2> QED  BY <1>1, <1>2, <1>3, <2>1, <2>2, <2>3, <2>4, <2>5
  <1>4. CASE pager.pages[p] = NULL
    <2>1. g = [pager EXCEPT !.pages[p] = Loaded(p), !.num_pages = CountWith(@, p)]
      BY <1>4 DEF GetPage
    <2>2. /\ Loaded(p) \in PageContent
          /\ \A u \in 1 .. PageUnits : FromHereOrBefore(Loaded(p)[u], p * PageUnits + u)
      BY LoadedAsFound
    <2>3. /\ g.file_length = pager.file_length
          /\ g.pages = [pager.pages EXCEPT ![p] = Loaded(p)]
          /\ g.num_pages = CountWith(pager.num_pages, p)
      BY <1>1, <2>1 DEF PagerRecord
    <2>4. CountWith(pager.num_pages, p)
            = IF p = pager.num_pages THEN p + 1 ELSE pager.num_pages
      BY <1>1, <1>2 DEF CountWith, PagerRecord
    <2>5. g.pages[p] = Loaded(p) /\ \A q \in Slots \ {p} : g.pages[q] = pager.pages[q]
      BY <1>1, <2>3 DEF PagerRecord
    <2>6. g \in PagerRecord
      <3>1. g.pages \in [Slots -> PageContent \cup {NULL}]
        BY <1>1, <2>2, <2>3 DEF PagerRecord
      <3>2. g.num_pages \in 0 .. MaxPages /\ g.file_length \in Nat
        BY <1>1, <1>2, <2>3, <2>4 DEF PagerRecord
      <3> QED  BY <1>1, <2>1, <3>1, <3>2 DEF PagerRecord
    <2> QED  BY <1>4, <2>2, <2>3, <2>4, <2>5, <2>6
  <1> QED  BY <1>3, <1>4

-----------------------------------------------------------------------------
(* The steps *)

LEMMA InitKeeps == Init => IInv
  BY PagerAssumption DEF Init, IInv, Types, FileFits, FileAsFound, CachedAsFound,
     CachedOrSaved, UnusedIsNew, OldOrNew, InSession

(* What pager_open and database_open make of the file: without a page of it
   the session starts with one of its own, otherwise with nothing read. *)
LEMMA OpenDoes ==
  ASSUME IInv, Open
  PROVE  /\ FilePages \in Nat /\ FilePages * PageUnits = Len(file)
         /\ FilePages <= MaxPages
         /\ pager' \in PagerRecord /\ pager'.file_length = Len(file)
         /\ FilePages = 0 =>
              /\ pager'.num_pages = 1
              /\ pager'.pages[0] \in PageContent
              /\ \A u \in 1 .. PageUnits : pager'.pages[0][u] \in {session', Junk}
              /\ \A p \in Slots \ {0} : pager'.pages[p] = NULL
         /\ FilePages # 0 =>
              /\ pager'.num_pages = FilePages
              /\ \A p \in Slots : pager'.pages[p] = NULL
  <1> USE PagerAssumption
  <1> DEFINE count == PagesIn(Len(file))
             first == [u \in 1 .. PageUnits |-> IF u = 1 THEN session + 1 ELSE Junk]
  <1>1. /\ file \in Seq(Unit) /\ Len(file) \in Nat /\ session + 1 \in 1 .. MaxSessions
        /\ session' = session + 1 /\ phase' = "running" /\ closing' = 0
        /\ before' = file /\ file' = file
    BY DEF IInv, Types, FileAsFound, Open, NoSession
  <1>2. /\ count \in Nat /\ count * PageUnits = Len(file) /\ count <= MaxPages
    BY <1>1, DivideRest, DivideAtMost DEF Open, WholePages, PagesIn, IInv, FileFits
  <1>3. /\ NewPager \in PagerRecord
        /\ NewPager.num_pages = count
        /\ NewPager.file_length = Len(file)
        /\ \A p \in Slots : NewPager.pages[p] = NULL
    BY <1>1, <1>2 DEF NewPager, PagerRecord, Slots
  <1>4. first \in PageContent
    BY <1>1 DEF PageContent, Unit
  <1>5. 0 \in Slots  BY DEF Slots
  <1>6. CASE count = 0
    <2>1. pager' = [GetPage(NewPager, 0) EXCEPT !.pages[0] = first]
      BY <1>1, <1>3, <1>6 DEF Open
    <2>2. GetPage(NewPager, 0)
            = [NewPager EXCEPT !.pages[0] = Loaded(0), !.num_pages = CountWith(@, 0)]
      BY <1>3, <1>5 DEF GetPage
    <2> DEFINE g == GetPage(NewPager, 0)
    <2>3. /\ g.file_length = Len(file) /\ g.num_pages = 1
          /\ g.pages = [NewPager.pages EXCEPT ![0] = Loaded(0)]
          /\ g = [file_length |-> Len(file), num_pages |-> 1, pages |-> g.pages]
      <3>1. g.pages = [NewPager.pages EXCEPT ![0] = Loaded(0)]
        BY <1>3, <2>2 DEF PagerRecord
      <3>2. g.file_length = Len(file)  BY <1>3, <2>2 DEF PagerRecord
      <3>3. g.num_pages = CountWith(NewPager.num_pages, 0)  BY <1>3, <2>2 DEF PagerRecord
      <3>4. CountWith(NewPager.num_pages, 0) = 1  BY <1>3, <1>6 DEF CountWith
      <3>5. g = [file_length |-> g.file_length, num_pages |-> g.num_pages,
                 pages |-> g.pages]
        BY <1>3, <2>2 DEF PagerRecord
      <3> HIDE DEF g
      <3> QED  BY <3>1, <3>2, <3>3, <3>4, <3>5
    <2>a. /\ pager' = [file_length |-> Len(file), num_pages |-> 1, pages |-> pager'.pages]
          /\ pager'.pages = [NewPager.pages EXCEPT ![0] = first]
      <3> HIDE DEF g
      <3>1. pager' = [g EXCEPT !.pages[0] = first]  BY <2>1 DEF g
      <3>2. pager'.pages = [g.pages EXCEPT ![0] = first]  BY <2>3, <3>1
      <3>3. g.pages[0] = Loaded(0) /\ DOMAIN g.pages = Slots
            /\ \A p \in Slots \ {0} : g.pages[p] = NewPager.pages[p]
        BY <1>3, <1>5, <2>3 DEF PagerRecord
      <3>4. [g.pages EXCEPT ![0] = first] = [NewPager.pages EXCEPT ![0] = first]
        BY <1>3, <1>5, <3>3 DEF PagerRecord
      <3> QED  BY <2>3, <3>1, <3>2, <3>4
    <2>b. /\ pager'.pages[0] = first /\ \A p \in Slots \ {0} : pager'.pages[p] = NULL
          /\ pager'.pages \in [Slots -> PageContent \cup {NULL}]
          /\ pager'.file_length = Len(file) /\ pager'.num_pages = 1
      BY <1>3, <1>4, <1>5, <2>a DEF PagerRecord
    <2>4. pager' \in PagerRecord
      <3>1. 1 \in 0 .. MaxPages  OBVIOUS
      <3> QED  BY <1>1, <2>a, <2>b, <3>1 DEF PagerRecord
    <2> QED  BY <1>1, <1>2, <1>4, <1>6, <2>b, <2>4 DEF PagesIn, FilePages
  <1>7. CASE count # 0
    <2>1. pager' = NewPager  BY <1>3, <1>7 DEF Open
    <2> QED  BY <1>2, <1>3, <1>7, <2>1 DEF PagesIn, FilePages
  <1> QED  BY <1>6, <1>7

LEMMA OpenKeeps == IInv /\ Open => IInv'
  <1> SUFFICES ASSUME IInv, Open PROVE IInv'  OBVIOUS
  <1> USE PagerAssumption
  <1>1. /\ file \in Seq(Unit) /\ Len(file) \in Nat /\ session + 1 \in 1 .. MaxSessions
        /\ session' = session + 1 /\ phase' = "running" /\ closing' = 0
        /\ before' = file /\ file' = file
    BY DEF IInv, Types, FileAsFound, Open, NoSession
  <1>2. /\ FilePages \in Nat /\ FilePages * PageUnits = Len(file)
        /\ pager' \in PagerRecord /\ pager'.file_length = Len(file)
    BY OpenDoes
  <1>3. Types' /\ FileFits' /\ FileAsFound' /\ OldOrNew'
    BY <1>1, <1>2 DEF IInv, Types, FileFits, FileAsFound, OldOrNew, InSession
  <1>4. DOMAIN pager'.pages = Slots /\ Pages' = 0 .. pager'.num_pages - 1
    BY <1>2 DEF PagerRecord, Pages
  <1>5. CASE FilePages = 0
    <2>1. /\ pager'.num_pages = 1
          /\ pager'.pages[0] \in PageContent
          /\ \A u \in 1 .. PageUnits : pager'.pages[0][u] \in {session', Junk}
          /\ \A p \in Slots \ {0} : pager'.pages[p] = NULL
      BY <1>5, OpenDoes
    <2>2. Len(file) = 0  BY <1>2, <1>5
    <2>3. CachedAsFound'
      <3>1. ASSUME NEW u \in 1 .. PageUnits
            PROVE  FromHereOrBefore(pager.pages[0][u], 0 * PageUnits + u)'
        <4>1. ~(0 * PageUnits + u <= Len(before'))  BY <1>1, <2>2
        <4>2. pager'.pages[0][u] = session' \/ pager'.pages[0][u] = Junk  BY <2>1
        <4> QED  BY <4>1, <4>2 DEF FromHereOrBefore
      <3> QED  BY <2>1, <3>1 DEF CachedAsFound
    <2>4. CachedOrSaved' /\ UnusedIsNew'
      <3>1. pager'.pages[0] # NULL  BY <2>1, PageIsNotNull
      <3>2. 1 * PageUnits >= Len(file)  BY <2>2
      <3> QED  BY <1>1, <1>4, <2>1, <3>1, <3>2
            DEF CachedOrSaved, UnusedIsNew, InSession
    <2> QED  BY <1>3, <2>3, <2>4 DEF IInv
  <1>6. CASE FilePages # 0
    <2>1. pager'.num_pages = FilePages /\ \A p \in Slots : pager'.pages[p] = NULL
      BY <1>6, OpenDoes
    <2>2. CachedAsFound'  BY <2>1 DEF CachedAsFound
    <2>3. CachedOrSaved'
      <3>1. ASSUME NEW p \in 0 .. FilePages - 1
            PROVE  (p + 1) * PageUnits <= Len(file)
        BY <1>2, TimesGrows
      <3> QED  BY <1>1, <1>4, <2>1, <3>1 DEF CachedOrSaved
    <2>4. UnusedIsNew'  BY <1>1, <1>2, <1>4, <2>1 DEF UnusedIsNew
    <2> QED  BY <1>3, <2>2, <2>3, <2>4 DEF IInv
  <1> QED  BY <1>5, <1>6

LEMMA LookKeeps == ASSUME NEW p \in 0 .. CallerPages PROVE IInv /\ Look(p) => IInv'
  <1> SUFFICES ASSUME IInv, Look(p) PROVE IInv'  OBVIOUS
  <1> DEFINE g == GetPage(pager, p)
  <1>1. /\ phase = "running" /\ p \in Slots /\ p < pager.num_pages
        /\ UNCHANGED <<file, phase, closing, session, before>> /\ pager' = g
    BY PagerAssumption DEF Look, Slots
  <1>2. pager \in PagerRecord  BY <1>1 DEF IInv, Types, InSession
  <1>3. /\ g \in PagerRecord
        /\ g.file_length = pager.file_length
        /\ g.pages[p] \in PageContent
        /\ \A q \in Slots \ {p} : g.pages[q] = pager.pages[q]
        /\ \A u \in 1 .. PageUnits : FromHereOrBefore(g.pages[p][u], p * PageUnits + u)
        /\ g.num_pages = pager.num_pages
    BY <1>1, <1>2, GetPageKeeps DEF PagerRecord
  <1>4. g.pages[p] # NULL  BY <1>3, PageIsNotNull
  <1>5. Types' /\ FileFits' /\ FileAsFound' /\ OldOrNew'
    BY <1>1, <1>3 DEF IInv, Types, FileFits, FileAsFound, OldOrNew, InSession
  <1>6. CachedAsFound'
    <2>1. ASSUME NEW q \in Slots, pager'.pages[q] # NULL, NEW u \in 1 .. PageUnits
          PROVE  FromHereOrBefore(pager'.pages[q][u], q * PageUnits + u)
      <3>1. CASE q = p  BY <1>1, <1>3, <3>1
      <3>2. CASE q # p
        <4>1. pager'.pages[q] = pager.pages[q]  BY <1>1, <1>3, <3>2
        <4> QED  BY <1>1, <2>1, <4>1 DEF IInv, CachedAsFound, InSession
      <3> QED  BY <3>1, <3>2
    <2> QED  BY <1>1, <2>1 DEF CachedAsFound, FromHereOrBefore
  <1>7. CachedOrSaved'
    <2>1. \A q \in Pages : q \in Slots  BY <1>2, PagerAssumption DEF Pages, PagerRecord, Slots
    <2> QED  BY <1>1, <1>3, <1>4, <2>1 DEF IInv, CachedOrSaved, Pages, InSession
  <1>8. UnusedIsNew'
    <2>1. DOMAIN g.pages = Slots /\ DOMAIN pager.pages = Slots
      BY <1>2, <1>3 DEF PagerRecord
    <2> QED  BY <1>1, <1>3, <2>1 DEF IInv, UnusedIsNew
  <1> QED  BY <1>5, <1>6, <1>7, <1>8 DEF IInv

(* What a statement does that writes into a page: that page is there then. *)
LEMMA ChangeDoes ==
  ASSUME IInv, NEW p \in 0 .. CallerPages, NEW u \in 1 .. PageUnits, Change(p, u)
  PROVE  /\ p \in Slots /\ p <= pager.num_pages /\ pager \in PagerRecord
         /\ pager'.pages[p] \in PageContent /\ pager'.pages[p] # NULL
         /\ \A v \in 1 .. PageUnits :
              FromHereOrBefore(pager'.pages[p][v], p * PageUnits + v)
         /\ \A q \in Slots \ {p} : pager'.pages[q] = pager.pages[q]
         /\ pager'.file_length = pager.file_length
         /\ pager'.num_pages = IF p = pager.num_pages THEN p + 1 ELSE pager.num_pages
         /\ pager' \in PagerRecord
  <1> DEFINE g == GetPage(pager, p)
             page == [g.pages[p] EXCEPT ![u] = session]
  <1>1. /\ phase = "running" /\ p \in Slots /\ p <= pager.num_pages
        /\ UNCHANGED <<file, phase, closing, session, before>>
        /\ pager' = [g EXCEPT !.pages[p][u] = session]
    BY PagerAssumption DEF Change, Slots
  <1>2. pager \in PagerRecord /\ session \in 1 .. MaxSessions
    BY <1>1, PagerAssumption DEF IInv, Types, InSession
  <1>3. /\ g \in PagerRecord
        /\ g.file_length = pager.file_length
        /\ g.pages[p] \in PageContent
        /\ \A q \in Slots \ {p} : g.pages[q] = pager.pages[q]
        /\ \A v \in 1 .. PageUnits : FromHereOrBefore(g.pages[p][v], p * PageUnits + v)
        /\ g.num_pages = IF p = pager.num_pages THEN p + 1 ELSE pager.num_pages
    BY <1>1, GetPageKeeps
  <1>4. /\ pager' = [file_length |-> g.file_length, num_pages |-> g.num_pages,
                     pages |-> pager'.pages]
        /\ pager'.pages = [g.pages EXCEPT ![p] = page]
    <2> HIDE DEF g
    <2> QED  BY <1>1, <1>3 DEF PagerRecord
  <1>5. /\ page \in PageContent /\ page # NULL
        /\ \A v \in 1 .. PageUnits : FromHereOrBefore(page[v], p * PageUnits + v)
    <2> HIDE DEF g
    <2>1. page \in PageContent  BY <1>2, <1>3 DEF PageContent, Unit
    <2>2. \A v \in 1 .. PageUnits : page[v] = IF v = u THEN session ELSE g.pages[p][v]
      BY <1>3 DEF PageContent
    <2>3. \A v \in 1 .. PageUnits : FromHereOrBefore(page[v], p * PageUnits + v)
      BY <1>3, <2>2 DEF FromHereOrBefore
    <2> HIDE DEF page
    <2> QED  BY <2>1, <2>3, PageIsNotNull
  <1>6. /\ pager'.pages[p] = page
        /\ \A q \in Slots \ {p} : pager'.pages[q] = pager.pages[q]
        /\ pager'.pages \in [Slots -> PageContent \cup {NULL}]
        /\ pager'.file_length = pager.file_length
        /\ pager'.num_pages = IF p = pager.num_pages THEN p + 1 ELSE pager.num_pages
        /\ pager' \in PagerRecord
    <2> HIDE DEF g, page
    <2>1. pager'.pages \in [Slots -> PageContent \cup {NULL}]
      BY <1>1, <1>3, <1>4, <1>5 DEF PagerRecord
    <2>2. pager'.file_length = g.file_length /\ pager'.num_pages = g.num_pages
      BY <1>4
    <2> QED  BY <1>1, <1>3, <1>4, <1>5, <2>1, <2>2 DEF PagerRecord
  <1> QED
    <2> HIDE DEF g, page
    <2> QED  BY <1>1, <1>2, <1>5, <1>6

LEMMA ChangeKeeps ==
  ASSUME NEW p \in 0 .. CallerPages, NEW u \in 1 .. PageUnits
  PROVE  IInv /\ Change(p, u) => IInv'
  <1> SUFFICES ASSUME IInv, Change(p, u) PROVE IInv'  OBVIOUS
  <1>1. /\ phase = "running" /\ UNCHANGED <<file, phase, closing, session, before>>
        /\ session \in 1 .. MaxSessions
    BY PagerAssumption DEF Change, IInv, Types, InSession
  <1>2. /\ p \in Slots /\ p <= pager.num_pages /\ pager \in PagerRecord
        /\ pager'.pages[p] # NULL
        /\ \A v \in 1 .. PageUnits :
             FromHereOrBefore(pager'.pages[p][v], p * PageUnits + v)
        /\ \A q \in Slots \ {p} : pager'.pages[q] = pager.pages[q]
        /\ pager'.file_length = pager.file_length
        /\ pager'.num_pages = IF p = pager.num_pages THEN p + 1 ELSE pager.num_pages
        /\ pager' \in PagerRecord
    BY ChangeDoes
  <1>3. Types' /\ FileFits' /\ FileAsFound' /\ OldOrNew'
    BY <1>1, <1>2 DEF IInv, Types, FileFits, FileAsFound, OldOrNew, InSession
  <1>4. CachedAsFound'
    <2>1. ASSUME NEW q \in Slots, pager'.pages[q] # NULL, NEW v \in 1 .. PageUnits
          PROVE  FromHereOrBefore(pager'.pages[q][v], q * PageUnits + v)
      <3>1. CASE q = p  BY <1>2, <3>1
      <3>2. CASE q # p
        <4>1. pager'.pages[q] = pager.pages[q]  BY <1>2, <3>2
        <4> QED  BY <1>1, <2>1, <4>1 DEF IInv, CachedAsFound, InSession
      <3> QED  BY <3>1, <3>2
    <2>2. UNCHANGED <<session, before>>  BY <1>1
    <2> QED  BY <2>1, <2>2 DEF CachedAsFound, FromHereOrBefore
  <1>5. CachedOrSaved'
    <2>1. ASSUME NEW q \in Pages', pager'.pages[q] = NULL
          PROVE  q \in Pages /\ pager.pages[q] = NULL
      <3>1. q # p  BY <1>2, <2>1
      <3>2. q \in Pages
        BY <1>2, <3>1 DEF Pages, PagerRecord
      <3>3. q \in Slots  BY <1>2, <3>2, PagerAssumption DEF Pages, PagerRecord, Slots
      <3> QED  BY <1>2, <2>1, <3>1, <3>2, <3>3
    <2> QED  BY <1>1, <2>1 DEF IInv, CachedOrSaved, InSession
  <1>6. UnusedIsNew'
    <2>1. DOMAIN pager'.pages = Slots /\ DOMAIN pager.pages = Slots
      BY <1>2 DEF PagerRecord
    <2>2. /\ pager.num_pages \in Nat /\ pager'.num_pages \in Nat
          /\ pager.num_pages <= pager'.num_pages /\ p < pager'.num_pages
      BY <1>1, <1>2 DEF PagerRecord, Slots
    <2>3. /\ Len(file) \in Nat /\ PageUnits \in Nat
          /\ pager.num_pages * PageUnits >= Len(file)
      BY <1>1, PagerAssumption DEF IInv, Types, UnusedIsNew
    <2>4. pager'.num_pages * PageUnits >= Len(file)
      BY <2>2, <2>3, TimesGrows
    <2>5. \A q \in Slots : pager'.pages[q] # NULL => q < pager'.num_pages
      <3>1. \A q \in Slots \ {p} : pager'.pages[q] # NULL => q < pager.num_pages
        BY <1>1, <1>2, <2>1 DEF IInv, UnusedIsNew
      <3> QED  BY <2>2, <3>1 DEF Slots
    <2> QED  BY <1>1, <2>1, <2>4, <2>5 DEF UnusedIsNew
  <1> QED  BY <1>3, <1>4, <1>5, <1>6 DEF IInv

LEMMA StartCloseKeeps == IInv /\ StartClose => IInv'
  BY DEF IInv, StartClose, Types, FileFits, FileAsFound, CachedAsFound,
     FromHereOrBefore, CachedOrSaved, Pages, UnusedIsNew, OldOrNew, InSession

LEMMA SkipPageKeeps == IInv /\ SkipPage => IInv'
  BY DEF IInv, SkipPage, AtPage, Types, FileFits, FileAsFound, CachedAsFound,
     FromHereOrBefore, CachedOrSaved, Pages, UnusedIsNew, OldOrNew, InSession

(* Whatever the session ends with, the file stays as the last write left it. *)
LEMMA EndKeeps == IInv /\ EndSession => IInv'
  BY DEF IInv, EndSession, Types, FileFits, FileAsFound, CachedAsFound,
     CachedOrSaved, UnusedIsNew, OldOrNew, InSession

LEMMA IdleKeeps == IInv /\ (Refuse \/ LeaveArray \/ UNCHANGED vars) => IInv'
  BY DEF IInv, Refuse, LeaveArray, NoSession, vars, Types, FileFits, FileAsFound,
     CachedAsFound, FromHereOrBefore, CachedOrSaved, Pages, UnusedIsNew, OldOrNew,
     InSession

(* A write within page p of what the session may have there leaves units that
   are the session's or those the session found, and fits the array. *)
LEMMA WriteKeeps ==
  ASSUME IInv, phase = "closing", NEW p \in Slots, pager.pages[p] # NULL,
         NEW n \in 1 .. PageUnits
  PROVE  LET written == WriteAt(p, pager.pages[p], n) IN
         /\ written \in Seq(Unit)
         /\ Len(written) \in Nat
         /\ Len(file) <= Len(written)
         /\ Len(written) <= MaxPages * PageUnits
         /\ \A k \in 1 .. Len(written) :
              written[k] = session \/ (IF k <= Len(before) THEN written[k] = before[k]
                                       ELSE written[k] \in {Junk, Hole})
  <1> USE PagerAssumption
  <1> DEFINE page == pager.pages[p]
             start == p * PageUnits
             length == IF start + n > Len(file) THEN start + n ELSE Len(file)
             written == WriteAt(p, page, n)
  <1>1. /\ pager \in PagerRecord /\ session \in 1 .. MaxSessions
        /\ file \in Seq(Unit) /\ Len(file) \in Nat /\ Len(before) \in Nat
        /\ Len(before) <= Len(file) /\ Len(file) <= MaxPages * PageUnits
    BY DEF IInv, Types, InSession, FileFits, OldOrNew
  <1>2. page \in PageContent  BY <1>1 DEF PagerRecord
  <1>3. start \in Nat /\ start + n <= MaxPages * PageUnits
    <2>1. p \in Nat /\ p + 1 \in Nat /\ p + 1 <= MaxPages  BY DEF Slots
    <2>2. (p + 1) * PageUnits = start + PageUnits  BY <2>1, NextTimes
    <2>3. (p + 1) * PageUnits <= MaxPages * PageUnits /\ start \in Nat
      BY <2>1, TimesGrows
    <2> HIDE DEF start
    <2>4. MaxPages * PageUnits \in Nat  BY TimesGrows
    <2> QED  BY <2>2, <2>3, <2>4
  <1> HIDE DEF start
  <1>4. length \in Nat /\ Len(file) <= length /\ length <= MaxPages * PageUnits
    BY <1>1, <1>3
  <1>5. written = [k \in 1 .. length |->
                     IF k \in start + 1 .. start + n THEN page[k - start]
                     ELSE IF k <= Len(file) THEN file[k] ELSE Hole]
    BY DEF WriteAt, start
  <1> HIDE DEF page, length
  <1>6. ASSUME NEW k \in 1 .. length
        PROVE  /\ written[k] \in Unit
               /\ written[k] = session
                  \/ (IF k <= Len(before) THEN written[k] = before[k]
                      ELSE written[k] \in {Junk, Hole})
    <2>1. CASE k \in start + 1 .. start + n
      <3>1. k - start \in 1 .. PageUnits /\ start + (k - start) = k  BY <1>3, <2>1
      <3>2. written[k] = page[k - start]  BY <1>5, <2>1
      <3>3. FromHereOrBefore(page[k - start], p * PageUnits + (k - start))
        BY <3>1 DEF IInv, CachedAsFound, InSession, page
      <3>4. FromHereOrBefore(page[k - start], k)  BY <3>1, <3>3 DEF start
      <3>5. page[k - start] \in Unit  BY <1>2, <3>1 DEF PageContent
      <3> QED  BY <3>2, <3>4, <3>5 DEF FromHereOrBefore
    <2>2. CASE k \notin start + 1 .. start + n /\ k <= Len(file)
      <3>1. written[k] = file[k] /\ k \in 1 .. Len(file)  BY <1>1, <1>5, <2>2
      <3>2. file[k] \in Unit  BY <1>1, <3>1
      <3>3. file[k] = session \/ (IF k <= Len(before) THEN file[k] = before[k]
                                  ELSE file[k] \in {Junk, Hole})
        BY <1>1, <3>1 DEF IInv, OldOrNew
      <3> QED  BY <3>1, <3>2, <3>3
    <2>3. CASE k \notin start + 1 .. start + n /\ ~(k <= Len(file))
      <3>1. written[k] = Hole /\ ~(k <= Len(before))  BY <1>1, <1>4, <1>5, <2>3
      <3> QED  BY <3>1 DEF Unit
    <2> QED  BY <2>1, <2>2, <2>3
  <1>7. written \in [1 .. length -> Unit]  BY <1>5, <1>6
  <1>8. written \in Seq(Unit) /\ Len(written) = length  BY <1>4, <1>7
  <1> HIDE DEF written
  <1>9. /\ written \in Seq(Unit) /\ Len(written) \in Nat /\ Len(file) <= Len(written)
        /\ Len(written) <= MaxPages * PageUnits
        /\ \A k \in 1 .. Len(written) :
              written[k] = session \/ (IF k <= Len(before) THEN written[k] = before[k]
                                       ELSE written[k] \in {Junk, Hole})
    BY <1>4, <1>6, <1>8
  <1> QED  BY <1>9 DEF written, page

LEMMA FlushPageKeeps == IInv /\ FlushPage => IInv'
  <1> SUFFICES ASSUME IInv, FlushPage PROVE IInv'  OBVIOUS
  <1> USE PagerAssumption
  <1>1. /\ phase = "closing" /\ closing \in Nat /\ closing < pager.num_pages
        /\ pager \in PagerRecord /\ pager.pages[closing] # NULL
        /\ UNCHANGED <<phase, session, before>>
        /\ pager' = [pager EXCEPT !.pages[closing] = NULL]
        /\ closing' = closing + 1
    BY DEF IInv, Types, InSession, FlushPage, AtPage
  <1>2. closing \in Slots  BY <1>1 DEF PagerRecord, Slots
  <1>3. PICK n \in 1 .. PageUnits : file' = WriteAt(closing, pager.pages[closing], n)
    BY DEF FlushPage, Written
  <1>4. /\ file' \in Seq(Unit) /\ Len(file') \in Nat /\ Len(file) <= Len(file')
        /\ Len(file') <= MaxPages * PageUnits
        /\ \A k \in 1 .. Len(file') :
              file'[k] = session \/ (IF k <= Len(before) THEN file'[k] = before[k]
                                     ELSE file'[k] \in {Junk, Hole})
    BY <1>1, <1>2, <1>3, WriteKeeps
  <1>5. /\ pager' \in PagerRecord
        /\ pager'.num_pages = pager.num_pages
        /\ \A q \in Slots \ {closing} : pager'.pages[q] = pager.pages[q]
        /\ pager'.pages[closing] = NULL
    BY <1>1, <1>2 DEF PagerRecord
  <1>6. Types' /\ FileFits' /\ FileAsFound'
    BY <1>1, <1>4, <1>5 DEF IInv, Types, FileFits, FileAsFound, InSession
  <1>7. CachedAsFound'
    <2>1. ASSUME NEW q \in Slots, pager'.pages[q] # NULL, NEW u \in 1 .. PageUnits
          PROVE  FromHereOrBefore(pager'.pages[q][u], q * PageUnits + u)
      <3>1. q # closing /\ pager'.pages[q] = pager.pages[q]  BY <1>5, <2>1
      <3> QED  BY <1>1, <2>1, <3>1 DEF IInv, CachedAsFound, InSession
    <2> QED  BY <1>1, <2>1 DEF CachedAsFound, FromHereOrBefore
  <1>8. CachedOrSaved'
    <2>1. ASSUME NEW q \in Pages, q >= closing + 1
          PROVE  q \in Slots /\ q # closing /\ q >= closing
      BY <1>1, <2>1 DEF Pages, PagerRecord, Slots
    <2> QED  BY <1>1, <1>5, <2>1 DEF IInv, CachedOrSaved, Pages, InSession
  <1>9. UnusedIsNew'  BY <1>1 DEF UnusedIsNew
  <1>10. OldOrNew'
    <2>1. Len(before) <= Len(file) /\ Len(before) \in Nat /\ Len(file) \in Nat
      BY <1>1 DEF IInv, Types, InSession, OldOrNew
    <2> QED  BY <1>1, <1>4, <2>1 DEF OldOrNew
  <1> QED  BY <1>6, <1>7, <1>8, <1>9, <1>10 DEF IInv

LEMMA NextKeeps == IInv /\ [Next]_vars => IInv'
  BY OpenKeeps, LookKeeps, ChangeKeeps, StartCloseKeeps, SkipPageKeeps,
     FlushPageKeeps, EndKeeps, IdleKeeps DEF Next, FinishClose, Die

LEMMA Invariant == Spec => []IInv
  BY InitKeeps, NextKeeps, PTL DEF Spec

-----------------------------------------------------------------------------
(* Types hold, and the pages never outgrow the array (src/pager.c). *)
THEOREM PagesFit == Spec => []TypeOK
  <1>1. IInv => TypeOK
    BY PagerAssumption DEF IInv, Types, TypeOK, PagerRecord, NoPager
  <1> QED  BY <1>1, Invariant, PTL

(* A page the close skips has been saved by an earlier session: nothing is
   counted that is neither cached nor in the file (database_close). *)
THEOREM NothingSkippedIsLost == Spec => []CachedOrSaved
  <1>1. IInv => CachedOrSaved  BY DEF IInv
  <1> QED  BY <1>1, Invariant, PTL

(* A new page never gets the number of one there is, neither of the file nor
   of the cache (pager_get_unused_page_num). *)
THEOREM NewPagesAreNew == Spec => []UnusedIsNew
  <1>1. IInv => UnusedIsNew  BY DEF IInv
  <1> QED  BY <1>1, Invariant, PTL

(* However a session ends, by a kill or a failure between two pages or within
   one, each unit of the file is old or the session's (pager_flush). *)
THEOREM KillMixesOnlyOldAndNew == Spec => []OldOrNew
  <1>1. IInv => OldOrNew  BY DEF IInv
  <1> QED  BY <1>1, Invariant, PTL

(* What a session sees of a page is what it changed and otherwise what the
   file had when it began, looked at before or not (pager_get_page). *)
THEOREM SessionSeesTheFile == Spec => []CacheIsFaithful
  <1>1. ASSUME IInv PROVE CacheIsFaithful
    <2> SUFFICES ASSUME phase = "running", NEW p \in Pages, NEW u \in 1 .. PageUnits
                 PROVE  FromHereOrBefore(Seen(p)[u], p * PageUnits + u)
      BY DEF CacheIsFaithful, FromHereOrBefore
    <2>1. p \in Slots /\ p \in Nat /\ pager \in PagerRecord /\ closing = 0
      BY <1>1, PagerAssumption
      DEF IInv, Types, FileAsFound, InSession, Pages, PagerRecord, Slots
    <2>2. CASE pager.pages[p] # NULL
      BY <1>1, <2>1, <2>2 DEF IInv, CachedAsFound, InSession, Seen
    <2>3. CASE pager.pages[p] = NULL
      <3>1. (p + 1) * PageUnits <= Len(before) /\ before = file /\ Len(before) \in Nat
        BY <1>1, <2>1, <2>3 DEF IInv, Types, FileAsFound, CachedOrSaved, InSession
      <3>2. p * PageUnits \in Nat /\ (p + 1) * PageUnits = p * PageUnits + PageUnits
        BY <2>1, TimesGrows, NextTimes, PagerAssumption
      <3>3. p * PageUnits + u <= Len(before)  BY <3>1, <3>2, PagerAssumption
      <3>4. Seen(p)[u] = before[p * PageUnits + u]
        BY <2>3, <3>1 DEF Seen, FilePage
      <3> QED  BY <3>3, <3>4 DEF FromHereOrBefore
    <2> QED  BY <2>2, <2>3
  <1> QED  BY <1>1, Invariant, PTL

-----------------------------------------------------------------------------
(* A disk that stores every write as a whole *)

(* Then the file consists of pages, all of them pages of the session; what of
   the session is not in its cache is in the file; and behind the close
   everything is written and nothing cached. *)
WholeInv ==
  whole =>
    /\ FilePages * PageUnits = Len(file)
    /\ InSession =>
         /\ FilePages <= pager.num_pages
         /\ \A p \in Pages : pager.pages[p] = NULL => p < FilePages
    /\ phase = "closing" =>
         /\ closing <= pager.num_pages /\ closing <= FilePages
         /\ \A p \in Slots : p < closing => pager.pages[p] = NULL

DiskInv == IInv /\ whole \in BOOLEAN /\ WholeInv

LEMMA FileTypes ==
  ASSUME IInv
  PROVE  /\ file \in Seq(Unit) /\ Len(file) \in Nat /\ FilePages \in Nat
         /\ PageUnits \in Nat \ {0} /\ MaxPages \in Nat
  BY SMTT(30), DivideRest, PagerAssumption DEF IInv, Types, FilePages

LEMMA SessionTypes ==
  ASSUME IInv, InSession
  PROVE  /\ pager \in PagerRecord /\ pager.num_pages \in 0 .. MaxPages
         /\ DOMAIN pager.pages = Slots /\ Pages \subseteq Slots
         /\ Slots \subseteq Nat
         /\ \A p \in Slots : pager.pages[p] \in PageContent \cup {NULL}
  BY PagerAssumption DEF IInv, Types, PagerRecord, Pages, Slots

(* Units of different pages are different units. *)
LEMMA PagesApart ==
  ASSUME NEW n \in Nat \ {0}, NEW p \in Nat, NEW q \in Nat, p # q,
         NEW u \in 1 .. n
  PROVE  /\ p * n \in Nat /\ q * n \in Nat
         /\ q * n + u \notin p * n + 1 .. p * n + n
  <1>1. p * n \in Nat /\ q * n \in Nat  BY TimesGrows
  <1>2. (p + 1) * n = p * n + n /\ (q + 1) * n = q * n + n  BY NextTimes
  <1>3. CASE q < p
    <2>1. (q + 1) * n <= p * n  BY <1>3, TimesGrows
    <2> HIDE <1>3
    <2> QED  BY <1>1, <1>2, <2>1
  <1>4. CASE p < q
    <2>1. (p + 1) * n <= q * n  BY <1>4, TimesGrows
    <2> QED  BY <1>1, <1>2, <2>1
  <1> QED  BY <1>3, <1>4

LEMMA UnitOfPage ==
  ASSUME NEW n \in Nat \ {0}, NEW m \in Nat, NEW p \in Nat, p < m, NEW u \in 1 .. n
  PROVE  p * n + u \in 1 .. m * n
  <1>1. p * n \in Nat /\ (p + 1) * n = p * n + n  BY TimesGrows, NextTimes
  <1>2. m * n \in Nat /\ (p + 1) * n <= m * n  BY TimesGrows
  <1> QED  BY <1>1, <1>2

LEMMA PagesOfUnits ==
  ASSUME NEW n \in Nat \ {0}, NEW m \in Nat
  PROVE  (m * n) \div n = m
  OBVIOUS

LEMMA FilePageIsContent ==
  ASSUME IInv, FilePages * PageUnits = Len(file), NEW p \in Nat, p < FilePages
  PROVE  FilePage(p) \in PageContent
  <1>1. ASSUME NEW u \in 1 .. PageUnits PROVE file[p * PageUnits + u] \in Unit
    <2>1. p * PageUnits + u \in 1 .. Len(file)  BY FileTypes, UnitOfPage
    <2> QED  BY <2>1, FileTypes
  <1> QED  BY <1>1 DEF FilePage, PageContent

(* A page that is flushed as a whole is a page of the file then; the others
   are as they were (pager_flush). *)
LEMMA WholeWrite ==
  ASSUME IInv, FilePages * PageUnits = Len(file), NEW p \in Slots, p <= FilePages,
         NEW page \in PageContent, file' = WriteAt(p, page, PageUnits)
  PROVE  /\ FilePages' = IF p >= FilePages THEN p + 1 ELSE FilePages
         /\ FilePages' * PageUnits = Len(file')
         /\ FilePage(p)' = page
         /\ \A q \in 0 .. FilePages - 1 : q # p => FilePage(q)' = FilePage(q)
  <1> DEFINE n == PageUnits
             start == p * n
             length == IF start + n > Len(file) THEN start + n ELSE Len(file)
             m == IF p >= FilePages THEN p + 1 ELSE FilePages
  <1>1. /\ file \in Seq(Unit) /\ Len(file) \in Nat /\ FilePages \in Nat
        /\ n \in Nat \ {0} /\ p \in Nat /\ m \in Nat
    BY FileTypes DEF Slots
  <1>2. start \in Nat /\ (p + 1) * n = start + n  BY <1>1, TimesGrows, NextTimes
  <1>3. length = m * n
    <2>1. CASE p >= FilePages
      <3>1. p = FilePages  BY <1>1, <2>1
      <3>2. start = Len(file)  BY <3>1
      <3> QED  BY <1>1, <1>2, <2>1, <3>2
    <2>2. CASE ~(p >= FilePages)
      <3>1. (p + 1) * n <= FilePages * n  BY <1>1, <2>2, TimesGrows
      <3> QED  BY <1>1, <1>2, <2>2, <3>1
    <2> QED  BY <2>1, <2>2
  <1>4. m * n \in Nat  BY <1>1, TimesGrows
  <1>5. file' = [k \in 1 .. m * n |->
                   IF k \in start + 1 .. start + n THEN page[k - start]
                   ELSE IF k <= Len(file) THEN file[k] ELSE Hole]
    BY <1>3 DEF WriteAt
  <1> HIDE DEF start, length, m
  <1>6. Len(file') = m * n
    <2>1. DOMAIN file' = 1 .. m * n  BY <1>5
    <2>2. file' \in [1 .. m * n -> {file'[k] : k \in 1 .. m * n}]  BY <1>5
    <2> QED  BY <1>4, <2>1, <2>2
  <1>7. FilePages' = m  BY <1>1, <1>6, PagesOfUnits DEF FilePages
  <1>8. FilePage(p)' = page
    <2>1. ASSUME NEW u \in 1 .. n PROVE file'[start + u] = page[u]
      <3>1. start + u \in 1 .. m * n
        <4>1. p < m  BY <1>1 DEF m
        <4> QED  BY <1>1, <4>1, UnitOfPage DEF start
      <3>2. start + u \in start + 1 .. start + n /\ (start + u) - start = u
        BY <1>1, <1>2
      <3> QED  BY <1>5, <3>1, <3>2
    <2>2. FilePage(p)' = [u \in 1 .. n |-> file'[start + u]]  BY DEF FilePage, start
    <2>3. page = [u \in 1 .. n |-> page[u]]  BY DEF PageContent
    <2> QED  BY <2>1, <2>2, <2>3
  <1>9. ASSUME NEW q \in 0 .. FilePages - 1, q # p
        PROVE  FilePage(q)' = FilePage(q)
    <2>1. q \in Nat /\ q < FilePages /\ q < m  BY <1>1 DEF m
    <2>2. ASSUME NEW u \in 1 .. n PROVE file'[q * n + u] = file[q * n + u]
      <3>1. q * n + u \in 1 .. m * n /\ q * n + u \in 1 .. Len(file)
        BY <1>1, <2>1, UnitOfPage
      <3>2. q * n + u \notin start + 1 .. start + n
        BY <1>1, <1>9, <2>1, PagesApart DEF start
      <3> QED  BY <1>1, <1>5, <3>1, <3>2
    <2>3. FilePage(q)' = [u \in 1 .. n |-> file'[q * n + u]]  BY DEF FilePage
    <2>4. FilePage(q) = [u \in 1 .. n |-> file[q * n + u]]  BY DEF FilePage
    <2> QED  BY <2>2, <2>3, <2>4
  <1> QED  BY <1>6, <1>7, <1>8, <1>9 DEF m

(* The steps keep it. *)

LEMMA DiskInitKeeps == DiskInit => DiskInv
  <1> SUFFICES ASSUME DiskInit PROVE DiskInv  OBVIOUS
  <1>1. IInv  BY InitKeeps DEF DiskInit
  <1>2. Len(file) = 0 /\ ~InSession  BY DEF DiskInit, Init, InSession
  <1>3. 0 \div PageUnits = 0 /\ 0 * PageUnits = 0  BY PagerAssumption
  <1> QED  BY <1>1, <1>2, <1>3 DEF DiskInv, WholeInv, FilePages, InSession, DiskInit

LEMMA OpenKeepsWhole == DiskInv /\ Open => (whole' = whole => WholeInv')
  <1> SUFFICES ASSUME DiskInv, Open, whole, whole' = whole PROVE WholeInv'
    BY DEF WholeInv
  <1>1. IInv /\ FilePages \in Nat /\ FilePages * PageUnits = Len(file)
    BY FileTypes DEF DiskInv, WholeInv
  <1>2. file' = file /\ phase' = "running" /\ FilePages' = FilePages
    BY DEF Open, FilePages
  <1>3. ASSUME FilePages = 0
        PROVE  FilePages <= pager'.num_pages /\ pager'.num_pages = 1
               /\ pager'.pages[0] # NULL
    BY <1>1, <1>3, OpenDoes, PageIsNotNull
  <1>4. ASSUME FilePages # 0
        PROVE  pager'.num_pages = FilePages
    BY <1>1, <1>4, OpenDoes
  <1> QED  BY <1>1, <1>2, <1>3, <1>4 DEF WholeInv, Pages, InSession

LEMMA LookKeepsWhole ==
  ASSUME DiskInv, NEW p \in 0 .. CallerPages, Look(p), whole' = whole
  PROVE  WholeInv'
  <1> DEFINE g == GetPage(pager, p)
  <1>1. /\ phase = "running" /\ p \in Slots /\ p < pager.num_pages /\ IInv
        /\ UNCHANGED <<file, phase, closing>> /\ pager' = g /\ InSession
    BY PagerAssumption DEF Look, Slots, DiskInv, InSession
  <1>2. /\ g.pages[p] \in PageContent
        /\ \A q \in Slots \ {p} : g.pages[q] = pager.pages[q]
        /\ g.num_pages = IF p = pager.num_pages THEN p + 1 ELSE pager.num_pages
    BY <1>1, SessionTypes, GetPageKeeps
  <1>3. g.pages[p] # NULL /\ g.num_pages = pager.num_pages
    BY <1>1, <1>2, SessionTypes, PageIsNotNull
  <1>4. FilePages' = FilePages /\ Pages' = Pages /\ Pages \subseteq Slots
    BY <1>1, <1>3, SessionTypes DEF FilePages, Pages
  <1> HIDE DEF g
  <1> QED  BY <1>1, <1>2, <1>3, <1>4 DEF DiskInv, WholeInv, InSession

LEMMA ChangeKeepsWhole ==
  ASSUME DiskInv, NEW p \in 0 .. CallerPages, NEW u \in 1 .. PageUnits, Change(p, u),
         whole' = whole
  PROVE  WholeInv'
  <1>1. /\ phase = "running" /\ IInv /\ InSession
        /\ UNCHANGED <<file, phase, closing>>
    BY DEF Change, DiskInv, InSession
  <1>2. /\ p \in Slots /\ p <= pager.num_pages
        /\ pager'.pages[p] # NULL
        /\ \A q \in Slots \ {p} : pager'.pages[q] = pager.pages[q]
        /\ pager'.num_pages = IF p = pager.num_pages THEN p + 1 ELSE pager.num_pages
    BY <1>1, ChangeDoes
  <1>3. /\ FilePages' = FilePages /\ FilePages \in Nat /\ pager.num_pages \in Nat
        /\ Pages \subseteq Slots /\ p \in Nat
    BY <1>1, <1>2, SessionTypes, FileTypes DEF FilePages
  <1>4. ASSUME whole, NEW q \in Pages', pager'.pages[q] = NULL
        PROVE  q < FilePages
    <2>1. q # p /\ q \in Pages  BY <1>2, <1>3, <1>4 DEF Pages
    <2>2. q \in Slots \ {p}  BY <1>3, <2>1
    <2>3. pager'.pages[q] = pager.pages[q]  BY <1>2, <2>2
    <2>4. pager.pages[q] = NULL  BY <1>4, <2>3
    <2> QED  BY <1>1, <1>4, <2>1, <2>4 DEF DiskInv, WholeInv
  <1>5. ASSUME whole PROVE FilePages <= pager'.num_pages
    <2>1. FilePages <= pager.num_pages  BY <1>1, <1>5 DEF DiskInv, WholeInv
    <2> QED  BY <1>2, <1>3, <2>1
  <1>6. whole => FilePages * PageUnits = Len(file)  BY DEF DiskInv, WholeInv
  <1> QED  BY <1>1, <1>3, <1>4, <1>5, <1>6 DEF WholeInv

LEMMA StartCloseKeepsWhole == DiskInv /\ StartClose => (whole' = whole => WholeInv')
  <1> SUFFICES ASSUME DiskInv, StartClose, whole' = whole PROVE WholeInv'  OBVIOUS
  <1>1. IInv /\ InSession  BY DEF DiskInv, StartClose, InSession
  <1>2. /\ FilePages \in Nat /\ pager.num_pages \in Nat /\ Slots \subseteq Nat
        /\ UNCHANGED <<file, pager>> /\ closing' = 0
    BY <1>1, FileTypes, SessionTypes DEF StartClose
  <1>3. FilePages' = FilePages /\ Pages' = Pages  BY <1>2 DEF FilePages, Pages
  <1>4. \A p \in Slots : ~(p < closing')  BY <1>2
  <1> QED  BY <1>1, <1>2, <1>3, <1>4 DEF DiskInv, WholeInv, InSession

LEMMA SkipPageKeepsWhole == DiskInv /\ SkipPage => (whole' = whole => WholeInv')
  <1> SUFFICES ASSUME DiskInv, SkipPage, whole, whole' = whole PROVE WholeInv'
    BY DEF WholeInv
  <1>1. /\ IInv /\ InSession /\ phase = "closing" /\ UNCHANGED <<file, pager, phase>>
        /\ closing < pager.num_pages /\ pager.pages[closing] = NULL
        /\ closing' = closing + 1 /\ closing \in Nat
    BY DEF DiskInv, SkipPage, AtPage, InSession, IInv, Types
  <1>2. FilePages \in Nat /\ pager.num_pages \in Nat /\ Slots \subseteq Nat
    BY <1>1, FileTypes, SessionTypes
  <1>3. FilePages' = FilePages /\ Pages' = Pages  BY <1>1 DEF FilePages, Pages
  <1>4. closing < FilePages  BY <1>1, <1>2 DEF DiskInv, WholeInv, Pages
  <1>5. ASSUME NEW p \in Slots, p < closing + 1
        PROVE  pager.pages[p] = NULL
    <2>1. p \in Nat /\ (p < closing \/ p = closing)  BY <1>1, <1>2, <1>5
    <2> QED  BY <1>1, <2>1 DEF DiskInv, WholeInv
  <1> QED  BY <1>1, <1>2, <1>3, <1>4, <1>5 DEF DiskInv, WholeInv

(* What the close does to a page on such a disk. *)
LEMMA FlushDoes ==
  ASSUME DiskInv, whole, FlushPage, FlushIsWhole, NEW c \in Slots, c = closing
  PROVE  /\ closing < pager.num_pages /\ closing <= FilePages
         /\ pager.pages[closing] \in PageContent
         /\ pager'.num_pages = pager.num_pages
         /\ pager'.pages[closing] = NULL
         /\ \A q \in Slots \ {closing} : pager'.pages[q] = pager.pages[q]
         /\ FilePages' = IF closing >= FilePages THEN closing + 1 ELSE FilePages
         /\ FilePages' * PageUnits = Len(file')
         /\ FilePage(c)' = pager.pages[closing]
         /\ \A q \in 0 .. FilePages - 1 : q # closing => FilePage(q)' = FilePage(q)
  <1>1. /\ IInv /\ InSession /\ phase = "closing" /\ AtPage
        /\ closing < pager.num_pages /\ pager.pages[closing] # NULL
        /\ closing' = closing + 1 /\ closing \in Nat
        /\ pager' = [pager EXCEPT !.pages[closing] = NULL]
    BY DEF DiskInv, FlushPage, AtPage, InSession, IInv, Types
  <1>2. closing \in Slots /\ pager \in PagerRecord
    BY <1>1, SessionTypes, PagerAssumption DEF Slots
  <1>3. closing <= FilePages /\ FilePages * PageUnits = Len(file)
    BY <1>1 DEF DiskInv, WholeInv
  <1>4. file' = WriteAt(closing, pager.pages[closing], PageUnits)
    BY <1>1 DEF FlushIsWhole
  <1>5. pager.pages[closing] \in PageContent  BY <1>1, <1>2, SessionTypes
  <1>6. /\ FilePages' = IF closing >= FilePages THEN closing + 1 ELSE FilePages
        /\ FilePages' * PageUnits = Len(file')
        /\ FilePage(c)' = pager.pages[closing]
        /\ \A q \in 0 .. FilePages - 1 : q # closing => FilePage(q)' = FilePage(q)
    BY <1>1, <1>2, <1>3, <1>4, <1>5, WholeWrite
  <1>7. /\ pager'.num_pages = pager.num_pages
        /\ pager'.pages[closing] = NULL
        /\ \A q \in Slots \ {closing} : pager'.pages[q] = pager.pages[q]
    BY <1>1, <1>2 DEF PagerRecord
  <1> QED  BY <1>1, <1>2, <1>3, <1>5, <1>6, <1>7

LEMMA FlushPageKeepsWhole ==
  DiskInv /\ FlushPage /\ (whole => FlushIsWhole) => (whole' = whole => WholeInv')
  <1> SUFFICES ASSUME DiskInv, FlushPage, FlushIsWhole, whole, whole' = whole
               PROVE  WholeInv'
    BY DEF WholeInv
  <1>1. /\ IInv /\ InSession /\ phase = "closing" /\ phase' = "closing"
        /\ closing' = closing + 1 /\ closing \in Nat
    BY DEF DiskInv, FlushPage, AtPage, InSession, IInv, Types
  <1>0. closing \in Slots
    BY <1>1, SessionTypes, PagerAssumption DEF FlushPage, AtPage, Slots
  <1>2. /\ closing \in Slots /\ closing < pager.num_pages /\ closing <= FilePages
        /\ pager'.num_pages = pager.num_pages
        /\ pager'.pages[closing] = NULL
        /\ \A q \in Slots \ {closing} : pager'.pages[q] = pager.pages[q]
        /\ FilePages' = IF closing >= FilePages THEN closing + 1 ELSE FilePages
        /\ FilePages' * PageUnits = Len(file')
    BY <1>0, FlushDoes
  <1>3. /\ FilePages \in Nat /\ pager.num_pages \in Nat /\ Slots \subseteq Nat
        /\ Pages \subseteq Slots /\ Pages' = Pages
    BY <1>1, <1>2, FileTypes, SessionTypes DEF Pages
  <1>4. /\ FilePages <= FilePages' /\ closing + 1 <= FilePages'
        /\ FilePages' <= pager.num_pages /\ FilePages' \in Nat
    <2>1. FilePages <= pager.num_pages  BY <1>1 DEF DiskInv, WholeInv
    <2> QED  BY <1>1, <1>2, <1>3, <2>1
  <1>5. ASSUME NEW q \in Pages, pager'.pages[q] = NULL
        PROVE  q < FilePages'
    <2>1. CASE q = closing  BY <1>1, <1>4, <2>1
    <2>2. CASE q # closing
      <3>1. pager.pages[q] = NULL  BY <1>2, <1>3, <1>5, <2>2
      <3>2. q < FilePages  BY <1>1, <3>1 DEF DiskInv, WholeInv
      <3> QED  BY <1>3, <1>4, <3>2
    <2> QED  BY <2>1, <2>2
  <1>6. ASSUME NEW q \in Slots, q < closing + 1
        PROVE  pager'.pages[q] = NULL
    <2>1. CASE q = closing  BY <1>2, <2>1
    <2>2. CASE q # closing
      <3>1. q < closing /\ pager'.pages[q] = pager.pages[q]
        BY <1>1, <1>2, <1>3, <1>6, <2>2
      <3> QED  BY <1>1, <3>1 DEF DiskInv, WholeInv
    <2> QED  BY <2>1, <2>2
  <1>7. closing + 1 <= pager.num_pages  BY <1>1, <1>2, <1>3
  <1> QED  BY <1>1, <1>2, <1>3, <1>4, <1>5, <1>6, <1>7 DEF WholeInv

LEMMA EndKeepsWhole ==
  ASSUME DiskInv, UNCHANGED <<file, whole>>, phase' \notin {"running", "closing"}
  PROVE  WholeInv'
  <1>1. FilePages' = FilePages /\ ~InSession'  BY DEF FilePages, InSession
  <1> QED  BY <1>1 DEF DiskInv, WholeInv, InSession

LEMMA DiskNextKeeps == DiskInv /\ [DiskNext]_diskVars => DiskInv'
  <1> SUFFICES ASSUME DiskInv, [DiskNext]_diskVars PROVE DiskInv'  OBVIOUS
  <1>1. CASE UNCHANGED diskVars
    <2>1. UNCHANGED <<vars, whole>>  BY <1>1 DEF diskVars
    <2>2. IInv'  BY <2>1, IdleKeeps DEF DiskInv
    <2>3. FilePages' = FilePages /\ Pages' = Pages /\ InSession' = InSession
      BY <2>1 DEF vars, FilePages, Pages, InSession
    <2> QED  BY <2>1, <2>2, <2>3 DEF DiskInv, WholeInv, vars
  <1>2. CASE DiskNext
    <2>1. Next /\ whole' = whole /\ (whole => FlushIsWhole)  BY <1>2 DEF DiskNext
    <2>2. IInv'  BY <2>1, NextKeeps DEF DiskInv
    <2>3. WholeInv'
      <3>1. CASE Open  BY <2>1, <3>1, OpenKeepsWhole
      <3>2. CASE \E p \in 0 .. CallerPages : Look(p)  BY <2>1, <3>2, LookKeepsWhole
      <3>3. CASE \E p \in 0 .. CallerPages : \E u \in 1 .. PageUnits : Change(p, u)
        BY <2>1, <3>3, ChangeKeepsWhole
      <3>4. CASE StartClose  BY <2>1, <3>4, StartCloseKeepsWhole
      <3>5. CASE SkipPage  BY <2>1, <3>5, SkipPageKeepsWhole
      <3>6. CASE FlushPage  BY <2>1, <3>6, FlushPageKeepsWhole
      <3>7. CASE Refuse \/ LeaveArray \/ FinishClose \/ Die
        <4>1. UNCHANGED <<file, whole>> /\ phase' \notin {"running", "closing"}
          BY <2>1, <3>7 DEF Refuse, LeaveArray, FinishClose, Die, EndSession
        <4> QED  BY <4>1, EndKeepsWhole
      <3> QED  BY <2>1, <3>1, <3>2, <3>3, <3>4, <3>5, <3>6, <3>7 DEF Next
    <2> QED  BY <2>1, <2>2, <2>3 DEF DiskInv
  <1> QED  BY <1>1, <1>2

-----------------------------------------------------------------------------
(* The pager implements the store *)

LEMMA SavedIs ==
  ASSUME NEW n \in Nat, FilePages = n
  PROVE  /\ DOMAIN SavedPages = 1 .. n /\ Len(SavedPages) = n
         /\ \A q \in 1 .. n : SavedPages[q] = FilePage(q - 1)
  <1>1. SavedPages = [q \in 1 .. n |-> FilePage(q - 1)]  BY DEF SavedPages
  <1>2. SavedPages \in [1 .. n -> {FilePage(q - 1) : q \in 1 .. n}]  BY <1>1
  <1> HIDE DEF SavedPages
  <1> QED  BY <1>1, <1>2

LEMMA SeenIs ==
  ASSUME NEW n \in Nat, pager.num_pages = n
  PROVE  /\ DOMAIN SeenPages = 1 .. n /\ Len(SeenPages) = n
         /\ \A q \in 1 .. n : SeenPages[q] = Seen(q - 1)
  <1>1. SeenPages = [q \in 1 .. n |-> Seen(q - 1)]  BY DEF SeenPages
  <1>2. SeenPages \in [1 .. n -> {Seen(q - 1) : q \in 1 .. n}]  BY <1>1
  <1> HIDE DEF SeenPages
  <1> QED  BY <1>1, <1>2

(* The file as it is found is the content a session begins with. *)
LEMMA OpenBegins ==
  ASSUME DiskInv, whole, Open, whole' = whole, EndIsNoted
  PROVE  Store!Begin
  <1>1. /\ IInv /\ FilePages \in Nat /\ FilePages * PageUnits = Len(file)
        /\ PageUnits \in Nat \ {0}
    BY FileTypes DEF DiskInv, WholeInv
  <1>2. file' = file /\ ~InSession /\ InSession' /\ ended' = ended
    BY DEF Open, NoSession, InSession, EndIsNoted
  <1>3. SavedPages' = SavedPages /\ FilePages' = FilePages
    BY <1>2 DEF SavedPages, FilePages, FilePage
  <1>4. pager' \in PagerRecord  BY <1>1, OpenDoes
  <1>5. CASE FilePages = 0
    <2>1. pager'.num_pages = 1 /\ pager'.pages[0] \in PageContent
      BY <1>1, <1>5, OpenDoes
    <2>2. SeenPages' = <<pager'.pages[0]>>
      <3>1. SeenPages' = [q \in 1 .. 1 |-> Seen(q - 1)']  BY <2>1 DEF SeenPages
      <3>2. Seen(0)' = pager'.pages[0]  BY <2>1, PageIsNotNull DEF Seen
      <3> QED  BY <3>1, <3>2
    <2>3. SavedPages = <<>>
      <3>1. SavedPages = [q \in 1 .. 0 |-> FilePage(q - 1)]  BY <1>5 DEF SavedPages
      <3> QED  BY <3>1
    <2> QED  BY <1>2, <1>3, <2>1, <2>2, <2>3 DEF Store!Begin
  <1>6. CASE FilePages # 0
    <2>1. pager'.num_pages = FilePages /\ \A p \in Slots : pager'.pages[p] = NULL
      BY <1>1, <1>6, OpenDoes
    <2>2. FilePages <= MaxPages  BY <1>1, OpenDoes
    <2>3. ASSUME NEW q \in 1 .. FilePages PROVE Seen(q - 1)' = FilePage(q - 1)
      <3>1. q - 1 \in Slots  BY <1>1, <2>2, PagerAssumption DEF Slots
      <3> QED  BY <1>2, <2>1, <3>1 DEF Seen, FilePage
    <2>4. SeenPages' = SavedPages
      BY <2>1, <2>3 DEF SeenPages, SavedPages
    <2>5. SavedPages # <<>>
      <3>1. Len(SavedPages) = FilePages  BY <1>1, SavedIs
      <3> QED  BY <1>6, <3>1
    <2> QED  BY <1>2, <1>3, <2>4, <2>5 DEF Store!Begin
  <1> QED  BY <1>5, <1>6

(* A page that is looked at is what the file has. *)
LEMMA LookShowsThePage ==
  ASSUME DiskInv, whole, NEW p \in 0 .. CallerPages, Look(p), whole' = whole,
         EndIsNoted
  PROVE  UNCHANGED Store!vars
  <1> DEFINE g == GetPage(pager, p)
  <1>1. /\ phase = "running" /\ p \in Slots /\ p < pager.num_pages /\ IInv
        /\ UNCHANGED <<file, phase>> /\ pager' = g /\ InSession /\ InSession'
        /\ ended' = ended
    BY PagerAssumption DEF Look, Slots, DiskInv, InSession, EndIsNoted
  <1>2. /\ g.pages[p] \in PageContent
        /\ g.pages[p] = IF pager.pages[p] # NULL THEN pager.pages[p] ELSE Loaded(p)
        /\ \A q \in Slots \ {p} : g.pages[q] = pager.pages[q]
        /\ g.num_pages = IF p = pager.num_pages THEN p + 1 ELSE pager.num_pages
    BY <1>1, SessionTypes, GetPageKeeps
  <1>3. g.pages[p] # NULL /\ g.num_pages = pager.num_pages
    BY <1>1, <1>2, SessionTypes, PageIsNotNull
  <1>4. /\ FilePages * PageUnits = Len(file) /\ FilePages \in Nat
        /\ PageUnits \in Nat \ {0} /\ pager.num_pages \in Nat
        /\ Pages \subseteq Slots /\ p \in Nat /\ pager.file_length = Len(file)
    BY <1>1, FileTypes, SessionTypes DEF DiskInv, WholeInv, IInv, FileAsFound
  <1>5. ASSUME pager.pages[p] = NULL PROVE Loaded(p) = FilePage(p)
    <2>1. p < FilePages  BY <1>1, <1>4, <1>5 DEF DiskInv, WholeInv, Pages
    <2>2. ASSUME NEW u \in 1 .. PageUnits PROVE p * PageUnits + u <= Len(file)
      <3>1. p * PageUnits + u \in 1 .. FilePages * PageUnits
        BY <1>4, <2>1, UnitOfPage
      <3> QED  BY <1>4, <3>1
    <2> QED  BY <1>4, <2>2 DEF Loaded, FilePage
  <1> HIDE DEF g
  <1>6. ASSUME NEW q \in Pages PROVE Seen(q)' = Seen(q)
    <2>1. FilePage(q)' = FilePage(q)  BY <1>1 DEF FilePage
    <2>2. CASE q = p
      BY <1>1, <1>2, <1>3, <1>5, <2>2 DEF Seen
    <2>3. CASE q # p
      <3>1. g.pages[q] = pager.pages[q]  BY <1>2, <1>4, <2>3
      <3> QED  BY <1>1, <2>1, <3>1 DEF Seen
    <2> QED  BY <2>2, <2>3
  <1>7. SeenPages' = SeenPages
    <2>1. ASSUME NEW q \in 1 .. pager.num_pages PROVE Seen(q - 1)' = Seen(q - 1)
      <3>1. q - 1 \in Pages  BY <1>4 DEF Pages
      <3> QED  BY <1>6, <3>1
    <2> QED  BY <1>1, <1>3, <2>1 DEF SeenPages
  <1>8. SavedPages' = SavedPages
    BY <1>1 DEF SavedPages, FilePages, FilePage
  <1> QED  BY <1>1, <1>7, <1>8 DEF Store!vars

LEMMA ChangeChangesOne ==
  ASSUME DiskInv, whole, NEW p \in 0 .. CallerPages, NEW u \in 1 .. PageUnits,
         Change(p, u), whole' = whole, EndIsNoted
  PROVE  Store!Change
  <1>1. /\ phase = "running" /\ UNCHANGED <<file, phase>> /\ IInv
        /\ InSession /\ InSession' /\ ended' = ended
    BY DEF Change, DiskInv, InSession, EndIsNoted
  <1>2. /\ p \in Slots /\ p <= pager.num_pages
        /\ pager'.pages[p] \in PageContent /\ pager'.pages[p] # NULL
        /\ \A q \in Slots \ {p} : pager'.pages[q] = pager.pages[q]
        /\ pager'.num_pages = IF p = pager.num_pages THEN p + 1 ELSE pager.num_pages
    BY <1>1, ChangeDoes
  <1>3. /\ pager.num_pages \in Nat /\ Pages \subseteq Slots /\ p \in Nat
    BY <1>1, <1>2, SessionTypes
  <1> DEFINE n == pager.num_pages
             m == IF p + 1 > n THEN p + 1 ELSE n
             page == pager'.pages[p]
  <1>4. /\ m \in Nat /\ pager'.num_pages = m /\ p + 1 \in 1 .. m
        /\ p + 1 \in 1 .. n + 1
    BY <1>2, <1>3
  <1>5. Len(SeenPages) = n /\ \A q \in 1 .. n : SeenPages[q] = Seen(q - 1)
    BY <1>3, SeenIs
  <1>6. SeenPages' = [q \in 1 .. m |-> Seen(q - 1)']  BY <1>4 DEF SeenPages
  <1>7. ASSUME NEW q \in 1 .. m
        PROVE  Seen(q - 1)' = IF q = p + 1 THEN page ELSE SeenPages[q]
    <2>1. CASE q = p + 1
      <3>1. q - 1 = p  BY <1>3, <2>1
      <3> QED  BY <1>2, <2>1, <3>1 DEF Seen
    <2>2. CASE q # p + 1
      <3>1. q \in 1 .. n /\ q - 1 # p /\ q - 1 \in Pages
        BY <1>2, <1>3, <1>4, <2>2 DEF Pages
      <3>2. pager'.pages[q - 1] = pager.pages[q - 1]  BY <1>2, <1>3, <3>1
      <3>3. FilePage(q - 1)' = FilePage(q - 1)  BY <1>1 DEF FilePage
      <3> QED  BY <1>5, <2>2, <3>1, <3>2, <3>3 DEF Seen
    <2> QED  BY <2>1, <2>2
  <1>8. SavedPages' = SavedPages
    BY <1>1 DEF SavedPages, FilePages, FilePage
  <1>9. /\ SeenPages' = [q \in 1 .. (IF p + 1 > Len(SeenPages) THEN p + 1
                                     ELSE Len(SeenPages)) |->
                           IF q = p + 1 THEN page ELSE SeenPages[q]]
        /\ p + 1 \in 1 .. Len(SeenPages) + 1
    BY <1>4, <1>5, <1>6, <1>7
  <1>10. page \in PageContent  BY <1>2
  <1> HIDE DEF page, m, n
  <1> QED  BY <1>1, <1>8, <1>9, <1>10 DEF Store!Change

(* A flush saves a page as the session sees it, and the session sees no
   difference. *)
LEMMA FlushSavesOne ==
  ASSUME DiskInv, whole, FlushPage, FlushIsWhole, whole' = whole, EndIsNoted
  PROVE  Store!SaveOne
  <1>1. /\ IInv /\ InSession /\ InSession' /\ ended' = ended
        /\ closing < pager.num_pages /\ pager.pages[closing] # NULL
        /\ closing \in Nat
    BY DEF DiskInv, FlushPage, AtPage, InSession, EndIsNoted, IInv, Types
  <1>2. /\ FilePages \in Nat /\ pager.num_pages \in Nat /\ closing \in Slots
        /\ Pages \subseteq Slots /\ Slots \subseteq Nat
    BY <1>1, FileTypes, SessionTypes, PagerAssumption DEF Slots
  <1>3. PICK c \in Slots : c = closing  BY <1>2
  <1>4. /\ c < pager.num_pages /\ c <= FilePages
        /\ pager'.num_pages = pager.num_pages
        /\ pager'.pages[c] = NULL
        /\ \A q \in Slots \ {c} : pager'.pages[q] = pager.pages[q]
        /\ FilePages' = IF c >= FilePages THEN c + 1 ELSE FilePages
        /\ FilePage(c)' = pager.pages[c]
        /\ \A q \in 0 .. FilePages - 1 : q # c => FilePage(q)' = FilePage(q)
    BY <1>3, FlushDoes
  <1>5. /\ c \in Nat /\ pager.pages[c] # NULL /\ Seen(c) = pager.pages[c]
    BY <1>1, <1>2, <1>3 DEF Seen
  <1> DEFINE n == FilePages
             m == IF c + 1 > n THEN c + 1 ELSE n
  <1>6. /\ n \in Nat /\ m \in Nat /\ FilePages' = m
        /\ c + 1 \in 1 .. n + 1 /\ c + 1 <= pager.num_pages
    BY <1>2, <1>4, <1>5
  <1>7. Len(SavedPages) = n /\ \A q \in 1 .. n : SavedPages[q] = FilePage(q - 1)
    BY <1>6, SavedIs
  <1>8. /\ Len(SeenPages) = pager.num_pages
        /\ \A q \in 1 .. pager.num_pages : SeenPages[q] = Seen(q - 1)
    BY <1>2, SeenIs
  <1>9. SeenPages[c + 1] = pager.pages[c]
    <2>1. c + 1 \in 1 .. pager.num_pages /\ (c + 1) - 1 = c  BY <1>2, <1>5, <1>6
    <2> QED  BY <1>5, <1>8, <2>1
  <1>10. SavedPages' = [q \in 1 .. m |-> FilePage(q - 1)']
    BY <1>6 DEF SavedPages
  <1>11. ASSUME NEW q \in 1 .. m
         PROVE  FilePage(q - 1)' = IF q = c + 1 THEN SeenPages[c + 1] ELSE SavedPages[q]
    <2>1. CASE q = c + 1
      <3>1. q - 1 = c  BY <1>5, <2>1
      <3> QED  BY <1>4, <1>9, <2>1, <3>1
    <2>2. CASE q # c + 1
      <3>1. q \in 1 .. n /\ q - 1 # c /\ q - 1 \in 0 .. n - 1
        BY <1>4, <1>5, <1>6, <2>2
      <3>2. FilePage(q - 1)' = FilePage(q - 1)  BY <1>4, <3>1
      <3> QED  BY <1>7, <2>2, <3>1, <3>2
    <2> QED  BY <2>1, <2>2
  <1>12. /\ SavedPages' = [q \in 1 .. (IF c + 1 > Len(SavedPages) THEN c + 1
                                       ELSE Len(SavedPages)) |->
                             IF q = c + 1 THEN SeenPages[c + 1] ELSE SavedPages[q]]
         /\ c + 1 \in 1 .. Len(SavedPages) + 1 /\ c + 1 <= Len(SeenPages)
    BY <1>6, <1>7, <1>8, <1>10, <1>11
  <1> HIDE DEF m, n
  <1>13. SeenPages' = SeenPages
    <2>1. ASSUME NEW q \in 1 .. pager.num_pages PROVE Seen(q - 1)' = Seen(q - 1)
      <3>1. q - 1 \in Pages /\ q - 1 \in Slots  BY <1>2 DEF Pages
      <3>2. CASE q - 1 = c
        BY <1>4, <1>5, <3>2 DEF Seen
      <3>3. CASE q - 1 # c
        <4>1. pager'.pages[q - 1] = pager.pages[q - 1]  BY <1>4, <3>1, <3>3
        <4>2. ASSUME pager.pages[q - 1] = NULL
              PROVE  FilePage(q - 1)' = FilePage(q - 1)
          <5>1. q - 1 < FilePages /\ q - 1 \in Nat
            BY <1>1, <1>2, <3>1, <4>2 DEF DiskInv, WholeInv
          <5>2. q - 1 \in 0 .. FilePages - 1  BY <1>2, <5>1
          <5> QED  BY <1>4, <3>3, <5>2
        <4> QED  BY <4>1, <4>2 DEF Seen
      <3> QED  BY <3>2, <3>3
    <2> QED  BY <1>4, <2>1 DEF SeenPages
  <1> QED  BY <1>1, <1>12, <1>13 DEF Store!SaveOne

(* An orderly end finds every page saved. *)
LEMMA CloseFinishes ==
  ASSUME DiskInv, whole, FinishClose, whole' = whole, EndIsNoted
  PROVE  Store!Finish
  <1>1. /\ IInv /\ InSession /\ ~InSession' /\ ended' = "orderly" /\ file' = file
        /\ phase = "closing" /\ closing >= pager.num_pages /\ closing \in Nat
    BY DEF DiskInv, FinishClose, EndSession, InSession, EndIsNoted, IInv, Types
  <1>2. /\ FilePages \in Nat /\ pager.num_pages \in Nat
        /\ Pages \subseteq Slots /\ Slots \subseteq Nat
    BY <1>1, FileTypes, SessionTypes
  <1>3. FilePages = pager.num_pages
    BY <1>1, <1>2 DEF DiskInv, WholeInv
  <1>4. ASSUME NEW q \in 1 .. pager.num_pages PROVE Seen(q - 1) = FilePage(q - 1)
    <2>1. q - 1 \in Slots /\ q - 1 < closing  BY <1>1, <1>2 DEF Pages
    <2>2. pager.pages[q - 1] = NULL  BY <1>1, <2>1 DEF DiskInv, WholeInv
    <2> QED  BY <2>2 DEF Seen
  <1>5. SeenPages = SavedPages  BY <1>3, <1>4 DEF SeenPages, SavedPages
  <1>6. SavedPages' = SavedPages
    BY <1>1 DEF SavedPages, FilePages, FilePage
  <1> QED  BY <1>1, <1>5, <1>6 DEF Store!Finish

LEMMA EndBreaks ==
  ASSUME DiskInv, whole, Die \/ LeaveArray, ~FinishClose, whole' = whole, EndIsNoted
  PROVE  Store!Break
  <1>1. InSession /\ ~InSession' /\ ended' = "broken" /\ file' = file
    BY DEF Die, LeaveArray, EndSession, InSession, EndIsNoted
  <1>2. SavedPages' = SavedPages
    BY <1>1 DEF SavedPages, FilePages, FilePage
  <1> QED  BY <1>1, <1>2 DEF Store!Break

(* Where the session neither changes nor saves anything, the store rests. *)
LEMMA QuietRests ==
  ASSUME DiskInv, whole, UNCHANGED <<file, whole, ended>>,
         InSession' = InSession, InSession => UNCHANGED pager
  PROVE  UNCHANGED Store!vars
  <1>1. SavedPages' = SavedPages
    BY DEF SavedPages, FilePages, FilePage
  <1>2. InSession => SeenPages' = SeenPages
    BY DEF SeenPages, Seen, FilePage
  <1> QED  BY <1>1, <1>2 DEF Store!vars

LEMMA StepsAreSteps ==
  DiskInv /\ [DiskNext]_diskVars => [Store!Next]_(Store!vars)
  <1> SUFFICES ASSUME DiskInv, [DiskNext]_diskVars
               PROVE  Store!Next \/ UNCHANGED Store!vars
    OBVIOUS
  <1>1. CASE ~whole
    <2>1. whole' = whole /\ ended' = ended
      BY <1>1 DEF DiskNext, diskVars, EndIsNoted
    <2> QED  BY <1>1, <2>1 DEF Store!vars
  <1>2. CASE whole /\ UNCHANGED diskVars
    <2>1. UNCHANGED <<file, whole, ended, pager>> /\ InSession' = InSession
      BY <1>2 DEF diskVars, vars, InSession
    <2> QED  BY <1>2, <2>1, QuietRests
  <1>3. CASE whole /\ DiskNext
    <2>1. Next /\ whole' = whole /\ FlushIsWhole /\ EndIsNoted  BY <1>3 DEF DiskNext
    <2>2. CASE Open  BY <1>3, <2>1, <2>2, OpenBegins DEF Store!Next
    <2>3. CASE \E p \in 0 .. CallerPages : Look(p)
      BY <1>3, <2>1, <2>3, LookShowsThePage
    <2>4. CASE \E p \in 0 .. CallerPages : \E u \in 1 .. PageUnits : Change(p, u)
      BY <1>3, <2>1, <2>4, ChangeChangesOne DEF Store!Next
    <2>5. CASE Refuse \/ StartClose \/ SkipPage
      <3>1. UNCHANGED <<file, pager>> /\ InSession' = InSession
        BY <2>5 DEF Refuse, NoSession, StartClose, SkipPage, AtPage, InSession
      <3>2. ended' = ended  BY <2>1, <3>1 DEF EndIsNoted
      <3> QED  BY <1>3, <2>1, <3>1, <3>2, QuietRests
    <2>6. CASE FlushPage  BY <1>3, <2>1, <2>6, FlushSavesOne DEF Store!Next
    <2>7. CASE FinishClose  BY <1>3, <2>1, <2>7, CloseFinishes DEF Store!Next
    <2>8. CASE (Die \/ LeaveArray) /\ ~FinishClose
      BY <1>3, <2>1, <2>8, EndBreaks DEF Store!Next
    <2> QED  BY <2>1, <2>2, <2>3, <2>4, <2>5, <2>6, <2>7, <2>8 DEF Next
  <1> QED  BY <1>1, <1>2, <1>3

(* On a disk that stores every write as a whole, and however the session ends,
   the pager is a store of pages, each saved as a whole; an orderly end saves
   all of them (pager_get_page, pager_flush, database_close). *)
THEOREM PagesAreStored == DiskSpec => ImplementsStore
  <1>1. DiskInit => Store!Init
    <2> SUFFICES ASSUME DiskInit PROVE Store!Init  OBVIOUS
    <2>1. ~InSession /\ Len(file) = 0 /\ ended = "none"
      BY DEF DiskInit, Init, InSession
    <2>2. FilePages = 0  BY <2>1, PagerAssumption DEF FilePages
    <2>3. SavedPages = [q \in 1 .. 0 |-> FilePage(q - 1)]  BY <2>2 DEF SavedPages
    <2>4. SavedPages = <<>>  BY <2>3
    <2> QED  BY <2>1, <2>4 DEF Store!Init
  <1>2. DiskSpec => []DiskInv
    BY DiskInitKeeps, DiskNextKeeps, PTL DEF DiskSpec
  <1> QED  BY <1>1, <1>2, StepsAreSteps, PTL DEF DiskSpec, ImplementsStore, Store!Spec
=============================================================================
