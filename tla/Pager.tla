-------------------------------- MODULE Pager --------------------------------
(***************************************************************************)
(* The page cache of src/pager.c and the two ends of a session in          *)
(* src/database.c.  Modules BTree and Repl have every page in memory from  *)
(* the beginning; here a page is read when it is first asked for, and one  *)
(* that never was is not written either.  Between two writes, or in the    *)
(* middle of one, the process may be killed, the write may fail, or it may *)
(* store only a part, which the code takes for success.                    *)
(*                                                                         *)
(* A page consists of PageUnits units, the granularity of a write that is  *)
(* cut short; the first one holds the header.  All that matters about a    *)
(* unit is which session wrote it, or that nobody did: `Junk' is what      *)
(* malloc returns and `Hole' what the file system fills a gap with.        *)
(***************************************************************************)
EXTENDS Naturals, Sequences, FiniteSets

CONSTANTS
  PageUnits,    \* PAGER_PAGE_SIZE, in units
  MaxPages,     \* PAGER_MAX_PAGES, 100 in the build
  CallerPages,  \* bound on the pages the tree asks for: 5, see module BTree
  MaxSessions,  \* bound on the sessions
  ShortWrites,  \* whether a write may store only a part of a page
  Hole, Junk

ASSUME PagerAssumption ==
  /\ PageUnits \in Nat \ {0}
  /\ MaxPages \in Nat \ {0} /\ CallerPages \in Nat /\ MaxSessions \in Nat
  /\ ShortWrites \in BOOLEAN
  /\ Hole # Junk

VARIABLES
  file,     \* the units of the database file
  pager,    \* file_length, num_pages and pages of the Pager
  phase,    \* "none", "refused", "running", "closing" or "outside"
  closing,  \* the loop counter of database_close
  session,  \* the number of the session
  before    \* history: the file when the session began

vars == <<file, pager, phase, closing, session, before>>

Unit == 1 .. MaxSessions \cup {Hole, Junk}
NULL == <<>>
PageContent == [1 .. PageUnits -> Unit]
NoPager == [file_length |-> 0, num_pages |-> 0, pages |-> [p \in {} |-> NULL]]

FilePages == Len(file) \div PageUnits
WholePages == Len(file) % PageUnits = 0
FilePage(p) == [u \in 1 .. PageUnits |-> file[p * PageUnits + u]]

-----------------------------------------------------------------------------
(* One page *)

(* What malloc and read leave in a page that was not in the cache: at the end
   of the file read returns nothing and the page is what malloc returned.  A
   read that does not fail is taken to yield all the file has of the page, as
   it does of a regular file unless a signal interrupts it; the source would
   not notice if it did not. *)
LoadedShort(p) ==  \* a mutant: the last page of the file is not read
  [u \in 1 .. PageUnits |->
     IF (p + 1) * PageUnits + u <= pager.file_length
     THEN file[p * PageUnits + u] ELSE Junk]

Loaded(p) ==
  [u \in 1 .. PageUnits |->
     IF p * PageUnits + u <= pager.file_length
     THEN file[p * PageUnits + u] ELSE Junk]

CountTo(num_pages, p) == p + 1  \* a mutant: the count may go down
CountWith(num_pages, p) == IF p >= num_pages THEN p + 1 ELSE num_pages

(* pager_get_page of a page within the array *)
GetPage(pgr, p) ==
  IF pgr.pages[p] # NULL THEN pgr
  ELSE [pgr EXCEPT !.pages[p] = Loaded(p), !.num_pages = CountWith(@, p)]

(* What write makes of the file when it stores the first n units of page p.
   A gap before them reads as zeros. *)
WriteWhereItIs(p, page, n) ==  \* a mutant: no lseek before the write
  file \o SubSeq(page, 1, n)

WriteAt(p, page, n) ==
  LET start == p * PageUnits
      length == IF start + n > Len(file) THEN start + n ELSE Len(file)
  IN  [k \in 1 .. length |->
         IF k \in start + 1 .. start + n THEN page[k - start]
         ELSE IF k <= Len(file) THEN file[k] ELSE Hole]

-----------------------------------------------------------------------------
(* A session *)

Init ==
  /\ file = <<>>
  /\ pager = NoPager
  /\ phase = "none"
  /\ closing = 0
  /\ session = 0
  /\ before = <<>>

NoSession == phase \in {"none", "refused"} /\ session < MaxSessions

RoundedUp(length) == length \div PageUnits + 1  \* a mutant: one page too many
PagesIn(length) == length \div PageUnits

NewPager ==
  [file_length |-> Len(file), num_pages |-> PagesIn(Len(file)),
   pages |-> [p \in 0 .. MaxPages - 1 |-> NULL]]

(* pager_open and database_open, which makes the first page a leaf. *)
Open ==
  /\ NoSession
  /\ WholePages
  /\ phase' = "running"
  /\ session' = session + 1
  /\ pager' = IF NewPager.num_pages = 0
              THEN [GetPage(NewPager, 0) EXCEPT
                      !.pages[0] = [u \in 1 .. PageUnits |->
                                      IF u = 1 THEN session + 1 ELSE Junk]]
              ELSE NewPager
  /\ before' = file
  /\ UNCHANGED <<file, closing>>

(* open fails, or the length of the file is no whole number of pages. *)
Refuse ==
  /\ NoSession
  /\ phase' = "refused"
  /\ UNCHANGED <<file, pager, closing, session, before>>

(* A statement looks at page p. *)
Look(p) ==
  /\ phase = "running"
  /\ p < pager.num_pages /\ p < MaxPages
  /\ pager' = GetPage(pager, p)
  /\ UNCHANGED <<file, phase, closing, session, before>>

(* A statement writes into page p, which may be the next unused one; of that
   the header is written first. *)
Change(p, u) ==
  /\ phase = "running"
  /\ p <= pager.num_pages /\ p < MaxPages /\ p < CallerPages
  /\ p = pager.num_pages => u = 1
  /\ pager' = [GetPage(pager, p) EXCEPT !.pages[p][u] = session]
  /\ UNCHANGED <<file, phase, closing, session, before>>

(* Page number MaxPages is past the array and passes the check all the same;
   what is read and written there is not the pager's.  Larger ones end the
   process, but the next unused page is never beyond MaxPages. *)
Outside(p) == p >= MaxPages /\ ~(p > MaxPages)

LeaveArray ==
  /\ phase = "running"
  /\ pager.num_pages < CallerPages
  /\ Outside(pager.num_pages)
  /\ phase' = "outside"
  /\ UNCHANGED <<file, pager, closing, session, before>>

-----------------------------------------------------------------------------
(* database_close, a page at a time *)

StartClose ==
  /\ phase = "running"
  /\ phase' = "closing"
  /\ closing' = 0
  /\ UNCHANGED <<file, pager, session, before>>

AtPage == phase = "closing" /\ closing < pager.num_pages

SkipPage ==
  /\ AtPage
  /\ pager.pages[closing] = NULL
  /\ closing' = closing + 1
  /\ UNCHANGED <<file, pager, phase, session, before>>

(* pager_flush: any number of units but none counts as written. *)
Written == IF ShortWrites THEN 1 .. PageUnits ELSE {PageUnits}

FlushPage ==
  /\ AtPage
  /\ pager.pages[closing] # NULL
  /\ \E n \in Written : file' = WriteAt(closing, pager.pages[closing], n)
  /\ pager' = [pager EXCEPT !.pages[closing] = NULL]
  /\ closing' = closing + 1
  /\ UNCHANGED <<phase, session, before>>

EndSession ==
  /\ phase' = "none"
  /\ pager' = NoPager
  /\ closing' = 0
  /\ UNCHANGED <<file, session, before>>

(* All pages are written; what close returns is only reported. *)
FinishClose ==
  /\ phase = "closing"
  /\ closing >= pager.num_pages
  /\ EndSession

(* A seek, read or write that fails ends the process, and a kill does. *)
Die == phase \in {"running", "closing"} /\ EndSession

Next ==
  \/ Open
  \/ Refuse
  \/ \E p \in 0 .. CallerPages :
       Look(p) \/ \E u \in 1 .. PageUnits : Change(p, u)
  \/ LeaveArray
  \/ StartClose
  \/ SkipPage
  \/ FlushPage
  \/ FinishClose
  \/ Die

Spec == Init /\ [][Next]_vars

-----------------------------------------------------------------------------
InSession == phase \in {"running", "closing"}

Pages == 0 .. pager.num_pages - 1

(* A page as the session sees it: its own copy, or else what the file has. *)
Seen(p) == IF pager.pages[p] # NULL THEN pager.pages[p] ELSE FilePage(p)

(* Types; a session never has more pages than the array. *)
TypeOK ==
  /\ file \in Seq(Unit) /\ before \in Seq(Unit)
  /\ phase \in {"none", "refused", "running", "closing", "outside"}
  /\ closing \in Nat /\ session \in 0 .. MaxSessions
  /\ pager.num_pages \in 0 .. MaxPages /\ pager.file_length \in Nat
  /\ \A p \in DOMAIN pager.pages : pager.pages[p] \in PageContent \cup {NULL}

(* The pages a close skips are pages of the file: no page the session counts
   is neither in the cache nor saved (pager_get_page, database_close). *)
CachedOrSaved ==
  InSession => \A p \in Pages : p >= closing /\ pager.pages[p] = NULL
                                => (p + 1) * PageUnits <= Len(before)

(* The number handed out for a new page is the number of no page there is
   (pager_get_unused_page_num). *)
UnusedIsNew ==
  phase = "running" =>
    /\ pager.num_pages * PageUnits >= Len(file)
    /\ \A p \in DOMAIN pager.pages : pager.pages[p] # NULL => p < pager.num_pages

(* However a session ends, cut-short writes included, each unit of the file
   is what the session found there or what it wrote; behind the old end of
   the file there is nothing of another session (pager_flush). *)
OldOrNew ==
  session > 0 =>
    /\ Len(file) >= Len(before)
    /\ \A k \in 1 .. Len(file) :
         file[k] = session \/ (IF k <= Len(before) THEN file[k] = before[k]
                               ELSE file[k] \in {Junk, Hole})

(* Until a page is written the session loses nothing it changed, and what it
   did not change it sees as the file has it: pages that were looked at and
   pages that never were are the same to it (pager_get_page). *)
CacheIsFaithful ==
  phase = "running" =>
    \A p \in Pages, u \in 1 .. PageUnits :
      Seen(p)[u] = session
      \/ IF p * PageUnits + u <= Len(before)
         THEN Seen(p)[u] = before[p * PageUnits + u] ELSE Seen(p)[u] = Junk
=============================================================================
