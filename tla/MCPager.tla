------------------------------- MODULE MCPager -------------------------------
(***************************************************************************)
(* The questions TLC answers about Pager: sessions with a few pages of two *)
(* units each, as many sessions as it takes for one to find what another   *)
(* left half saved.                                                        *)
(***************************************************************************)
EXTENDS Pager

VARIABLES
  whole,  \* the disk stores every write as a whole
  ended   \* history: how the last session on such a disk ended

SavedPages == [p \in 1 .. FilePages |-> FilePage(p - 1)]
SeenPages == [p \in 1 .. pager.num_pages |-> Seen(p - 1)]

(* A disk that cuts writes short is mapped to a store nobody uses. *)
Store == INSTANCE PageStore WITH
  Content <- PageContent,
  mem <- IF whole /\ InSession THEN SeenPages ELSE <<>>,
  saved <- IF whole THEN SavedPages ELSE <<>>,
  up <- whole /\ InSession,
  ended <- ended

MaxWhole == 2  \* bound on the sessions with a disk of that kind

DiskInit == Init /\ whole \in BOOLEAN /\ ended = "none"

(* A page that is flushed gets into the file as it was in the cache. *)
FlushIsWhole ==
  AtPage /\ closing' > closing /\ pager.pages[closing] # NULL =>
    file' = WriteAt(closing, pager.pages[closing], PageUnits)

EndIsNoted ==
  ended' = IF ~(whole /\ InSession) \/ InSession' THEN ended
           ELSE IF FinishClose THEN "orderly" ELSE "broken"

DiskNext ==
  /\ Next
  /\ whole => FlushIsWhole /\ session' <= MaxWhole
  /\ EndIsNoted
  /\ UNCHANGED whole

diskVars == <<vars, whole, ended>>

DiskSpec == DiskInit /\ [][DiskNext]_diskVars

-----------------------------------------------------------------------------
(* As long as every write is whole, the pager is a store of pages: what is
   looked at, skipped, flushed or freed makes no difference to a page, an
   orderly end saves all of them and any other end each of them or not. *)
ImplementsStore == Store!Spec
=============================================================================
