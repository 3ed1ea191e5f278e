-------------------------- MODULE MemoryRefinement --------------------------
(* The kernel's page tables implement PrivateMemory: what a process sees   *)
(* at a page is what the tables in memory lead to.                         *)
EXTENDS Memory

ImagePages == USER_BASE .. USER_BASE + IMAGE_PAGES - 1
InitialPage(v) == IF v \in ImagePages THEN ImagePage(v - USER_BASE) ELSE ZeroPage

SeenPage(p, v) ==
  LET e == UserLeaf(p, v)
  IN IF Made(p) /\ Has(e, PAGE_V) THEN ram.page[PteToPpn(e)] ELSE InitialPage(v)

(* The tables a process may need: its root, and those above its pages.     *)
Tables(pages) == 1 + Cardinality({<<l, Prefix(v, l)>> : l \in 1 .. 2, v \in pages})
FramesForPages ==
  FREE_RAM_END - FREE_RAM - Tables(Ram) - 1 - NProcs * Tables(UserPages)

(* Boot does not run out of frames (kernel.ld:44-45 asks for as much).     *)
RoomForBoot == NProcs * IMAGE_PAGES <= FramesForPages

UserMemory == [p \in Users |-> [v \in UserPages |-> SeenPage(p, v)]]
UsedPages  == {u \in Users \X UserPages :
                 IF Made(u[1]) THEN Mapped(u[1], u[2]) ELSE u[2] \in ImagePages}
ModifiedPages ==
  {u \in Users \X ImagePages : Made(u[1]) /\ PteToPpn(UserLeaf(u[1], u[2])) \in unsynced}
Machine ==
  IF mode # "panic" THEN "ok" ELSE IF stval \in UserPages THEN "nomem" ELSE "badaddr"

PM == INSTANCE PrivateMemory WITH
        Pages         <- UserPages,
        CAPACITY      <- FramesForPages,
        InitiallyUsed <- ImagePages,
        umem          <- UserMemory,
        used          <- UsedPages,
        modified      <- ModifiedPages,
        turn          <- current,
        machine       <- Machine

(* Shared tables, demand paging, stale translations and the change of      *)
(* tables in yield() are invisible to a user program: it loads what it     *)
(* stored, no other process disturbs it, untouched pages are clear, and    *)
(* memory ends only when no frame is left (create_page_table, map_page,    *)
(* handle_page_fault, yield).                                              *)
ImplementsPrivateMemory == PM!Spec
=============================================================================
