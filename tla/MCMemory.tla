------------------------------ MODULE MCMemory ------------------------------
(* Values of the constants of Memory for TLC.                              *)
EXTENDS MemoryRefinement

(* An image of one page and a word: the second page is copied in part.     *)
MCImage == <<3, 4, 3, 3, 3, 3, 4>>

(* What RAM holds at power on looks like a valid pointer to a table.       *)
MCGarbage == 40 * PTE_PPN + PAGE_V

(* Attribute bits above the PPN, as on the Milk-V Duo.                     *)
MCAttributes == 5 * PTE_PPN * PPNS

(* Both images fit beside the tables.                                      *)
ASSUME RoomForBoot
=============================================================================
