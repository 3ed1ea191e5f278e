------------------------------ MODULE PageTables ------------------------------
(***************************************************************************)
(* Physical pages and Sv39 page tables (memory.c, memory.h and             *)
(* create_page_table of process.c) as operators on the state of RAM, and   *)
(* the walk with which the hart reads the tables.                          *)
(*                                                                         *)
(* Addresses are counted in pages, so alignment holds by construction, and *)
(* a page holds ENTRIES words.  A word is a number: a table entry keeps    *)
(* the bits it has in memory.h, with PPNS in the place of 2^44.            *)
(***************************************************************************)
EXTENDS Integers, Sequences

CONSTANTS
  ENTRIES,               \* words of a page and entries of a table (512)
  PPNS,                  \* 2^PTE_PPN_BITS
  PTE_ATTR_NORMAL_MEM,   \* bits above the PPN, as the platform sets them
  KERNEL_BASE, FREE_RAM, FREE_RAM_END,  \* the symbols of kernel.ld, as page numbers
  USER_BASE, USER_LIMIT,                \* kernel.h, as page numbers
  Image,                 \* the words of shell.bin
  GARBAGE                \* what every word of RAM holds at power on

Index       == 0 .. ENTRIES - 1
LOWER_HALF  == (ENTRIES * ENTRIES * ENTRIES) \div 2
Ram         == KERNEL_BASE .. FREE_RAM_END - 1
UserPages   == USER_BASE .. USER_LIMIT - 1
NULL        == 0
ZeroPage    == [i \in Index |-> 0]

PAGE_V == 1
PAGE_R == 2
PAGE_W == 4
PAGE_X == 8
PAGE_U == 16
PAGE_A == 64
PAGE_D == 128
PTE_PPN == 1024          \* 2^PTE_PPN_SHIFT

Has(pte, bit) == (pte \div bit) % 2 = 1

(* pt_index: the index of page v in a table of the given level.            *)
Prefix(v, level)   == IF level = 0 THEN v
                      ELSE IF level = 1 THEN v \div ENTRIES ELSE (v \div ENTRIES) \div ENTRIES
PtIndex(v, level)  == Prefix(v, level) % ENTRIES

(* User pages and kernel pages meet in no table below the root: kernel.ld  *)
(* and kernel.h put them in different gigabytes.  There is room for the    *)
(* processes that boot makes (the ASSERTs of kernel.ld).                   *)
ASSUME PageTablesAssumption ==
  /\ {ENTRIES, PPNS} \subseteq Nat \ {0, 1}
  /\ PTE_ATTR_NORMAL_MEM \in Nat /\ PTE_ATTR_NORMAL_MEM % (PTE_PPN * PPNS) = 0
  /\ {KERNEL_BASE, FREE_RAM, FREE_RAM_END, USER_BASE, USER_LIMIT} \subseteq 1 .. LOWER_HALF
  /\ KERNEL_BASE < FREE_RAM /\ FREE_RAM < FREE_RAM_END /\ FREE_RAM_END <= PPNS
  /\ USER_BASE < USER_LIMIT
  /\ \A u \in UserPages, k \in Ram : PtIndex(u, 2) # PtIndex(k, 2)
  /\ Image \in Seq(Nat) /\ Len(Image) \in 1 .. ENTRIES * (USER_LIMIT - USER_BASE)
  /\ GARBAGE \in Nat
-----------------------------------------------------------------------------
(* The state of RAM: what its pages hold, the static next_paddr, and       *)
(* whether the kernel is still going: a PANIC is the last thing it does,   *)
(* so what would come after it changes nothing.                            *)
PowerOn == [page |-> [f \in Ram |-> [i \in Index |-> GARBAGE]], next |-> FREE_RAM, ok |-> TRUE]
Stop(r) == [r EXCEPT !.ok = FALSE]
Write(r, f, i, word) == [r EXCEPT !.page[f][i] = word]
Fill(r, f, words)    == [r EXCEPT !.page[f] = words]

(* A loop of the source over from .. to - 1.                               *)
ForPages(r, from, to, Body(_, _)) ==
  LET after[n \in from .. to] == IF n = from THEN r ELSE Body(after[n - 1], n - 1)
  IN after[to]

(* Faulty variants of AllocPage: the page is not cleared; the end is not   *)
(* checked.                                                                *)
AllocDirtyPage(r) ==
  LET moved == [r EXCEPT !.next = @ + 1]
  IN IF ~ r.ok THEN r ELSE IF moved.next > FREE_RAM_END THEN Stop(moved) ELSE moved
AllocPageUnchecked(r) ==
  [r EXCEPT !.next = @ + 1,
            !.page = [f \in Ram \cup {r.next} |-> IF f = r.next THEN ZeroPage ELSE r.page[f]]]

(* alloc_pages(1), which every caller asks for; the page is r.next.  The   *)
(* pointer moves before the end is checked.                                *)
AllocPage(r) ==
  LET moved == [r EXCEPT !.next = @ + 1]
  IN IF ~ r.ok THEN r
     ELSE IF moved.next > FREE_RAM_END THEN Stop(moved)
     ELSE Fill(moved, r.next, ZeroPage)

PteToPpn(pte)      == (pte \div PTE_PPN) % PPNS
TablePte(f)        == f * PTE_PPN + PAGE_V
LeafPte(f, flags)  == f * PTE_PPN + flags + PAGE_A + PAGE_D + PAGE_V + PTE_ATTR_NORMAL_MEM

(* One round of the loop of map_page: from a table to the one below it,    *)
(* which is made when it is missing.                                       *)
NextTable(at, v, level) ==
  LET r     == at.ram
      i     == PtIndex(v, level)
      entry == r.page[at.table][i]
      s     == AllocPage(r)
  IN IF ~ r.ok THEN at
     ELSE IF Has(entry, PAGE_V) THEN [at EXCEPT !.table = PteToPpn(entry)]
     ELSE IF s.ok THEN [ram |-> Write(s, at.table, i, TablePte(r.next)), table |-> r.next]
     ELSE [at EXCEPT !.ram = s]

MapPage(r, root, v, f, flags) ==
  LET at == NextTable(NextTable([ram |-> r, table |-> root], v, 2), v, 1)
  IN IF ~ r.ok \/ v >= LOWER_HALF THEN Stop(r)
     ELSE IF at.ram.ok THEN Write(at.ram, at.table, PtIndex(v, 0), LeafPte(f, flags))
     ELSE at.ram
-----------------------------------------------------------------------------
KernelFlags == PAGE_R + PAGE_W + PAGE_X
UserFlags   == PAGE_U + PAGE_R + PAGE_W + PAGE_X

(* A faulty variant of MapKernel: the last page is left out.               *)
MapKernelButLast(r, root) ==
  ForPages(r, KERNEL_BASE, FREE_RAM_END - 1,
           LAMBDA s, f : MapPage(s, root, f, f, KernelFlags))

(* The loop of create_page_table that maps the kernel's memory to itself.  *)
MapKernel(r, root) ==
  ForPages(r, KERNEL_BASE, FREE_RAM_END,
           LAMBDA s, f : MapPage(s, root, f, f, KernelFlags))

(* A faulty variant of CreatePageTable: the template itself is given out.  *)
SharePageTable(r, template) ==
  LET built == IF template # NULL THEN r ELSE MapKernel(AllocPage(r), r.next)
      from  == IF template # NULL THEN template ELSE r.next
  IN [ram |-> built, template |-> from, root |-> from]

(* create_page_table(): the template is built on the first call (the root  *)
(* is NULL) and its root is copied on every call.                          *)
CreatePageTable(r, template) ==
  LET first == AllocPage(r)
      built == IF template # NULL THEN r ELSE MapKernel(first, r.next)
      from  == IF template # NULL THEN template ELSE r.next
      s     == AllocPage(built)
  IN [ram      |-> IF s.ok THEN Fill(s, built.next, s.page[from]) ELSE s,
      template |-> IF template # NULL \/ first.ok THEN from ELSE NULL,
      root     |-> IF s.ok THEN built.next ELSE NULL]

(* create_process2: each page of the image is copied to a page of its own, *)
(* whose rest stays clear, and mapped.                                     *)
IMAGE_PAGES == (Len(Image) + ENTRIES - 1) \div ENTRIES
ImagePage(n) ==
  [i \in Index |-> IF n * ENTRIES + i < Len(Image) THEN Image[n * ENTRIES + i + 1] ELSE 0]

LoadPage(r, root, n) ==
  LET s == AllocPage(r)
      words == [i \in Index |-> IF n * ENTRIES + i < Len(Image)
                                THEN Image[n * ENTRIES + i + 1] ELSE s.page[r.next][i]]
  IN IF s.ok THEN MapPage(Fill(s, r.next, words), root, USER_BASE + n, r.next, UserFlags) ELSE s

LoadImage(r, root) == ForPages(r, 0, IMAGE_PAGES, LAMBDA s, n : LoadPage(s, root, n))
-----------------------------------------------------------------------------
(* The walk of the hart.  Between fences it may use, at each level, what   *)
(* the table in memory holds or what it once read there; `cache` is the    *)
(* set of such earlier reads.  An entry is a pointer to the next table     *)
(* only with no other bit set.                                             *)
Pointer(pte) == pte % PTE_PPN = PAGE_V /\ pte \div (PTE_PPN * PPNS) = 0

Cached(cache, v, level) ==
  {c.pte : c \in {d \in cache : d.level = level /\ d.prefix = Prefix(v, level)}}

(* Reads(...)[level]: the entries the walk for page v may read there.      *)
Reads(r, root, cache, v) ==
  LET Below(entries, level) ==
        Cached(cache, v, level) \cup
        {r.page[PteToPpn(e)][PtIndex(v, level)] : e \in {d \in entries : Pointer(d)}}
      top    == Cached(cache, v, 2) \cup {r.page[root][PtIndex(v, 2)]}
      middle == Below(top, 1)
  IN [level \in 0 .. 2 |-> IF level = 2 THEN top ELSE IF level = 1 THEN middle ELSE Below(middle, 0)]

(* The leaves with which the walk may end; 0, the invalid entry, when it   *)
(* ends above the last table (the kernel makes no larger pages).           *)
Leaves(r, root, cache, v) ==
  LET reads == Reads(r, root, cache, v)
  IN reads[0] \cup {0 : e \in {d \in reads[1] \cup reads[2] : ~ Pointer(d)}}

(* What the tables in memory say of page v.                                *)
Leaf(r, root, v) ==
  LET Below(e, level) == IF Pointer(e) THEN r.page[PteToPpn(e)][PtIndex(v, level)] ELSE 0
      middle == Below(r.page[root][PtIndex(v, 2)], 1)
  IN Below(middle, 0)
=============================================================================
