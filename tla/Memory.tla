------------------------------- MODULE Memory -------------------------------
(***************************************************************************)
(* Memory of the processes: the page tables made at boot, demand paging    *)
(* (handle_page_fault of kernel.c), the change of tables in yield(), and   *)
(* a hart that walks the tables whenever it likes and remembers what it    *)
(* read until a fence drops it.                                            *)
(*                                                                         *)
(* Which process yield() picks, and what runs in the kernel in between, is *)
(* the subject of Kernel: here any process may be next at any time.  The   *)
(* kernel never touches user pages, so page faults come from user code.    *)
(***************************************************************************)
EXTENDS PageTables, FiniteSets

CONSTANTS
  NProcs,      \* user processes made at boot
  Touched,     \* the pages user code loads from, inside or outside the user space
  Stored,      \* the pages it stores into
  Code,        \* the pages it executes
  Offsets,     \* the words of a page it accesses
  Data,        \* the words it stores
  TLB_SIZE,    \* how many reads the hart remembers at a time
  FENCE_DROPS_TABLES  \* does sfence.vma with an address drop entries that are no leaves?

IDLE  == 0
Users == 1 .. NProcs
Procs == 0 .. NProcs
BARE  == 0         \* satp of a hart that does not translate

ASSUME MemoryAssumption ==
  /\ NProcs \in Nat \ {0}
  /\ Touched \cup Stored \cup Code \subseteq 0 .. LOWER_HALF - 1
  /\ Offsets \subseteq Index
  /\ Data \subseteq Nat
  /\ TLB_SIZE \in Nat
  /\ FENCE_DROPS_TABLES \in BOOLEAN

VARIABLES
  ram,                \* see PageTables
  kernel_page_table,  \* the template of create_page_table(); NULL before it
  page_table,         \* page_table[p] of struct process; NULL before it is made
  current,            \* current_proc
  satp,               \* the root the hart walks from
  tlb,                \* what the hart remembers of its walks
  loaded,             \* the last word loaded or fetched by the process that runs
  unsynced,           \* frames that fetches may not see as they are
  mode,               \* "boot", "run", "fault" or "panic"
  stval               \* the page of the last fault

vars == <<ram, kernel_page_table, page_table, current, satp, tlb, loaded, unsynced, mode, stval>>

Init ==
  /\ ram = PowerOn
  /\ kernel_page_table = NULL
  /\ page_table = [p \in Procs |-> NULL]
  /\ current = IDLE
  /\ satp = BARE
  /\ tlb = {}
  /\ loaded = 0
  /\ unsynced = Ram
  /\ mode = "boot"
  /\ stval = NULL
-----------------------------------------------------------------------------
(* A PANIC is an endless loop.                                             *)
ModeAfter(r, m) == IF r.ok THEN m ELSE "panic"

(* What has been written as data since the last fence.i.  A fetch may find *)
(* what such a frame held before.                                          *)
Unsynced == unsynced \cup {f \in Ram : ram'.page[f] # ram.page[f]}

(* sync_icache(): behind fence.i, fetches see everything stored before.    *)
SyncIcache == {}

(* alloc_process and, for a user process, the image: process p is the next *)
(* one that boot makes.                                                    *)
CreateProcess(p) ==
  LET made == CreatePageTable(ram, kernel_page_table)
  IN /\ mode = "boot"
     /\ page_table[p] = NULL /\ \A q \in 0 .. p - 1 : page_table[q] # NULL
     /\ ram' = IF p = IDLE THEN made.ram ELSE LoadImage(made.ram, made.root)
     /\ kernel_page_table' = made.template
     /\ page_table' = [page_table EXCEPT ![p] = made.root]
     /\ mode' = ModeAfter(ram', "boot")
     /\ unsynced' = IF p = IDLE THEN Unsynced ELSE SyncIcache
     /\ UNCHANGED <<current, satp, tlb, loaded, stval>>

(* A faulty variant of Yield: satp is written without the fence after it.  *)
YieldWithoutFence(p) ==
  /\ mode \in {"boot", "run"} /\ \A q \in Procs : page_table[q] # NULL
  /\ p # current
  /\ current' = p /\ satp' = page_table[p]
  /\ mode' = "run" /\ loaded' = 0
  /\ UNCHANGED <<ram, kernel_page_table, page_table, tlb, stval, unsynced>>

(* yield() to process p; the fence behind the write of satp drops what was *)
(* read before it.  The registers of p are its own (Kernel): none has been *)
(* loaded into yet.                                                        *)
Yield(p) ==
  /\ mode \in {"boot", "run"} /\ \A q \in Procs : page_table[q] # NULL
  /\ p # current
  /\ current' = p /\ satp' = page_table[p]
  /\ tlb' = {}
  /\ mode' = "run" /\ loaded' = 0
  /\ UNCHANGED <<ram, kernel_page_table, page_table, stval, unsynced>>
-----------------------------------------------------------------------------
(* The hart may walk the tables at any time, and remembers what it reads:  *)
(* entries that are invalid too, and under the same address space number   *)
(* for all processes.                                                      *)
TlbFill(v, level) ==
  /\ satp # BARE /\ mode # "panic"
  /\ \E e \in Reads(ram, satp, tlb, v)[level] :
       tlb' = tlb \cup {[level |-> level, prefix |-> Prefix(v, level), pte |-> e]}
  /\ Cardinality(tlb') <= TLB_SIZE
  /\ UNCHANGED <<ram, kernel_page_table, page_table, current, satp, loaded, mode, stval, unsynced>>

TlbEvict ==
  /\ \E e \in tlb : tlb' = tlb \ {e}
  /\ UNCHANGED <<ram, kernel_page_table, page_table, current, satp, loaded, mode, stval, unsynced>>

Allows(pte, bit) == \A b \in {PAGE_V, PAGE_U, PAGE_A, bit} : Has(pte, b)

(* User code accesses word i of page v with a leaf the hart may use now;   *)
(* nothing sets A and D if they are clear.                                 *)
UserRuns == mode = "run" /\ current # IDLE

Load(v, i) ==
  /\ UserRuns
  /\ \E e \in Leaves(ram, satp, tlb, v) :
       Allows(e, PAGE_R) /\ loaded' = ram.page[PteToPpn(e)][i]
  /\ UNCHANGED <<ram, kernel_page_table, page_table, current, satp, tlb, mode, stval, unsynced>>

Store(v, i, word) ==
  /\ UserRuns
  /\ \E e \in Leaves(ram, satp, tlb, v) :
       /\ Allows(e, PAGE_W) /\ Has(e, PAGE_D)
       /\ ram' = Write(ram, PteToPpn(e), i, word)
  /\ unsynced' = Unsynced
  /\ UNCHANGED <<kernel_page_table, page_table, current, satp, tlb, loaded, mode, stval>>

(* User code executes word i of page v.                                    *)
Fetch(v, i) ==
  /\ UserRuns
  /\ \E e \in Leaves(ram, satp, tlb, v) :
       /\ Allows(e, PAGE_X)
       /\ loaded' \in {ram.page[PteToPpn(e)][i]} \cup
                     (IF PteToPpn(e) \in unsynced THEN {GARBAGE} ELSE {})
  /\ UNCHANGED <<ram, kernel_page_table, page_table, current, satp, tlb, mode, stval, unsynced>>

Fault(v) ==
  /\ UserRuns
  /\ \E e \in Leaves(ram, satp, tlb, v), bit \in {PAGE_R, PAGE_W, PAGE_X} : ~ Allows(e, bit)
  /\ mode' = "fault" /\ stval' = v
  /\ UNCHANGED <<ram, kernel_page_table, page_table, current, satp, tlb, loaded, unsynced>>

(* sfence.vma with the address of page v.                                  *)
FlushTlbPage(v) ==
  {e \in tlb : e.prefix # Prefix(v, e.level) \/ (e.level > 0 /\ ~ FENCE_DROPS_TABLES)}

(* A faulty variant of PageFault: the hart keeps what it remembers.        *)
PageFaultWithoutFlush ==
  /\ mode = "fault"
  /\ IF stval \notin UserPages THEN mode' = "panic" /\ ram' = ram
     ELSE /\ ram' = MapPage(AllocPage(ram), page_table[current], stval, ram.next, UserFlags)
          /\ mode' = ModeAfter(ram', "run")
  /\ unsynced' = Unsynced
  /\ UNCHANGED <<kernel_page_table, page_table, current, satp, tlb, loaded, stval>>

(* handle_page_fault(): a page outside the user space is a PANIC; any      *)
(* other gets a clear page, and user code goes on at the same instruction. *)
PageFault ==
  /\ mode = "fault"
  /\ IF stval \notin UserPages
     THEN mode' = "panic" /\ UNCHANGED <<ram, tlb>>
     ELSE /\ ram' = MapPage(AllocPage(ram), page_table[current], stval, ram.next, UserFlags)
          /\ mode' = ModeAfter(ram', "run")
          /\ tlb' = IF ram'.ok THEN FlushTlbPage(stval) ELSE tlb
  /\ unsynced' = Unsynced
  /\ UNCHANGED <<kernel_page_table, page_table, current, satp, loaded, stval>>

StayHalted == mode = "panic" /\ UNCHANGED vars

Next ==
  \/ \E p \in Procs : CreateProcess(p) \/ Yield(p)
  \/ \E v \in Touched :
       \/ Fault(v)
       \/ \E level \in 0 .. 2 : TlbFill(v, level)
       \/ \E i \in Offsets : Load(v, i)
  \/ \E v \in Stored, i \in Offsets, word \in Data : Store(v, i, word)
  \/ \E v \in Code, i \in Offsets : Fetch(v, i)
  \/ TlbEvict \/ PageFault \/ StayHalted

Spec == Init /\ [][Next]_vars
-----------------------------------------------------------------------------
(* RAM is words and tables are in it; the hart walks from a root it has.   *)
TypeOK ==
  /\ ram.page \in [Ram -> [Index -> Nat]]
  /\ ram.next \in FREE_RAM .. FREE_RAM_END + 1
  /\ ram.ok \in BOOLEAN
  /\ kernel_page_table \in Ram \cup {NULL}
  /\ page_table \in [Procs -> Ram \cup {NULL}]
  /\ current \in Procs
  /\ satp \in Ram \cup {BARE}
  /\ tlb \subseteq [level : 0 .. 2, prefix : 0 .. LOWER_HALF - 1, pte : Nat]
  /\ loaded \in Nat
  /\ unsynced \subseteq Ram
  /\ mode \in {"boot", "run", "fault", "panic"}
  /\ stval \in Touched \cup {NULL}

Made(p)         == page_table[p] # NULL
UserLeaf(p, v)  == Leaf(ram, page_table[p], v)
Mapped(p, v)    == Made(p) /\ Has(UserLeaf(p, v), PAGE_V)

(* From the moment its table exists every process, the idle one too, sees  *)
(* all of the kernel's memory at its physical address, and user code none  *)
(* of it: yield() and the trap handlers go on after satp changes, and      *)
(* map_page writes tables at physical addresses (process.c:81-96).         *)
KernelMappedEverywhere ==
  mode # "panic" =>
    \A p \in Procs : Made(p) =>
      \A f \in Ram : LET e == Leaf(ram, page_table[p], f)
                     IN /\ PteToPpn(e) = f /\ ~ Has(e, PAGE_U)
                        /\ \A b \in {PAGE_V, PAGE_R, PAGE_W, PAGE_X, PAGE_A, PAGE_D} : Has(e, b)

(* The pages that are in use and what each is for: the tables of the       *)
(* template (owner TEMPLATE), and the root, the lower tables and the       *)
(* user pages of each process.  Level 3 stands for the root.               *)
TEMPLATE == -1
Root(o)  == IF o = TEMPLATE THEN kernel_page_table ELSE page_table[o]
Entries(o, v, level) ==   \* the valid ones, at most one
  {e \in Reads(ram, Root(o), {}, v)[level] : Has(e, PAGE_V)}
UsesOf(o, pages, lowest) ==
  {[owner |-> o, level |-> 3, prefix |-> 0, frame |-> Root(o)]} \cup
  UNION {{[owner |-> o, level |-> l, prefix |-> Prefix(v, l), frame |-> PteToPpn(e)]
            : e \in Entries(o, v, l)} : v \in pages, l \in lowest .. 2}
Uses ==
  (IF kernel_page_table = NULL THEN {} ELSE UsesOf(TEMPLATE, Ram, 1)) \cup
  UNION {UsesOf(p, UserPages, 0) : p \in {q \in Procs : Made(q)}}

(* Every page that alloc_pages has given out serves exactly one purpose:   *)
(* no page is shared between processes or between a table and user memory, *)
(* and none is lost, although map_page allocates while it descends.        *)
EveryPageHasOneUse ==
  mode # "panic" =>
    /\ {u.frame : u \in Uses} = FREE_RAM .. ram.next - 1
    /\ Cardinality(Uses) = ram.next - FREE_RAM

(* What the hart remembers while code runs is what the tables say: the     *)
(* flush in handle_page_fault and the fence in yield() come in time        *)
(* (memory.h:53-58, kernel.c:177).                                         *)
TlbIsCurrent ==
  mode \in {"run", "fault"} =>
    \A e \in tlb :
      \E v \in Touched : e.prefix = Prefix(v, e.level)
                         /\ e.pte \in Reads(ram, satp, {}, v)[e.level]

(* A page once mapped stays where it is with its rights: a second fault    *)
(* for it would replace it by a clear one (kernel.c:169-175).              *)
MappingsStay ==
  [][\A p \in Procs, v \in UserPages :
       Mapped(p, v) => page_table'[p] = page_table[p] /\ UserLeaf(p, v)' = UserLeaf(p, v)]_vars
=============================================================================
