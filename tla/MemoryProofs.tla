---------------------------- MODULE MemoryProofs ----------------------------
(***************************************************************************)
(* Proofs about Memory, for tables of any size, any number of processes,   *)
(* any amount of RAM and any image.                                        *)
(*                                                                         *)
(* The contents of all tables are described by one function, the placement *)
(* of tables and pages in frames: place[<<o, l, x>>] is the frame of the   *)
(* table (or, on level 0, the page) that owner o has for the addresses     *)
(* with prefix x on level l, or NULL; level 3 stands for the root.  Every  *)
(* entry of every table follows from it (Entry), no two places share a     *)
(* frame, and each operation on RAM is an update of it.                    *)
(***************************************************************************)
EXTENDS MemoryRefinement, FiniteSetTheorems, WellFoundedInduction, TLAPS

Owners    == {TEMPLATE} \cup Procs
Pages     == 0 .. LOWER_HALF - 1
Keys      == Owners \X (0 .. 3) \X Pages
FrameKeys == {k \in Keys : k[1] # TEMPLATE \/ k[2] # 0}

PagesOf(o) == IF o = TEMPLATE THEN Ram ELSE UserPages
FlagsOf(o) == IF o = TEMPLATE THEN KernelFlags ELSE UserFlags
Above(v, l) == IF l = 3 THEN 0 ELSE Prefix(v, l)

(* What is below a root entry of the kernel's half is the template's.      *)
KernelTop(v) == \E k \in Ram : Prefix(v, 2) = Prefix(k, 2)
Holder(o, v) == IF KernelTop(v) THEN TEMPLATE ELSE o

(* The entry for page v in the table above level l that leads to what      *)
(* owner o has there.                                                      *)
Entry(place, o, l, v) ==
  LET g == place[<<o, l, Prefix(v, l)>>]
  IN IF g = NULL THEN 0 ELSE IF l = 0 THEN LeafPte(g, FlagsOf(o)) ELSE TablePte(g)

RamOK(r) ==
  /\ r \in [page : [Ram -> [Index -> Nat]], next : FREE_RAM .. FREE_RAM_END + 1, ok : BOOLEAN]
  /\ r.ok => r.next <= FREE_RAM_END

(* The frames that alloc_pages has given out.                              *)
Given(r) == {f \in Ram : FREE_RAM <= f /\ f < r.next}

(* A placement: frames have one use, the template's pages are where they   *)
(* are, and what is placed has been reached from above.                    *)
Placement(r, place) ==
  /\ place \in [Keys -> Ram \cup {NULL}]
  /\ \A a, b \in FrameKeys : place[a] = place[b] /\ place[a] # NULL => a = b
  /\ \A a \in FrameKeys : place[a] # NULL => place[a] \in Given(r)
  /\ \A x \in Pages : place[<<TEMPLATE, 0, x>>] \in {NULL, x}
  /\ \A o \in Owners, x \in Pages : place[<<o, 3, x>>] # NULL => x = 0
  /\ \A o \in Owners, l \in 0 .. 2, x \in Pages : place[<<o, l, x>>] # NULL =>
       \E v \in PagesOf(o) : x = Prefix(v, l) /\ place[<<o, l + 1, Above(v, l + 1)>>] # NULL

(* The tables in RAM are those of the placement.                           *)
Holds(r, place) ==
  /\ \A o \in Owners, v \in Pages : place[<<o, 3, 0>>] # NULL =>
       r.page[place[<<o, 3, 0>>]][PtIndex(v, 2)] = Entry(place, Holder(o, v), 2, v)
  /\ \A o \in Owners, v \in Pages, l \in 0 .. 1 : place[<<o, l + 1, Prefix(v, l + 1)>>] # NULL =>
       r.page[place[<<o, l + 1, Prefix(v, l + 1)>>]][PtIndex(v, l)] = Entry(place, o, l, v)

Valid(r, place) == RamOK(r) /\ Placement(r, place) /\ Holds(r, place)

(* All frames given out are placed but those that wait for it.             *)
Accounted(r, place, waiting) ==
  \A f \in Given(r) \ waiting : \E a \in FrameKeys : place[a] = f

(* Owner o has nothing below its root.                                     *)
Nothing(place, o) == \A v \in Pages, l \in 0 .. 2 : place[<<o, l, Prefix(v, l)>>] = NULL

(* Only the pages of S are placed, and the idle process has none; at boot, *)
(* if there is room for the images, only they are.                         *)
Fits(place, S) ==
  /\ Nothing(place, IDLE)
  /\ \A p \in Users, v \in UserPages : place[<<p, 0, v>>] # NULL => <<p, v>> \in S
Roomy(place) == RoomForBoot /\ Fits(place, Users \X ImagePages)

(* Every process has its image from the start, and the idle process, which *)
(* is made first, nothing.                                                 *)
Provided(place) ==
  /\ Nothing(place, IDLE)
  /\ \A p \in Users, v \in ImagePages : Made(p) => place[<<p, 0, v>>] # NULL
  /\ mode = "boot" =>
       (RoomForBoot => Roomy(place)) /\ \A p \in Users : Made(p) => Made(IDLE) /\ unsynced = {}

(* The placement that describes the state.                                 *)
Describes(place) ==
  /\ Valid(ram, place) /\ Accounted(ram, place, {})
  /\ kernel_page_table = place[<<TEMPLATE, 3, 0>>]
  /\ \A p \in Procs : page_table[p] = place[<<p, 3, 0>>]
  /\ kernel_page_table # NULL => \A k \in Ram : place[<<TEMPLATE, 0, k>>] = k
  /\ \A p \in Procs : Made(p) => kernel_page_table # NULL
  /\ mode = "fault" /\ stval \in UserPages => place[<<current, 0, stval>>] = NULL
  /\ Provided(place)

(* The hart is set up for the current process.                             *)
HartInv ==
  /\ ram.ok
  /\ mode = "boot" => satp = BARE /\ tlb = {}
  /\ mode \in {"run", "fault"} => satp = page_table[current] /\ \A p \in Procs : Made(p)
  /\ mode = "fault" => current # IDLE /\ stval \in Touched

MemInv ==
  TypeOK /\ (mode # "panic" => HartInv /\ TlbIsCurrent /\ \E place : Describes(place))
-----------------------------------------------------------------------------
(* Arithmetic.                                                             *)

(* The constants are numbers, and tables are smaller than address spaces.  *)
LEMMA Constants ==
  /\ ENTRIES \in Nat /\ ENTRIES > 1 /\ PPNS \in Nat /\ PPNS > 1
  /\ PTE_ATTR_NORMAL_MEM \in Nat /\ GARBAGE \in Nat
  /\ LOWER_HALF \in Nat /\ LOWER_HALF <= ENTRIES * (ENTRIES * ENTRIES)
  /\ KERNEL_BASE \in 1 .. LOWER_HALF /\ FREE_RAM \in 1 .. LOWER_HALF
  /\ FREE_RAM_END \in 1 .. LOWER_HALF
  /\ USER_BASE \in 1 .. LOWER_HALF /\ USER_LIMIT \in 1 .. LOWER_HALF
  /\ KERNEL_BASE < FREE_RAM /\ FREE_RAM < FREE_RAM_END /\ FREE_RAM_END <= PPNS
  /\ USER_BASE < USER_LIMIT
  /\ \A u \in UserPages, k \in Ram : PtIndex(u, 2) # PtIndex(k, 2)
<1> DEFINE sq == ENTRIES * ENTRIES
           cube == ENTRIES * ENTRIES * ENTRIES
<1>1. ENTRIES \in Nat /\ ENTRIES > 1 /\ PPNS \in Nat /\ PPNS > 1
  <2>1. {ENTRIES, PPNS} \subseteq Nat \ {0, 1}
    BY PageTablesAssumption, Zenon
  <2> QED BY <2>1
<1>2. sq \in Nat /\ ENTRIES * sq \in Nat /\ cube = ENTRIES * sq
  BY <1>1
<1>3. LOWER_HALF = cube \div 2
  BY DEF LOWER_HALF
<1> HIDE DEF cube
<1>4. LOWER_HALF \in Nat /\ LOWER_HALF <= cube
  BY <1>2, <1>3
<1>5. LOWER_HALF <= ENTRIES * (ENTRIES * ENTRIES)
  BY <1>2, <1>4
<1> QED BY <1>1, <1>4, <1>5, PageTablesAssumption

(* A quotient is below a when the number is below a times the divisor.     *)
LEMMA QuotientBound ==
  ASSUME NEW d \in Nat, d > 0, NEW a \in Nat, NEW x \in Nat, x < d * a
  PROVE  x \div d \in Nat /\ x \div d < a
<1>1. PICK q \in Int, s \in 0 .. d - 1 : q = x \div d /\ x = d * q + s
  <2>1. x \div d \in Int /\ x % d \in 0 .. d - 1 /\ x = d * (x \div d) + (x % d)
    OBVIOUS
  <2> QED BY <2>1
<1>2. q >= 0
  <2> SUFFICES ASSUME q <= -1 PROVE FALSE
    BY <1>1
  <2>1. d * q <= - d
    BY <1>1
  <2> QED BY <1>1, <2>1
<1>3. q < a
  <2> SUFFICES ASSUME q >= a PROVE FALSE
    BY <1>1
  <2>1. d * q >= d * a
    BY <1>1
  <2> QED BY <1>1, <2>1
<1> QED BY <1>1, <1>2, <1>3

(* Prefixes and indices are in range; a prefix is that of the level above  *)
(* and an index; and the root's index is the whole prefix.                 *)
LEMMA PrefixFacts ==
  ASSUME NEW v \in Pages
  PROVE  /\ Prefix(v, 0) = v
         /\ \A l \in 0 .. 2 : Prefix(v, l) \in Pages /\ PtIndex(v, l) \in Index
         /\ PtIndex(v, 2) = Prefix(v, 2)
         /\ \A l \in 0 .. 1 : Prefix(v, l) = ENTRIES * Prefix(v, l + 1) + PtIndex(v, l)
<1> DEFINE a == v \div ENTRIES
           b == a \div ENTRIES
<1>1. /\ v \in Nat /\ v < LOWER_HALF /\ LOWER_HALF \in Nat /\ ENTRIES \in Nat /\ ENTRIES > 1
      /\ v < ENTRIES * (ENTRIES * ENTRIES) /\ ENTRIES * ENTRIES \in Nat
  BY Constants DEF Pages
<1>2. a \in Nat /\ a < ENTRIES * ENTRIES /\ b \in Nat /\ b < ENTRIES
  BY <1>1, QuotientBound
<1>3. v = ENTRIES * a + (v % ENTRIES) /\ v % ENTRIES \in 0 .. ENTRIES - 1
      /\ a = ENTRIES * b + (a % ENTRIES) /\ a % ENTRIES \in 0 .. ENTRIES - 1
      /\ b % ENTRIES = b
  BY <1>1, <1>2
<1>4. Prefix(v, 0) = v /\ Prefix(v, 1) = a /\ Prefix(v, 2) = b
  BY DEF Prefix
<1>5. PtIndex(v, 0) = v % ENTRIES /\ PtIndex(v, 1) = a % ENTRIES /\ PtIndex(v, 2) = b
  BY <1>3, <1>4 DEF PtIndex
<1>6. a <= v /\ b <= a
  <2> HIDE DEF a, b
  <2>1. a <= ENTRIES * a /\ b <= ENTRIES * b
    BY <1>1, <1>2
  <2> QED BY <1>1, <1>2, <1>3, <2>1
<1> HIDE DEF a, b
<1> QED BY <1>1, <1>2, <1>3, <1>4, <1>5, <1>6 DEF Pages, Index
-----------------------------------------------------------------------------
(* Table entries.                                                          *)

(* A number is divided in one way only.                                    *)
LEMMA DivUnique ==
  ASSUME NEW d \in Nat \ {0}, NEW r \in 0 .. d - 1, NEW a \in Int, NEW m \in Int,
         m = a * d + r
  PROVE  m \div d = a /\ m % d = r
<1>1. /\ m \div d \in Int /\ m % d \in 0 .. d - 1 /\ m = d * (m \div d) + (m % d)
  OBVIOUS
<1>2. PICK b \in Int, s \in 0 .. d - 1 : b = m \div d /\ s = m % d /\ m = d * b + s
  BY <1>1
<1>3. b = a
  <2>1. CASE b >= a + 1
    <3>1. d * b >= d * a + d
      BY <2>1
    <3> QED BY <3>1, <1>2
  <2>2. CASE b <= a - 1
    <3>1. d * b <= d * a - d
      BY <2>2
    <3> QED BY <3>1, <1>2
  <2> QED BY <2>1, <2>2
<1> QED BY <1>2, <1>3

Bits == {PAGE_V, PAGE_R, PAGE_W, PAGE_X, PAGE_A, PAGE_D}

(* The invalid entry has no bits and leads nowhere.                        *)
LEMMA NoPte == /\ ~ Pointer(0) /\ \A b \in Bits \cup {PAGE_U} : ~ Has(0, b)
BY DEF Pointer, Has, Bits, PAGE_V, PAGE_R, PAGE_W, PAGE_X, PAGE_A, PAGE_D, PAGE_U, PTE_PPN

(* What map_page writes above the last level leads to the table.           *)
LEMMA TablePteFacts ==
  ASSUME NEW f \in Nat, f < PPNS
  PROVE  /\ TablePte(f) \in Nat /\ TablePte(f) # 0 /\ Has(TablePte(f), PAGE_V)
         /\ Pointer(TablePte(f)) /\ PteToPpn(TablePte(f)) = f
<1>1. PPNS \in Nat /\ PPNS > 1
  BY Constants
<1>2. TablePte(f) = f * 1024 + 1 /\ PTE_PPN = 1024 /\ PAGE_V = 1
  BY DEF TablePte, PTE_PPN, PAGE_V
<1>3. TablePte(f) \in Nat /\ Has(TablePte(f), PAGE_V) /\ TablePte(f) % PTE_PPN = PAGE_V
      /\ TablePte(f) \div PTE_PPN = f
  BY <1>2 DEF Has
<1>4. f % PPNS = f
  BY <1>1
<1>5. TablePte(f) \div (PTE_PPN * PPNS) = 0
  <2>1. 1024 * PPNS \in Nat \ {0} /\ f * 1024 + 1 \in 0 .. (1024 * PPNS) - 1
    BY <1>1
  <2>2. f * 1024 + 1 = 0 * (1024 * PPNS) + (f * 1024 + 1)
    BY <2>1
  <2> QED BY <2>1, <2>2, <1>2, DivUnique
<1> QED BY <1>2, <1>3, <1>4, <1>5 DEF Pointer, PteToPpn

(* What map_page writes on the last level leads to the page with the       *)
(* rights asked for, whatever the platform's bits are.                     *)
LEMMA LeafPteFacts ==
  ASSUME NEW f \in Nat, f < PPNS, NEW flags \in {KernelFlags, UserFlags}
  PROVE  /\ LeafPte(f, flags) \in Nat /\ LeafPte(f, flags) # 0
         /\ \A b \in Bits : Has(LeafPte(f, flags), b)
         /\ Has(LeafPte(f, flags), PAGE_U) <=> flags = UserFlags
         /\ PteToPpn(LeafPte(f, flags)) = f
<1>1. PPNS \in Nat /\ PPNS > 1 /\ PTE_ATTR_NORMAL_MEM \in Nat
  BY Constants
<1>2. PICK k \in Nat : PTE_ATTR_NORMAL_MEM = 1024 * (k * PPNS)
  <2>1. 1024 * PPNS \in Nat \ {0} /\ PTE_ATTR_NORMAL_MEM % (1024 * PPNS) = 0
    BY <1>1, PageTablesAssumption DEF PTE_PPN
  <2>2. PICK d \in Nat \ {0} : d = 1024 * PPNS
    BY <2>1
  <2>3. PICK k \in Int : k = PTE_ATTR_NORMAL_MEM \div d /\ PTE_ATTR_NORMAL_MEM = d * k
    <3>1. /\ PTE_ATTR_NORMAL_MEM \div d \in Int
          /\ PTE_ATTR_NORMAL_MEM = d * (PTE_ATTR_NORMAL_MEM \div d) + (PTE_ATTR_NORMAL_MEM % d)
      BY <1>1
    <3> QED BY <3>1, <2>1, <2>2, <1>1
  <2>4. k >= 0
    <3> SUFFICES ASSUME k <= -1 PROVE FALSE
      BY <2>3
    <3>1. d * k <= - d
      BY <2>2
    <3> QED BY <1>1, <2>3, <3>1
  <2>5. d * k = 1024 * (k * PPNS)
    BY <2>2, <2>3, <1>1
  <2> QED BY <2>3, <2>4, <2>5
<1>3. PICK m \in Nat : m = f + k * PPNS
  BY <1>1, <1>2
<1>4. PICK c \in {207, 223} : LeafPte(f, flags) = m * 1024 + c /\ (c = 223 <=> flags = UserFlags)
  <2>1. KernelFlags = 14 /\ UserFlags = 30
    BY DEF KernelFlags, UserFlags, PAGE_R, PAGE_W, PAGE_X, PAGE_U
  <2>2. LeafPte(f, flags) = f * 1024 + flags + 193 + 1024 * (k * PPNS)
    BY <2>1, <1>1, <1>2 DEF LeafPte, PTE_PPN, PAGE_A, PAGE_D, PAGE_V
  <2>3. m * 1024 = f * 1024 + 1024 * (k * PPNS) /\ k * PPNS \in Nat
    BY <1>1, <1>2, <1>3
  <2>4. LeafPte(f, flags) = m * 1024 + (flags + 193)
    BY <2>1, <2>2, <2>3
  <2> QED BY <2>1, <2>4
<1>5. /\ LeafPte(f, flags) \in Nat /\ LeafPte(f, flags) # 0
      /\ \A b \in Bits : Has(LeafPte(f, flags), b)
      /\ Has(LeafPte(f, flags), PAGE_U) <=> flags = UserFlags
      /\ LeafPte(f, flags) \div 1024 = m
  BY <1>4 DEF Has, Bits, PAGE_V, PAGE_R, PAGE_W, PAGE_X, PAGE_A, PAGE_D, PAGE_U
<1>6. m % PPNS = f
  BY <1>1, <1>2, <1>3, DivUnique
<1> QED BY <1>5, <1>6 DEF PteToPpn, PTE_PPN
-----------------------------------------------------------------------------
(* Addresses.                                                              *)

(* The kernel's and the user's pages are addresses, and NULL is no frame.  *)
LEMMA RangeFacts ==
  /\ Ram \subseteq Pages /\ UserPages \subseteq Pages /\ 0 \in Pages
  /\ \A f \in Ram : f \in Nat /\ f # NULL /\ f < PPNS
  /\ \A o \in Owners : PagesOf(o) \subseteq Pages /\ FlagsOf(o) \in {KernelFlags, UserFlags}
  /\ TEMPLATE \notin Procs /\ TEMPLATE \in Owners /\ Procs \subseteq Owners /\ KernelFlags # UserFlags
BY Constants DEF Ram, UserPages, Pages, NULL, PagesOf, FlagsOf, TEMPLATE, Procs, Owners,
   KernelFlags, UserFlags, PAGE_R, PAGE_W, PAGE_X, PAGE_U

(* What two pages share on one level they share above it.                  *)
LEMMA SamePrefix ==
  ASSUME NEW v \in Pages, NEW w \in Pages, NEW l \in 0 .. 2, Prefix(v, l) = Prefix(w, l)
  PROVE  /\ \A m \in l .. 2 : Prefix(v, m) = Prefix(w, m) /\ PtIndex(v, m) = PtIndex(w, m)
         /\ \A o : Holder(o, v) = Holder(o, w)
<1>1. \A m \in l .. 2 : Prefix(v, m) = Prefix(w, m)
  BY DEF Prefix
<1>2. Prefix(v, 2) = Prefix(w, 2)
  BY <1>1
<1> QED BY <1>1, <1>2 DEF PtIndex, Holder, KernelTop

(* The same table and the same index are the same prefix.                  *)
LEMMA SameIndex ==
  ASSUME NEW v \in Pages, NEW w \in Pages, NEW l \in 0 .. 2, PtIndex(v, l) = PtIndex(w, l),
         l < 2 => Prefix(v, l + 1) = Prefix(w, l + 1)
  PROVE  Prefix(v, l) = Prefix(w, l)
BY PrefixFacts

(* The tables of a process's pages are its own below the root, those of    *)
(* the kernel's pages are the template's.                                  *)
LEMMA HolderFacts ==
  /\ \A o \in Owners : \A v \in PagesOf(o) : Holder(o, v) = o
  /\ \A o \in Owners, k \in Ram : Holder(o, k) = TEMPLATE
  /\ \A o \in Owners : \A v : Holder(o, v) \in Owners
<1>1. \A k \in Ram : KernelTop(k)
  BY DEF KernelTop
<1>2. \A u \in UserPages : ~ KernelTop(u)
  BY Constants, RangeFacts, PrefixFacts DEF KernelTop
<1> QED BY <1>1, <1>2, RangeFacts DEF Holder, PagesOf

(* A key of a placement.                                                   *)
LEMMA KeyFacts ==
  ASSUME NEW o \in Owners, NEW l \in 0 .. 3, NEW x \in Pages
  PROVE  /\ <<o, l, x>> \in Keys
         /\ o # TEMPLATE \/ l # 0 => <<o, l, x>> \in FrameKeys
BY DEF Keys, FrameKeys

(* Entry e leads to what owner o has on level l, which is g.               *)
LeadsTo(e, g, o, l) ==
  /\ g \in Ram \cup {NULL} /\ e \in Nat
  /\ g = NULL => e = 0
  /\ g # NULL => e # 0 /\ Has(e, PAGE_V) /\ PteToPpn(e) = g
  /\ l > 0 => (Pointer(e) <=> g # NULL)
  /\ l = 0 /\ g # NULL => \A b \in Bits : Has(e, b)
  /\ l = 0 /\ g # NULL => (Has(e, PAGE_U) <=> o # TEMPLATE)

(* An entry is invalid where nothing is placed, and leads to what is.      *)
LEMMA EntryFacts ==
  ASSUME NEW place \in [Keys -> Ram \cup {NULL}], NEW o \in Owners, NEW v \in Pages, NEW l \in 0 .. 2
  PROVE  LeadsTo(Entry(place, o, l, v), place[<<o, l, Prefix(v, l)>>], o, l)
<1> DEFINE g == place[<<o, l, Prefix(v, l)>>]
           e == Entry(place, o, l, v)
<1> SUFFICES LeadsTo(e, g, o, l)
  OBVIOUS
<1>1. g \in Ram \cup {NULL}
  BY KeyFacts, PrefixFacts
<1>2. CASE g = NULL
  <2>1. e = 0
    BY <1>2 DEF Entry
  <2> HIDE DEF e, g
  <2> QED BY <1>1, <1>2, <2>1, NoPte DEF LeadsTo
<1>3. CASE g # NULL /\ l = 0
  <2>1. g \in Nat /\ g < PPNS /\ FlagsOf(o) \in {KernelFlags, UserFlags}
        /\ (FlagsOf(o) = UserFlags <=> o # TEMPLATE)
    BY <1>1, <1>3, RangeFacts DEF FlagsOf
  <2>2. e = LeafPte(g, FlagsOf(o)) /\ PAGE_V \in Bits
    BY <1>3 DEF Entry, Bits
  <2> HIDE DEF e, g
  <2> QED BY <1>1, <1>3, <2>1, <2>2, LeafPteFacts DEF LeadsTo
<1>4. CASE g # NULL /\ l > 0
  <2>1. g \in Nat /\ g < PPNS
    BY <1>1, <1>4, RangeFacts
  <2>2. e = TablePte(g)
    BY <1>4 DEF Entry
  <2> HIDE DEF e, g
  <2> QED BY <1>1, <1>4, <2>1, <2>2, TablePteFacts DEF LeadsTo
<1> QED BY <1>2, <1>3, <1>4
-----------------------------------------------------------------------------
(* The walk of the hart through the tables of a placement.                 *)

\* No table hangs below a gap: where o has the table of level l on the way to
\* v, it has the one above (the last part of Placement).
NoGap(place, o, v) ==
  \A l \in 0 .. 1 : place[<<o, l, Prefix(v, l)>>] # NULL =>
                    place[<<o, l + 1, Prefix(v, l + 1)>>] # NULL

LEMMA TablesFromTheTop ==
  ASSUME NEW r, NEW place, Placement(r, place), NEW o \in Owners, NEW v \in Pages
  PROVE  NoGap(place, o, v)
<1> SUFFICES ASSUME NEW l \in 0 .. 1, place[<<o, l, Prefix(v, l)>>] # NULL
             PROVE  place[<<o, l + 1, Prefix(v, l + 1)>>] # NULL
  BY DEF NoGap
<1>1. l \in 0 .. 2
  OBVIOUS
<1>2. PICK w \in PagesOf(o) : Prefix(v, l) = Prefix(w, l) /\ place[<<o, l + 1, Above(w, l + 1)>>] # NULL
  BY <1>1, PrefixFacts DEF Placement
<1>3. w \in Pages
  BY RangeFacts
<1>4. Above(w, l + 1) = Above(v, l + 1)
  BY <1>1, <1>2, <1>3, SamePrefix DEF Above
<1> QED BY <1>2, <1>4 DEF Above

(* Below a table that is not there is nothing.                             *)
LEMMA NothingBelow ==
  ASSUME NEW r, NEW place, Placement(r, place)
  PROVE  \A o \in Owners, v \in Pages, l \in 0 .. 1 :
           place[<<o, l + 1, Prefix(v, l + 1)>>] = NULL => place[<<o, l, Prefix(v, l)>>] = NULL
<1>1. \A o \in Owners, v \in Pages : NoGap(place, o, v)
  BY TablesFromTheTop
<1> QED BY <1>1 DEF NoGap

(* What a walk reads on each level: the entries of the placement.          *)
Walks(r, place, root, h, v, reads) ==
  /\ Leaf(r, root, v) = Entry(place, h, 0, v)
  /\ reads[2] = {Entry(place, h, 2, v)}
  /\ reads[1] = {e \in {Entry(place, h, 1, v)} : place[<<h, 2, Prefix(v, 2)>>] # NULL}
  /\ reads[0] = {e \in {Entry(place, h, 0, v)} : place[<<h, 1, Prefix(v, 1)>>] # NULL}

(* That is what the walk for page v of owner o reads.                      *)
LEMMA WalkFacts ==
  ASSUME NEW r, NEW place, Valid(r, place), NEW o \in Owners, place[<<o, 3, 0>>] # NULL,
         NEW root, root = place[<<o, 3, 0>>], NEW v \in Pages, NEW h, h = Holder(o, v),
         NEW reads, reads = Reads(r, root, {}, v)
  PROVE  Walks(r, place, root, h, v, reads)
<1> DEFINE e2 == Entry(place, h, 2, v)
           e1 == Entry(place, h, 1, v)
           e0 == Entry(place, h, 0, v)
           g2 == place[<<h, 2, Prefix(v, 2)>>]
           g1 == place[<<h, 1, Prefix(v, 1)>>]
<1>1. h \in Owners /\ place \in [Keys -> Ram \cup {NULL}] /\ Placement(r, place)
  BY HolderFacts DEF Valid, Placement
<1>2. /\ r.page[root][PtIndex(v, 2)] = e2
      /\ g2 # NULL => r.page[g2][PtIndex(v, 1)] = e1
      /\ g1 # NULL => r.page[g1][PtIndex(v, 0)] = e0
  <2>1. \A l \in 0 .. 1 : place[<<h, l + 1, Prefix(v, l + 1)>>] # NULL =>
          r.page[place[<<h, l + 1, Prefix(v, l + 1)>>]][PtIndex(v, l)] = Entry(place, h, l, v)
    BY <1>1 DEF Valid, Holds
  <2> QED BY <2>1 DEF Valid, Holds
<1>3. /\ Pointer(e2) <=> g2 # NULL
      /\ g2 # NULL => PteToPpn(e2) = g2
      /\ Pointer(e1) <=> g1 # NULL
      /\ g1 # NULL => PteToPpn(e1) = g1
  <2>0. 1 \in 0 .. 2 /\ 2 \in 0 .. 2
    OBVIOUS
  <2>1. LeadsTo(e2, g2, h, 2) /\ LeadsTo(e1, g1, h, 1)
    BY <1>1, <2>0, EntryFacts, Zenon
  <2> HIDE DEF e2, g2, e1, g1
  <2> QED BY <2>1 DEF LeadsTo
<1>4. /\ g1 # NULL => g2 # NULL
      /\ g1 = NULL => e0 = 0
  <2>0. NoGap(place, h, v)
    BY <1>1, TablesFromTheTop, Zenon
  <2>1. g1 # NULL => g2 # NULL
    BY <2>0 DEF NoGap
  <2>2. g1 = NULL => place[<<h, 0, Prefix(v, 0)>>] = NULL
    BY <2>0 DEF NoGap
  <2> QED BY <1>1, <2>1, <2>2, EntryFacts DEF LeadsTo
<1>5. \A l : Cached({}, v, l) = {}
  BY DEF Cached
<1>6. reads[2] = {e2}
  BY <1>2, <1>5 DEF Reads
<1>7. reads[1] = {r.page[PteToPpn(e)][PtIndex(v, 1)] : e \in {d \in {e2} : Pointer(d)}}
  BY <1>2, <1>5 DEF Reads
<1>8. reads[0] = {r.page[PteToPpn(e)][PtIndex(v, 0)] : e \in {d \in reads[1] : Pointer(d)}}
  BY <1>5 DEF Reads
<1> HIDE DEF e2, e1, e0, g2, g1
<1>9. reads[1] = {e \in {e1} : g2 # NULL}
  <2>1. CASE g2 = NULL
    BY <2>1, <1>3, <1>7
  <2>2. CASE g2 # NULL
    <3>1. {d \in {e2} : Pointer(d)} = {e2}
      BY <2>2, <1>3
    <3>2. reads[1] = {r.page[PteToPpn(e2)][PtIndex(v, 1)]}
      BY <3>1, <1>7
    <3> QED BY <3>2, <2>2, <1>2, <1>3
  <2> QED BY <2>1, <2>2
<1>10. reads[0] = {e \in {e0} : g1 # NULL}
  <2>1. CASE g1 = NULL
    BY <2>1, <1>3, <1>8, <1>9
  <2>2. CASE g1 # NULL
    <3>1. {d \in reads[1] : Pointer(d)} = {e1}
      BY <2>2, <1>3, <1>4, <1>9
    <3>2. reads[0] = {r.page[PteToPpn(e1)][PtIndex(v, 0)]}
      BY <3>1, <1>8
    <3> QED BY <3>2, <2>2, <1>2, <1>3
  <2> QED BY <2>1, <2>2
<1>11. Leaf(r, root, v) = e0
  <2>1. CASE g2 = NULL
    <3>1. Leaf(r, root, v) = 0
      BY <2>1, <1>2, <1>3, NoPte DEF Leaf
    <3> QED BY <3>1, <2>1, <1>4
  <2>2. CASE g2 # NULL /\ g1 = NULL
    <3>1. Leaf(r, root, v) = 0
      BY <2>2, <1>2, <1>3 DEF Leaf
    <3> QED BY <3>1, <2>2, <1>4
  <2>3. CASE g2 # NULL /\ g1 # NULL
    BY <2>3, <1>2, <1>3 DEF Leaf
  <2> QED BY <2>1, <2>2, <2>3, <1>4
<1> QED BY <1>6, <1>9, <1>10, <1>11 DEF e2, e1, e0, g2, g1, Walks
-----------------------------------------------------------------------------
(* Operations on RAM as updates of the placement.                          *)

(* The tables of a placement are frames, and frames have one use.          *)
LEMMA TableFacts ==
  ASSUME NEW r, NEW place, Valid(r, place), NEW o \in Owners, NEW l \in 1 .. 3, NEW x \in Pages,
         place[<<o, l, x>>] # NULL
  PROVE  /\ place[<<o, l, x>>] \in Given(r) /\ place[<<o, l, x>>] \in Ram
         /\ \A a \in FrameKeys : place[a] = place[<<o, l, x>>] => a = <<o, l, x>>
<1>1. <<o, l, x>> \in FrameKeys
  BY KeyFacts
<1> QED BY <1>1 DEF Valid, Placement, Given

\* From r to s no page changes that place has for a table.
KeepsTables(place, r, s) ==
  \A o \in Owners, l \in 1 .. 3, x \in Pages :
    place[<<o, l, x>>] # NULL => s.page[place[<<o, l, x>>]] = r.page[place[<<o, l, x>>]]

(* What does not touch the tables keeps them what they are.                *)
LEMMA TablesKept ==
  ASSUME NEW r, NEW place, Valid(r, place), NEW s, RamOK(s), Given(r) \subseteq Given(s),
         KeepsTables(place, r, s)
  PROVE  Valid(s, place)
<1> USE DEF KeepsTables
<1>1. Placement(s, place)
  BY DEF Valid, Placement
<1>2. \A o \in Owners, v \in Pages : place[<<o, 3, 0>>] # NULL =>
        s.page[place[<<o, 3, 0>>]][PtIndex(v, 2)] = Entry(place, Holder(o, v), 2, v)
  BY RangeFacts DEF Valid, Holds
<1>3. ASSUME NEW o \in Owners, NEW v \in Pages, NEW l \in 0 .. 1,
             place[<<o, l + 1, Prefix(v, l + 1)>>] # NULL
      PROVE  s.page[place[<<o, l + 1, Prefix(v, l + 1)>>]][PtIndex(v, l)] = Entry(place, o, l, v)
  <2>1. l + 1 \in 1 .. 3 /\ Prefix(v, l + 1) \in Pages
    BY PrefixFacts
  <2>2. r.page[place[<<o, l + 1, Prefix(v, l + 1)>>]][PtIndex(v, l)] = Entry(place, o, l, v)
    BY <1>3 DEF Valid, Holds
  <2> QED BY <1>3, <2>1, <2>2
<1> QED BY <1>1, <1>2, <1>3 DEF Valid, Holds

\* Frame g serves as no table.
Spare(place, g) == \A a \in FrameKeys : place[a] = g => a[2] = 0

\* From r to s no page of a user changes, and tables are added in fresh frames.
Keeps(r, place, s, place2) ==
  /\ \A g \in Given(r) : Spare(place, g) => s.page[g] = r.page[g]
  /\ \A a \in FrameKeys : place2[a] # place[a] => a[2] = 0 \/ place2[a] \notin Given(r)

LEMMA KeepsOn ==
  ASSUME NEW r, NEW place, NEW s, NEW place2, NEW t, NEW place3, Given(r) \subseteq Given(s),
         Keeps(r, place, s, place2), Keeps(s, place2, t, place3)
  PROVE  Keeps(r, place, t, place3)
<1>1. ASSUME NEW g \in Given(r), Spare(place, g) PROVE t.page[g] = r.page[g]
  <2>1. Spare(place2, g)
    BY <1>1 DEF Spare, Keeps
  <2> QED BY <1>1, <2>1 DEF Keeps
<1>2. ASSUME NEW a \in FrameKeys, place3[a] # place[a] PROVE a[2] = 0 \/ place3[a] \notin Given(r)
  BY <1>2 DEF Keeps
<1> QED BY <1>1, <1>2 DEF Keeps

(* So it is when no page changes that was given out.                       *)
LEMMA KeepsPages ==
  ASSUME NEW r, NEW place, NEW s, \A g \in Given(r) : s.page[g] = r.page[g]
  PROVE  Keeps(r, place, s, place)
BY DEF Keeps

(* A page is filled.                                                       *)
LEMMA FillFacts ==
  ASSUME NEW r, RamOK(r), NEW f \in Ram, NEW z \in [Index -> Nat], NEW s, s = Fill(r, f, z)
  PROVE  /\ RamOK(s) /\ s.ok = r.ok /\ Given(s) = Given(r)
         /\ s.page[f] = z /\ \A g \in Ram : g # f => s.page[g] = r.page[g]
<1>1. /\ RamOK(s) /\ s.ok = r.ok /\ s.next = r.next
      /\ s.page[f] = z /\ \A g \in Ram : g # f => s.page[g] = r.page[g]
  BY DEF RamOK, Fill
<1> QED BY <1>1 DEF Given

(* A word is written.                                                      *)
LEMMA WriteFacts ==
  ASSUME NEW r, RamOK(r), NEW f \in Ram, NEW i \in Index, NEW z \in Nat, NEW s, s = Write(r, f, i, z)
  PROVE  /\ RamOK(s) /\ s.ok = r.ok /\ Given(s) = Given(r)
         /\ \A g \in Ram, j \in Index : s.page[g][j] = IF g = f /\ j = i THEN z ELSE r.page[g][j]
         /\ \A g \in Ram : g # f => s.page[g] = r.page[g]
<1>1. /\ RamOK(s) /\ s.ok = r.ok /\ s.next = r.next
      /\ \A g \in Ram, j \in Index : s.page[g][j] = IF g = f /\ j = i THEN z ELSE r.page[g][j]
      /\ \A g \in Ram : g # f => s.page[g] = r.page[g]
  BY DEF RamOK, Write
<1> QED BY <1>1 DEF Given

(* The machine stops.                                                      *)
LEMMA StopFacts ==
  ASSUME NEW r, RamOK(r), NEW s, s = Stop(r)
  PROVE  RamOK(s) /\ ~ s.ok /\ s.page = r.page /\ Given(s) = Given(r)
<1>1. RamOK(s) /\ ~ s.ok /\ s.next = r.next /\ s.page = r.page
  BY DEF RamOK, Stop
<1> QED BY <1>1 DEF Given

(* alloc_pages gives a frame that nobody has, cleared, or the machine      *)
(* stops.                                                                  *)
LEMMA AllocFacts ==
  ASSUME NEW r, RamOK(r), r.ok, NEW s, s = AllocPage(r)
  PROVE  /\ RamOK(s)
         /\ s.ok => /\ r.next \in Ram /\ r.next \notin Given(r)
                    /\ s.page[r.next] = ZeroPage
                    /\ Given(s) = Given(r) \cup {r.next}
         /\ ~ s.ok => Given(s) = Given(r) /\ r.next = FREE_RAM_END
         /\ \A g \in Given(r) : s.page[g] = r.page[g]
<1>1. r.next \in FREE_RAM .. FREE_RAM_END /\ Given(r) \subseteq Ram
  BY Constants DEF RamOK, Given
<1>2. PICK moved : moved = [r EXCEPT !.next = @ + 1]
  OBVIOUS
<1>3. /\ moved \in [page : [Ram -> [Index -> Nat]], next : FREE_RAM .. FREE_RAM_END + 1, ok : BOOLEAN]
      /\ moved.next = r.next + 1 /\ moved.ok /\ moved.page = r.page
  BY <1>1, <1>2, Constants DEF RamOK
<1>4. s = IF moved.next > FREE_RAM_END THEN Stop(moved) ELSE Fill(moved, r.next, ZeroPage)
  BY <1>2 DEF AllocPage
<1>5. CASE r.next < FREE_RAM_END
  <2>1. RamOK(moved) /\ r.next \in Ram /\ ZeroPage \in [Index -> Nat]
    BY <1>1, <1>3, <1>5, Constants DEF RamOK, Ram, ZeroPage
  <2>2. s = Fill(moved, r.next, ZeroPage)
    BY <1>1, <1>3, <1>4, <1>5, Constants
  <2>3. Given(moved) = Given(r) \cup {r.next} /\ r.next \notin Given(r)
    BY <1>1, <1>3, <2>1, Constants DEF Given, Ram
  <2>4. /\ RamOK(s) /\ s.ok = moved.ok /\ Given(s) = Given(moved)
        /\ s.page[r.next] = ZeroPage /\ \A g \in Ram : g # r.next => s.page[g] = moved.page[g]
    BY <2>1, <2>2, FillFacts
  <2> QED BY <1>1, <1>3, <2>1, <2>3, <2>4
<1>6. CASE r.next = FREE_RAM_END
  <2>1. s = Stop(moved)
    BY <1>1, <1>3, <1>4, <1>6, Constants
  <2>2. RamOK(s) /\ ~ s.ok /\ s.page = moved.page /\ s.next = moved.next
    BY <1>1, <1>3, <2>1 DEF RamOK, Stop
  <2>3. Given(s) = Given(r)
    BY <1>1, <1>3, <1>6, <2>2, Constants DEF Given, Ram
  <2> QED BY <1>3, <1>6, <2>2, <2>3
<1> QED BY <1>1, <1>5, <1>6, Constants

(* Behind a PANIC nothing is allocated.                                    *)
LEMMA AllocStopped ==
  ASSUME NEW r, ~ r.ok PROVE AllocPage(r) = r
BY DEF AllocPage

(* A page that was just allocated is in no table.                          *)
LEMMA AllocValid ==
  ASSUME NEW r, NEW place, Valid(r, place), r.ok, NEW s, s = AllocPage(r)
  PROVE  Valid(s, place) /\ (s.ok => \A a \in FrameKeys : place[a] # r.next)
<1>1. RamOK(r) /\ \A a \in FrameKeys : place[a] # NULL => place[a] \in Given(r)
  BY DEF Valid, Placement
<1>2. /\ RamOK(s) /\ Given(r) \subseteq Given(s)
      /\ s.ok => r.next \in Ram /\ r.next \notin Given(r)
      /\ \A g \in Given(r) : s.page[g] = r.page[g]
  BY <1>1, AllocFacts
<1>3. \A o \in Owners, l \in 1 .. 3, x \in Pages :
        place[<<o, l, x>>] # NULL => place[<<o, l, x>>] \in Given(r)
  BY TableFacts
<1>4. Valid(s, place)
  BY <1>2, <1>3, TablesKept DEF KeepsTables
<1> QED BY <1>1, <1>2, <1>4, RangeFacts
-----------------------------------------------------------------------------
(* A table or a page is linked to the table above it.                      *)

(* The entry that map_page writes for frame g.                             *)
LinkPte(o, l, g) == IF l = 0 THEN LeafPte(g, FlagsOf(o)) ELSE TablePte(g)

(* Frame g may be linked, to be what owner o has for page v on level l.    *)
CanLink(r, place, o, v, l, table, key, g) ==
  /\ Valid(r, place) /\ o \in Owners /\ v \in PagesOf(o) /\ l \in 0 .. 2
  /\ table = place[<<o, l + 1, Above(v, l + 1)>>] /\ table # NULL
  /\ key = <<o, l, Prefix(v, l)>> /\ place[key] = NULL
  /\ g \in Ram /\ (l > 0 => r.page[g] = ZeroPage)
  /\ IF o = TEMPLATE /\ l = 0 THEN g = v ELSE g \in Given(r) /\ \A a \in FrameKeys : place[a] # g
  /\ o = TEMPLATE => \A p \in Procs : place[<<p, 3, 0>>] = NULL

(* It is: its entry is written into the table above, and the placement     *)
(* has it.                                                                 *)
Links(r, place, o, v, l, g, s, place2) ==
  LET table == place[<<o, l + 1, Above(v, l + 1)>>]
      key   == <<o, l, Prefix(v, l)>>
  IN /\ CanLink(r, place, o, v, l, table, key, g)
     /\ place2 \in [Keys -> Ram \cup {NULL}] /\ place2[key] = g
     /\ \A a \in Keys : a # key => place2[a] = place[a]
     /\ RamOK(s) /\ Given(s) = Given(r)
     /\ \A f \in Ram, j \in Index :
          s.page[f][j] = IF f = table /\ j = PtIndex(v, l) THEN LinkPte(o, l, g) ELSE r.page[f][j]

(* Such a link touches no other entry.                                     *)
LEMMA LinkStep ==
  ASSUME NEW r, NEW place, NEW o, NEW v, NEW l, NEW g, NEW s, NEW place2,
         Links(r, place, o, v, l, g, s, place2)
  PROVE  Valid(s, place2)
<1>7. \A q \in Owners, w \in Pages, m \in 0 .. 1 :
        place[<<q, m + 1, Prefix(w, m + 1)>>] = NULL => place[<<q, m, Prefix(w, m)>>] = NULL
  <2>1. Placement(r, place)
    BY DEF Links, CanLink, Valid
  <2> QED BY <2>1, NothingBelow
<1> DEFINE above == place[<<o, l + 1, Above(v, l + 1)>>]
           new == <<o, l, Prefix(v, l)>>
<1> SUFFICES ASSUME Valid(r, place), o \in Owners, v \in PagesOf(o), l \in 0 .. 2,
                    NEW table, table = above, NEW key, key = new,
                    table # NULL, place[key] = NULL, g \in Ram, l > 0 => r.page[g] = ZeroPage,
                    IF o = TEMPLATE /\ l = 0 THEN g = v
                    ELSE g \in Given(r) /\ \A a \in FrameKeys : place[a] # g,
                    o = TEMPLATE => \A p \in Procs : place[<<p, 3, 0>>] = NULL,
                    place2 \in [Keys -> Ram \cup {NULL}], place2[key] = g,
                    \A a \in Keys : a # key => place2[a] = place[a],
                    RamOK(s), Given(s) = Given(r),
                    \A f \in Ram, j \in Index :
                      s.page[f][j] = IF f = table /\ j = PtIndex(v, l) THEN LinkPte(o, l, g) ELSE r.page[f][j]
             PROVE  Valid(s, place2)
  BY DEF Links, CanLink
<1> DEFINE i == PtIndex(v, l)
           pte == LinkPte(o, l, g)
<1>1. /\ RamOK(r) /\ Placement(r, place) /\ place \in [Keys -> Ram \cup {NULL}]
      /\ v \in Pages /\ Holder(o, v) = o /\ i \in Index /\ Prefix(v, l) \in Pages
      /\ \A m \in 0 .. 2 : Prefix(v, m) \in Pages
  BY RangeFacts, HolderFacts, PrefixFacts DEF Valid, Placement
<1>2. /\ l + 1 \in 1 .. 3 /\ Above(v, l + 1) \in Pages
      /\ l < 2 => Above(v, l + 1) = Prefix(v, l + 1)
      /\ l = 2 => Above(v, l + 1) = 0
  BY <1>1, RangeFacts DEF Above
<1>3. /\ table \in Given(r) /\ table \in Ram
      /\ \A a \in FrameKeys : place[a] = table => a = <<o, l + 1, Above(v, l + 1)>>
  BY <1>2, TableFacts
<1>4. key \in Keys /\ (o # TEMPLATE \/ l # 0 => key \in FrameKeys)
  BY <1>1, KeyFacts
<1>5. /\ place2 \in [Keys -> Ram \cup {NULL}] /\ place2[key] = g
      /\ \A a \in Keys : a # key => place2[a] = place[a]
  OBVIOUS
<1>6. g # NULL /\ g < PPNS /\ g \in Nat
  BY RangeFacts
<1>8. /\ RamOK(s) /\ Given(s) = Given(r)
      /\ \A f \in Ram, j \in Index : s.page[f][j] = IF f = table /\ j = i THEN pte ELSE r.page[f][j]
  OBVIOUS
<1>9. \A a \in Keys : place[a] # NULL => place2[a] = place[a]
  BY <1>5
<1>10. pte = Entry(place2, o, l, v)
  BY <1>5, <1>6 DEF Entry, LinkPte
<1> HIDE DEF pte, i
<1>11. \A q \in Owners, w \in Pages, m \in 0 .. 2 :
         <<q, m, Prefix(w, m)>> # key => Entry(place2, q, m, w) = Entry(place, q, m, w)
  <2> SUFFICES ASSUME NEW q \in Owners, NEW w \in Pages, NEW m \in 0 .. 2, <<q, m, Prefix(w, m)>> # key
               PROVE  Entry(place2, q, m, w) = Entry(place, q, m, w)
    OBVIOUS
  <2>1. <<q, m, Prefix(w, m)>> \in Keys
    BY KeyFacts, PrefixFacts
  <2>2. place2[<<q, m, Prefix(w, m)>>] = place[<<q, m, Prefix(w, m)>>]
    BY <2>1, <1>5
  <2> QED BY <2>2, Zenon DEF Entry
<1>12. Placement(s, place2)
  <2>1. \A a, b \in FrameKeys : place2[a] = place2[b] /\ place2[a] # NULL => a = b
    <3>1. FrameKeys \subseteq Keys
      BY DEF FrameKeys
    <3>2. \A a, b \in FrameKeys : place[a] = place[b] /\ place[a] # NULL => a = b
      BY <1>1 DEF Placement
    <3>3. key \in FrameKeys => \A a \in FrameKeys : place[a] # g
      BY <1>4 DEF FrameKeys
    <3> QED BY <3>1, <3>2, <3>3, <1>5
  <2>2. \A a \in FrameKeys : place2[a] # NULL => place2[a] \in Given(s)
    <3>1. FrameKeys \subseteq Keys
      BY DEF FrameKeys
    <3>2. \A a \in FrameKeys : place[a] # NULL => place[a] \in Given(r)
      BY <1>1 DEF Placement
    <3>3. key \in FrameKeys => g \in Given(r)
      BY <1>4 DEF FrameKeys
    <3> QED BY <3>1, <3>2, <3>3, <1>5, <1>8
  <2>3. \A x \in Pages : place2[<<TEMPLATE, 0, x>>] \in {NULL, x}
    <3> SUFFICES ASSUME NEW x \in Pages PROVE place2[<<TEMPLATE, 0, x>>] \in {NULL, x}
      OBVIOUS
    <3>1. <<TEMPLATE, 0, x>> \in Keys /\ place[<<TEMPLATE, 0, x>>] \in {NULL, x}
      BY <1>1, KeyFacts, RangeFacts DEF Placement
    <3>2. CASE <<TEMPLATE, 0, x>> = key
      <4>1. o = TEMPLATE /\ l = 0 /\ x = Prefix(v, 0)
        BY <3>2
      <4> QED BY <4>1, <3>2, <1>5, <1>1, PrefixFacts
    <3> QED BY <3>1, <3>2, <1>5
  <2>4. \A q \in Owners, x \in Pages : place2[<<q, 3, x>>] # NULL => x = 0
    <3> SUFFICES ASSUME NEW q \in Owners, NEW x \in Pages, place2[<<q, 3, x>>] # NULL PROVE x = 0
      OBVIOUS
    <3>1. <<q, 3, x>> \in Keys /\ <<q, 3, x>> # key
      BY KeyFacts
    <3> QED BY <3>1, <1>1, <1>5 DEF Placement
  <2>5. ASSUME NEW q \in Owners, NEW m \in 0 .. 2, NEW x \in Pages, place2[<<q, m, x>>] # NULL
        PROVE  \E w \in PagesOf(q) : x = Prefix(w, m) /\ place2[<<q, m + 1, Above(w, m + 1)>>] # NULL
    <3>1. <<q, m, x>> \in Keys
      BY KeyFacts
    <3>2. ASSUME NEW w \in PagesOf(q), place[<<q, m + 1, Above(w, m + 1)>>] # NULL
          PROVE  place2[<<q, m + 1, Above(w, m + 1)>>] # NULL
      <4>1. m + 1 \in 0 .. 3 /\ Above(w, m + 1) \in Pages
        BY RangeFacts, PrefixFacts DEF Above
      <4>2. <<q, m + 1, Above(w, m + 1)>> \in Keys
        BY <4>1, KeyFacts
      <4> QED BY <4>2, <3>2, <1>9
    <3>3. CASE <<q, m, x>> = key
      <4>1. q = o /\ m = l /\ x = Prefix(v, l)
        BY <3>3
      <4> QED BY <4>1, <3>2
    <3>4. CASE <<q, m, x>> # key
      <4>1. place[<<q, m, x>>] # NULL
        BY <3>1, <3>4, <2>5, <1>5
      <4>2. PICK w \in PagesOf(q) : x = Prefix(w, m) /\ place[<<q, m + 1, Above(w, m + 1)>>] # NULL
        BY <4>1, <1>1 DEF Placement
      <4> QED BY <4>2, <3>2
    <3> QED BY <3>3, <3>4
  <2> QED BY <2>1, <2>2, <2>3, <2>4, <2>5, <1>5 DEF Placement
<1>13. ASSUME NEW q \in Owners, NEW w \in Pages, place2[<<q, 3, 0>>] # NULL
       PROVE  s.page[place2[<<q, 3, 0>>]][PtIndex(w, 2)] = Entry(place2, Holder(q, w), 2, w)
  <2> DEFINE t == place[<<q, 3, 0>>]
  <2>1. <<q, 3, 0>> \in Keys /\ <<q, 3, 0>> \in FrameKeys /\ <<q, 3, 0>> # key
    BY KeyFacts, RangeFacts
  <2>2. place2[<<q, 3, 0>>] = t /\ t # NULL
    BY <2>1, <1>5, <1>13
  <2>3. t \in Ram /\ PtIndex(w, 2) \in Index /\ Holder(q, w) \in Owners
    BY <2>2, TableFacts, RangeFacts, PrefixFacts, HolderFacts
  <2>4. r.page[t][PtIndex(w, 2)] = Entry(place, Holder(q, w), 2, w)
    BY <2>2 DEF Valid, Holds
  <2>5. CASE t = table /\ PtIndex(w, 2) = i
    <3>1. q = o /\ l + 1 = 3
      BY <2>1, <2>5, <1>3
    <3>2. l = 2 /\ Prefix(w, 2) = Prefix(v, 2)
      BY <3>1, <2>5, <1>1, PrefixFacts DEF i
    <3>3. Holder(q, w) = o
      BY <3>1, <3>2, <1>1, SamePrefix
    <3>4. Entry(place2, o, 2, w) = Entry(place2, o, 2, v)
      BY <3>2 DEF Entry
    <3>5. s.page[t][PtIndex(w, 2)] = pte
      BY <2>3, <2>5, <1>8
    <3>6. Entry(place2, Holder(q, w), 2, w) = pte
      BY <3>2, <3>3, <3>4, <1>10
    <3> QED BY <2>2, <3>5, <3>6
  <2>6. CASE ~ (t = table /\ PtIndex(w, 2) = i)
    <3>1. <<Holder(q, w), 2, Prefix(w, 2)>> # key
      <4> SUFFICES ASSUME <<Holder(q, w), 2, Prefix(w, 2)>> = key PROVE FALSE
        OBVIOUS
      <4>1. Holder(q, w) = o /\ l = 2 /\ Prefix(w, 2) = Prefix(v, 2)
        OBVIOUS
      <4>2. PtIndex(w, 2) = i
        BY <4>1, <1>1, PrefixFacts DEF i
      <4>3. q # o
        BY <4>1, <4>2, <2>6, <1>2
      <4>4. o = TEMPLATE /\ q \in Procs
        BY <4>1, <4>3 DEF Holder, Owners
      <4> QED BY <4>4, <2>2
    <3>2. s.page[t][PtIndex(w, 2)] = r.page[t][PtIndex(w, 2)]
      BY <2>3, <2>6, <1>8
    <3>3. Entry(place2, Holder(q, w), 2, w) = Entry(place, Holder(q, w), 2, w)
      <4>1. 2 \in 0 .. 2
        OBVIOUS
      <4> QED BY <4>1, <2>3, <3>1, <1>11, Zenon
    <3> QED BY <2>2, <2>4, <3>2, <3>3
  <2> QED BY <2>5, <2>6
<1>14. ASSUME NEW q \in Owners, NEW w \in Pages, NEW m \in 0 .. 1,
              place2[<<q, m + 1, Prefix(w, m + 1)>>] # NULL
       PROVE  s.page[place2[<<q, m + 1, Prefix(w, m + 1)>>]][PtIndex(w, m)] = Entry(place2, q, m, w)
  <2> DEFINE up == <<q, m + 1, Prefix(w, m + 1)>>
             t == place2[up]
  <2>1. m + 1 \in 0 .. 2 /\ m + 1 \in 1 .. 3 /\ m \in 0 .. 2
    OBVIOUS
  <2>2. Prefix(w, m + 1) \in Pages /\ PtIndex(w, m) \in Index /\ Prefix(w, m) \in Pages
    BY <2>1, PrefixFacts
  <2>3. up \in Keys /\ up \in FrameKeys
    BY <2>1, <2>2, KeyFacts
  <2>4. CASE up = key
    <3>1. q = o /\ l = m + 1 /\ Prefix(w, l) = Prefix(v, l) /\ t = g
      BY <2>4, <1>5
    <3>2. r.page[g] = ZeroPage /\ g # table
      <4>1. l > 0
        BY <3>1
      <4>2. <<o, l + 1, Above(v, l + 1)>> \in FrameKeys
        BY <4>1, <1>2, KeyFacts
      <4> QED BY <4>1, <4>2
    <3>3. s.page[g][PtIndex(w, m)] = 0
      BY <2>2, <3>2, <1>8 DEF ZeroPage
    <3>4. <<q, m, Prefix(w, m)>> # key
      BY <3>1
    <3>5. place[<<q, m, Prefix(w, m)>>] = NULL
      <4>1. place[<<q, m + 1, Prefix(w, m + 1)>>] = NULL
        BY <2>4
      <4> QED BY <4>1, <1>7
    <3>6. Entry(place2, q, m, w) = 0
      BY <3>4, <3>5, <2>1, <1>11 DEF Entry
    <3> QED BY <3>1, <3>3, <3>6
  <2>5. CASE up # key
    <3>1. place[up] = t /\ t # NULL
      BY <2>3, <2>5, <1>5, <1>14
    <3>2. t \in Ram
      BY <3>1, <2>3, <1>1
    <3>3. r.page[t][PtIndex(w, m)] = Entry(place, q, m, w)
      <4>1. r.page[place[up]][PtIndex(w, m)] = Entry(place, q, m, w)
        BY <3>1 DEF Valid, Holds
      <4> QED BY <4>1, <3>1
    <3>4. CASE t = table /\ PtIndex(w, m) = i
      <4>1. up = <<o, l + 1, Above(v, l + 1)>>
        BY <3>1, <3>4, <2>3, <1>3
      <4>2. q = o /\ m = l /\ Prefix(w, l + 1) = Prefix(v, l + 1)
        BY <4>1, <1>2
      <4>3. Prefix(w, l) = Prefix(v, l)
        BY <4>2, <3>4, <1>1, SameIndex DEF i
      <4>4. Entry(place2, o, l, w) = Entry(place2, o, l, v)
        BY <4>3 DEF Entry
      <4>5. s.page[t][PtIndex(w, m)] = pte
        BY <3>2, <3>4, <2>2, <1>8
      <4> QED BY <4>2, <4>4, <4>5, <1>10
    <3>5. CASE ~ (t = table /\ PtIndex(w, m) = i)
      <4>1. <<q, m, Prefix(w, m)>> # key
        <5> SUFFICES ASSUME <<q, m, Prefix(w, m)>> = key PROVE FALSE
          OBVIOUS
        <5>1. q = o /\ m = l /\ Prefix(w, l) = Prefix(v, l)
          OBVIOUS
        <5>2. Prefix(w, l + 1) = Prefix(v, l + 1) /\ PtIndex(w, l) = PtIndex(v, l)
          BY <5>1, <1>1, SamePrefix
        <5>3. t = table
          BY <5>1, <5>2, <3>1, <1>2
        <5> QED BY <5>1, <5>2, <5>3, <3>5 DEF i
      <4>2. s.page[t][PtIndex(w, m)] = r.page[t][PtIndex(w, m)]
        BY <3>2, <3>5, <2>2, <1>8
      <4> QED BY <4>1, <4>2, <3>3, <2>1, <1>11
    <3> QED BY <3>4, <3>5
  <2> QED BY <2>4, <2>5
<1> QED BY <1>8, <1>12, <1>13, <1>14 DEF Valid, Holds

(* Placement place2 of s is that of r with g placed at the key.            *)
Linked(r, place, s, place2, key, g) ==
  /\ Valid(s, place2) /\ s.ok = r.ok /\ Given(s) = Given(r)
  /\ place2[key] = g /\ \A a \in Keys : a # key => place2[a] = place[a]

(* The write that map_page does is such a link.                            *)
LEMMA LinkValid ==
  ASSUME NEW r, NEW place, NEW o, NEW v, NEW l, NEW table, NEW key, NEW g,
         CanLink(r, place, o, v, l, table, key, g),
         NEW s, s = Write(r, table, PtIndex(v, l), LinkPte(o, l, g))
  PROVE  \E place2 : Linked(r, place, s, place2, key, g)
<1>2. PICK place2 : place2 = [place EXCEPT ![key] = g]
  OBVIOUS
<1>3. /\ RamOK(r) /\ place \in [Keys -> Ram \cup {NULL}]
      /\ o \in Owners /\ l \in 0 .. 2 /\ v \in Pages /\ g \in Ram
  BY RangeFacts DEF CanLink, Valid, Placement
<1>4. l + 1 \in 1 .. 3 /\ Above(v, l + 1) \in Pages /\ Prefix(v, l) \in Pages
  BY <1>3, PrefixFacts, RangeFacts DEF Above
<1>5. table \in Ram
  BY <1>3, <1>4, TableFacts DEF CanLink
<1>6. key \in Keys
  BY <1>3, <1>4, KeyFacts DEF CanLink
<1>8. /\ RamOK(s) /\ s.ok = r.ok /\ Given(s) = Given(r)
      /\ \A f \in Ram, j \in Index :
           s.page[f][j] = IF f = table /\ j = PtIndex(v, l) THEN LinkPte(o, l, g) ELSE r.page[f][j]
  <2>1. PICK z \in Nat : z = LinkPte(o, l, g)
    <3>1. LinkPte(o, l, g) \in Nat
      BY <1>3, RangeFacts, TablePteFacts, LeafPteFacts DEF LinkPte
    <3> QED BY <3>1
  <2>2. PICK i \in Index : i = PtIndex(v, l)
    BY <1>3, PrefixFacts
  <2>3. s = Write(r, table, i, z) /\ RamOK(r)
    BY <2>1, <2>2, <1>3
  <2>4. /\ RamOK(s) /\ s.ok = r.ok /\ Given(s) = Given(r)
        /\ \A f \in Ram, j \in Index : s.page[f][j] = IF f = table /\ j = i THEN z ELSE r.page[f][j]
    BY <2>3, <1>5, WriteFacts
  <2> QED BY <2>1, <2>2, <2>4
<1>9. /\ place2 \in [Keys -> Ram \cup {NULL}] /\ place2[key] = g
      /\ \A a \in Keys : a # key => place2[a] = place[a]
  BY <1>2, <1>3, <1>6
<1>10. Valid(s, place2)
  <2>1. table = place[<<o, l + 1, Above(v, l + 1)>>] /\ key = <<o, l, Prefix(v, l)>>
    BY DEF CanLink
  <2>2. Links(r, place, o, v, l, g, s, place2)
    BY <1>8, <1>9, <2>1 DEF Links
  <2> QED BY <2>2, LinkStep
<1> QED BY <1>8, <1>9, <1>10 DEF Linked
-----------------------------------------------------------------------------
(* Frames run out.                                                         *)

(* What is placed, and what may be needed to map page v of owner o.        *)
Placed(place) == {a \in FrameKeys : place[a] # NULL}
Way(o, v)     == {a \in FrameKeys : \E l \in 0 .. 2 : a = <<o, l, Prefix(v, l)>>}

(* RAM has fewer frames than are placed and needed.                        *)
NoRoom(place, needed) == FREE_RAM_END - FREE_RAM < Cardinality(Placed(place) \cup needed)

(* A set has no more elements than one that is mapped onto it.             *)
LEMMA Onto ==
  ASSUME NEW S, IsFiniteSet(S), NEW T, NEW f, \A t \in T : \E x \in S : f[x] = t
  PROVE  IsFiniteSet(T) /\ Cardinality(T) <= Cardinality(S)
<1>1. PICK U : U = {x \in S : f[x] \in T}
  OBVIOUS
<1>2. IsFiniteSet(U) /\ Cardinality(U) <= Cardinality(S)
  BY <1>1, FS_Subset
<1>3. PICK g : g = [x \in U |-> f[x]]
  OBVIOUS
<1>4. g \in [U -> T] /\ \A t \in T : \E x \in U : g[x] = t
  BY <1>1, <1>3
<1>5. g \in Surjection(U, T)
  BY <1>4 DEF Surjection
<1>6. IsFiniteSet(T) /\ Cardinality(T) <= Cardinality(U)
  BY <1>2, <1>5, FS_Surjection
<1>7. Cardinality(S) \in Int /\ Cardinality(T) \in Int /\ Cardinality(U) \in Int
  BY <1>2, <1>6, FS_CardinalityType
<1> QED BY <1>2, <1>6, <1>7

(* There are finitely many keys.                                           *)
LEMMA FiniteKeys == IsFiniteSet(Users) /\ Cardinality(Users) = NProcs /\ IsFiniteSet(FrameKeys)
<1>1. /\ NProcs \in Nat \ {0} /\ LOWER_HALF \in Int
  BY MemoryAssumption, Constants
<1>2. IsFiniteSet(Users) /\ Cardinality(Users) = NProcs
  BY <1>1, FS_Interval DEF Users
<1>3. IsFiniteSet(Procs) /\ IsFiniteSet(Pages) /\ IsFiniteSet(0 .. 3)
  <2>1. IsFiniteSet(0 .. NProcs)
    BY <1>1, FS_Interval
  <2>2. LOWER_HALF - 1 \in Int
    BY <1>1
  <2>3. IsFiniteSet(0 .. LOWER_HALF - 1)
    BY <2>2, FS_Interval
  <2>4. IsFiniteSet(0 .. 3)
    <3>1. PICK n \in Int : n = 3
      OBVIOUS
    <3>2. IsFiniteSet(0 .. n)
      BY FS_Interval
    <3> QED BY <3>1, <3>2
  <2> QED BY <2>1, <2>3, <2>4 DEF Procs, Pages
<1>4. IsFiniteSet(Owners)
  <2>1. Owners = Procs \cup {TEMPLATE}
    BY DEF Owners
  <2> QED BY <2>1, <1>3, FS_AddElement
<1>5. PICK f : f = [d \in Owners \X ((0 .. 3) \X Pages) |-> <<d[1], d[2][1], d[2][2]>>]
  OBVIOUS
<1>6. IsFiniteSet((0 .. 3) \X Pages)
  BY <1>3, FS_Product
<1>7. IsFiniteSet(Owners \X ((0 .. 3) \X Pages))
  BY <1>4, <1>6, FS_Product
<1>8. \A k \in Keys : \E d \in Owners \X ((0 .. 3) \X Pages) : f[d] = k
  <2> TAKE k \in Keys
  <2>1. PICK o \in Owners, l \in 0 .. 3, x \in Pages : k = <<o, l, x>>
    BY DEF Keys
  <2>2. <<o, <<l, x>>>> \in Owners \X ((0 .. 3) \X Pages) /\ f[<<o, <<l, x>>>>] = <<o, l, x>>
    BY <1>5
  <2> QED BY <2>1, <2>2
<1>9. IsFiniteSet(Keys)
  BY <1>7, <1>8, Onto
<1>10. FrameKeys \in SUBSET Keys
  BY DEF FrameKeys
<1> QED BY <1>2, <1>9, <1>10, FS_Subset

(* When the last frame has been given out, and all of them serve something *)
(* or wait to do so, there is no room for what is still missing.           *)
LEMMA FramesRunOut ==
  ASSUME NEW r, r.next = FREE_RAM_END, NEW place \in [Keys -> Ram \cup {NULL}],
         NEW W, Accounted(r, place, W),
         NEW needed \in SUBSET FrameKeys, NEW a \in needed, place[a] = NULL,
         W = {} \/ \E f, w : W = {f} /\ w \in needed /\ w # a /\ place[w] = NULL
  PROVE  NoRoom(place, needed)
<1>1. PICK K : K = Placed(place) \cup needed
  OBVIOUS
<1>2. K \in SUBSET FrameKeys /\ a \in K
  BY <1>1 DEF Placed
<1>3. IsFiniteSet(K)
  BY <1>2, FiniteKeys, FS_Subset
<1>4. IsFiniteSet(K \ {a}) /\ Cardinality(K \ {a}) = Cardinality(K) - 1
  BY <1>2, <1>3, FS_RemoveElement
<1>5. PICK G : G = FREE_RAM .. FREE_RAM_END - 1
  OBVIOUS
<1>6. Given(r) = G
  BY <1>5, Constants DEF Given, Ram
<1>7. PICK h : \A g \in G : \E x \in K \ {a} : h[x] = g
  <2>1. CASE W = {}
    <3>1. ASSUME NEW g \in G PROVE \E x \in K \ {a} : place[x] = g
      <4>1. PICK x \in FrameKeys : place[x] = g
        BY <2>1, <1>6 DEF Accounted
      <4>2. g # NULL
        BY <1>6, RangeFacts DEF Given
      <4> QED BY <4>1, <4>2, <1>1 DEF Placed
    <3> QED BY <3>1
  <2>2. CASE W # {}
    <3>1. PICK f, w : W = {f} /\ w \in needed /\ w # a /\ place[w] = NULL
      BY <2>2
    <3>2. PICK k : k = [x \in K |-> IF x = w THEN f ELSE place[x]]
      OBVIOUS
    <3>3. ASSUME NEW g \in G PROVE \E x \in K \ {a} : k[x] = g
      <4>1. CASE g = f
        BY <4>1, <3>1, <3>2, <1>1
      <4>2. CASE g # f
        <5>1. PICK x \in FrameKeys : place[x] = g
          BY <4>2, <3>1, <1>6 DEF Accounted
        <5>2. g # NULL
          BY <1>6, RangeFacts DEF Given
        <5>3. x \in K /\ x # a /\ x # w
          BY <5>1, <5>2, <3>1, <1>1 DEF Placed
        <5> QED BY <5>1, <5>3, <3>2
      <4> QED BY <4>1, <4>2
    <3> QED BY <3>3
  <2> QED BY <2>1, <2>2
<1>8. Cardinality(G) <= Cardinality(K \ {a})
  BY <1>4, <1>7, Onto
<1>9. Cardinality(G) = FREE_RAM_END - FREE_RAM
  <2>1. FREE_RAM \in Int /\ FREE_RAM_END \in Int /\ FREE_RAM_END - 1 \in Int /\ FREE_RAM < FREE_RAM_END
    BY Constants
  <2>2. Cardinality(G) = IF FREE_RAM > FREE_RAM_END - 1 THEN 0 ELSE FREE_RAM_END - 1 - FREE_RAM + 1
    BY <1>5, <2>1, FS_Interval
  <2> QED BY <2>1, <2>2
<1>10. Cardinality(K) \in Nat /\ FREE_RAM \in Int /\ FREE_RAM_END \in Int
  BY <1>3, FS_CardinalityType, Constants
<1>11. FREE_RAM_END - FREE_RAM < Cardinality(K)
  BY <1>4, <1>8, <1>9, <1>10
<1> QED BY <1>1, <1>11 DEF NoRoom

(* What was not enough later was not enough before.                        *)
LEMMA NoRoomBefore ==
  ASSUME NEW place, NEW place2, NEW needed \in SUBSET FrameKeys, NEW needed2,
         Placed(place2) \cup needed2 \subseteq Placed(place) \cup needed, NoRoom(place2, needed2)
  PROVE  NoRoom(place, needed)
<1>1. PICK K : K = Placed(place) \cup needed
  OBVIOUS
<1>2. PICK K2 : K2 = Placed(place2) \cup needed2
  OBVIOUS
<1>3. K \in SUBSET FrameKeys /\ K2 \in SUBSET K
  BY <1>1, <1>2 DEF Placed
<1>4. IsFiniteSet(K)
  BY <1>3, FiniteKeys, FS_Subset
<1>5. IsFiniteSet(K2) /\ Cardinality(K2) <= Cardinality(K)
  BY <1>3, <1>4, FS_Subset
<1>6. Cardinality(K) \in Int /\ Cardinality(K2) \in Int /\ FREE_RAM \in Int /\ FREE_RAM_END \in Int
  BY <1>4, <1>5, FS_CardinalityType, Constants
<1>7. FREE_RAM_END - FREE_RAM < Cardinality(K2)
  BY <1>2 DEF NoRoom
<1>8. FREE_RAM_END - FREE_RAM < Cardinality(K)
  BY <1>5, <1>6, <1>7
<1> QED BY <1>1, <1>8 DEF NoRoom

(* Tables of owner o for its pages, as PrivateMemory counts them.          *)
TablesOf(pages) == {<<3, 0>>} \cup {<<l, Prefix(v, l)>> : l \in 1 .. 2, v \in pages}
TableKeys ==
  {a \in FrameKeys : \/ a = <<IDLE, 3, 0>>
                     \/ a[1] = TEMPLATE /\ <<a[2], a[3]>> \in TablesOf(Ram)
                     \/ a[1] \in Users /\ <<a[2], a[3]>> \in TablesOf(UserPages)}

(* All that may be placed when the pages of S are in use.                  *)
Budget(S) == TableKeys \cup {<<u[1], 0, u[2]>> : u \in S}

LEMMA TablesCounted ==
  ASSUME NEW pages \in SUBSET Pages
  PROVE  /\ IsFiniteSet(TablesOf(pages))
         /\ Cardinality(TablesOf(pages)) \in Nat /\ Tables(pages) \in Nat
         /\ Cardinality(TablesOf(pages)) <= Tables(pages)
<1> DEFINE L == {<<l, Prefix(v, l)>> : l \in 1 .. 2, v \in pages}
<1>1. IDLE \in Procs /\ IDLE \in Owners /\ IDLE # TEMPLATE
  BY MemoryAssumption, RangeFacts DEF Procs, IDLE, TEMPLATE
<1>2. IsFiniteSet(L)
  <2>1. PICK f : f = [x \in FrameKeys |-> <<x[2], x[3]>>]
    OBVIOUS
  <2>2. ASSUME NEW d \in L PROVE \E k \in FrameKeys : f[k] = d
    <3>1. PICK l \in 1 .. 2, v \in pages : d = <<l, Prefix(v, l)>>
      OBVIOUS
    <3>2. PICK x \in Pages : x = Prefix(v, l)
      BY PrefixFacts
    <3>3. <<IDLE, l, x>> \in FrameKeys
      <4>1. l \in 0 .. 3
        OBVIOUS
      <4> QED BY <4>1, <1>1, KeyFacts
    <3>4. f[<<IDLE, l, x>>] = d
      BY <3>1, <3>2, <3>3, <2>1
    <3> QED BY <3>3, <3>4
  <2> HIDE DEF L
  <2> QED BY <2>2, FiniteKeys, Onto
<1>3. TablesOf(pages) = L \cup {<<3, 0>>}
  BY DEF TablesOf
<1>4. Tables(pages) = 1 + Cardinality(L)
  BY DEF Tables
<1> HIDE DEF L
<1>5. /\ IsFiniteSet(TablesOf(pages))
      /\ Cardinality(TablesOf(pages)) = IF <<3, 0>> \in L THEN Cardinality(L) ELSE Cardinality(L) + 1
  BY <1>2, <1>3, FS_AddElement
<1>6. Cardinality(L) \in Nat /\ Cardinality(TablesOf(pages)) \in Nat
  BY <1>2, <1>5, FS_CardinalityType
<1> QED BY <1>4, <1>5, <1>6

(* A union is no larger than its parts together.                           *)
LEMMA UnionBound ==
  ASSUME NEW S, NEW T, IsFiniteSet(S), IsFiniteSet(T)
  PROVE  /\ IsFiniteSet(S \cup T) /\ Cardinality(S \cup T) \in Nat
         /\ Cardinality(S) \in Nat /\ Cardinality(T) \in Nat
         /\ Cardinality(S \cup T) <= Cardinality(S) + Cardinality(T)
<1>1. PICK I : I = S \cap T
  OBVIOUS
<1>2. IsFiniteSet(I)
  BY <1>1, FS_Subset
<1>3. /\ IsFiniteSet(S \cup T)
      /\ Cardinality(S \cup T) = Cardinality(S) + Cardinality(T) - Cardinality(I)
  BY <1>1, FS_Union
<1>4. /\ Cardinality(S \cup T) \in Nat /\ Cardinality(S) \in Nat /\ Cardinality(T) \in Nat
      /\ Cardinality(I) \in Nat
  BY <1>2, <1>3, FS_CardinalityType
<1> QED BY <1>3, <1>4

(* There is a frame for each table.                                        *)
LEMMA TableKeysCounted ==
  /\ IsFiniteSet(TableKeys) /\ Cardinality(TableKeys) \in Nat /\ FramesForPages \in Int
  /\ Cardinality(TableKeys) <= FREE_RAM_END - FREE_RAM - FramesForPages
<1>1. /\ IsFiniteSet(TablesOf(Ram)) /\ Cardinality(TablesOf(Ram)) \in Nat /\ Tables(Ram) \in Nat
      /\ Cardinality(TablesOf(Ram)) <= Tables(Ram)
  BY RangeFacts, TablesCounted
<1>2. /\ IsFiniteSet(TablesOf(UserPages)) /\ Cardinality(TablesOf(UserPages)) \in Nat
      /\ Tables(UserPages) \in Nat /\ Cardinality(TablesOf(UserPages)) <= Tables(UserPages)
  BY RangeFacts, TablesCounted
<1>3. PICK A : A = {TEMPLATE} \X TablesOf(Ram)
  OBVIOUS
<1>4. IsFiniteSet(A) /\ Cardinality(A) \in Nat /\ Cardinality(A) <= Tables(Ram)
  <2>1. IsFiniteSet({TEMPLATE}) /\ Cardinality({TEMPLATE}) = 1
    BY FS_Singleton
  <2>2. IsFiniteSet(A) /\ Cardinality(A) = 1 * Cardinality(TablesOf(Ram))
    BY <1>1, <1>3, <2>1, FS_Product
  <2> QED BY <1>1, <2>2
<1>5. PICK B : B = Users \X TablesOf(UserPages)
  OBVIOUS
<1>6. IsFiniteSet(B) /\ Cardinality(B) \in Nat /\ Cardinality(B) <= NProcs * Tables(UserPages)
  <2>1. IsFiniteSet(B) /\ Cardinality(B) = NProcs * Cardinality(TablesOf(UserPages))
    BY <1>2, <1>5, FiniteKeys, FS_Product
  <2>2. NProcs \in Nat
    BY MemoryAssumption
  <2>3. \A m, n, k \in Nat : m <= n => k * m \in Nat /\ k * m <= k * n
    OBVIOUS
  <2> QED BY <1>2, <2>1, <2>2, <2>3
<1>7. PICK C : C = (A \cup B) \cup {<<IDLE, <<3, 0>>>>}
  OBVIOUS
<1>8. IsFiniteSet(A \cup B) /\ Cardinality(A \cup B) \in Nat /\ Cardinality(A \cup B) <= Cardinality(A) + Cardinality(B)
  BY <1>4, <1>6, UnionBound
<1>9. IsFiniteSet(C) /\ Cardinality(C) <= Cardinality(A \cup B) + 1
  <2>1. /\ IsFiniteSet(C)
        /\ Cardinality(C) = IF <<IDLE, <<3, 0>>>> \in A \cup B THEN Cardinality(A \cup B) ELSE Cardinality(A \cup B) + 1
    BY <1>7, <1>8, FS_AddElement
  <2> QED BY <2>1, <1>8
<1>10. PICK f : f = [d \in C |-> <<d[1], d[2][1], d[2][2]>>]
  OBVIOUS
<1>11. \A a \in TableKeys : \E d \in C : f[d] = a
  <2> TAKE a \in TableKeys
  <2>1. PICK o \in Owners, l \in 0 .. 3, x \in Pages : a = <<o, l, x>>
    BY DEF TableKeys, FrameKeys, Keys
  <2>2. <<o, <<l, x>>>> \in C
    BY <2>1, <1>3, <1>5, <1>7 DEF TableKeys
  <2>3. f[<<o, <<l, x>>>>] = a
    BY <2>1, <2>2, <1>10
  <2> QED BY <2>2, <2>3
<1>12. IsFiniteSet(TableKeys) /\ Cardinality(TableKeys) <= Cardinality(C)
  BY <1>9, <1>11, Onto
<1>13. Cardinality(TableKeys) \in Nat /\ Cardinality(C) \in Nat
  BY <1>9, <1>12, FS_CardinalityType
<1>14. PICK b \in Nat : b = NProcs * Tables(UserPages)
  BY <1>2, MemoryAssumption
<1>15. FramesForPages = FREE_RAM_END - FREE_RAM - Tables(Ram) - 1 - b
  BY <1>14 DEF FramesForPages
<1>16. FREE_RAM \in Int /\ FREE_RAM_END \in Int
  BY Constants
<1> QED BY <1>1, <1>4, <1>6, <1>8, <1>9, <1>12, <1>13, <1>14, <1>15, <1>16

\* What is placed below a root is there for a page of its owner.
LEMMA PlacedForAPage ==
  ASSUME NEW r, NEW place, Placement(r, place), NEW o \in Owners, NEW l \in 0 .. 2, NEW x \in Pages,
         place[<<o, l, x>>] # NULL
  PROVE  \E v \in PagesOf(o) : x = Prefix(v, l)
BY DEF Placement

(* There is room for pages as long as they are no more than PrivateMemory  *)
(* promises.                                                               *)
LEMMA RoomFor ==
  ASSUME NEW r, NEW place, Placement(r, place),
         NEW S \in SUBSET (Users \X UserPages), IsFiniteSet(S), Fits(place, S),
         NEW needed, needed \subseteq Budget(S), NoRoom(place, needed)
  PROVE  FramesForPages < Cardinality(S)
<1>1. PICK K : K = Placed(place) \cup needed
  OBVIOUS
<1>2. ASSUME NEW a \in Placed(place) PROVE a \in Budget(S)
  <2>1. PICK o \in Owners, l \in 0 .. 3, x \in Pages : a = <<o, l, x>>
    BY DEF Placed, FrameKeys, Keys
  <2>2. a \in FrameKeys /\ place[<<o, l, x>>] # NULL /\ (o # TEMPLATE \/ l # 0)
    BY <2>1 DEF Placed, FrameKeys
  <2>3. o = TEMPLATE \/ o = IDLE \/ o \in Users
    BY MemoryAssumption DEF Owners, Procs, Users, IDLE
  <2>4. CASE l = 3
    <3>1. x = 0
      BY <2>2, <2>4 DEF Placement
    <3> QED BY <3>1, <2>1, <2>2, <2>3, <2>4 DEF Budget, TableKeys, TablesOf
  <2>5. CASE l \in 0 .. 2
    <3>1. PICK v \in PagesOf(o) : x = Prefix(v, l)
      BY <2>2, <2>5, PlacedForAPage
    <3>2. v \in Pages
      BY RangeFacts
    <3>3. o # IDLE
      BY <2>2, <2>5, <3>1, <3>2 DEF Fits, Nothing
    <3>4. CASE l = 0
      <4>1. o \in Users /\ v \in UserPages
        BY <2>2, <2>3, <3>1, <3>3, <3>4 DEF PagesOf
      <4>2. x = v
        BY <3>1, <3>4 DEF Prefix
      <4>3. <<o, v>> \in S
        BY <2>2, <3>4, <4>1, <4>2 DEF Fits
      <4> QED BY <4>2, <4>3, <2>1, <3>4 DEF Budget
    <3>5. CASE l # 0
      <4>1. l \in 1 .. 2
        BY <2>5, <3>5
      <4>2. <<l, x>> \in TablesOf(PagesOf(o))
        BY <3>1, <4>1 DEF TablesOf
      <4>3. (o = TEMPLATE /\ PagesOf(o) = Ram) \/ (o \in Users /\ PagesOf(o) = UserPages)
        BY <2>3, <3>3, RangeFacts DEF PagesOf, Procs, Users
      <4> QED BY <4>2, <4>3, <2>1, <2>2 DEF Budget, TableKeys
    <3> QED BY <3>4, <3>5
  <2> QED BY <2>4, <2>5
<1>3. K \subseteq Budget(S)
  BY <1>1, <1>2
<1>4. PICK P : P = {<<u[1], 0, u[2]>> : u \in S}
  OBVIOUS
<1>5. IsFiniteSet(P) /\ Cardinality(P) <= Cardinality(S)
  <2>1. \A a \in P : \E u \in S : [w \in S |-> <<w[1], 0, w[2]>>][u] = a
    BY <1>4
  <2> QED BY <2>1, Onto
<1>6. /\ IsFiniteSet(TableKeys \cup P) /\ Cardinality(TableKeys \cup P) \in Nat
      /\ Cardinality(P) \in Nat /\ Cardinality(TableKeys) \in Nat
      /\ Cardinality(TableKeys \cup P) <= Cardinality(TableKeys) + Cardinality(P)
  BY <1>5, TableKeysCounted, UnionBound
<1>7. K \in SUBSET (TableKeys \cup P)
  BY <1>3, <1>4 DEF Budget
<1>8. Cardinality(K) <= Cardinality(TableKeys \cup P) /\ Cardinality(K) \in Nat /\ Cardinality(S) \in Nat
  BY <1>6, <1>7, FS_Subset, FS_CardinalityType
<1>9. FREE_RAM_END - FREE_RAM < Cardinality(K)
  BY <1>1 DEF NoRoom
<1>10. FREE_RAM \in Int /\ FREE_RAM_END \in Int
  BY Constants
<1> QED BY <1>5, <1>6, <1>8, <1>9, <1>10, TableKeysCounted

(* The image has at least one page, and its pages fit into user space.     *)
LEMMA ImageFits == IMAGE_PAGES \in Nat /\ IMAGE_PAGES <= USER_LIMIT - USER_BASE
<1>1. PICK e \in Nat : e = ENTRIES /\ e > 1
  BY Constants
<1>2. PICK n \in Nat : n = Len(Image) /\ n <= e * (USER_LIMIT - USER_BASE)
  BY <1>1, Constants, PageTablesAssumption
<1>3. PICK d \in Nat : d = USER_LIMIT - USER_BASE
  BY Constants
<1>4. PICK a \in Nat : a = d + 1
  OBVIOUS
<1>5. n + e - 1 \in Nat /\ n + e - 1 < e * a
  <2>1. e * a = e * d + e
    BY <1>4
  <2>2. n <= e * d
    BY <1>2, <1>3
  <2> QED BY <1>1, <1>2, <2>1, <2>2
<1>6. (n + e - 1) \div e \in Nat /\ (n + e - 1) \div e < a
  BY <1>1, <1>5, QuotientBound
<1>7. IMAGE_PAGES = (n + e - 1) \div e
  BY <1>1, <1>2 DEF IMAGE_PAGES
<1> QED BY <1>3, <1>4, <1>6, <1>7

\* The image lies in the user space.
LEMMA ImageInUserSpace ==
  /\ ImagePages \subseteq UserPages /\ IMAGE_PAGES \in Nat
  /\ \A k \in 0 .. IMAGE_PAGES - 1 : USER_BASE + k \in ImagePages
  /\ \A v \in ImagePages : \E k \in 0 .. IMAGE_PAGES - 1 : v = USER_BASE + k
<1>1. IMAGE_PAGES \in Nat /\ IMAGE_PAGES <= USER_LIMIT - USER_BASE /\ USER_BASE \in Nat /\ USER_LIMIT \in Nat
  BY ImageFits, Constants
<1>2. ASSUME NEW v \in ImagePages PROVE \E k \in 0 .. IMAGE_PAGES - 1 : v = USER_BASE + k
  <2>1. v - USER_BASE \in 0 .. IMAGE_PAGES - 1 /\ v = USER_BASE + (v - USER_BASE)
    BY <1>1 DEF ImagePages
  <2> QED BY <2>1
<1> QED BY <1>1, <1>2 DEF ImagePages, UserPages

LEMMA BootHasRoom ==
  ASSUME NEW r, NEW place, Placement(r, place), Roomy(place),
         NEW needed, needed \subseteq Budget(Users \X ImagePages)
  PROVE  ~ NoRoom(place, needed)
<1> SUFFICES ASSUME NoRoom(place, needed) PROVE FALSE
  OBVIOUS
<1>1. PICK S : S = Users \X ImagePages
  OBVIOUS
<1>2. IsFiniteSet(ImagePages) /\ Cardinality(ImagePages) = IMAGE_PAGES
  <2>1. USER_BASE \in Int /\ USER_BASE + IMAGE_PAGES - 1 \in Int /\ IMAGE_PAGES \in Nat
    BY Constants, ImageFits
  <2>2. /\ IsFiniteSet(ImagePages)
        /\ Cardinality(ImagePages) = IF USER_BASE > USER_BASE + IMAGE_PAGES - 1 THEN 0
                                     ELSE USER_BASE + IMAGE_PAGES - 1 - USER_BASE + 1
    BY <2>1, FS_Interval DEF ImagePages
  <2> QED BY <2>1, <2>2
<1>3. IsFiniteSet(S) /\ Cardinality(S) = NProcs * IMAGE_PAGES
  BY <1>1, <1>2, FiniteKeys, FS_Product
<1>4. S \in SUBSET (Users \X UserPages)
  BY <1>1, ImageInUserSpace
<1>5. FramesForPages < Cardinality(S)
  BY <1>1, <1>3, <1>4, RoomFor DEF Roomy
<1>6. Cardinality(S) \in Int /\ FramesForPages \in Int
  BY <1>3, FS_CardinalityType, TableKeysCounted
<1> QED BY <1>3, <1>5, <1>6 DEF Roomy, RoomForBoot

\* What mapping a page may need is in the budget of the page.
LEMMA WayInBudget ==
  ASSUME NEW S, NEW o \in Owners, o # IDLE, NEW v \in PagesOf(o), o # TEMPLATE => <<o, v>> \in S
  PROVE  Way(o, v) \in SUBSET FrameKeys /\ Way(o, v) \subseteq Budget(S)
<1> SUFFICES ASSUME NEW a \in Way(o, v) PROVE a \in FrameKeys /\ a \in Budget(S)
  OBVIOUS
<1>1. PICK l \in 0 .. 2 : a = <<o, l, Prefix(v, l)>>
  BY DEF Way
<1>2. a \in FrameKeys
  BY DEF Way
<1>3. CASE l = 0
  <2>1. o # TEMPLATE /\ Prefix(v, l) = v
    BY <1>1, <1>2, <1>3 DEF FrameKeys, Prefix
  <2> QED BY <1>1, <1>2, <1>3, <2>1 DEF Budget
<1>4. CASE l # 0
  <2>1. l \in 1 .. 2
    BY <1>4
  <2>2. <<l, Prefix(v, l)>> \in TablesOf(PagesOf(o))
    BY <2>1 DEF TablesOf
  <2>3. (o = TEMPLATE /\ PagesOf(o) = Ram) \/ (o \in Users /\ PagesOf(o) = UserPages)
    BY RangeFacts, MemoryAssumption DEF Owners, PagesOf, Procs, Users, IDLE
  <2> QED BY <1>1, <1>2, <2>2, <2>3 DEF Budget, TableKeys
<1> QED BY <1>3, <1>4

\* At boot there is room for the roots.
LEMMA RootHasRoom ==
  ASSUME NEW r, NEW place, Placement(r, place), Roomy(place), Accounted(r, place, {}),
         NEW o \in Owners, place[<<o, 3, 0>>] = NULL
  PROVE  r.next # FREE_RAM_END
<1> SUFFICES ASSUME r.next = FREE_RAM_END PROVE FALSE
  OBVIOUS
<1>1. PICK key : key = <<o, 3, 0>>
  OBVIOUS
<1>2. key \in FrameKeys
  BY <1>1, RangeFacts, KeyFacts
<1>3. key \in TableKeys
  <2>1. o = IDLE \/ o = TEMPLATE \/ o \in Users
    BY MemoryAssumption DEF Owners, Procs, Users, IDLE
  <2> QED BY <1>1, <1>2, <2>1 DEF TableKeys, TablesOf
<1>4. PICK needed : needed = {key}
  OBVIOUS
<1>5. needed \in SUBSET FrameKeys /\ key \in needed /\ place \in [Keys -> Ram \cup {NULL}]
  BY <1>2, <1>4 DEF Placement
<1>6. NoRoom(place, needed)
  BY <1>1, <1>5, FramesRunOut
<1>7. needed \subseteq Budget(Users \X ImagePages)
  BY <1>3, <1>4 DEF Budget
<1> QED BY <1>6, <1>7, BootHasRoom
-----------------------------------------------------------------------------
(* map_page.                                                               *)

(* Placement place2 of s has all that place of r has, and more only on the *)
(* way to page v of owner o.                                               *)
Grows(r, place, s, place2, o, v) ==
  /\ Valid(s, place2) /\ Given(r) \subseteq Given(s)
  /\ \A a \in Keys : place[a] # NULL => place2[a] = place[a]
  /\ \A a \in Keys : place2[a] # place[a] => \E l \in 0 .. 2 : a = <<o, l, Prefix(v, l)>>

(* The loop of map_page for page v of owner o is at the table above level  *)
(* l.  Tables of the template are made before there is a process.          *)
At(r, place, o, v, l, table) ==
  /\ Valid(r, place) /\ o \in Owners /\ v \in PagesOf(o) /\ l \in 0 .. 2
  /\ table = place[<<o, l + 1, Above(v, l + 1)>>] /\ table # NULL
  /\ o = TEMPLATE => \A p \in Procs : place[<<p, 3, 0>>] = NULL

(* It comes to the table on level l, or the machine stops; no page is lost *)
(* on the way.                                                             *)
Descends(r, place, o, v, l, n, place2) ==
  LET key == <<o, l, Prefix(v, l)>>
  IN /\ n = [ram |-> n.ram, table |-> n.table]
     /\ Grows(r, place, n.ram, place2, o, v)
     /\ \A a \in Keys : a # key => place2[a] = place[a]
     /\ \A a \in Keys : place2[a] # place[a] => place2[a] \notin Given(r)
     /\ n.ram.ok => r.ok /\ n.table = place2[key] /\ n.table # NULL
     /\ r.ok /\ ~ n.ram.ok => place[key] = NULL /\ r.next = FREE_RAM_END
     /\ Keeps(r, place, n.ram, place2)
     /\ \A W : Accounted(r, place, W) => Accounted(n.ram, place2, W)

(* The entry that the loop looks at is the placement's.                    *)
LEMMA EntryAt ==
  ASSUME NEW r, NEW place, NEW o, NEW v, NEW l, NEW table, At(r, place, o, v, l, table)
  PROVE  /\ r.page[table][PtIndex(v, l)] = Entry(place, o, l, v)
         /\ LeadsTo(Entry(place, o, l, v), place[<<o, l, Prefix(v, l)>>], o, l)
<1>1. /\ place \in [Keys -> Ram \cup {NULL}] /\ o \in Owners /\ v \in Pages /\ l \in 0 .. 2
      /\ Holder(o, v) = o
  BY RangeFacts, HolderFacts DEF At, Valid, Placement
<1>2. LeadsTo(Entry(place, o, l, v), place[<<o, l, Prefix(v, l)>>], o, l)
  BY <1>1, EntryFacts
<1>3. CASE l = 2
  <2>1. table = place[<<o, 3, 0>>] /\ table # NULL /\ Holds(r, place)
    BY <1>3 DEF At, Above, Valid
  <2> QED BY <1>1, <1>2, <1>3, <2>1 DEF Holds
<1>4. CASE l \in 0 .. 1
  <2>1. table = place[<<o, l + 1, Prefix(v, l + 1)>>] /\ table # NULL /\ Holds(r, place)
    BY <1>4 DEF At, Above, Valid
  <2> QED BY <1>1, <1>2, <1>4, <2>1 DEF Holds
<1> QED BY <1>1, <1>3, <1>4

(* Nothing happens on a stopped machine, or where the table is there.      *)
LEMMA DescendsInPlace ==
  ASSUME NEW r, NEW place, NEW o, NEW v, NEW l, NEW n, n = [ram |-> n.ram, table |-> n.table],
         Valid(n.ram, place), Given(n.ram) = Given(r),
         n.ram.ok => r.ok /\ n.table = place[<<o, l, Prefix(v, l)>>] /\ n.table # NULL,
         r.ok /\ ~ n.ram.ok => place[<<o, l, Prefix(v, l)>>] = NULL /\ r.next = FREE_RAM_END,
         \A g \in Given(r) : n.ram.page[g] = r.page[g]
  PROVE  Descends(r, place, o, v, l, n, place)
BY KeepsPages DEF Descends, Grows, Accounted

(* The loop makes one step.                                                *)
LEMMA NextTableFacts ==
  ASSUME NEW r, NEW place, NEW o, NEW v, NEW l, NEW table, At(r, place, o, v, l, table), l > 0,
         NEW n, n = NextTable([ram |-> r, table |-> table], v, l)
  PROVE  \E place2 : Descends(r, place, o, v, l, n, place2)
<1>0. PICK key : key = <<o, l, Prefix(v, l)>>
  OBVIOUS
<1> DEFINE entry == r.page[table][PtIndex(v, l)]
<1>1. /\ Valid(r, place) /\ RamOK(r) /\ place \in [Keys -> Ram \cup {NULL}]
      /\ o \in Owners /\ v \in Pages /\ l \in 1 .. 2 /\ v \in PagesOf(o)
      /\ table = place[<<o, l + 1, Above(v, l + 1)>>] /\ table # NULL
      /\ o = TEMPLATE => \A p \in Procs : place[<<p, 3, 0>>] = NULL
  BY RangeFacts DEF At, Valid, Placement
<1>2. LeadsTo(entry, place[key], o, l)
  <2>1. entry = Entry(place, o, l, v) /\ LeadsTo(Entry(place, o, l, v), place[<<o, l, Prefix(v, l)>>], o, l)
    BY EntryAt
  <2> QED BY <2>1, <1>0
<1>3. key \in Keys /\ key \in FrameKeys
  <2>1. Prefix(v, l) \in Pages
    BY <1>1, PrefixFacts
  <2> QED BY <1>0, <1>1, <2>1, KeyFacts
<1>4. PICK s : s = AllocPage(r)
  OBVIOUS
<1>5. n = IF ~ r.ok THEN [ram |-> r, table |-> table]
          ELSE IF Has(entry, PAGE_V) THEN [ram |-> r, table |-> PteToPpn(entry)]
          ELSE IF s.ok THEN [ram |-> Write(s, table, PtIndex(v, l), TablePte(r.next)), table |-> r.next]
          ELSE [ram |-> s, table |-> table]
  BY <1>4 DEF NextTable
<1> HIDE DEF entry
<1>6. CASE ~ r.ok
  <2>1. n.ram = r /\ n = [ram |-> n.ram, table |-> n.table]
    BY <1>5, <1>6
  <2>2. Descends(r, place, o, v, l, n, place)
    BY <2>1, <1>1, <1>6, DescendsInPlace
  <2> QED BY <2>2
<1>7. CASE r.ok /\ place[key] # NULL
  <2>1. n.ram = r /\ n.table = place[key] /\ n = [ram |-> n.ram, table |-> n.table]
    BY <1>2, <1>5, <1>7 DEF LeadsTo
  <2>2. Descends(r, place, o, v, l, n, place)
    BY <2>1, <1>0, <1>1, <1>7, DescendsInPlace
  <2> QED BY <2>2
<1>8. CASE r.ok /\ place[key] = NULL /\ ~ s.ok
  <2>1. ~ Has(entry, PAGE_V)
    BY <1>2, <1>8, NoPte DEF LeadsTo, Bits
  <2>2. n.ram = s /\ n = [ram |-> n.ram, table |-> n.table]
    BY <2>1, <1>5, <1>8
  <2>3. /\ Valid(s, place) /\ Given(s) = Given(r) /\ r.next = FREE_RAM_END
        /\ \A g \in Given(r) : s.page[g] = r.page[g]
    BY <1>1, <1>4, <1>8, AllocValid, AllocFacts
  <2>4. Descends(r, place, o, v, l, n, place)
    BY <2>2, <2>3, <1>0, <1>8, DescendsInPlace
  <2> QED BY <2>4
<1>9. CASE r.ok /\ place[key] = NULL /\ s.ok
  <2>1. ~ Has(entry, PAGE_V)
    BY <1>2, <1>9, NoPte DEF LeadsTo, Bits
  <2>2. PICK g : g = r.next
    OBVIOUS
  <2>3. /\ n.ram = Write(s, table, PtIndex(v, l), LinkPte(o, l, g)) /\ n.table = g
        /\ n = [ram |-> n.ram, table |-> n.table]
    BY <2>1, <2>2, <1>1, <1>5, <1>9 DEF LinkPte
  <2>4. /\ Valid(s, place) /\ \A a \in FrameKeys : place[a] # g
        /\ g \in Ram /\ g \notin Given(r) /\ s.page[g] = ZeroPage /\ Given(s) = Given(r) \cup {g}
    BY <2>2, <1>1, <1>4, <1>9, AllocValid, AllocFacts
  <2>5. CanLink(s, place, o, v, l, table, key, g)
    BY <2>4, <1>0, <1>1, <1>9 DEF CanLink
  <2>6. PICK place2 : Linked(s, place, n.ram, place2, key, g)
    BY <2>3, <2>5, LinkValid
  <2>7. /\ Valid(n.ram, place2) /\ n.ram.ok = s.ok /\ Given(n.ram) = Given(s)
        /\ place2[key] = g /\ \A a \in Keys : a # key => place2[a] = place[a]
    BY <2>6 DEF Linked
  <2>8. g # NULL
    BY <2>4, RangeFacts
  <2>9. ASSUME NEW W, Accounted(r, place, W) PROVE Accounted(n.ram, place2, W)
    <3> SUFFICES ASSUME NEW f \in Given(n.ram) \ W PROVE \E a \in FrameKeys : place2[a] = f
      BY DEF Accounted
    <3>1. CASE f = g
      BY <3>1, <2>7, <1>3
    <3>2. CASE f # g
      <4>1. PICK a \in FrameKeys : place[a] = f
        BY <3>2, <2>4, <2>7, <2>9 DEF Accounted
      <4>2. f # NULL /\ a \in Keys
        BY RangeFacts DEF Given, FrameKeys
      <4> QED BY <4>1, <4>2, <2>7, <1>9
    <3> QED BY <3>1, <3>2
  <2>10. Grows(r, place, n.ram, place2, o, v)
    <3>1. l \in 0 .. 2
      BY <1>1
    <3> QED BY <3>1, <2>4, <2>7, <1>0, <1>9 DEF Grows
  <2>11. Keeps(r, place, n.ram, place2)
    <3>1. /\ table \in Ram /\ PtIndex(v, l) \in Index /\ LinkPte(o, l, g) \in Nat
          /\ \E a \in FrameKeys : place[a] = table /\ a[2] # 0
      <4>1. PICK k : k = <<o, l + 1, Above(v, l + 1)>>
        OBVIOUS
      <4>2. k \in FrameKeys /\ k[2] # 0
        <5>1. PICK m \in 1 .. 3 : m = l + 1
          BY <1>1
        <5>2. Above(v, m) \in Pages
          BY <1>1, <5>1, PrefixFacts, RangeFacts DEF Above
        <5> QED BY <4>1, <5>1, <5>2, <1>1, KeyFacts
      <4>3. table = place[k] /\ table \in Ram
        BY <4>1, <4>2, <1>1 DEF FrameKeys
      <4>4. LinkPte(o, l, g) \in Nat
        BY <2>4, <1>1, RangeFacts, TablePteFacts DEF LinkPte
      <4>5. PtIndex(v, l) \in Index
        <5>1. l \in 0 .. 2
          BY <1>1
        <5> QED BY <5>1, <1>1, PrefixFacts
      <4> QED BY <4>2, <4>3, <4>4, <4>5
    <3>2. RamOK(s) /\ \A f \in Given(r) : s.page[f] = r.page[f]
      BY <1>1, <1>4, <1>9, AllocFacts
    <3>3. \A f \in Ram : f # table => n.ram.page[f] = s.page[f]
      BY <2>3, <3>1, <3>2, WriteFacts
    <3>4. ASSUME NEW f \in Given(r), Spare(place, f) PROVE n.ram.page[f] = r.page[f]
      <4>1. f # table /\ f \in Ram
        BY <3>1, <3>4 DEF Spare, Given
      <4> QED BY <4>1, <3>2, <3>3
    <3>5. \A a \in FrameKeys : place2[a] # place[a] => place2[a] \notin Given(r)
      BY <2>4, <2>7 DEF FrameKeys
    <3> QED BY <3>4, <3>5 DEF Keeps
  <2>12. Descends(r, place, o, v, l, n, place2)
    BY <2>3, <2>4, <2>7, <2>8, <2>9, <2>10, <2>11, <1>0, <1>9 DEF Descends
  <2> QED BY <2>12
<1> QED BY <1>6, <1>7, <1>8, <1>9

(* Placements grow in steps.                                               *)
LEMMA GrowsOn ==
  ASSUME NEW r, NEW place, NEW s, NEW place2, NEW t, NEW place3, NEW o, NEW v,
         Grows(r, place, s, place2, o, v), Grows(s, place2, t, place3, o, v)
  PROVE  Grows(r, place, t, place3, o, v)
BY DEF Grows

(* So does a link.                                                         *)
LEMMA LinkedGrows ==
  ASSUME NEW r, NEW place, NEW s, NEW place2, NEW o, NEW v, NEW l \in 0 .. 2, NEW key, NEW g,
         Linked(r, place, s, place2, key, g), key = <<o, l, Prefix(v, l)>>, place[key] = NULL
  PROVE  Grows(r, place, s, place2, o, v)
BY DEF Linked, Grows

(* Page v of owner o may be mapped to frame f.                             *)
CanMap(r, place, o, v, f) ==
  /\ Valid(r, place) /\ o \in Owners /\ v \in PagesOf(o)
  /\ place[<<o, 3, 0>>] # NULL /\ place[<<o, 0, v>>] = NULL
  /\ IF o = TEMPLATE THEN f = v ELSE f \in Given(r) /\ \A a \in FrameKeys : place[a] # f
  /\ o = TEMPLATE => \A p \in Procs : place[<<p, 3, 0>>] = NULL

\* The frame that waits to be mapped: user pages are allocated before.
Waiting(o, f) == IF o = TEMPLATE THEN {} ELSE {f}

(* It is mapped, or the machine stops, for want of room.                   *)
Maps(r, place, o, v, f, s, place2) ==
  /\ Grows(r, place, s, place2, o, v)
  /\ Keeps(r, place, s, place2)
  /\ s.ok => /\ r.ok /\ place2[<<o, 0, v>>] = f
             /\ \A W : Accounted(r, place, W) => Accounted(s, place2, IF o = TEMPLATE THEN W ELSE W \ {f})
  /\ ~ s.ok => place2[<<o, 0, v>>] = NULL
  /\ r.ok /\ ~ s.ok /\ Accounted(r, place, Waiting(o, f)) => NoRoom(place, Way(o, v))

\* With the last frame given out and a table missing there is no room.
LEMMA MissingOnTheWay ==
  ASSUME NEW r, NEW place, Valid(r, place), r.next = FREE_RAM_END, NEW o \in Owners,
         NEW v \in Pages, NEW f, place[<<o, 0, v>>] = NULL,
         NEW l \in 1 .. 2, NEW key, key = <<o, l, Prefix(v, l)>>, key \in Way(o, v), place[key] = NULL,
         Accounted(r, place, Waiting(o, f))
  PROVE  NoRoom(place, Way(o, v))
<1>1. PICK W : W = Waiting(o, f)
  OBVIOUS
<1>2. place \in [Keys -> Ram \cup {NULL}] /\ Way(o, v) \in SUBSET FrameKeys
  BY DEF Valid, Placement, Way
<1>3. CASE o = TEMPLATE
  <2>1. W = {}
    BY <1>1, <1>3 DEF Waiting
  <2> QED BY <1>1, <1>2, <2>1, FramesRunOut
<1>4. CASE o # TEMPLATE
  <2>1. PICK w : w = <<o, 0, v>>
    OBVIOUS
  <2>2. w \in FrameKeys /\ Prefix(v, 0) = v
    BY <1>4, <2>1, KeyFacts, PrefixFacts
  <2>3. W = {f} /\ w \in Way(o, v) /\ w # key /\ place[w] = NULL
    BY <1>1, <1>4, <2>1, <2>2 DEF Waiting, Way
  <2>4. W = {} \/ \E g, x : W = {g} /\ x \in Way(o, v) /\ x # key /\ place[x] = NULL
    BY <2>3
  <2> QED BY <1>1, <1>2, <2>4, FramesRunOut
<1> QED BY <1>3, <1>4

(* map_page does that, and may always be called.                           *)
LEMMA MapPageFacts ==
  ASSUME NEW r, NEW place, NEW o, NEW v, NEW f, CanMap(r, place, o, v, f),
         NEW s, s = MapPage(r, place[<<o, 3, 0>>], v, f, FlagsOf(o))
  PROVE  \E place2 : Maps(r, place, o, v, f, s, place2)
<1>1. PICK root : root = place[<<o, 3, 0>>]
  OBVIOUS
<1>2. /\ Valid(r, place) /\ RamOK(r) /\ Holds(r, place)
      /\ o \in Owners /\ v \in PagesOf(o) /\ v \in Pages /\ ~ (v >= LOWER_HALF)
  BY RangeFacts, Constants DEF CanMap, Valid, Pages
<1>3. CASE ~ r.ok
  <2>1. s = Stop(r)
    BY <1>3 DEF MapPage
  <2>2. RamOK(s) /\ ~ s.ok /\ s.page = r.page /\ Given(s) = Given(r)
    BY <2>1, <1>2, StopFacts
  <2>3. Valid(s, place)
    BY <2>2, <1>2, TablesKept DEF KeepsTables
  <2>4. Maps(r, place, o, v, f, s, place)
    BY <1>3, <2>2, <2>3, KeepsPages DEF Maps, Grows, CanMap
  <2> QED BY <2>4
<1>4. CASE r.ok
  <2>1. PICK n : n = NextTable([ram |-> r, table |-> root], v, 2)
    OBVIOUS
  <2>2. At(r, place, o, v, 2, root)
    BY <1>1, <1>2 DEF At, Above, CanMap
  <2>3. PICK place2 : Descends(r, place, o, v, 2, n, place2)
    BY <2>1, <2>2, NextTableFacts
  <2>4. PICK m : m = NextTable(n, v, 1)
    OBVIOUS
  <2>5. s = IF m.ram.ok THEN Write(m.ram, m.table, PtIndex(v, 0), LeafPte(f, FlagsOf(o))) ELSE m.ram
    <3>1. PICK flags : flags = FlagsOf(o)
      OBVIOUS
    <3>2. s = MapPage(r, root, v, f, flags)
      BY <1>1, <3>1
    <3>3. s = IF m.ram.ok THEN Write(m.ram, m.table, PtIndex(v, 0), LeafPte(f, flags)) ELSE m.ram
      BY <3>2, <1>2, <1>4, <2>1, <2>4 DEF MapPage
    <3> QED BY <3>1, <3>3
  <2>6. Grows(r, place, n.ram, place2, o, v)
    BY <2>3 DEF Descends
  <2>7. CASE ~ n.ram.ok
    <3>1. s = n.ram /\ ~ s.ok
      BY <2>4, <2>5, <2>7 DEF NextTable
    <3>2. PICK key : key = <<o, 2, Prefix(v, 2)>>
      OBVIOUS
    <3>3. key \in Way(o, v) /\ place[key] = NULL /\ r.next = FREE_RAM_END
      <4>1. key \in FrameKeys
        BY <1>2, <3>2, PrefixFacts, KeyFacts
      <4> QED BY <4>1, <1>4, <2>3, <2>7, <3>2 DEF Descends, Way
    <3>4. Accounted(r, place, Waiting(o, f)) => NoRoom(place, Way(o, v))
      BY <1>2, <3>2, <3>3, MissingOnTheWay DEF CanMap
    <3>5. place2[<<o, 0, v>>] = NULL
      BY <1>2, <2>3, KeyFacts DEF Descends, CanMap
    <3>6. Maps(r, place, o, v, f, s, place2)
      BY <3>1, <3>4, <3>5, <2>3, <2>6 DEF Maps, Descends
    <3> QED BY <3>6
  <2>8. CASE n.ram.ok
    <3>1. At(n.ram, place2, o, v, 1, n.table)
      <4>1. Valid(n.ram, place2)
        BY <2>6 DEF Grows
      <4>2. /\ n.table = place2[<<o, 2, Prefix(v, 2)>>] /\ n.table # NULL
            /\ \A a \in Keys : a # <<o, 2, Prefix(v, 2)>> => place2[a] = place[a]
        BY <2>3, <2>8 DEF Descends
      <4>3. \A p \in Procs : place2[<<p, 3, 0>>] = place[<<p, 3, 0>>]
        <5> SUFFICES ASSUME NEW p \in Procs PROVE place2[<<p, 3, 0>>] = place[<<p, 3, 0>>]
          OBVIOUS
        <5>1. <<p, 3, 0>> \in Keys /\ <<p, 3, 0>> # <<o, 2, Prefix(v, 2)>>
          BY RangeFacts, KeyFacts
        <5> QED BY <5>1, <4>2
      <4>4. 1 + 1 = 2 /\ Above(v, 2) = Prefix(v, 2)
        BY DEF Above
      <4>5. o = TEMPLATE => \A p \in Procs : place[<<p, 3, 0>>] = NULL
        BY DEF CanMap
      <4> QED BY <4>1, <4>2, <4>3, <4>4, <4>5, <1>2 DEF At
    <3>2. n = [ram |-> n.ram, table |-> n.table]
      BY <2>3 DEF Descends
    <3>3. PICK place3 : Descends(n.ram, place2, o, v, 1, m, place3)
      BY <2>4, <3>1, <3>2, NextTableFacts
    <3>4. Grows(r, place, m.ram, place3, o, v)
      BY <2>6, <3>3, GrowsOn DEF Descends
    <3>7. Keeps(r, place, m.ram, place3)
      BY <2>3, <3>3, KeepsOn DEF Descends, Grows
    <3>8. place3[<<o, 0, v>>] = NULL /\ place2[<<o, 0, v>>] = NULL
      <4>1. <<o, 0, v>> \in Keys
        BY <1>2, KeyFacts
      <4>2. place[<<o, 0, v>>] = NULL
        BY DEF CanMap
      <4> QED BY <4>1, <4>2, <2>3, <3>3 DEF Descends
    <3>5. CASE ~ m.ram.ok
      <4>1. s = m.ram /\ ~ s.ok
        BY <2>5, <3>5
      <4>2. PICK key : key = <<o, 1, Prefix(v, 1)>>
        OBVIOUS
      <4>3. key \in Way(o, v) /\ place2[key] = NULL /\ n.ram.next = FREE_RAM_END
        <5>1. key \in FrameKeys
          BY <1>2, <4>2, PrefixFacts, KeyFacts
        <5> QED BY <5>1, <2>8, <3>3, <3>5, <4>2 DEF Descends, Way
      <4>4. ASSUME Accounted(r, place, Waiting(o, f)) PROVE NoRoom(place, Way(o, v))
        <5>1. Accounted(n.ram, place2, Waiting(o, f)) /\ Valid(n.ram, place2)
          BY <4>4, <2>3 DEF Descends, Grows
        <5>2. NoRoom(place2, Way(o, v))
          BY <1>2, <3>8, <4>2, <4>3, <5>1, MissingOnTheWay
        <5>3. Placed(place2) \cup Way(o, v) \subseteq Placed(place) \cup Way(o, v)
          BY <2>6 DEF Grows, Placed, Way, FrameKeys
        <5>4. Way(o, v) \in SUBSET FrameKeys
          BY DEF Way
        <5> QED BY <5>2, <5>3, <5>4, NoRoomBefore
      <4>5. Maps(r, place, o, v, f, s, place3)
        BY <4>1, <4>4, <3>4, <3>7, <3>8 DEF Maps
      <4> QED BY <4>5
    <3>6. CASE m.ram.ok
      <4>1. PICK key : key = <<o, 0, Prefix(v, 0)>>
        OBVIOUS
      <4>2. CanLink(m.ram, place3, o, v, 0, m.table, key, f)
        <5>1. /\ m.table = place3[<<o, 1, Prefix(v, 1)>>] /\ m.table # NULL
              /\ \A a \in Keys : a # <<o, 1, Prefix(v, 1)>> => place3[a] = place2[a]
              /\ \A a \in Keys : place3[a] # place2[a] => place3[a] \notin Given(n.ram)
          BY <3>3, <3>6 DEF Descends
        <5>2. /\ \A a \in Keys : a # <<o, 2, Prefix(v, 2)>> => place2[a] = place[a]
              /\ \A a \in Keys : place2[a] # place[a] => place2[a] \notin Given(r)
              /\ Given(r) \subseteq Given(n.ram)
          BY <2>3 DEF Descends, Grows
        <5>3. Valid(m.ram, place3) /\ Given(r) \subseteq Given(m.ram)
          BY <3>4 DEF Grows
        <5>4. Prefix(v, 0) = v /\ 0 + 1 = 1 /\ Above(v, 1) = Prefix(v, 1)
          BY <1>2, PrefixFacts DEF Above
        <5>5. key \in Keys /\ place3[key] = NULL
          <6>1. key \in Keys
            BY <4>1, <5>4, <1>2, KeyFacts
          <6>2. place[key] = NULL
            BY <4>1, <5>4 DEF CanMap
          <6> QED BY <6>1, <6>2, <4>1, <5>1, <5>2
        <5>6. \A p \in Procs : place3[<<p, 3, 0>>] = place[<<p, 3, 0>>]
          <6> SUFFICES ASSUME NEW p \in Procs PROVE place3[<<p, 3, 0>>] = place[<<p, 3, 0>>]
            OBVIOUS
          <6>1. /\ <<p, 3, 0>> \in Keys /\ <<p, 3, 0>> # <<o, 2, Prefix(v, 2)>>
                /\ <<p, 3, 0>> # <<o, 1, Prefix(v, 1)>>
            BY RangeFacts, KeyFacts
          <6> QED BY <6>1, <5>1, <5>2
        <5>7. f \in Ram
          BY DEF CanMap, PagesOf, Given
        <5>8. o # TEMPLATE => f \in Given(m.ram) /\ \A a \in FrameKeys : place3[a] # f
          <6> SUFFICES ASSUME o # TEMPLATE PROVE f \in Given(m.ram) /\ \A a \in FrameKeys : place3[a] # f
            OBVIOUS
          <6>1. f \in Given(r) /\ \A a \in FrameKeys : place[a] # f
            BY DEF CanMap
          <6> QED BY <6>1, <5>1, <5>2, <5>3 DEF FrameKeys
        <5>9. o = TEMPLATE => f = v /\ \A p \in Procs : place[<<p, 3, 0>>] = NULL
          BY DEF CanMap
        <5> QED BY <1>2, <4>1, <5>1, <5>3, <5>4, <5>5, <5>6, <5>7, <5>8, <5>9 DEF CanLink
      <4>3. s = Write(m.ram, m.table, PtIndex(v, 0), LinkPte(o, 0, f))
        BY <2>5, <3>6 DEF LinkPte
      <4>4. PICK place4 : Linked(m.ram, place3, s, place4, key, f)
        BY <4>2, <4>3, LinkValid
      <4>5. Grows(r, place, s, place4, o, v)
        <5>1. place3[key] = NULL /\ 0 \in 0 .. 2
          BY <4>2 DEF CanLink
        <5>2. Grows(m.ram, place3, s, place4, o, v)
          BY <4>1, <4>4, <5>1, LinkedGrows
        <5> QED BY <3>4, <5>2, GrowsOn
      <4>6. place4[<<o, 0, v>>] = f
        BY <4>1, <4>4, <1>2, PrefixFacts DEF Linked
      <4>7. ASSUME NEW W, Accounted(r, place, W)
            PROVE  Accounted(s, place4, IF o = TEMPLATE THEN W ELSE W \ {f})
        <5>1. Accounted(m.ram, place3, W)
          BY <4>7, <2>3, <3>3 DEF Descends
        <5>2. PICK X : X = IF o = TEMPLATE THEN W ELSE W \ {f}
          OBVIOUS
        <5>3. /\ Given(s) = Given(m.ram) /\ place4[key] = f
              /\ \A a \in Keys : a # key => place4[a] = place3[a]
          BY <4>4 DEF Linked
        <5>4. key \in Keys /\ place3[key] = NULL /\ (o # TEMPLATE => key \in FrameKeys)
          BY <4>1, <4>2, <1>2, PrefixFacts, KeyFacts DEF CanLink, FrameKeys
        <5>5. ASSUME NEW g \in Given(s) \ X PROVE \E a \in FrameKeys : place4[a] = g
          <6>1. CASE o # TEMPLATE /\ g = f
            BY <6>1, <5>3, <5>4
          <6>2. CASE ~ (o # TEMPLATE /\ g = f)
            <7>1. PICK a \in FrameKeys : place3[a] = g
              BY <6>2, <5>1, <5>2, <5>3 DEF Accounted
            <7>2. g # NULL /\ a \in Keys
              BY RangeFacts DEF Given, FrameKeys
            <7> QED BY <7>1, <7>2, <5>3, <5>4
          <6> QED BY <6>1, <6>2
        <5> QED BY <5>2, <5>5 DEF Accounted
      <4>8. s.ok
        BY <4>4, <3>6 DEF Linked
      <4>9. Keeps(r, place, s, place4)
        <5>1. m.table \in Ram /\ \E a \in FrameKeys : place3[a] = m.table /\ a[2] # 0
          <6>1. PICK k : k = <<o, 1, Prefix(v, 1)>>
            OBVIOUS
          <6>2. k \in FrameKeys /\ k[2] # 0
            BY <1>2, <6>1, PrefixFacts, KeyFacts
          <6>3. m.table = place3[k] /\ m.table # NULL
            BY <3>3, <3>6, <6>1 DEF Descends
          <6>4. place3 \in [Keys -> Ram \cup {NULL}]
            BY <4>2 DEF CanLink, Valid, Placement
          <6> QED BY <6>2, <6>3, <6>4 DEF FrameKeys
        <5>2. RamOK(m.ram) /\ PtIndex(v, 0) \in Index /\ LinkPte(o, 0, f) \in Nat
          <6>1. f \in Ram /\ RamOK(m.ram) /\ f < PPNS /\ f \in Nat
            BY <4>2, RangeFacts DEF CanLink, Valid
          <6>2. FlagsOf(o) \in {KernelFlags, UserFlags}
            BY <1>2, RangeFacts
          <6>3. LinkPte(o, 0, f) \in Nat
            BY <6>1, <6>2, LeafPteFacts DEF LinkPte
          <6> QED BY <6>1, <6>3, <1>2, PrefixFacts
        <5>3. \A g \in Ram : g # m.table => s.page[g] = m.ram.page[g]
          BY <4>3, <5>1, <5>2, WriteFacts
        <5>4. ASSUME NEW g \in Given(m.ram), Spare(place3, g) PROVE s.page[g] = m.ram.page[g]
          BY <5>1, <5>3, <5>4 DEF Spare, Given
        <5>5. \A a \in FrameKeys : place4[a] # place3[a] => a[2] = 0
          BY <4>1, <4>4 DEF Linked, FrameKeys
        <5>6. Keeps(m.ram, place3, s, place4)
          BY <5>4, <5>5 DEF Keeps
        <5> QED BY <3>4, <3>7, <5>6, KeepsOn DEF Grows
      <4>10. Maps(r, place, o, v, f, s, place4)
        BY <4>5, <4>6, <4>7, <4>8, <4>9, <1>4 DEF Maps
      <4> QED BY <4>10
    <3> QED BY <3>5, <3>6
  <2> QED BY <2>7, <2>8
<1> QED BY <1>3, <1>4
-----------------------------------------------------------------------------
(* The loops of create_page_table and create_process2.                     *)

(* What a loop takes from each number to the next it takes to the end.     *)
LEMMA UpTo ==
  ASSUME NEW from \in Int, NEW to \in Int, from <= to, NEW G, from \in G,
         \A n \in from .. to - 1 : n \in G => n + 1 \in G
  PROVE  to \in G
<1> DEFINE missing == {d \in Nat : d <= to - from /\ from + d \notin G}
<1>1. CASE missing = {}
  <2>1. PICK d \in Nat : d = to - from
    OBVIOUS
  <2>2. d \notin missing
    BY <1>1
  <2>3. from + d = to
    BY <2>1
  <2> QED BY <2>1, <2>2, <2>3
<1>2. CASE missing # {}
  <2>1. PICK d \in missing : \A e \in missing : ~ (<<e, d>> \in OpToRel(<, Nat))
    BY <1>2, WFMin, NatLessThanWellFounded
  <2>2. d \in Nat /\ d <= to - from /\ from + d \notin G
    BY <2>1
  <2>3. \A e \in missing : ~ (e < d)
    BY <2>1, <2>2 DEF OpToRel
  <2>4. d # 0
    BY <2>2
  <2>5. PICK e \in Nat : e = d - 1
    BY <2>2, <2>4
  <2>6. e \notin missing
    BY <2>2, <2>3, <2>5
  <2>7. from + e \in G
    BY <2>2, <2>5, <2>6
  <2>8. PICK n \in from .. to - 1 : n = from + e
    BY <2>2, <2>5
  <2>9. n + 1 \in G /\ n + 1 = from + d
    BY <2>2, <2>5, <2>7, <2>8
  <2> QED BY <2>2, <2>9
<1> QED BY <1>1, <1>2

(* The bodies of the two loops, and what a loop computes.                  *)
Body(kernel, root, s, n) ==
  IF kernel THEN MapPage(s, root, n, n, KernelFlags) ELSE LoadPage(s, root, n)

Loop(kernel, root, r, from, to, after) ==
  after = [n \in from .. to |-> IF n = from THEN r ELSE Body(kernel, root, after[n - 1], n - 1)]

(* The recursion of ForPages has a solution.                               *)
LEMMA LoopExists ==
  ASSUME NEW kernel, NEW root, NEW r, NEW from \in Int, NEW to \in Int, from <= to
  PROVE  \E after : Loop(kernel, root, r, from, to, after)
<1> DEFINE G == {k \in from .. to : \E after : Loop(kernel, root, r, from, k, after)}
<1>1. from \in G
  <2>1. PICK after : after = [n \in {from} |-> r]
    OBVIOUS
  <2>2. from .. from = {from}
    OBVIOUS
  <2>3. Loop(kernel, root, r, from, from, after)
    BY <2>1, <2>2 DEF Loop
  <2> QED BY <2>3
<1>2. ASSUME NEW k \in from .. to - 1, k \in G PROVE k + 1 \in G
  <2>1. PICK g : Loop(kernel, root, r, from, k, g)
    BY <1>2
  <2>2. PICK d \in Int : d = k + 1
    OBVIOUS
  <2>3. PICK after : after = [n \in from .. d |-> IF n = d THEN Body(kernel, root, g[n - 1], n - 1) ELSE g[n]]
    OBVIOUS
  <2>4. \A n \in from .. k : g[n] = IF n = from THEN r ELSE Body(kernel, root, g[n - 1], n - 1)
    BY <2>1 DEF Loop
  <2>5. \A n \in from .. k : after[n] = g[n]
    BY <2>2, <2>3
  <2>6. ASSUME NEW n \in from .. d
        PROVE  after[n] = IF n = from THEN r ELSE Body(kernel, root, after[n - 1], n - 1)
    <3>1. CASE n = d
      <4>1. after[n] = Body(kernel, root, g[n - 1], n - 1)
        BY <3>1, <2>3
      <4>2. n # from /\ n - 1 \in from .. k
        BY <3>1, <2>2
      <4> QED BY <4>1, <4>2, <2>5
    <3>2. CASE n # d
      <4>1. n \in from .. k
        BY <3>2, <2>2
      <4>2. n # from => n - 1 \in from .. k
        BY <4>1
      <4> QED BY <4>1, <4>2, <2>4, <2>5
    <3> QED BY <3>1, <3>2
  <2>7. Loop(kernel, root, r, from, d, after)
    <3>1. after = [n \in from .. d |-> after[n]]
      BY <2>3
    <3> QED BY <3>1, <2>6 DEF Loop
  <2>8. d \in from .. to
    BY <2>2
  <2> QED BY <2>2, <2>7, <2>8
<1>3. to \in G
  <2> HIDE DEF G
  <2> QED BY <1>1, <1>2, UpTo
<1> QED BY <1>3

(* The loop of create_page_table.                                          *)
LEMMA MapKernelLoop ==
  ASSUME NEW r, NEW root
  PROVE  \E after : /\ Loop(TRUE, root, r, KERNEL_BASE, FREE_RAM_END, after)
                    /\ MapKernel(r, root) = after[FREE_RAM_END]
<1> DEFINE after[n \in KERNEL_BASE .. FREE_RAM_END] ==
             IF n = KERNEL_BASE THEN r ELSE MapPage(after[n - 1], root, n - 1, n - 1, KernelFlags)
<1>1. MapKernel(r, root) = after[FREE_RAM_END]
  BY DEF MapKernel, ForPages
<1>2. \E g : g = [n \in KERNEL_BASE .. FREE_RAM_END |->
                    IF n = KERNEL_BASE THEN r ELSE MapPage(g[n - 1], root, n - 1, n - 1, KernelFlags)]
  <2>1. KERNEL_BASE \in Int /\ FREE_RAM_END \in Int /\ KERNEL_BASE <= FREE_RAM_END
    BY Constants
  <2>2. PICK g : Loop(TRUE, root, r, KERNEL_BASE, FREE_RAM_END, g)
    BY <2>1, LoopExists
  <2>3. g = [n \in KERNEL_BASE .. FREE_RAM_END |->
               IF n = KERNEL_BASE THEN r ELSE MapPage(g[n - 1], root, n - 1, n - 1, KernelFlags)]
    BY <2>2 DEF Loop, Body
  <2> QED BY <2>3
<1>3. after = [n \in KERNEL_BASE .. FREE_RAM_END |->
                 IF n = KERNEL_BASE THEN r ELSE MapPage(after[n - 1], root, n - 1, n - 1, KernelFlags)]
  BY <1>2
<1> QED BY <1>1, <1>3 DEF Loop, Body

(* The loop of create_process2.                                            *)
LEMMA LoadImageLoop ==
  ASSUME NEW r, NEW root
  PROVE  \E after : /\ Loop(FALSE, root, r, 0, IMAGE_PAGES, after)
                    /\ LoadImage(r, root) = after[IMAGE_PAGES]
<1> DEFINE after[n \in 0 .. IMAGE_PAGES] == IF n = 0 THEN r ELSE LoadPage(after[n - 1], root, n - 1)
<1>1. LoadImage(r, root) = after[IMAGE_PAGES]
  BY DEF LoadImage, ForPages
<1>2. \E g : g = [n \in 0 .. IMAGE_PAGES |-> IF n = 0 THEN r ELSE LoadPage(g[n - 1], root, n - 1)]
  <2>1. IMAGE_PAGES \in Int /\ 0 \in Int /\ 0 <= IMAGE_PAGES
    BY ImageFits
  <2>2. PICK g : Loop(FALSE, root, r, 0, IMAGE_PAGES, g)
    BY <2>1, LoopExists
  <2>3. g = [n \in 0 .. IMAGE_PAGES |-> IF n = 0 THEN r ELSE LoadPage(g[n - 1], root, n - 1)]
    BY <2>2 DEF Loop, Body
  <2> QED BY <2>3
<1>3. after = [n \in 0 .. IMAGE_PAGES |-> IF n = 0 THEN r ELSE LoadPage(after[n - 1], root, n - 1)]
  BY <1>2
<1> QED BY <1>1, <1>3 DEF Loop, Body
-----------------------------------------------------------------------------
(* Placement place2 of s has all that place of r has, and more only below  *)
(* the root of owner o.                                                    *)
Widens(r, place, o, s, place2) ==
  /\ Valid(s, place2) /\ Given(r) \subseteq Given(s) /\ Keeps(r, place, s, place2)
  /\ \A a \in Keys : place[a] # NULL => place2[a] = place[a]
  /\ \A a \in Keys : place2[a] # place[a] => \E l \in 0 .. 2, x \in Pages : a = <<o, l, x>>

(* And no page is lost while the machine runs.                             *)
Fills(r, place, o, s, place2) ==
  /\ Widens(r, place, o, s, place2)
  /\ s.ok => r.ok /\ \A W : Accounted(r, place, W) => Accounted(s, place2, W)

(* So it is in the beginning.                                              *)
LEMMA FillsNothing ==
  ASSUME NEW r, NEW place, NEW o, NEW s, Valid(s, place), Given(s) = Given(r), s.ok => r.ok,
         s.page = r.page
  PROVE  Fills(r, place, o, s, place)
BY KeepsPages DEF Fills, Widens, Accounted

(* It goes on from there.                                                  *)
LEMMA FillsOn ==
  ASSUME NEW r, NEW place, NEW o, NEW s, NEW place2, NEW t, NEW place3,
         Fills(r, place, o, s, place2), Fills(s, place2, o, t, place3)
  PROVE  Fills(r, place, o, t, place3)
<1>1. Keeps(r, place, t, place3)
  BY KeepsOn DEF Fills, Widens
<1> QED BY <1>1 DEF Fills, Widens

(* Fewer frames wait when more are accounted for.                          *)
LEMMA AccountedLess ==
  ASSUME NEW r, NEW place, NEW W, NEW X, W \subseteq X, Accounted(r, place, W)
  PROVE  Accounted(r, place, X)
BY DEF Accounted

(* A page that is mapped only adds to the tables of its owner.             *)
LEMMA MapsWidens ==
  ASSUME NEW r, NEW place, NEW o, NEW v \in Pages, NEW f, NEW s, NEW place2,
         Maps(r, place, o, v, f, s, place2)
  PROVE  Widens(r, place, o, s, place2)
<1>1. \A l \in 0 .. 2 : Prefix(v, l) \in Pages
  BY PrefixFacts
<1> QED BY <1>1 DEF Maps, Grows, Widens

\* At boot the frames last.
Lasts(r, place, s) == r.ok /\ Accounted(r, place, {}) /\ Roomy(place) => s.ok

\* A process that has nothing and gets nothing has nothing.
LEMMA NothingKept ==
  ASSUME NEW place, NEW place2, NEW o, Nothing(place, o),
         \A l \in 0 .. 2, x \in Pages : place2[<<o, l, x>>] = place[<<o, l, x>>]
  PROVE  Nothing(place2, o)
<1> SUFFICES ASSUME NEW v \in Pages, NEW l \in 0 .. 2 PROVE place2[<<o, l, Prefix(v, l)>>] = NULL
  BY DEF Nothing
<1>1. PICK x \in Pages : x = Prefix(v, l)
  BY PrefixFacts
<1>2. place[<<o, l, Prefix(v, l)>>] = NULL
  BY DEF Nothing
<1> QED BY <1>1, <1>2

\* Room at boot is a matter of what the processes have.
LEMMA RoomKept ==
  ASSUME NEW place, NEW place2, Roomy(place),
         \A q \in Procs, l \in 0 .. 2, x \in Pages : place2[<<q, l, x>>] = place[<<q, l, x>>]
  PROVE  Roomy(place2)
<1>1. IDLE \in Procs /\ Users \subseteq Procs /\ UserPages \subseteq Pages
  BY RangeFacts, MemoryAssumption DEF Procs, Users, IDLE
<1>2. Nothing(place2, IDLE)
  BY <1>1, NothingKept DEF Roomy, Fits
<1>3. ASSUME NEW q \in Users, NEW v \in UserPages, place2[<<q, 0, v>>] # NULL
      PROVE  <<q, v>> \in Users \X ImagePages
  <2>1. place2[<<q, 0, v>>] = place[<<q, 0, v>>]
    BY <1>1
  <2> QED BY <1>3, <2>1 DEF Roomy, Fits
<1> QED BY <1>2, <1>3 DEF Roomy, Fits

(* The kernel's pages below n are mapped to themselves, those from n on    *)
(* are not.                                                                *)
KernelUpTo(r, place, n, s, place2) ==
  /\ Fills(r, place, TEMPLATE, s, place2) /\ Lasts(r, place, s)
  /\ \A k \in Ram : IF k < n THEN s.ok => place2[<<TEMPLATE, 0, k>>] = k
                    ELSE place2[<<TEMPLATE, 0, k>>] = NULL

(* The template has a root and nothing more.                               *)
Bare(r, place) ==
  /\ Valid(r, place) /\ place[<<TEMPLATE, 3, 0>>] # NULL
  /\ \A k \in Ram : place[<<TEMPLATE, 0, k>>] = NULL
  /\ \A p \in Procs : place[<<p, 3, 0>>] = NULL

(* Another page of the kernel.                                             *)
LEMMA KernelPage ==
  ASSUME NEW r, NEW place, Bare(r, place), NEW n \in Ram, NEW s, NEW place2,
         KernelUpTo(r, place, n, s, place2),
         NEW t, t = MapPage(s, place[<<TEMPLATE, 3, 0>>], n, n, KernelFlags)
  PROVE  \E place3 : KernelUpTo(r, place, n + 1, t, place3)
<1>1. /\ Valid(s, place2)
      /\ \A a \in Keys : place[a] # NULL => place2[a] = place[a]
      /\ \A a \in Keys : place2[a] # place[a] => \E l \in 0 .. 2, x \in Pages : a = <<TEMPLATE, l, x>>
  BY DEF KernelUpTo, Fills, Widens
<1>2. TEMPLATE \in Owners /\ PagesOf(TEMPLATE) = Ram /\ FlagsOf(TEMPLATE) = KernelFlags /\ n \in Pages
  BY RangeFacts DEF PagesOf, FlagsOf
<1>3. /\ place2[<<TEMPLATE, 3, 0>>] = place[<<TEMPLATE, 3, 0>>]
      /\ place[<<TEMPLATE, 3, 0>>] # NULL
      /\ \A p \in Procs : place2[<<p, 3, 0>>] = NULL
  <2>1. <<TEMPLATE, 3, 0>> \in Keys /\ \A p \in Procs : <<p, 3, 0>> \in Keys
    BY RangeFacts, KeyFacts
  <2>2. ASSUME NEW p \in Procs PROVE place2[<<p, 3, 0>>] = NULL
    <3>1. place2[<<p, 3, 0>>] = place[<<p, 3, 0>>]
      BY <1>1, <2>1, RangeFacts
    <3> QED BY <3>1 DEF Bare
  <2> QED BY <1>1, <2>1, <2>2 DEF Bare
<1>4. CanMap(s, place2, TEMPLATE, n, n)
  <2>1. place2[<<TEMPLATE, 0, n>>] = NULL
    BY <1>2, Constants DEF KernelUpTo, Ram
  <2> QED BY <1>1, <1>2, <1>3, <2>1 DEF CanMap
<1>5. PICK place3 : Maps(s, place2, TEMPLATE, n, n, t, place3)
  <2>1. t = MapPage(s, place2[<<TEMPLATE, 3, 0>>], n, n, FlagsOf(TEMPLATE))
    BY <1>2, <1>3
  <2> QED BY <1>4, <2>1, MapPageFacts
<1>6. /\ Widens(s, place2, TEMPLATE, t, place3)
      /\ \A a \in Keys : place2[a] # NULL => place3[a] = place2[a]
  <2>1. Widens(s, place2, TEMPLATE, t, place3)
    BY <1>2, <1>5, MapsWidens
  <2> QED BY <2>1 DEF Widens
<1>7. t.ok => /\ s.ok /\ place3[<<TEMPLATE, 0, n>>] = n
              /\ \A W : Accounted(s, place2, W) => Accounted(t, place3, W)
  BY <1>5 DEF Maps
<1>8. Fills(r, place, TEMPLATE, t, place3)
  <2>1. Fills(s, place2, TEMPLATE, t, place3)
    BY <1>6, <1>7 DEF Fills
  <2> QED BY <2>1, FillsOn DEF KernelUpTo
<1>9. ASSUME NEW k \in Ram
      PROVE  IF k < n + 1 THEN t.ok => place3[<<TEMPLATE, 0, k>>] = k
             ELSE place3[<<TEMPLATE, 0, k>>] = NULL
  <2>1. <<TEMPLATE, 0, k>> \in Keys /\ k \in Nat /\ n \in Nat /\ k # NULL
    BY RangeFacts, KeyFacts
  <2>2. CASE k < n
    <3>1. s.ok => place2[<<TEMPLATE, 0, k>>] = k
      BY <2>2 DEF KernelUpTo
    <3> QED BY <2>1, <2>2, <3>1, <1>6, <1>7
  <2>3. CASE k = n
    BY <2>1, <2>3, <1>7
  <2>4. CASE k > n
    <3>1. place2[<<TEMPLATE, 0, k>>] = NULL
      BY <2>1, <2>4 DEF KernelUpTo
    <3>2. place3[<<TEMPLATE, 0, k>>] = place2[<<TEMPLATE, 0, k>>]
      <4> SUFFICES ASSUME place3[<<TEMPLATE, 0, k>>] # place2[<<TEMPLATE, 0, k>>] PROVE FALSE
        OBVIOUS
      <4>1. PICK l \in 0 .. 2 : <<TEMPLATE, 0, k>> = <<TEMPLATE, l, Prefix(n, l)>>
        BY <2>1, <1>5 DEF Maps, Grows
      <4>2. k = Prefix(n, 0)
        BY <4>1
      <4> QED BY <4>2, <2>4, <2>1, <1>2, PrefixFacts
    <3> QED BY <2>1, <2>4, <3>1, <3>2
  <2> QED BY <2>1, <2>2, <2>3, <2>4
<1>10. Lasts(r, place, t)
  <2> SUFFICES ASSUME r.ok, Accounted(r, place, {}), Roomy(place), ~ t.ok PROVE FALSE
    BY DEF Lasts
  <2>1. s.ok /\ Accounted(s, place2, {})
    BY DEF KernelUpTo, Lasts, Fills
  <2>2. Roomy(place2)
    <3>1. ASSUME NEW q \in Procs, NEW l \in 0 .. 2, NEW x \in Pages
          PROVE  place2[<<q, l, x>>] = place[<<q, l, x>>]
      <4>1. <<q, l, x>> \in Keys /\ q # TEMPLATE
        BY RangeFacts, KeyFacts
      <4> QED BY <4>1, <1>1
    <3> QED BY <3>1, RoomKept
  <2>3. NoRoom(place2, Way(TEMPLATE, n))
    BY <1>5, <2>1 DEF Maps, Waiting
  <2>4. TEMPLATE # IDLE /\ n \in PagesOf(TEMPLATE)
    BY <1>2 DEF TEMPLATE, IDLE
  <2>5. Way(TEMPLATE, n) \subseteq Budget(Users \X ImagePages)
    BY <1>2, <2>4, WayInBudget
  <2>6. Placement(s, place2)
    BY <1>1 DEF Valid
  <2> QED BY <2>2, <2>3, <2>5, <2>6, BootHasRoom
<1> QED BY <1>8, <1>9, <1>10 DEF KernelUpTo

(* The kernel's memory is mapped.                                          *)
LEMMA MapKernelFacts ==
  ASSUME NEW r, NEW place, Bare(r, place), NEW s, s = MapKernel(r, place[<<TEMPLATE, 3, 0>>])
  PROVE  \E place2 : KernelUpTo(r, place, FREE_RAM_END, s, place2)
<1>1. PICK root : root = place[<<TEMPLATE, 3, 0>>]
  OBVIOUS
<1>2. PICK after : Loop(TRUE, root, r, KERNEL_BASE, FREE_RAM_END, after) /\ s = after[FREE_RAM_END]
  BY <1>1, MapKernelLoop
<1>3. \A n \in KERNEL_BASE .. FREE_RAM_END :
        after[n] = IF n = KERNEL_BASE THEN r ELSE MapPage(after[n - 1], root, n - 1, n - 1, KernelFlags)
  BY <1>2 DEF Loop, Body
<1>4. KERNEL_BASE \in Int /\ FREE_RAM_END \in Int /\ KERNEL_BASE <= FREE_RAM_END
  BY Constants
<1> DEFINE G == {n \in KERNEL_BASE .. FREE_RAM_END : \E place2 : KernelUpTo(r, place, n, after[n], place2)}
<1>5. KERNEL_BASE \in G
  <2>1. after[KERNEL_BASE] = r
    BY <1>3, <1>4
  <2>2. Fills(r, place, TEMPLATE, r, place)
    BY FillsNothing DEF Bare
  <2>3. KernelUpTo(r, place, KERNEL_BASE, r, place)
    BY <2>2, <1>4 DEF KernelUpTo, Bare, Ram, Lasts
  <2> QED BY <1>4, <2>1, <2>3
<1>6. ASSUME NEW n \in KERNEL_BASE .. FREE_RAM_END - 1, n \in G PROVE n + 1 \in G
  <2>1. PICK place2 : KernelUpTo(r, place, n, after[n], place2)
    BY <1>6
  <2>2. n \in Ram /\ n + 1 \in KERNEL_BASE .. FREE_RAM_END
    BY <1>4 DEF Ram
  <2>3. after[n + 1] = MapPage(after[n], root, n, n, KernelFlags)
    <3>1. PICK m \in KERNEL_BASE .. FREE_RAM_END : m = n + 1
      BY <2>2
    <3>2. m # KERNEL_BASE /\ m - 1 = n
      BY <3>1, <1>4
    <3> QED BY <3>1, <3>2, <1>3
  <2>4. PICK place3 : KernelUpTo(r, place, n + 1, after[n + 1], place3)
    BY <1>1, <2>1, <2>2, <2>3, KernelPage
  <2> QED BY <2>2, <2>4
<1>7. FREE_RAM_END \in G
  <2> HIDE DEF G
  <2> QED BY <1>4, <1>5, <1>6, UpTo
<1> QED BY <1>2, <1>7

(* A user page that was missing is mapped with these words, or the machine *)
(* stops for want of room.                                                 *)
NewPage(r, place, p, u, words, s, place2) ==
  /\ Fills(r, place, p, s, place2)
  /\ s.ok => place2[<<p, 0, u>>] = r.next /\ s.page[r.next] = words
  /\ ~ s.ok => place2[<<p, 0, u>>] = NULL
  /\ ~ s.ok /\ Accounted(r, place, {}) => NoRoom(place, Way(p, u))
  /\ \A x \in Pages : x # u => place2[<<p, 0, x>>] = place[<<p, 0, x>>]
  /\ \A a \in Keys : place2[a] # place[a] => \E l \in 0 .. 2 : a = <<p, l, Prefix(u, l)>>

(* Process p has tables, and not page u.                                   *)
Lacks(r, place, p, u) ==
  /\ Valid(r, place) /\ p \in Procs /\ place[<<p, 3, 0>>] # NULL
  /\ u \in UserPages /\ place[<<p, 0, u>>] = NULL

(* A fresh page, cleared or filled, is mapped there.                       *)
LEMMA UserPage ==
  ASSUME NEW r, r.ok, NEW place, NEW p, NEW u, Lacks(r, place, p, u),
         NEW a, a = AllocPage(r), NEW b, b = a \/ (a.ok /\ \E z \in [Index -> Nat] : b = Fill(a, r.next, z)),
         NEW s, s = MapPage(b, place[<<p, 3, 0>>], u, r.next, UserFlags),
         NEW words, a.ok => words = b.page[r.next]
  PROVE  \E place2 : NewPage(r, place, p, u, words, s, place2)
<1>1. /\ Valid(r, place) /\ RamOK(r) /\ p \in Procs /\ p \in Owners /\ p # TEMPLATE
      /\ u \in UserPages /\ u \in Pages
      /\ PagesOf(p) = UserPages /\ FlagsOf(p) = UserFlags
  BY RangeFacts DEF Lacks, Valid, PagesOf, FlagsOf
<1>2. PICK f : f = r.next
  OBVIOUS
<1>3. Valid(a, place) /\ Given(r) \subseteq Given(a)
  BY <1>1, AllocValid, AllocFacts
<1>4. CASE ~ a.ok
  <2>1. b = a
    BY <1>4
  <2>2. s = Stop(a)
    BY <2>1, <1>4 DEF MapPage
  <2>3. RamOK(s) /\ ~ s.ok /\ s.page = a.page /\ Given(s) = Given(a)
    BY <1>3, <2>2, StopFacts DEF Valid
  <2>4. Valid(s, place)
    BY <2>3, <1>3, TablesKept DEF KeepsTables
  <2>5. Keeps(r, place, s, place)
    BY <1>1, <2>3, AllocFacts, KeepsPages
  <2>6. Accounted(r, place, {}) => NoRoom(place, Way(p, u))
    <3>1. PICK key : key = <<p, 0, u>>
      OBVIOUS
    <3>2. key \in Way(p, u) /\ place[key] = NULL /\ Way(p, u) \in SUBSET FrameKeys
      BY <1>1, <3>1, KeyFacts, PrefixFacts DEF Way, Lacks
    <3>3. r.next = FREE_RAM_END /\ place \in [Keys -> Ram \cup {NULL}]
      BY <1>1, <1>4, AllocFacts DEF Valid, Placement
    <3> QED BY <3>2, <3>3, FramesRunOut
  <2>7. place[<<p, 0, u>>] = NULL
    BY DEF Lacks
  <2>8. NewPage(r, place, p, u, words, s, place)
    BY <1>3, <2>3, <2>4, <2>5, <2>6, <2>7 DEF NewPage, Fills, Widens
  <2> QED BY <2>8
<1>5. CASE a.ok
  <2>1. /\ f \in Ram /\ f \notin Given(r) /\ Given(a) = Given(r) \cup {f} /\ RamOK(a)
        /\ \A k \in FrameKeys : place[k] # f
    BY <1>1, <1>2, <1>5, AllocFacts, AllocValid
  <2>2. Valid(b, place) /\ Given(b) = Given(a) /\ b.ok /\ \A g \in Ram : g # f => b.page[g] = a.page[g]
    <3>1. CASE b = a
      BY <3>1, <1>3, <1>5
    <3>2. CASE b # a
      <4>1. PICK z \in [Index -> Nat] : b = Fill(a, f, z)
        BY <3>2, <1>2
      <4>2. /\ RamOK(b) /\ Given(b) = Given(a) /\ b.ok
            /\ \A g \in Ram : g # f => b.page[g] = a.page[g]
        BY <4>1, <2>1, <1>5, FillFacts
      <4>3. ASSUME NEW o \in Owners, NEW l \in 1 .. 3, NEW x \in Pages, place[<<o, l, x>>] # NULL
            PROVE  b.page[place[<<o, l, x>>]] = a.page[place[<<o, l, x>>]]
        <5>1. place[<<o, l, x>>] \in Ram
          BY <4>3, <1>3, TableFacts
        <5>2. <<o, l, x>> \in FrameKeys
          BY KeyFacts
        <5> QED BY <5>1, <5>2, <4>2, <2>1
      <4> QED BY <1>3, <4>2, <4>3, TablesKept DEF KeepsTables
    <3> QED BY <3>1, <3>2
  <2>3. CanMap(b, place, p, u, f)
    BY <1>1, <2>1, <2>2 DEF CanMap, Lacks
  <2>4. PICK place2 : Maps(b, place, p, u, f, s, place2)
    <3>1. s = MapPage(b, place[<<p, 3, 0>>], u, f, FlagsOf(p))
      BY <1>1, <1>2
    <3> QED BY <2>3, <3>1, MapPageFacts
  <2>5. Widens(b, place, p, s, place2)
    BY <1>1, <2>4, MapsWidens
  <2>6. Widens(r, place, p, s, place2)
    <3>1. ASSUME NEW g \in Given(r) PROVE b.page[g] = r.page[g]
      <4>1. g \in Ram /\ g # f
        BY <2>1 DEF Given
      <4>2. a.page[g] = r.page[g]
        BY <1>1, AllocFacts
      <4> QED BY <4>1, <4>2, <2>2
    <3>2. Keeps(r, place, b, place)
      BY <3>1, KeepsPages
    <3>3. Keeps(r, place, s, place2)
      BY <3>2, <2>1, <2>2, <2>5, KeepsOn DEF Widens
    <3> QED BY <3>3, <2>1, <2>2, <2>5 DEF Widens
  <2>7. ASSUME s.ok, NEW W, Accounted(r, place, W) PROVE Accounted(s, place2, W)
    <3>1. PICK X : X = W \cup {f}
      OBVIOUS
    <3>2. Accounted(b, place, X)
      BY <2>1, <2>2, <2>7, <3>1 DEF Accounted
    <3>3. Accounted(s, place2, X \ {f})
      BY <1>1, <2>4, <2>7, <3>2 DEF Maps
    <3>4. X \ {f} \subseteq W
      BY <3>1
    <3> QED BY <3>3, <3>4, AccountedLess
  <2>8. ASSUME NEW x \in Pages, x # u PROVE place2[<<p, 0, x>>] = place[<<p, 0, x>>]
    <3> SUFFICES ASSUME place2[<<p, 0, x>>] # place[<<p, 0, x>>] PROVE FALSE
      OBVIOUS
    <3>1. <<p, 0, x>> \in Keys
      BY <1>1, KeyFacts
    <3>2. PICK l \in 0 .. 2 : <<p, 0, x>> = <<p, l, Prefix(u, l)>>
      BY <2>4, <3>1 DEF Maps, Grows
    <3>3. x = Prefix(u, 0)
      BY <3>2
    <3> QED BY <3>3, <2>8, <1>1, PrefixFacts
  <2>9. \A k \in Keys : place2[k] # place[k] => \E l \in 0 .. 2 : k = <<p, l, Prefix(u, l)>>
    BY <2>4 DEF Maps, Grows
  <2>10. s.ok => place2[<<p, 0, u>>] = f /\ s.page[f] = words
    <3>1. f \in Given(b) /\ Spare(place, f)
      BY <2>1, <2>2 DEF Spare
    <3>2. s.page[f] = b.page[f]
      BY <2>5, <3>1 DEF Widens, Keeps
    <3> QED BY <1>2, <1>5, <2>4, <3>2 DEF Maps
  <2>11. ~ s.ok => place2[<<p, 0, u>>] = NULL
    BY <2>4 DEF Maps
  <2>12. ASSUME ~ s.ok, Accounted(r, place, {}) PROVE NoRoom(place, Way(p, u))
    <3>1. Accounted(b, place, {f})
      BY <2>1, <2>2, <2>12 DEF Accounted
    <3>2. Waiting(p, f) = {f}
      BY <1>1 DEF Waiting
    <3> QED BY <2>2, <2>4, <2>12, <3>1, <3>2 DEF Maps
  <2>13. NewPage(r, place, p, u, words, s, place2)
    BY <2>6, <2>7, <2>8, <2>9, <2>10, <2>11, <2>12, <1>2, <1>3 DEF NewPage, Fills
  <2> QED BY <2>13
<1> QED BY <1>4, <1>5

\* Page k of the image is mapped for process p, and holds its words.
Shown(s, place, p, k) ==
  LET g == place[<<p, 0, USER_BASE + k>>] IN g # NULL /\ s.page[g] = ImagePage(k)

(* The image's pages below n are loaded, the pages from there on are not   *)
(* mapped.                                                                 *)
ImageUpTo(r, place, p, n, s, place2) ==
  /\ Fills(r, place, p, s, place2) /\ Lasts(r, place, s)
  /\ s.ok => \A k \in Nat : k < n => Shown(s, place2, p, k)
  /\ \A u \in UserPages : u >= USER_BASE + n => place2[<<p, 0, u>>] = NULL

(* Process p has a root and no pages of its own.                           *)
Rooted(r, place, p) ==
  /\ Valid(r, place) /\ p \in Users /\ p \in Procs /\ place[<<p, 3, 0>>] # NULL
  /\ \A u \in UserPages : place[<<p, 0, u>>] = NULL

\* The others are as they were.
LEMMA ImageOfOne ==
  ASSUME NEW r, NEW place, NEW p, Rooted(r, place, p), NEW n,
         NEW s, NEW place2, ImageUpTo(r, place, p, n, s, place2)
  PROVE  \A q \in Procs, l \in 0 .. 2, x \in Pages :
           q # p => place2[<<q, l, x>>] = place[<<q, l, x>>]
<1>1. \A a \in Keys : place2[a] # place[a] => \E l \in 0 .. 2, x \in Pages : a = <<p, l, x>>
  BY DEF ImageUpTo, Fills, Widens
<1> SUFFICES ASSUME NEW q \in Procs, NEW l \in 0 .. 2, NEW x \in Pages, q # p
             PROVE  place2[<<q, l, x>>] = place[<<q, l, x>>]
  OBVIOUS
<1>2. <<q, l, x>> \in Keys
  BY RangeFacts, KeyFacts
<1> QED BY <1>1, <1>2

\* At boot nothing but images is mapped.
LEMMA ImageLeavesRoom ==
  ASSUME NEW r, NEW place, NEW p, Rooted(r, place, p), NEW n \in Nat, n <= IMAGE_PAGES,
         NEW s, NEW place2, ImageUpTo(r, place, p, n, s, place2), Roomy(place)
  PROVE  Roomy(place2)
<1>1. p # IDLE /\ IDLE \in Procs /\ Users \subseteq Procs /\ UserPages \subseteq Pages
  BY RangeFacts, MemoryAssumption DEF Rooted, Users, Procs, IDLE
<1>2. \A q \in Procs, l \in 0 .. 2, x \in Pages : q # p => place2[<<q, l, x>>] = place[<<q, l, x>>]
  BY ImageOfOne
<1>3. Nothing(place2, IDLE)
  BY <1>1, <1>2, NothingKept DEF Roomy, Fits
<1>4. ASSUME NEW q \in Users, NEW v \in UserPages, place2[<<q, 0, v>>] # NULL
      PROVE  <<q, v>> \in Users \X ImagePages
  <2>1. CASE q = p
    <3>1. ~ (v >= USER_BASE + n)
      BY <1>4, <2>1 DEF ImageUpTo
    <3>2. v \in ImagePages
      BY <3>1, Constants, ImageFits DEF UserPages, ImagePages
    <3> QED BY <3>2
  <2>2. CASE q # p
    <3>1. 0 \in 0 .. 2
      OBVIOUS
    <3>2. place2[<<q, 0, v>>] = place[<<q, 0, v>>]
      BY <1>1, <1>2, <2>2, <3>1, Zenon
    <3> QED BY <1>4, <3>2 DEF Roomy, Fits
  <2> QED BY <2>1, <2>2
<1> QED BY <1>3, <1>4 DEF Roomy, Fits

(* Another page of the image.                                              *)
LEMMA ImageNext ==
  ASSUME NEW r, NEW place, NEW p, Rooted(r, place, p), NEW n \in Nat, n < IMAGE_PAGES,
         NEW s, NEW place2, ImageUpTo(r, place, p, n, s, place2),
         NEW t, t = LoadPage(s, place[<<p, 3, 0>>], n)
  PROVE  \E place3 : ImageUpTo(r, place, p, n + 1, t, place3)
<1>1. PICK u \in UserPages : u = USER_BASE + n
  <2>1. USER_BASE + n \in UserPages
    BY Constants, ImageFits DEF UserPages
  <2> QED BY <2>1
<1>2. PICK a : a = AllocPage(s)
  OBVIOUS
<1>3. USER_BASE \in Nat /\ \A x \in UserPages : x \in Nat
  BY Constants DEF UserPages
<1>10. ASSUME r.ok, Accounted(r, place, {}), Roomy(place)
       PROVE  s.ok /\ Accounted(s, place2, {}) /\ ~ NoRoom(place2, Way(p, u))
  <2>1. s.ok /\ Accounted(s, place2, {}) /\ Placement(s, place2)
    BY <1>10 DEF ImageUpTo, Lasts, Fills, Widens, Valid
  <2>2. Roomy(place2)
    BY <1>10, ImageFits, ImageLeavesRoom
  <2>3. p \in Owners /\ p # IDLE /\ u \in PagesOf(p) /\ <<p, u>> \in Users \X ImagePages
    <3>1. p \in Owners /\ p \in Users /\ p # IDLE /\ p # TEMPLATE
      BY RangeFacts, MemoryAssumption DEF Rooted, Users, IDLE
    <3>2. u \in ImagePages
      BY <1>1, Constants, ImageFits DEF ImagePages
    <3> QED BY <3>1, <3>2 DEF PagesOf
  <2>4. Way(p, u) \subseteq Budget(Users \X ImagePages)
    BY <2>3, WayInBudget
  <2> QED BY <2>1, <2>2, <2>4, BootHasRoom
<1>4. CASE ~ a.ok
  <2>1. t = a
    BY <1>2, <1>4 DEF LoadPage
  <2>2. Fills(s, place2, p, t, place2)
    <3>1. CASE s.ok
      <4>1. Valid(s, place2)
        BY DEF ImageUpTo, Fills, Widens
      <4>2. Valid(a, place2) /\ Given(s) \subseteq Given(a)
        BY <1>2, <3>1, <4>1, AllocValid, AllocFacts DEF Valid
      <4>3. Keeps(s, place2, a, place2)
        BY <1>2, <3>1, <4>1, AllocFacts, KeepsPages DEF Valid
      <4> QED BY <2>1, <4>2, <4>3, <1>4 DEF Fills, Widens
    <3>2. CASE ~ s.ok
      <4>1. t = s
        BY <1>2, <2>1, <3>2, AllocStopped
      <4>2. Keeps(s, place2, s, place2)
        BY KeepsPages
      <4> QED BY <3>2, <4>1, <4>2 DEF ImageUpTo, Fills, Widens
    <3> QED BY <3>1, <3>2
  <2>3. Fills(r, place, p, t, place2)
    BY <2>2, FillsOn DEF ImageUpTo
  <2>4. Lasts(r, place, t)
    <3> SUFFICES ASSUME r.ok, Accounted(r, place, {}), Roomy(place) PROVE FALSE
      BY DEF Lasts
    <3>1. s.ok /\ Accounted(s, place2, {}) /\ ~ NoRoom(place2, Way(p, u))
      BY <1>10
    <3>2. Valid(s, place2) /\ RamOK(s) /\ place2 \in [Keys -> Ram \cup {NULL}]
      BY DEF ImageUpTo, Fills, Widens, Valid, Placement
    <3>3. s.next = FREE_RAM_END
      BY <1>2, <1>4, <3>1, <3>2, AllocFacts
    <3>4. PICK key : key = <<p, 0, u>>
      OBVIOUS
    <3>5. key \in Way(p, u) /\ Way(p, u) \in SUBSET FrameKeys /\ place2[key] = NULL
      <4>1. u \in Pages /\ p \in Owners /\ p # TEMPLATE
        BY RangeFacts DEF Rooted
      <4>2. key \in FrameKeys /\ Prefix(u, 0) = u
        BY <3>4, <4>1, KeyFacts, PrefixFacts
      <4>3. place2[key] = NULL
        BY <1>1, <1>3, <3>4 DEF ImageUpTo
      <4> QED BY <3>4, <4>2, <4>3 DEF Way
    <3> QED BY <3>1, <3>2, <3>3, <3>5, FramesRunOut
  <2>5. ImageUpTo(r, place, p, n + 1, t, place2)
    BY <2>1, <2>3, <2>4, <1>3, <1>4 DEF ImageUpTo
  <2> QED BY <2>5
<1>5. CASE a.ok
  <2>1. s.ok
    BY <1>2, <1>5, AllocStopped
  <2>2. Valid(s, place2) /\ place2[<<p, 3, 0>>] = place[<<p, 3, 0>>]
    <3>1. <<p, 3, 0>> \in Keys
      BY RangeFacts, KeyFacts DEF Rooted
    <3> QED BY <3>1 DEF ImageUpTo, Fills, Widens, Rooted
  <2>3. PICK z \in [Index -> Nat] : z = [i \in Index |-> IF n * ENTRIES + i < Len(Image)
                                                       THEN Image[n * ENTRIES + i + 1] ELSE a.page[s.next][i]]
    <3>1. ASSUME NEW i \in Index, n * ENTRIES + i < Len(Image) PROVE Image[n * ENTRIES + i + 1] \in Nat
      <4>1. PICK m \in Nat : m = n * ENTRIES + i
        BY Constants DEF Index
      <4>2. Image \in Seq(Nat) /\ Len(Image) \in Nat
        BY PageTablesAssumption
      <4>3. PICK k \in 1 .. Len(Image) : k = m + 1
        BY <3>1, <4>1, <4>2
      <4>4. Image[k] \in Nat
        BY <4>2
      <4>5. k = n * ENTRIES + i + 1
        BY <4>1, <4>3
      <4> QED BY <4>4, <4>5
    <3>2. \A i \in Index : a.page[s.next][i] \in Nat
      <4>1. RamOK(s)
        BY <2>2 DEF Valid
      <4>2. RamOK(a) /\ s.next \in Ram
        BY <1>2, <1>5, <2>1, <4>1, AllocFacts
      <4> QED BY <4>2 DEF RamOK
    <3> QED BY <3>1, <3>2
  <2>4. PICK b : b = Fill(a, s.next, z)
    OBVIOUS
  <2>5. t = MapPage(b, place2[<<p, 3, 0>>], u, s.next, UserFlags)
    BY <1>1, <1>2, <1>5, <2>2, <2>3, <2>4 DEF LoadPage
  <2>6. Lacks(s, place2, p, u)
    BY <2>2, <1>1, <1>3 DEF Lacks, Rooted, ImageUpTo
  <2>11. RamOK(s) /\ RamOK(a) /\ s.next \in Ram /\ a.page[s.next] = ZeroPage
    <3>1. RamOK(s)
      BY <2>2 DEF Valid
    <3> QED BY <1>2, <1>5, <2>1, <3>1, AllocFacts
  <2>12. z = ImagePage(n)
    BY <2>3, <2>11 DEF ImagePage, ZeroPage
  <2>13. b.page[s.next] = z
    BY <2>3, <2>4, <2>11, FillFacts
  <2>7. PICK place3 : NewPage(s, place2, p, u, z, t, place3)
    <3>1. b = a \/ (a.ok /\ \E y \in [Index -> Nat] : b = Fill(a, s.next, y))
      BY <1>5, <2>3, <2>4
    <3>2. a.ok => z = b.page[s.next]
      BY <2>13
    <3> HIDE DEF NewPage
    <3> QED BY <1>2, <2>1, <2>5, <2>6, <3>1, <3>2, UserPage
  <2>8. Fills(r, place, p, t, place3)
    BY <2>7, FillsOn DEF NewPage, ImageUpTo
  <2>9. ASSUME NEW x \in UserPages, x >= USER_BASE + (n + 1) PROVE place3[<<p, 0, x>>] = NULL
    <3>1. x \in Pages /\ x # u /\ x >= USER_BASE + n
      BY <2>9, <1>1, <1>3, RangeFacts
    <3> QED BY <3>1, <2>7 DEF NewPage, ImageUpTo
  <2>14. Lasts(r, place, t)
    BY <1>10, <2>7 DEF Lasts, NewPage
  <2>15. ASSUME t.ok, NEW k \in Nat, k < n + 1 PROVE Shown(t, place3, p, k)
    <3>1. CASE k = n
      <4>1. place3[<<p, 0, u>>] = s.next /\ t.page[s.next] = z
        BY <2>7, <2>15 DEF NewPage
      <4>2. s.next # NULL
        BY <2>11, RangeFacts
      <4> QED BY <3>1, <4>1, <4>2, <2>12, <1>1 DEF Shown
    <3>2. CASE k # n
      <4>1. k < n
        BY <2>15, <3>2
      <4>2. PICK g : g = place2[<<p, 0, USER_BASE + k>>]
        OBVIOUS
      <4>3. g # NULL /\ s.page[g] = ImagePage(k)
        BY <2>1, <4>1, <4>2 DEF ImageUpTo, Shown
      <4>4. PICK x \in Pages : x = USER_BASE + k
        <5>1. USER_BASE + k \in UserPages
          BY <4>1, Constants, ImageFits DEF UserPages
        <5> QED BY <5>1, RangeFacts
      <4>5. PICK key : key = <<p, 0, x>>
        OBVIOUS
      <4>6. key \in FrameKeys /\ key \in Keys /\ key[2] = 0
        <5>1. p \in Owners /\ p # TEMPLATE
          BY RangeFacts DEF Rooted
        <5> QED BY <5>1, <4>5, KeyFacts
      <4>7. g \in Given(s) /\ Spare(place2, g)
        BY <4>2, <4>3, <4>4, <4>5, <4>6, <2>2 DEF Valid, Placement, Spare
      <4>8. t.page[g] = s.page[g] /\ place3[key] = g
        BY <2>7, <4>2, <4>3, <4>4, <4>5, <4>6, <4>7 DEF NewPage, Fills, Widens, Keeps
      <4> QED BY <4>3, <4>4, <4>5, <4>8 DEF Shown
    <3> QED BY <3>1, <3>2
  <2>16. ImageUpTo(r, place, p, n + 1, t, place3)
    BY <2>8, <2>9, <2>14, <2>15 DEF ImageUpTo
  <2> QED BY <2>16
<1> QED BY <1>4, <1>5

(* The image is loaded.                                                    *)
LEMMA LoadImageFacts ==
  ASSUME NEW r, NEW place, NEW p, Rooted(r, place, p), NEW s, s = LoadImage(r, place[<<p, 3, 0>>])
  PROVE  \E place2 : ImageUpTo(r, place, p, IMAGE_PAGES, s, place2)
<1>1. PICK root : root = place[<<p, 3, 0>>]
  OBVIOUS
<1>2. PICK after : Loop(FALSE, root, r, 0, IMAGE_PAGES, after) /\ s = after[IMAGE_PAGES]
  BY <1>1, LoadImageLoop
<1>3. \A n \in 0 .. IMAGE_PAGES : after[n] = IF n = 0 THEN r ELSE LoadPage(after[n - 1], root, n - 1)
  BY <1>2 DEF Loop, Body
<1>4. 0 \in Int /\ IMAGE_PAGES \in Int /\ 0 <= IMAGE_PAGES
  BY ImageFits
<1> DEFINE G == {n \in 0 .. IMAGE_PAGES : \E place2 : ImageUpTo(r, place, p, n, after[n], place2)}
<1>5. 0 \in G
  <2>1. after[0] = r
    BY <1>3, <1>4
  <2>2. Fills(r, place, p, r, place)
    BY FillsNothing DEF Rooted
  <2>3. ImageUpTo(r, place, p, 0, r, place)
    BY <2>2 DEF ImageUpTo, Rooted, Lasts
  <2> QED BY <1>4, <2>1, <2>3
<1>6. ASSUME NEW n \in 0 .. IMAGE_PAGES - 1, n \in G PROVE n + 1 \in G
  <2>1. PICK place2 : ImageUpTo(r, place, p, n, after[n], place2)
    BY <1>6
  <2>2. n \in Nat /\ n < IMAGE_PAGES /\ n + 1 \in 0 .. IMAGE_PAGES
    BY <1>4
  <2>3. after[n + 1] = LoadPage(after[n], root, n)
    <3>1. PICK m \in 0 .. IMAGE_PAGES : m = n + 1
      BY <2>2
    <3>2. m # 0 /\ m - 1 = n
      BY <3>1, <2>2
    <3> QED BY <3>1, <3>2, <1>3
  <2>4. PICK place3 : ImageUpTo(r, place, p, n + 1, after[n + 1], place3)
    BY <1>1, <2>1, <2>2, <2>3, ImageNext
  <2> QED BY <2>2, <2>4
<1>7. IMAGE_PAGES \in G
  <2> HIDE DEF G
  <2> QED BY <1>4, <1>5, <1>6, UpTo
<1> QED BY <1>2, <1>7

(* On a stopped machine nothing is loaded.                                 *)
LEMMA LoadImageStopped ==
  ASSUME NEW r, ~ r.ok, NEW root, NEW s, s = LoadImage(r, root)
  PROVE  s = r
<1>1. PICK after : Loop(FALSE, root, r, 0, IMAGE_PAGES, after) /\ s = after[IMAGE_PAGES]
  BY LoadImageLoop
<1>2. \A n \in 0 .. IMAGE_PAGES : after[n] = IF n = 0 THEN r ELSE LoadPage(after[n - 1], root, n - 1)
  BY <1>1 DEF Loop, Body
<1>3. 0 \in Int /\ IMAGE_PAGES \in Int /\ 0 <= IMAGE_PAGES
  BY ImageFits
<1> DEFINE G == {n \in 0 .. IMAGE_PAGES : after[n] = r}
<1>4. 0 \in G
  BY <1>2, <1>3
<1>5. ASSUME NEW n \in 0 .. IMAGE_PAGES - 1, n \in G PROVE n + 1 \in G
  <2>1. PICK m \in 0 .. IMAGE_PAGES : m = n + 1
    BY <1>3
  <2>2. after[m] = LoadPage(r, root, n)
    BY <1>2, <1>3, <1>5, <2>1
  <2>3. LoadPage(r, root, n) = r
    BY AllocStopped DEF LoadPage
  <2> QED BY <2>1, <2>2, <2>3
<1>6. IMAGE_PAGES \in G
  <2> HIDE DEF G
  <2> QED BY <1>3, <1>4, <1>5, UpTo
<1> QED BY <1>1, <1>6

(* On a stopped machine nothing is mapped.                                 *)
LEMMA MapKernelStopped ==
  ASSUME NEW r, RamOK(r), ~ r.ok, NEW root, NEW s, s = MapKernel(r, root)
  PROVE  s = r
<1>1. PICK after : Loop(TRUE, root, r, KERNEL_BASE, FREE_RAM_END, after) /\ s = after[FREE_RAM_END]
  BY MapKernelLoop
<1>2. \A n \in KERNEL_BASE .. FREE_RAM_END :
        after[n] = IF n = KERNEL_BASE THEN r ELSE MapPage(after[n - 1], root, n - 1, n - 1, KernelFlags)
  BY <1>1 DEF Loop, Body
<1>3. KERNEL_BASE \in Int /\ FREE_RAM_END \in Int /\ KERNEL_BASE <= FREE_RAM_END
  BY Constants
<1> DEFINE G == {n \in KERNEL_BASE .. FREE_RAM_END : after[n] = r}
<1>4. KERNEL_BASE \in G
  BY <1>2, <1>3
<1>5. Stop(r) = r
  BY DEF Stop, RamOK
<1>6. ASSUME NEW n \in KERNEL_BASE .. FREE_RAM_END - 1, n \in G PROVE n + 1 \in G
  <2>1. PICK m \in KERNEL_BASE .. FREE_RAM_END : m = n + 1
    BY <1>3
  <2>2. after[m] = MapPage(r, root, n, n, KernelFlags)
    BY <1>2, <1>3, <1>6, <2>1
  <2>3. MapPage(r, root, n, n, KernelFlags) = Stop(r)
    BY DEF MapPage
  <2> QED BY <1>5, <2>1, <2>2, <2>3
<1>7. FREE_RAM_END \in G
  <2> HIDE DEF G
  <2> QED BY <1>3, <1>4, <1>6, UpTo
<1> QED BY <1>1, <1>7
-----------------------------------------------------------------------------
(* create_page_table.                                                      *)

(* Frame g may be the root of owner o: its entries are those that the      *)
(* owner's placement wants.                                                *)
CanRoot(r, place, o, g) ==
  /\ Valid(r, place) /\ o \in Owners /\ place[<<o, 3, 0>>] = NULL
  /\ g \in Given(r) /\ \A a \in FrameKeys : place[a] # g
  /\ \A v \in Pages : r.page[g][PtIndex(v, 2)] = Entry(place, Holder(o, v), 2, v)

(* It becomes that.                                                        *)
LEMMA NewRoot ==
  ASSUME NEW r, NEW place, NEW o, NEW g, CanRoot(r, place, o, g), NEW key, key = <<o, 3, 0>>
  PROVE  \E place2 : Linked(r, place, r, place2, key, g)
<1>1. PICK place2 : place2 = [place EXCEPT ![key] = g]
  OBVIOUS
<1>2. /\ RamOK(r) /\ Placement(r, place) /\ Holds(r, place) /\ place \in [Keys -> Ram \cup {NULL}]
      /\ o \in Owners /\ place[key] = NULL
      /\ g \in Given(r) /\ g \in Ram /\ g # NULL /\ \A a \in FrameKeys : place[a] # g
      /\ \A v \in Pages : r.page[g][PtIndex(v, 2)] = Entry(place, Holder(o, v), 2, v)
  BY RangeFacts DEF CanRoot, Valid, Placement, Given
<1>3. key \in Keys /\ key \in FrameKeys /\ FrameKeys \subseteq Keys
  BY <1>2, RangeFacts, KeyFacts DEF FrameKeys
<1>4. /\ place2 \in [Keys -> Ram \cup {NULL}] /\ place2[key] = g
      /\ \A a \in Keys : a # key => place2[a] = place[a]
  BY <1>1, <1>2, <1>3
<1>5. \A q \in Owners, m \in 0 .. 2, x \in Pages : place2[<<q, m, x>>] = place[<<q, m, x>>]
  <2> SUFFICES ASSUME NEW q \in Owners, NEW m \in 0 .. 2, NEW x \in Pages
               PROVE  place2[<<q, m, x>>] = place[<<q, m, x>>]
    OBVIOUS
  <2>1. <<q, m, x>> \in Keys /\ <<q, m, x>> # key
    BY KeyFacts
  <2> QED BY <2>1, <1>4
<1>6. \A q \in Owners, w \in Pages, m \in 0 .. 2 : Entry(place2, q, m, w) = Entry(place, q, m, w)
  BY <1>5, PrefixFacts DEF Entry
<1>7. Placement(r, place2)
  <2>1. \A a, b \in FrameKeys : place2[a] = place2[b] /\ place2[a] # NULL => a = b
    <3>1. \A a, b \in FrameKeys : place[a] = place[b] /\ place[a] # NULL => a = b
      BY <1>2 DEF Placement
    <3> QED BY <3>1, <1>2, <1>3, <1>4
  <2>2. \A a \in FrameKeys : place2[a] # NULL => place2[a] \in Given(r)
    <3>1. \A a \in FrameKeys : place[a] # NULL => place[a] \in Given(r)
      BY <1>2 DEF Placement
    <3> QED BY <3>1, <1>2, <1>3, <1>4
  <2>3. \A x \in Pages : place2[<<TEMPLATE, 0, x>>] \in {NULL, x}
    <3>1. \A x \in Pages : place[<<TEMPLATE, 0, x>>] \in {NULL, x}
      BY <1>2 DEF Placement
    <3> QED BY <3>1, <1>5, RangeFacts
  <2>4. ASSUME NEW q \in Owners, NEW x \in Pages, place2[<<q, 3, x>>] # NULL PROVE x = 0
    <3>1. <<q, 3, x>> \in Keys
      BY KeyFacts
    <3>2. \A y \in Pages : place[<<q, 3, y>>] # NULL => y = 0
      BY <1>2 DEF Placement
    <3>3. CASE <<q, 3, x>> = key
      BY <3>3
    <3>4. CASE <<q, 3, x>> # key
      BY <3>1, <3>2, <3>4, <2>4, <1>4
    <3> QED BY <3>3, <3>4
  <2>5. ASSUME NEW q \in Owners, NEW m \in 0 .. 2, NEW x \in Pages, place2[<<q, m, x>>] # NULL
        PROVE  \E w \in PagesOf(q) : x = Prefix(w, m) /\ place2[<<q, m + 1, Above(w, m + 1)>>] # NULL
    <3>1. place[<<q, m, x>>] # NULL
      BY <2>5, <1>5
    <3>2. PICK w \in PagesOf(q) : x = Prefix(w, m) /\ place[<<q, m + 1, Above(w, m + 1)>>] # NULL
      BY <3>1, <1>2 DEF Placement
    <3>3. m + 1 \in 0 .. 3 /\ Above(w, m + 1) \in Pages
      BY RangeFacts, PrefixFacts DEF Above
    <3>4. <<q, m + 1, Above(w, m + 1)>> \in Keys
      BY <3>3, KeyFacts
    <3>5. place2[<<q, m + 1, Above(w, m + 1)>>] # NULL
      BY <3>2, <3>4, <1>2, <1>4
    <3> QED BY <3>2, <3>5
  <2> QED BY <2>1, <2>2, <2>3, <2>4, <2>5, <1>4 DEF Placement
<1>8. ASSUME NEW q \in Owners, NEW v \in Pages, place2[<<q, 3, 0>>] # NULL
      PROVE  r.page[place2[<<q, 3, 0>>]][PtIndex(v, 2)] = Entry(place2, Holder(q, v), 2, v)
  <2>1. <<q, 3, 0>> \in Keys /\ Holder(q, v) \in Owners
    BY KeyFacts, RangeFacts, HolderFacts
  <2>2. Entry(place2, Holder(q, v), 2, v) = Entry(place, Holder(q, v), 2, v)
    <3>1. 2 \in 0 .. 2
      OBVIOUS
    <3> QED BY <2>1, <3>1, <1>6, Zenon
  <2>3. CASE q = o
    BY <2>2, <2>3, <1>2, <1>4
  <2>4. CASE q # o
    <3>1. place2[<<q, 3, 0>>] = place[<<q, 3, 0>>]
      BY <2>1, <2>4, <1>4
    <3> QED BY <3>1, <2>2, <1>2, <1>8 DEF Holds
  <2> QED BY <2>3, <2>4
<1>9. ASSUME NEW q \in Owners, NEW v \in Pages, NEW l \in 0 .. 1, place2[<<q, l + 1, Prefix(v, l + 1)>>] # NULL
      PROVE  r.page[place2[<<q, l + 1, Prefix(v, l + 1)>>]][PtIndex(v, l)] = Entry(place2, q, l, v)
  <2>1. l + 1 \in 0 .. 2 /\ l \in 0 .. 2 /\ Prefix(v, l + 1) \in Pages
    BY PrefixFacts
  <2>2. place2[<<q, l + 1, Prefix(v, l + 1)>>] = place[<<q, l + 1, Prefix(v, l + 1)>>]
    BY <2>1, <1>5
  <2>3. r.page[place[<<q, l + 1, Prefix(v, l + 1)>>]][PtIndex(v, l)] = Entry(place, q, l, v)
    BY <2>2, <1>2, <1>9 DEF Holds
  <2> QED BY <2>1, <2>2, <2>3, <1>6
<1>10. Valid(r, place2)
  BY <1>2, <1>7, <1>8, <1>9 DEF Valid, Holds
<1> QED BY <1>4, <1>10 DEF Linked

(* There is nothing below a root that is not there.                        *)
LEMMA NoRoot ==
  ASSUME NEW r, NEW place, Placement(r, place), NEW o, o \in Owners, place[<<o, 3, 0>>] = NULL
  PROVE  Nothing(place, o)
<1>2. \A q \in Owners, w \in Pages, l \in 0 .. 1 :
        place[<<q, l + 1, Prefix(w, l + 1)>>] = NULL => place[<<q, l, Prefix(w, l)>>] = NULL
  BY NothingBelow
<1> SUFFICES ASSUME NEW v \in Pages PROVE \A l \in 0 .. 2 : place[<<o, l, Prefix(v, l)>>] = NULL
  BY DEF Nothing
<1>1. place[<<o, 2, Prefix(v, 2)>>] = NULL
  <2> SUFFICES ASSUME place[<<o, 2, Prefix(v, 2)>>] # NULL PROVE FALSE
    OBVIOUS
  <2>1. 2 \in 0 .. 2 /\ Prefix(v, 2) \in Pages
    BY PrefixFacts
  <2>2. PICK w \in PagesOf(o) : place[<<o, 2 + 1, Above(w, 2 + 1)>>] # NULL
    BY <2>1 DEF Placement
  <2> QED BY <2>2 DEF Above
<1>3. place[<<o, 1, Prefix(v, 1)>>] = NULL
  <2>1. 1 \in 0 .. 1 /\ 1 + 1 = 2
    OBVIOUS
  <2>2. place[<<o, 1 + 1, Prefix(v, 1 + 1)>>] = NULL => place[<<o, 1, Prefix(v, 1)>>] = NULL
    BY <1>2, <2>1, Zenon
  <2> QED BY <1>1, <2>1, <2>2
<1>4. place[<<o, 0, Prefix(v, 0)>>] = NULL
  <2>1. 0 \in 0 .. 1 /\ 0 + 1 = 1
    OBVIOUS
  <2>2. place[<<o, 0 + 1, Prefix(v, 0 + 1)>>] = NULL => place[<<o, 0, Prefix(v, 0)>>] = NULL
    BY <1>2, <2>1, Zenon
  <2> QED BY <1>3, <2>1, <2>2
<1> QED BY <1>1, <1>3, <1>4

(* The state in which create_page_table is called for process p.           *)
Creates(r, place, template, p) ==
  /\ Valid(r, place) /\ Accounted(r, place, {}) /\ r.ok
  /\ p \in Procs /\ place[<<p, 3, 0>>] = NULL
  /\ template = place[<<TEMPLATE, 3, 0>>]
  /\ template # NULL => \A k \in Ram : place[<<TEMPLATE, 0, k>>] = k
  /\ template = NULL => \A q \in Procs : place[<<q, 3, 0>>] = NULL

(* The template is there, or the machine stopped; the processes have what  *)
(* they had.                                                               *)
HasTemplate(r, place, built, from, place2) ==
  /\ Valid(built, place2) /\ Given(r) \subseteq Given(built)
  /\ \A a \in Keys : place[a] # NULL => place2[a] = place[a]
  /\ \A q \in Procs, l \in 0 .. 3, x \in Pages : place2[<<q, l, x>>] = place[<<q, l, x>>]
  /\ Roomy(place) => built.ok
  /\ built.ok => /\ from = place2[<<TEMPLATE, 3, 0>>] /\ from # NULL
                 /\ Accounted(built, place2, {})
                 /\ \A k \in Ram : place2[<<TEMPLATE, 0, k>>] = k

(* The first call makes the template.                                      *)
LEMMA FirstCall ==
  ASSUME NEW r, NEW place, NEW p, Creates(r, place, NULL, p),
         NEW built, built = MapKernel(AllocPage(r), r.next)
  PROVE  \E place2 : HasTemplate(r, place, built, r.next, place2)
<1>1. /\ Valid(r, place) /\ RamOK(r) /\ r.ok /\ Placement(r, place) /\ TEMPLATE \in Owners
      /\ place[<<TEMPLATE, 3, 0>>] = NULL /\ Accounted(r, place, {})
      /\ \A q \in Procs : place[<<q, 3, 0>>] = NULL
  BY RangeFacts DEF Creates, Valid
<1>2. PICK first : first = AllocPage(r)
  OBVIOUS
<1>3. PICK g : g = r.next
  OBVIOUS
<1>4. Valid(first, place) /\ RamOK(first) /\ Given(r) \subseteq Given(first)
  BY <1>1, <1>2, AllocValid, AllocFacts
<1>5. CASE ~ first.ok
  <2>1. built = first
    BY <1>2, <1>4, <1>5, MapKernelStopped
  <2>2. ~ Roomy(place)
    <3>1. r.next = FREE_RAM_END
      BY <1>1, <1>2, <1>5, AllocFacts
    <3> QED BY <3>1, <1>1, RootHasRoom
  <2>3. HasTemplate(r, place, built, r.next, place)
    BY <2>1, <2>2, <1>4, <1>5 DEF HasTemplate
  <2> QED BY <2>3
<1>6. CASE first.ok
  <2>1. /\ g \in Ram /\ g # NULL /\ Given(first) = Given(r) \cup {g} /\ first.page[g] = ZeroPage
        /\ \A a \in FrameKeys : place[a] # g
    BY <1>1, <1>2, <1>3, <1>6, AllocFacts, AllocValid, RangeFacts
  <2>2. \A v \in Pages, l \in 0 .. 2 : place[<<TEMPLATE, l, Prefix(v, l)>>] = NULL
    <3>1. Nothing(place, TEMPLATE)
      BY <1>1, NoRoot
    <3> QED BY <3>1 DEF Nothing
  <2>3. CanRoot(first, place, TEMPLATE, g)
    <3>1. ASSUME NEW v \in Pages PROVE first.page[g][PtIndex(v, 2)] = Entry(place, Holder(TEMPLATE, v), 2, v)
      <4>1. Holder(TEMPLATE, v) = TEMPLATE
        BY DEF Holder
      <4>2. Entry(place, TEMPLATE, 2, v) = 0
        <5>1. 2 \in 0 .. 2
          OBVIOUS
        <5>2. place[<<TEMPLATE, 2, Prefix(v, 2)>>] = NULL
          BY <2>2, <5>1, Zenon
        <5> QED BY <5>2 DEF Entry
      <4>3. PtIndex(v, 2) \in Index
        BY PrefixFacts
      <4> QED BY <2>1, <4>1, <4>2, <4>3 DEF ZeroPage
    <3> QED BY <1>1, <1>4, <2>1, <3>1 DEF CanRoot
  <2>4. PICK key : key = <<TEMPLATE, 3, 0>>
    OBVIOUS
  <2>5. PICK place1 : Linked(first, place, first, place1, key, g)
    BY <2>3, <2>4, NewRoot
  <2>6. /\ Valid(first, place1) /\ place1[key] = g
        /\ \A a \in Keys : a # key => place1[a] = place[a]
    BY <2>5 DEF Linked
  <2>7. /\ \A q \in Procs, l \in 0 .. 3, x \in Pages : place1[<<q, l, x>>] = place[<<q, l, x>>]
        /\ \A k \in Ram : place1[<<TEMPLATE, 0, k>>] = NULL
    <3>1. ASSUME NEW q \in Procs, NEW l \in 0 .. 3, NEW x \in Pages
          PROVE  place1[<<q, l, x>>] = place[<<q, l, x>>]
      <4>1. <<q, l, x>> \in Keys /\ <<q, l, x>> # key
        BY <2>4, RangeFacts, KeyFacts
      <4> QED BY <4>1, <2>6
    <3>2. ASSUME NEW k \in Ram PROVE place1[<<TEMPLATE, 0, k>>] = NULL
      <4>1. k \in Pages /\ Prefix(k, 0) = k
        BY RangeFacts, PrefixFacts
      <4>2. <<TEMPLATE, 0, k>> \in Keys /\ <<TEMPLATE, 0, k>> # key
        BY <2>4, <4>1, RangeFacts, KeyFacts
      <4>3. place[<<TEMPLATE, 0, Prefix(k, 0)>>] = NULL
        <5>1. 0 \in 0 .. 2
          OBVIOUS
        <5> QED BY <4>1, <2>2, <5>1, Zenon
      <4> QED BY <4>1, <4>2, <4>3, <2>6
    <3> QED BY <3>1, <3>2
  <2>8. Bare(first, place1)
    BY <1>1, <2>1, <2>4, <2>6, <2>7, RangeFacts DEF Bare
  <2>9. PICK place2 : KernelUpTo(first, place1, FREE_RAM_END, built, place2)
    <3>1. built = MapKernel(first, place1[<<TEMPLATE, 3, 0>>])
      BY <1>2, <1>3, <2>4, <2>6
    <3> QED BY <2>8, <3>1, MapKernelFacts
  <2>10. Fills(first, place1, TEMPLATE, built, place2)
    BY <2>9 DEF KernelUpTo
  <2>11. /\ Valid(built, place2) /\ Given(first) \subseteq Given(built)
         /\ \A a \in Keys : place1[a] # NULL => place2[a] = place1[a]
         /\ \A a \in Keys : place2[a] # place1[a] => \E l \in 0 .. 2, x \in Pages : a = <<TEMPLATE, l, x>>
         /\ built.ok => \A W : Accounted(first, place1, W) => Accounted(built, place2, W)
    BY <2>10 DEF Fills, Widens
  <2>12. key \in Keys /\ key \in FrameKeys /\ place[key] = NULL
    BY <1>1, <2>4, RangeFacts, KeyFacts
  <2>13. \A a \in Keys : place[a] # NULL => place2[a] = place[a]
    BY <2>6, <2>11, <2>12
  <2>14. ASSUME NEW q \in Procs, NEW l \in 0 .. 3, NEW x \in Pages
         PROVE  place2[<<q, l, x>>] = place[<<q, l, x>>]
    <3>1. <<q, l, x>> \in Keys /\ q # TEMPLATE
      BY RangeFacts, KeyFacts
    <3>2. place2[<<q, l, x>>] = place1[<<q, l, x>>]
      BY <3>1, <2>11
    <3> QED BY <3>2, <2>7
  <2>15. Accounted(first, place1, {})
    <3> SUFFICES ASSUME NEW f \in Given(first) PROVE \E a \in FrameKeys : place1[a] = f
      BY DEF Accounted
    <3>1. CASE f = g
      BY <3>1, <2>6, <2>12
    <3>2. CASE f # g
      <4>1. PICK a \in FrameKeys : place[a] = f
        BY <3>2, <1>1, <2>1 DEF Accounted
      <4>2. a \in Keys /\ f # NULL
        BY RangeFacts DEF FrameKeys, Given
      <4> QED BY <4>1, <4>2, <2>6, <2>12
    <3> QED BY <3>1, <3>2
  <2>16. built.ok => \A k \in Ram : place2[<<TEMPLATE, 0, k>>] = k
    BY <2>9, Constants DEF KernelUpTo, Ram
  <2>17. place2[<<TEMPLATE, 3, 0>>] = g
    BY <2>1, <2>4, <2>6, <2>11, <2>12
  <2>18. Roomy(place) => built.ok
    <3> SUFFICES ASSUME Roomy(place) PROVE built.ok
      OBVIOUS
    <3>1. \A q \in Procs, l \in 0 .. 2, x \in Pages : place1[<<q, l, x>>] = place[<<q, l, x>>]
      BY <2>7
    <3>2. Roomy(place1)
      BY <3>1, RoomKept
    <3> QED BY <3>2, <1>6, <2>9, <2>15 DEF KernelUpTo, Lasts
  <2>19. HasTemplate(r, place, built, r.next, place2)
    BY <1>3, <1>4, <2>1, <2>11, <2>13, <2>14, <2>15, <2>16, <2>17, <2>18 DEF HasTemplate
  <2> QED BY <2>19
<1> QED BY <1>5, <1>6

(* The template has nothing outside the kernel's half.                     *)
LEMMA NotOfTheKernel ==
  ASSUME NEW r, NEW place, Placement(r, place)
  PROVE  \A w \in Pages : ~ KernelTop(w) => place[<<TEMPLATE, 2, Prefix(w, 2)>>] = NULL
<1> SUFFICES ASSUME NEW w \in Pages, place[<<TEMPLATE, 2, Prefix(w, 2)>>] # NULL PROVE KernelTop(w)
  OBVIOUS
<1>1. PICK l \in 0 .. 2 : l = 2
  OBVIOUS
<1>2. PICK o \in Owners : o = TEMPLATE
  BY RangeFacts
<1>3. place[<<o, l, Prefix(w, l)>>] # NULL
  BY <1>1, <1>2
<1>4. \E k \in PagesOf(o) : Prefix(k, l) = Prefix(w, l)
  <2>1. PICK x \in Pages : x = Prefix(w, l)
    BY PrefixFacts
  <2>2. \E k \in PagesOf(o) : x = Prefix(k, l) /\ place[<<o, l + 1, Above(k, l + 1)>>] # NULL
    BY <1>3, <2>1 DEF Placement
  <2> QED BY <2>1, <2>2
<1> QED BY <1>1, <1>2, <1>4 DEF KernelTop, PagesOf

(* A copy of the template's root serves as the root of process p.          *)
LEMMA CopiedRoot ==
  ASSUME NEW r, NEW place, NEW p, Valid(r, place), r.ok, p \in Procs, place[<<p, 3, 0>>] = NULL,
         NEW from, from = place[<<TEMPLATE, 3, 0>>], from # NULL,
         NEW s, s = AllocPage(r), s.ok, NEW g, g = r.next,
         NEW t, t = Fill(s, g, s.page[from])
  PROVE  CanRoot(t, place, p, g) /\ Given(t) = Given(r) \cup {g} /\ t.ok
<1>1. /\ RamOK(s) /\ Valid(s, place) /\ Holds(s, place) /\ Placement(s, place)
      /\ g \in Ram /\ Given(s) = Given(r) \cup {g} /\ \A a \in FrameKeys : place[a] # g
  BY AllocFacts, AllocValid DEF Valid
<1>2. from \in Ram /\ TEMPLATE \in Owners /\ p \in Owners /\ p # TEMPLATE
  <2>1. TEMPLATE \in Owners /\ p \in Owners /\ p # TEMPLATE /\ <<TEMPLATE, 3, 0>> \in Keys
    BY RangeFacts, KeyFacts
  <2> QED BY <2>1, <1>1 DEF Placement
<1>3. s.page[from] \in [Index -> Nat]
  BY <1>1, <1>2 DEF RamOK
<1>4. /\ RamOK(t) /\ t.ok /\ Given(t) = Given(s) /\ t.page[g] = s.page[from]
      /\ \A f \in Ram : f # g => t.page[f] = s.page[f]
  BY <1>1, <1>3, FillFacts
<1>5. Valid(t, place)
  <2>1. KeepsTables(place, s, t)
    <3> SUFFICES ASSUME NEW o \in Owners, NEW l \in 1 .. 3, NEW x \in Pages, place[<<o, l, x>>] # NULL
                 PROVE  t.page[place[<<o, l, x>>]] = s.page[place[<<o, l, x>>]]
      BY DEF KeepsTables
    <3>1. place[<<o, l, x>>] \in Ram
      BY <1>1, TableFacts
    <3>2. <<o, l, x>> \in FrameKeys
      BY KeyFacts
    <3> QED BY <3>1, <3>2, <1>1, <1>4
  <2>2. RamOK(t) /\ Given(s) \subseteq Given(t)
    BY <1>4
  <2> QED BY <2>1, <2>2, <1>1, TablesKept
<1>6. ASSUME NEW v \in Pages PROVE t.page[g][PtIndex(v, 2)] = Entry(place, Holder(p, v), 2, v)
  <2>1. Holder(TEMPLATE, v) = TEMPLATE
    BY DEF Holder
  <2>2. s.page[from][PtIndex(v, 2)] = Entry(place, TEMPLATE, 2, v)
    BY <2>1, <1>1, <1>2 DEF Holds
  <2>3. CASE KernelTop(v)
    BY <2>2, <2>3, <1>4 DEF Holder
  <2>4. CASE ~ KernelTop(v)
    <3>1. 2 \in 0 .. 2 /\ Prefix(v, 2) \in Pages
      BY PrefixFacts
    <3>2. place[<<TEMPLATE, 2, Prefix(v, 2)>>] = NULL
      <4>1. \A w \in Pages : ~ KernelTop(w) => place[<<TEMPLATE, 2, Prefix(w, 2)>>] = NULL
        BY <1>1, NotOfTheKernel
      <4> QED BY <4>1, <2>4
    <3>3. place[<<p, 2, Prefix(v, 2)>>] = NULL
      <4>1. Nothing(place, p)
        BY <1>1, <1>2, NoRoot
      <4> QED BY <3>1, <4>1, Zenon DEF Nothing
    <3>4. Entry(place, TEMPLATE, 2, v) = 0 /\ Entry(place, p, 2, v) = 0
      BY <3>2, <3>3 DEF Entry
    <3> QED BY <2>2, <2>4, <3>4, <1>4 DEF Holder
  <2> QED BY <2>3, <2>4
<1> QED BY <1>1, <1>2, <1>4, <1>5, <1>6 DEF CanRoot

\* The user pages of place are not touched.
PagesKept(r, place, s) ==
  \A q \in Procs, x \in Pages :
    place[<<q, 0, x>>] # NULL => s.page[place[<<q, 0, x>>]] = r.page[place[<<q, 0, x>>]]

(* The table is made, or the machine stops, which it does not at boot.     *)
Created(r, place, p, c, place2) ==
  /\ PagesKept(r, place, c.ram) /\ (Roomy(place) => c.ram.ok)
  /\ Valid(c.ram, place2) /\ Given(r) \subseteq Given(c.ram)
  /\ \A a \in Keys : place[a] # NULL => place2[a] = place[a]
  /\ c.template \in Ram \cup {NULL} /\ c.root \in Ram \cup {NULL}
  /\ c.ram.ok => /\ c.template = place2[<<TEMPLATE, 3, 0>>] /\ c.template # NULL
                 /\ c.root = place2[<<p, 3, 0>>] /\ c.root # NULL
                 /\ Accounted(c.ram, place2, {})
                 /\ \A k \in Ram : place2[<<TEMPLATE, 0, k>>] = k
                 /\ \A q \in Procs, l \in 0 .. 3, x \in Pages :
                      <<q, l, x>> # <<p, 3, 0>> => place2[<<q, l, x>>] = place[<<q, l, x>>]

(* create_page_table does that.                                            *)
LEMMA CreateFacts ==
  ASSUME NEW r, NEW place, NEW template, NEW p, Creates(r, place, template, p),
         NEW c, c = CreatePageTable(r, template)
  PROVE  \E place2 : Created(r, place, p, c, place2)
<1>1. /\ Valid(r, place) /\ Accounted(r, place, {}) /\ r.ok /\ RamOK(r)
      /\ p \in Procs /\ place[<<p, 3, 0>>] = NULL /\ template = place[<<TEMPLATE, 3, 0>>]
      /\ template \in Ram \cup {NULL}
  <2>1. <<TEMPLATE, 3, 0>> \in Keys
    BY RangeFacts, KeyFacts
  <2> QED BY <2>1 DEF Creates, Valid, Placement
<1>2. PICK built : built = IF template # NULL THEN r ELSE MapKernel(AllocPage(r), r.next)
  OBVIOUS
<1>3. PICK from : from = IF template # NULL THEN template ELSE r.next
  OBVIOUS
<1>4. PICK place1 : HasTemplate(r, place, built, from, place1)
  <2>1. CASE template # NULL
    <3>1. HasTemplate(r, place, built, from, place)
      BY <2>1, <1>1, <1>2, <1>3 DEF HasTemplate, Creates
    <3> QED BY <3>1
  <2>2. CASE template = NULL
    BY <2>2, <1>2, <1>3, FirstCall
  <2> QED BY <2>1, <2>2
<1>5. /\ Valid(built, place1) /\ RamOK(built) /\ Given(r) \subseteq Given(built)
      /\ \A a \in Keys : place[a] # NULL => place1[a] = place[a]
      /\ \A q \in Procs, l \in 0 .. 3, x \in Pages : place1[<<q, l, x>>] = place[<<q, l, x>>]
      /\ built.ok => /\ from = place1[<<TEMPLATE, 3, 0>>] /\ from # NULL
                     /\ Accounted(built, place1, {})
                     /\ \A k \in Ram : place1[<<TEMPLATE, 0, k>>] = k
  BY <1>4 DEF HasTemplate, Valid
<1>6. PICK s : s = AllocPage(built)
  OBVIOUS
<1>7. PICK g : g = built.next
  OBVIOUS
<1>8. PICK t : t = IF s.ok THEN Fill(s, g, s.page[from]) ELSE s
  OBVIOUS
<1>9. /\ c.ram = t
      /\ c.template = IF template # NULL \/ AllocPage(r).ok THEN from ELSE NULL
      /\ c.root = IF s.ok THEN g ELSE NULL
  BY <1>2, <1>3, <1>6, <1>7, <1>8 DEF CreatePageTable
<1>10. c.template \in Ram \cup {NULL}
  <2>1. AllocPage(r).ok => r.next \in Ram
    <3>1. PICK a : a = AllocPage(r)
      OBVIOUS
    <3>2. a.ok => r.next \in Ram
      BY <1>1, <3>1, AllocFacts
    <3> QED BY <3>1, <3>2
  <2> QED BY <2>1, <1>1, <1>3, <1>9
<1>14. PagesKept(r, place, t)
  <2> SUFFICES ASSUME NEW q \in Procs, NEW x \in Pages, NEW f, f = place[<<q, 0, x>>], f # NULL
               PROVE  t.page[f] = r.page[f]
    BY DEF PagesKept
  <2>1. template # NULL
    <3> SUFFICES ASSUME template = NULL PROVE FALSE
      OBVIOUS
    <3>1. q \in Owners /\ place[<<q, 3, 0>>] = NULL /\ Placement(r, place)
      BY <1>1, RangeFacts DEF Creates, Valid
    <3>2. Nothing(place, q)
      BY <3>1, NoRoot
    <3>3. place[<<q, 0, Prefix(x, 0)>>] = NULL
      <4>1. 0 \in 0 .. 2
        OBVIOUS
      <4> QED BY <3>2, <4>1, Zenon DEF Nothing
    <3>4. Prefix(x, 0) = x
      BY PrefixFacts
    <3> QED BY <3>3, <3>4
  <2>2. built = r
    BY <1>2, <2>1
  <2>3. f \in Given(r)
    <3>1. <<q, 0, x>> \in FrameKeys
      BY RangeFacts, KeyFacts
    <3> QED BY <3>1, <1>1 DEF Valid, Placement
  <2>4. s.page[f] = r.page[f]
    BY <1>1, <1>6, <2>2, <2>3, AllocFacts
  <2>5. CASE ~ s.ok
    BY <2>4, <2>5, <1>8
  <2>6. CASE s.ok
    <3>1. RamOK(s) /\ g \in Ram /\ g \notin Given(r)
      BY <1>1, <1>6, <1>7, <2>2, <2>6, AllocFacts
    <3>2. PICK z \in [Index -> Nat] : z = s.page[from]
      <4>1. from \in Ram
        BY <2>1, <1>1, <1>3
      <4> QED BY <3>1, <4>1 DEF RamOK
    <3>3. t = Fill(s, g, z)
      BY <2>6, <1>8, <3>2
    <3>4. f \in Ram /\ f # g
      BY <2>3, <3>1 DEF Given
    <3> QED BY <2>4, <3>1, <3>3, <3>4, FillFacts
  <2> QED BY <2>5, <2>6
<1>15. Roomy(place) => built.ok /\ Roomy(place1)
  <2> SUFFICES ASSUME Roomy(place) PROVE built.ok /\ Roomy(place1)
    OBVIOUS
  <2>1. \A q \in Procs, l \in 0 .. 2, x \in Pages : place1[<<q, l, x>>] = place[<<q, l, x>>]
    BY <1>5
  <2> QED BY <2>1, <1>4, RoomKept DEF HasTemplate
<1>11. CASE ~ built.ok
  <2>1. s = built /\ t = built
    BY <1>6, <1>8, <1>11, AllocStopped
  <2>2. Created(r, place, p, c, place1)
    BY <2>1, <1>5, <1>9, <1>10, <1>11, <1>14, <1>15 DEF Created
  <2> QED BY <2>2
<1>12. CASE built.ok /\ ~ s.ok
  <2>1. t = s /\ Valid(s, place1) /\ Given(built) \subseteq Given(s)
    BY <1>5, <1>6, <1>8, <1>12, AllocValid, AllocFacts
  <2>2. ~ Roomy(place)
    <3> SUFFICES ASSUME Roomy(place) PROVE FALSE
      OBVIOUS
    <3>1. built.next = FREE_RAM_END
      BY <1>5, <1>6, <1>12, AllocFacts
    <3>2. p \in Owners /\ place1[<<p, 3, 0>>] = NULL
      BY <1>1, <1>5, RangeFacts
    <3>3. Accounted(built, place1, {}) /\ Placement(built, place1)
      BY <1>5, <1>12 DEF Valid
    <3> QED BY <3>1, <3>2, <3>3, <1>15, RootHasRoom
  <2>3. Created(r, place, p, c, place1)
    BY <2>1, <2>2, <1>5, <1>9, <1>10, <1>12, <1>14 DEF Created
  <2> QED BY <2>3
<1>13. CASE built.ok /\ s.ok
  <2>1. g \in Ram /\ t = Fill(s, g, s.page[from])
    BY <1>5, <1>6, <1>7, <1>8, <1>13, AllocFacts
  <2>2. place1[<<p, 3, 0>>] = NULL
    BY <1>1, <1>5, RangeFacts
  <2>3. CanRoot(t, place1, p, g) /\ Given(t) = Given(built) \cup {g} /\ t.ok
    BY <2>1, <2>2, <1>1, <1>5, <1>6, <1>7, <1>13, CopiedRoot, SMTT(30)
  <2>4. PICK key : key = <<p, 3, 0>>
    OBVIOUS
  <2>5. PICK place2 : Linked(t, place1, t, place2, key, g)
    BY <2>3, <2>4, NewRoot
  <2>6. Valid(t, place2) /\ place2[key] = g /\ \A a \in Keys : a # key => place2[a] = place1[a]
    BY <2>5 DEF Linked
  <2>7. key \in Keys /\ key \in FrameKeys /\ p # TEMPLATE
    BY <1>1, <2>4, RangeFacts, KeyFacts
  <2>8. \A a \in Keys : place[a] # NULL => place2[a] = place[a]
    BY <1>1, <1>5, <2>2, <2>4, <2>6
  <2>9. Accounted(t, place2, {})
    <3> SUFFICES ASSUME NEW f \in Given(t) PROVE \E a \in FrameKeys : place2[a] = f
      BY DEF Accounted
    <3>1. CASE f = g
      BY <3>1, <2>6, <2>7
    <3>2. CASE f # g
      <4>1. PICK a \in FrameKeys : place1[a] = f
        BY <3>2, <1>5, <1>13, <2>3 DEF Accounted
      <4>2. a \in Keys /\ f # NULL
        BY RangeFacts DEF FrameKeys, Given
      <4> QED BY <4>1, <4>2, <2>2, <2>4, <2>6
    <3> QED BY <3>1, <3>2
  <2>10. /\ place2[<<TEMPLATE, 3, 0>>] = from /\ from # NULL
         /\ \A k \in Ram : place2[<<TEMPLATE, 0, k>>] = k
    <3>1. <<TEMPLATE, 3, 0>> \in Keys /\ <<TEMPLATE, 3, 0>> # key
      BY <2>4, <2>7, RangeFacts, KeyFacts
    <3>2. \A k \in Ram : <<TEMPLATE, 0, k>> \in Keys /\ <<TEMPLATE, 0, k>> # key
      BY <2>4, <2>7, RangeFacts, KeyFacts
    <3> QED BY <3>1, <3>2, <2>6, <1>5, <1>13
  <2>11. ASSUME NEW q \in Procs, NEW l \in 0 .. 3, NEW x \in Pages, <<q, l, x>> # <<p, 3, 0>>
         PROVE  place2[<<q, l, x>>] = place[<<q, l, x>>]
    <3>1. <<q, l, x>> \in Keys
      BY RangeFacts, KeyFacts
    <3> QED BY <3>1, <2>11, <2>4, <2>6, <1>5
  <2>12. c.template = from
    <3>1. template = NULL => AllocPage(r).ok
      <4> SUFFICES ASSUME template = NULL, ~ AllocPage(r).ok PROVE FALSE
        OBVIOUS
      <4>1. PICK a : a = AllocPage(r)
        OBVIOUS
      <4>2. RamOK(a) /\ ~ a.ok
        BY <1>1, <4>1, AllocFacts
      <4>3. built = a
        BY <1>2, <4>1, <4>2, MapKernelStopped
      <4> QED BY <4>2, <4>3, <1>13
    <3> QED BY <3>1, <1>9
  <2>13. Created(r, place, p, c, place2)
    <3>1. c.ram = t /\ c.root = g /\ g # NULL /\ c.root \in Ram
      BY <1>9, <1>13, <2>1, RangeFacts
    <3>2. place2[<<p, 3, 0>>] = g
      BY <2>4, <2>6
    <3> QED BY <3>1, <3>2, <1>5, <1>10, <1>14, <2>3, <2>6, <2>8, <2>9, <2>10, <2>11, <2>12 DEF Created
  <2> QED BY <2>13
<1> QED BY <1>11, <1>12, <1>13
-----------------------------------------------------------------------------
(* What the hart remembers of its walks.                                   *)

(* What was read once is what would be read now.                           *)
Current(r, root, cache) ==
  \A e \in cache : /\ e.level \in 0 .. 2
                   /\ \E v \in Pages : /\ e.prefix = Prefix(v, e.level)
                                       /\ e.pte \in Reads(r, root, {}, v)[e.level]

(* The three reads of a walk.                                              *)
LEMMA ReadsFacts ==
  ASSUME NEW r, NEW root, NEW cache, NEW v, NEW reads, reads = Reads(r, root, cache, v)
  PROVE  /\ reads[2] = Cached(cache, v, 2) \cup {r.page[root][PtIndex(v, 2)]}
         /\ reads[1] = Cached(cache, v, 1) \cup
                         {r.page[PteToPpn(e)][PtIndex(v, 1)] : e \in {d \in reads[2] : Pointer(d)}}
         /\ reads[0] = Cached(cache, v, 0) \cup
                         {r.page[PteToPpn(e)][PtIndex(v, 0)] : e \in {d \in reads[1] : Pointer(d)}}
BY DEF Reads

(* A read of a table, which depends on the prefix of the page alone.       *)
Read(place, h, l, v, e) ==
  /\ e = Entry(place, h, l, v)
  /\ l < 2 => place[<<h, l + 1, Prefix(v, l + 1)>>] # NULL

(* That is what a hart without a memory reads.                             *)
LEMMA FreshReads ==
  ASSUME NEW r, NEW place, Valid(r, place), NEW o \in Owners, place[<<o, 3, 0>>] # NULL,
         NEW root, root = place[<<o, 3, 0>>]
  PROVE  \A v \in Pages, l \in 0 .. 2 : \A e :
           e \in Reads(r, root, {}, v)[l] <=> Read(place, Holder(o, v), l, v, e)
<1> SUFFICES ASSUME NEW v \in Pages, NEW l \in 0 .. 2, NEW e
             PROVE  e \in Reads(r, root, {}, v)[l] <=> Read(place, Holder(o, v), l, v, e)
  OBVIOUS
<1>1. PICK h : h = Holder(o, v)
  OBVIOUS
<1>2. PICK reads : reads = Reads(r, root, {}, v)
  OBVIOUS
<1>3. /\ reads[2] = {Entry(place, h, 2, v)}
      /\ reads[1] = {d \in {Entry(place, h, 1, v)} : place[<<h, 2, Prefix(v, 2)>>] # NULL}
      /\ reads[0] = {d \in {Entry(place, h, 0, v)} : place[<<h, 1, Prefix(v, 1)>>] # NULL}
  <2>1. Walks(r, place, root, h, v, reads)
    BY <1>1, <1>2, WalkFacts
  <2> QED BY <2>1 DEF Walks
<1>4. e \in reads[l] <=> Read(place, h, l, v, e)
  <2>1. CASE l = 2
    BY <2>1, <1>3 DEF Read
  <2>2. CASE l = 1
    BY <2>2, <1>3 DEF Read
  <2>3. CASE l = 0
    BY <2>3, <1>3 DEF Read
  <2> QED BY <2>1, <2>2, <2>3
<1> QED BY <1>1, <1>2, <1>4

(* Pages with a common prefix have a common read.                          *)
LEMMA SameRead ==
  ASSUME NEW place, NEW o, NEW l \in 0 .. 2, NEW v \in Pages, NEW w \in Pages,
         Prefix(v, l) = Prefix(w, l), NEW e, Read(place, Holder(o, v), l, v, e)
  PROVE  Read(place, Holder(o, w), l, w, e)
<1>1. Holder(o, v) = Holder(o, w) /\ \A m \in l .. 2 : Prefix(v, m) = Prefix(w, m)
  BY SamePrefix
<1>2. Entry(place, Holder(o, v), l, v) = Entry(place, Holder(o, w), l, w)
  BY <1>1 DEF Entry
<1>3. l < 2 => Prefix(v, l + 1) = Prefix(w, l + 1)
  BY <1>1
<1> QED BY <1>1, <1>2, <1>3 DEF Read

(* So a hart that remembers what the tables say reads what they say.       *)
LEMMA CacheReads ==
  ASSUME NEW r, NEW place, Valid(r, place), NEW o \in Owners, place[<<o, 3, 0>>] # NULL,
         NEW root, root = place[<<o, 3, 0>>], NEW cache, Current(r, root, cache)
  PROVE  \A v \in Pages, l \in 0 .. 2 : \A e :
           e \in Reads(r, root, cache, v)[l] => Read(place, Holder(o, v), l, v, e)
<1>1. \A v \in Pages, l \in 0 .. 2 : \A e :
        e \in Reads(r, root, {}, v)[l] <=> Read(place, Holder(o, v), l, v, e)
  BY FreshReads
<1> SUFFICES ASSUME NEW v \in Pages
             PROVE  \A l \in 0 .. 2 : \A e :
                      e \in Reads(r, root, cache, v)[l] => Read(place, Holder(o, v), l, v, e)
  OBVIOUS
<1>2. PICK h : h = Holder(o, v)
  OBVIOUS
<1>3. ASSUME NEW l \in 0 .. 2, NEW e \in Cached(cache, v, l) PROVE Read(place, h, l, v, e)
  <2>1. PICK c \in cache : c.level = l /\ c.prefix = Prefix(v, l) /\ c.pte = e
    BY DEF Cached
  <2>2. PICK w \in Pages : c.prefix = Prefix(w, c.level) /\ c.pte \in Reads(r, root, {}, w)[c.level]
    BY DEF Current
  <2>3. Prefix(w, l) = Prefix(v, l) /\ Read(place, Holder(o, w), l, w, e)
    BY <2>1, <2>2, <1>1
  <2> QED BY <2>3, <1>2, SameRead
<1>4. PICK reads : reads = Reads(r, root, cache, v)
  OBVIOUS
<1>5. PICK fresh : fresh = Reads(r, root, {}, v)
  OBVIOUS
<1>6. /\ reads[2] = Cached(cache, v, 2) \cup {r.page[root][PtIndex(v, 2)]}
      /\ reads[1] = Cached(cache, v, 1) \cup
                      {r.page[PteToPpn(e)][PtIndex(v, 1)] : e \in {d \in reads[2] : Pointer(d)}}
      /\ reads[0] = Cached(cache, v, 0) \cup
                      {r.page[PteToPpn(e)][PtIndex(v, 0)] : e \in {d \in reads[1] : Pointer(d)}}
  BY <1>4, ReadsFacts
<1>7. /\ r.page[root][PtIndex(v, 2)] \in fresh[2]
      /\ {r.page[PteToPpn(e)][PtIndex(v, 1)] : e \in {d \in fresh[2] : Pointer(d)}} \subseteq fresh[1]
      /\ {r.page[PteToPpn(e)][PtIndex(v, 0)] : e \in {d \in fresh[1] : Pointer(d)}} \subseteq fresh[0]
  BY <1>5, ReadsFacts
<1>8. \A l \in 0 .. 2 : \A e : e \in fresh[l] <=> Read(place, h, l, v, e)
  BY <1>1, <1>2, <1>5
<1>9. \A e \in reads[2] : e \in fresh[2]
  BY <1>3, <1>6, <1>7, <1>8
<1>10. \A e \in reads[1] : e \in fresh[1]
  BY <1>3, <1>6, <1>7, <1>8, <1>9
<1>11. \A e \in reads[0] : e \in fresh[0]
  BY <1>3, <1>6, <1>7, <1>8, <1>10
<1> QED BY <1>2, <1>4, <1>8, <1>9, <1>10, <1>11

(* The leaf with which it ends is the one of the placement.                *)
LEMMA OneLeaf ==
  ASSUME NEW r, NEW place, Valid(r, place), NEW o \in Owners, place[<<o, 3, 0>>] # NULL,
         NEW root, root = place[<<o, 3, 0>>], NEW cache, Current(r, root, cache), NEW v \in Pages,
         NEW e \in Leaves(r, root, cache, v), NEW h, h = Holder(o, v)
  PROVE  LeadsTo(e, place[<<h, 0, v>>], h, 0)
<1>1. PICK reads : reads = Reads(r, root, cache, v)
  OBVIOUS
<1>2. \A l \in 0 .. 2 : \A d : d \in reads[l] => Read(place, h, l, v, d)
  BY <1>1, CacheReads
<1>3. h \in Owners /\ place \in [Keys -> Ram \cup {NULL}] /\ Placement(r, place)
  BY HolderFacts DEF Valid, Placement
<1>4. Prefix(v, 0) = v
  BY PrefixFacts
<1>5. \A l \in 0 .. 2 : LeadsTo(Entry(place, h, l, v), place[<<h, l, Prefix(v, l)>>], h, l)
  BY <1>3, EntryFacts
<1>6. \A l \in 0 .. 1 : place[<<h, l + 1, Prefix(v, l + 1)>>] = NULL => place[<<h, l, Prefix(v, l)>>] = NULL
  BY <1>3, NothingBelow
<1>7. CASE e \in reads[0]
  <2>1. e = Entry(place, h, 0, v)
    BY <1>2, <1>7 DEF Read
  <2> QED BY <2>1, <1>4, <1>5
<1>8. CASE e = 0 /\ \E d \in reads[1] \cup reads[2] : ~ Pointer(d)
  <2>1. PICK l \in 1 .. 2 : \E d \in reads[l] : ~ Pointer(d)
    BY <1>8
  <2>2. place[<<h, l, Prefix(v, l)>>] = NULL
    BY <2>1, <1>2, <1>5 DEF Read, LeadsTo
  <2>3. place[<<h, 1, Prefix(v, 1)>>] = NULL
    <3>1. CASE l = 1
      BY <2>2, <3>1
    <3>2. CASE l = 2
      BY <2>2, <3>2, <1>6
    <3> QED BY <3>1, <3>2
  <2>4. place[<<h, 0, Prefix(v, 0)>>] = NULL
    BY <2>3, <1>6
  <2> QED BY <2>4, <1>4, <1>8 DEF LeadsTo, NULL
<1>9. \/ e \in reads[0]
      \/ e = 0 /\ \E d \in reads[1] \cup reads[2] : ~ Pointer(d)
  BY <1>1 DEF Leaves
<1> QED BY <1>7, <1>8, <1>9
-----------------------------------------------------------------------------
(* The steps of Memory.                                                    *)

(* A step keeps all that is placed where it is.                            *)
Steps(place, place2) ==
  /\ Describes(place) /\ Valid(ram', place2)
  /\ \A a \in Keys : place[a] # NULL => place2[a] = place[a]
  /\ \A p \in Procs : Made(p) => page_table'[p] = page_table[p]
  /\ mode' # "panic" => Describes(place2)'

(* A step that leaves the tables alone.                                    *)
LEMMA Same ==
  ASSUME NEW place, Describes(place), UNCHANGED <<ram, kernel_page_table, page_table>>,
         mode' = "fault" /\ stval' \in UserPages => place[<<current', 0, stval'>>] = NULL,
         mode' = "boot" => mode = "boot" /\ unsynced' = unsynced
  PROVE  Steps(place, place)
<1>1. Valid(ram', place) /\ Accounted(ram', place, {})
  BY DEF Describes
<1>2. \A p \in Procs : Made(p)' <=> Made(p)
  BY DEF Made
<1>3. Users \subseteq Procs /\ IDLE \in Procs
  BY MemoryAssumption DEF Users, Procs, IDLE
<1>4. Provided(place)'
  BY <1>2, <1>3 DEF Describes, Provided
<1>5. Describes(place)'
  BY <1>1, <1>2, <1>4 DEF Describes, Made
<1> QED BY <1>1, <1>5 DEF Steps

(* While code runs, the hart walks the tables of the current process, and  *)
(* remembers nothing else.                                                 *)
LEMMA Running ==
  ASSUME MemInv, mode \in {"run", "fault"}, NEW place, Describes(place)
  PROVE  /\ Valid(ram, place) /\ current \in Owners /\ current \in Procs
         /\ place[<<current, 3, 0>>] # NULL /\ satp = place[<<current, 3, 0>>]
         /\ Current(ram, satp, tlb) /\ ram.ok
<1>1. TypeOK /\ HartInv /\ TlbIsCurrent
  BY DEF MemInv
<1>2. Current(ram, satp, tlb)
  <2>1. Touched \subseteq Pages
    BY MemoryAssumption DEF Pages
  <2>2. \A e \in tlb : e.level \in 0 .. 2
    BY <1>1 DEF TypeOK
  <2> QED BY <1>1, <2>1, <2>2 DEF TlbIsCurrent, Current
<1> QED BY <1>1, <1>2, RangeFacts DEF TypeOK, HartInv, Describes, Made

(* What a step before a PANIC does.                                        *)
Preserves == MemInv' /\ \E place, place2 : Steps(place, place2)

(* It is enough to look at what the step leads to.                         *)
LEMMA Preserved ==
  ASSUME NEW place, NEW place2, Steps(place, place2), TypeOK',
         mode' # "panic" => HartInv' /\ TlbIsCurrent'
  PROVE  Preserves
BY DEF Preserves, Steps, MemInv

(* yield(): the hart starts with nothing remembered.                       *)
LEMMA YieldStep ==
  ASSUME MemInv, NEW p \in Procs, Yield(p) PROVE Preserves
<1>1. TypeOK /\ HartInv
  BY DEF MemInv, Yield
<1>2. PICK place : Describes(place)
  BY DEF MemInv, Yield
<1>3. Steps(place, place)
  BY <1>2, Same DEF Yield
<1>4. TypeOK'
  BY <1>1 DEF TypeOK, Yield, BARE, NULL
<1>5. HartInv'
  BY <1>1 DEF HartInv, Yield, Made
<1>6. TlbIsCurrent'
  BY DEF TlbIsCurrent, Yield
<1> QED BY <1>3, <1>4, <1>5, <1>6, Preserved

(* A walk of the hart: what it remembers more is what the tables say.      *)
LEMMA TlbFillStep ==
  ASSUME MemInv, NEW v \in Touched, NEW level \in 0 .. 2, TlbFill(v, level) PROVE Preserves
<1>1. TypeOK /\ HartInv /\ TlbIsCurrent /\ mode \in {"run", "fault"}
  BY DEF MemInv, TlbFill, TypeOK, HartInv
<1>2. PICK place : Describes(place)
  BY DEF MemInv, TlbFill
<1>3. Steps(place, place)
  BY <1>2, Same DEF TlbFill, Describes
<1>4. v \in Pages /\ Prefix(v, level) \in Pages
  BY MemoryAssumption, PrefixFacts DEF Pages
<1>5. /\ Valid(ram, place) /\ current \in Owners /\ place[<<current, 3, 0>>] # NULL
      /\ satp = place[<<current, 3, 0>>] /\ Current(ram, satp, tlb) /\ ram.ok
  BY <1>1, <1>2, Running
<1>6. PICK e : /\ e \in Reads(ram, satp, tlb, v)[level]
               /\ tlb' = tlb \cup {[level |-> level, prefix |-> Prefix(v, level), pte |-> e]}
  BY DEF TlbFill
<1>7. Read(place, Holder(current, v), level, v, e)
  BY <1>4, <1>5, <1>6, CacheReads
<1>8. e \in Reads(ram, satp, {}, v)[level]
  BY <1>4, <1>5, <1>7, FreshReads
<1>9. e \in Nat
  <2>1. Holder(current, v) \in Owners /\ place \in [Keys -> Ram \cup {NULL}]
    BY <1>5, HolderFacts DEF Valid, Placement
  <2> QED BY <2>1, <1>4, <1>7, EntryFacts DEF Read, LeadsTo
<1>10. TypeOK'
  BY <1>1, <1>4, <1>6, <1>9 DEF TypeOK, TlbFill, Pages
<1>11. HartInv'
  BY <1>1 DEF HartInv, TlbFill, Made
<1>12. TlbIsCurrent'
  BY <1>1, <1>6, <1>8 DEF TlbIsCurrent, TlbFill
<1> QED BY <1>3, <1>10, <1>11, <1>12, Preserved

(* The hart forgets.                                                       *)
LEMMA TlbEvictStep ==
  ASSUME MemInv, mode # "panic", TlbEvict PROVE Preserves
<1>1. TypeOK /\ HartInv /\ TlbIsCurrent
  BY DEF MemInv
<1>2. PICK place : Describes(place)
  BY DEF MemInv
<1>3. Steps(place, place)
  BY <1>2, Same DEF TlbEvict, Describes
<1>4. TypeOK'
  BY <1>1 DEF TypeOK, TlbEvict
<1>5. HartInv'
  BY <1>1 DEF HartInv, TlbEvict, Made
<1>6. TlbIsCurrent'
  BY <1>1 DEF TlbIsCurrent, TlbEvict
<1> QED BY <1>3, <1>4, <1>5, <1>6, Preserved

(* The leaf that lets user code through is that of a page of its own.      *)
LEMMA AllowedLeaf ==
  ASSUME MemInv, mode = "run", NEW place, Describes(place), NEW v \in Pages,
         NEW e \in Leaves(ram, satp, tlb, v), Has(e, PAGE_U)
  PROVE  /\ PteToPpn(e) = place[<<current, 0, v>>] /\ PteToPpn(e) \in Ram
         /\ current \in Procs
<1>1. /\ Valid(ram, place) /\ current \in Owners /\ current \in Procs
      /\ place[<<current, 3, 0>>] # NULL
      /\ satp = place[<<current, 3, 0>>] /\ Current(ram, satp, tlb)
  BY Running
<1>2. PICK h : h = Holder(current, v)
  OBVIOUS
<1>3. LeadsTo(e, place[<<h, 0, v>>], h, 0)
  BY <1>1, <1>2, OneLeaf
<1>4. place[<<h, 0, v>>] # NULL
  BY <1>3, NoPte DEF LeadsTo
<1>5. h # TEMPLATE
  BY <1>3, <1>4 DEF LeadsTo
<1> QED BY <1>1, <1>2, <1>3, <1>4, <1>5 DEF LeadsTo, Holder

(* User code loads.                                                        *)
LEMMA LoadStep ==
  ASSUME MemInv, NEW v \in Touched, NEW i \in Offsets, Load(v, i) PROVE Preserves
<1>1. TypeOK /\ HartInv /\ TlbIsCurrent /\ mode = "run"
  BY DEF MemInv, Load, UserRuns
<1>2. PICK place : Describes(place)
  BY <1>1 DEF MemInv
<1>3. Steps(place, place)
  BY <1>1, <1>2, Same DEF Load, Describes
<1>4. loaded' \in Nat
  <2>1. PICK e \in Leaves(ram, satp, tlb, v) : Allows(e, PAGE_R) /\ loaded' = ram.page[PteToPpn(e)][i]
    BY DEF Load
  <2>2. v \in Pages /\ i \in Index /\ Has(e, PAGE_U)
    BY <2>1, MemoryAssumption DEF Pages, Allows
  <2>3. PteToPpn(e) \in Ram
    BY <1>1, <1>2, <2>2, AllowedLeaf
  <2> QED BY <1>1, <2>1, <2>2, <2>3 DEF TypeOK
<1>5. TypeOK'
  BY <1>1, <1>4 DEF TypeOK, Load
<1>6. HartInv'
  BY <1>1 DEF HartInv, Load, Made
<1>7. TlbIsCurrent'
  BY <1>1 DEF TlbIsCurrent, Load
<1> QED BY <1>3, <1>5, <1>6, <1>7, Preserved

(* User code is fetched, as it is or as the frame was.                     *)
LEMMA FetchStep ==
  ASSUME MemInv, NEW v \in Code, NEW i \in Offsets, Fetch(v, i) PROVE Preserves
<1>1. TypeOK /\ HartInv /\ TlbIsCurrent /\ mode = "run"
  BY DEF MemInv, Fetch, UserRuns
<1>2. PICK place : Describes(place)
  BY <1>1 DEF MemInv
<1>3. Steps(place, place)
  BY <1>1, <1>2, Same DEF Fetch, Describes
<1>4. loaded' \in Nat
  <2>1. PICK e \in Leaves(ram, satp, tlb, v) :
          Allows(e, PAGE_X) /\ loaded' \in {ram.page[PteToPpn(e)][i], GARBAGE}
    BY DEF Fetch
  <2>2. v \in Pages /\ i \in Index /\ Has(e, PAGE_U) /\ GARBAGE \in Nat
    BY <2>1, MemoryAssumption, Constants DEF Pages, Allows
  <2>3. PteToPpn(e) \in Ram
    BY <1>1, <1>2, <2>2, AllowedLeaf
  <2> QED BY <1>1, <2>1, <2>2, <2>3 DEF TypeOK
<1>5. TypeOK'
  BY <1>1, <1>4 DEF TypeOK, Fetch
<1>6. HartInv'
  BY <1>1 DEF HartInv, Fetch, Made
<1>7. TlbIsCurrent'
  BY <1>1 DEF TlbIsCurrent, Fetch
<1> QED BY <1>3, <1>5, <1>6, <1>7, Preserved

(* What fetches may miss is pages of RAM.                                  *)
LEMMA UnsyncedTyped == ASSUME unsynced \subseteq Ram PROVE Unsynced \subseteq Ram
BY DEF Unsynced

(* User code stores into a page of its own, so no table changes.           *)
LEMMA StoreSparesTables ==
  ASSUME MemInv, NEW v \in Stored, NEW i \in Offsets, NEW word \in Data, Store(v, i, word),
         NEW place, Describes(place)
  PROVE  /\ RamOK(ram') /\ ram'.ok = ram.ok /\ Given(ram') = Given(ram)
         /\ Valid(ram', place)
<1>1. mode = "run"
  BY DEF Store, UserRuns
<1>2. Describes(place)
  OBVIOUS
<1>3. PICK e \in Leaves(ram, satp, tlb, v) : Allows(e, PAGE_W) /\ ram' = Write(ram, PteToPpn(e), i, word)
  BY DEF Store
<1>4. v \in Pages /\ i \in Index /\ word \in Nat /\ Has(e, PAGE_U)
  BY <1>3, MemoryAssumption DEF Pages, Allows
<1>5. PICK f \in Ram : f = PteToPpn(e) /\ f = place[<<current, 0, v>>] /\ current \in Procs
  BY <1>1, <1>2, <1>4, AllowedLeaf
<1>6. /\ Valid(ram, place) /\ RamOK(ram) /\ current \in Owners /\ current # TEMPLATE
      /\ place[<<current, 3, 0>>] # NULL
      /\ satp = place[<<current, 3, 0>>] /\ Current(ram, satp, tlb) /\ ram.ok
  BY <1>1, <1>2, <1>5, Running, RangeFacts DEF Valid
<1>7. /\ RamOK(ram') /\ ram'.ok = ram.ok /\ Given(ram') = Given(ram)
      /\ \A g \in Ram : g # f => ram'.page[g] = ram.page[g]
  <2>1. PICK s : s = ram'
    OBVIOUS
  <2>2. PICK r : r = ram
    OBVIOUS
  <2>3. RamOK(r) /\ s = Write(r, f, i, word)
    BY <2>1, <2>2, <1>3, <1>5, <1>6
  <2>4. /\ RamOK(s) /\ s.ok = r.ok /\ Given(s) = Given(r)
        /\ \A g \in Ram : g # f => s.page[g] = r.page[g]
    BY <2>3, <1>4, WriteFacts
  <2> QED BY <2>1, <2>2, <2>4
<1>8. Valid(ram', place)
  <2>1. ASSUME NEW o \in Owners, NEW l \in 1 .. 3, NEW x \in Pages, place[<<o, l, x>>] # NULL
        PROVE  ram'.page[place[<<o, l, x>>]] = ram.page[place[<<o, l, x>>]]
    <3>1. place[<<o, l, x>>] \in Ram /\ \A a \in FrameKeys : place[a] = place[<<o, l, x>>] => a = <<o, l, x>>
      BY <2>1, <1>6, TableFacts
    <3>2. <<current, 0, v>> \in FrameKeys /\ <<current, 0, v>> # <<o, l, x>>
      BY <1>4, <1>6, KeyFacts
    <3> QED BY <3>1, <3>2, <1>5, <1>7
  <2>2. PICK s : s = ram'
    OBVIOUS
  <2>3. Valid(s, place)
    BY <2>1, <2>2, <1>6, <1>7, TablesKept DEF KeepsTables
  <2> QED BY <2>2, <2>3
<1> QED BY <1>7, <1>8

LEMMA StoreStep ==
  ASSUME MemInv, NEW v \in Stored, NEW i \in Offsets, NEW word \in Data, Store(v, i, word)
  PROVE  Preserves
<1>1. TypeOK /\ HartInv /\ TlbIsCurrent /\ mode = "run"
  BY DEF MemInv, Store, UserRuns
<1>2. PICK place : Describes(place)
  BY <1>1 DEF MemInv
<1>3. /\ Valid(ram, place) /\ current \in Owners /\ place[<<current, 3, 0>>] # NULL
      /\ satp = place[<<current, 3, 0>>] /\ Current(ram, satp, tlb)
  BY <1>1, <1>2, Running
<1>4. /\ RamOK(ram') /\ ram'.ok = ram.ok /\ Given(ram') = Given(ram)
      /\ Valid(ram', place)
  BY <1>2, StoreSparesTables
<1>5. Steps(place, place)
  <2>1. Accounted(ram', place, {})
    BY <1>2, <1>4 DEF Accounted, Describes
  <2>2. Provided(place)'
    BY <1>1, <1>2 DEF Describes, Provided, Store, Made
  <2>3. Describes(place)'
    BY <1>1, <1>2, <1>4, <2>1, <2>2 DEF Describes, Store, Made
  <2> QED BY <1>2, <1>4, <2>3 DEF Steps, Store
<1>6. TypeOK'
  <2>1. Unsynced \subseteq Ram
    BY <1>1, UnsyncedTyped DEF TypeOK
  <2> QED BY <1>1, <1>4, <2>1 DEF TypeOK, RamOK, Store
<1>7. HartInv'
  BY <1>1, <1>4 DEF HartInv, Store, Made
<1>8. TlbIsCurrent'
  <2>1. ASSUME NEW w \in Pages, NEW l \in 0 .. 2, NEW d, d \in Reads(ram, satp, {}, w)[l]
        PROVE  d \in Reads(ram', satp, {}, w)[l]
    <3>1. Read(place, Holder(current, w), l, w, d)
      BY <2>1, <1>3, FreshReads
    <3> QED BY <3>1, <1>3, <1>4, FreshReads
  <2>2. Touched \subseteq Pages /\ \A d \in tlb : d.level \in 0 .. 2
    BY <1>1, MemoryAssumption DEF Pages, TypeOK
  <2>3. ASSUME NEW d \in tlb
        PROVE  \E w \in Touched : d.prefix = Prefix(w, d.level) /\ d.pte \in Reads(ram', satp, {}, w)[d.level]
    BY <1>1, <2>1, <2>2 DEF TlbIsCurrent
  <2> QED BY <2>3 DEF TlbIsCurrent, Store
<1> QED BY <1>5, <1>6, <1>7, <1>8, Preserved

(* A page of the user space that faults is not mapped.                     *)
LEMMA FaultStep ==
  ASSUME MemInv, NEW v \in Touched, Fault(v) PROVE Preserves
<1>1. TypeOK /\ HartInv /\ TlbIsCurrent /\ mode = "run"
  BY DEF MemInv, Fault, UserRuns
<1>2. PICK place : Describes(place)
  BY <1>1 DEF MemInv
<1>3. v \in UserPages => place[<<current, 0, v>>] = NULL
  <2> SUFFICES ASSUME v \in UserPages, place[<<current, 0, v>>] # NULL PROVE FALSE
    OBVIOUS
  <2>1. /\ Valid(ram, place) /\ current \in Owners /\ current # TEMPLATE
        /\ place[<<current, 3, 0>>] # NULL
        /\ satp = place[<<current, 3, 0>>] /\ Current(ram, satp, tlb)
    BY <1>1, <1>2, Running, RangeFacts
  <2>2. PICK e \in Leaves(ram, satp, tlb, v), bit \in {PAGE_R, PAGE_W, PAGE_X} : ~ Allows(e, bit)
    BY DEF Fault
  <2>3. v \in Pages /\ Holder(current, v) = current
    BY <2>1, RangeFacts, HolderFacts DEF PagesOf
  <2>4. LeadsTo(e, place[<<current, 0, v>>], current, 0)
    BY <2>1, <2>3, OneLeaf
  <2>5. Has(e, PAGE_U) /\ \A b \in Bits : Has(e, b)
    BY <2>1, <2>4 DEF LeadsTo
  <2> QED BY <2>2, <2>5 DEF Allows, Bits
<1>4. Steps(place, place)
  BY <1>1, <1>2, <1>3, Same DEF Fault
<1>5. TypeOK'
  BY <1>1 DEF TypeOK, Fault
<1>6. HartInv'
  BY <1>1 DEF HartInv, Fault, Made, UserRuns
<1>7. TlbIsCurrent'
  BY <1>1 DEF TlbIsCurrent, Fault
<1> QED BY <1>4, <1>5, <1>6, <1>7, Preserved

(* A fault in the user space maps a clear page, or finds no room for it.   *)
LEMMA FaultMaps ==
  ASSUME MemInv, PageFault, stval \in UserPages, NEW place, Describes(place)
  PROVE  /\ Lacks(ram, place, current, stval)
         /\ \E place2 : NewPage(ram, place, current, stval, ZeroPage, ram', place2)
<1>1. mode = "fault" /\ ram' = MapPage(AllocPage(ram), page_table[current], stval, ram.next, UserFlags)
  BY DEF PageFault
<1>2. /\ Valid(ram, place) /\ current \in Owners /\ current \in Procs
      /\ place[<<current, 3, 0>>] # NULL /\ ram.ok
  BY <1>1, Running
<1>3. Lacks(ram, place, current, stval)
  BY <1>1, <1>2 DEF Lacks, Describes
<1>4. PICK s : s = ram'
  OBVIOUS
<1>5. PICK a : a = AllocPage(ram)
  OBVIOUS
<1>6. PICK p : p = current
  OBVIOUS
<1>7. PICK u : u = stval
  OBVIOUS
<1>8. PICK r : r = ram
  OBVIOUS
<1>9. PICK b : b = a /\ (b = a \/ (a.ok /\ \E z \in [Index -> Nat] : b = Fill(a, r.next, z)))
  OBVIOUS
<1>10. s = MapPage(b, place[<<p, 3, 0>>], u, r.next, UserFlags)
  BY <1>1, <1>2, <1>4, <1>5, <1>6, <1>7, <1>8, <1>9 DEF Describes
<1>11. a = AllocPage(r) /\ r.ok /\ Lacks(r, place, p, u) /\ RamOK(r)
  BY <1>2, <1>3, <1>5, <1>6, <1>7, <1>8 DEF Valid
<1>12. PICK z : z = ZeroPage
  OBVIOUS
<1>13. a.ok => z = b.page[r.next]
  BY <1>9, <1>11, <1>12, AllocFacts
<1>14. \E place2 : NewPage(r, place, p, u, z, s, place2)
  BY <1>9, <1>10, <1>11, <1>13, UserPage
<1> QED BY <1>3, <1>4, <1>6, <1>7, <1>8, <1>12, <1>14

(* A fault outside the user space is the end; any other maps a page, and   *)
(* the flush drops what the hart remembers of the entries that changed.    *)
LEMMA PageFaultStep ==
  ASSUME FENCE_DROPS_TABLES, MemInv, PageFault PROVE Preserves
<1>1. TypeOK /\ HartInv /\ TlbIsCurrent /\ mode = "fault"
  BY DEF MemInv, PageFault
<1>2. PICK place : Describes(place)
  BY <1>1 DEF MemInv
<1>3. Unsynced \subseteq Ram
  BY <1>1, UnsyncedTyped DEF TypeOK
<1>4. CASE stval \notin UserPages
  <2>1. /\ mode' = "panic" /\ UNCHANGED <<ram, tlb, kernel_page_table, page_table, current, satp, loaded, stval>>
        /\ unsynced' = Unsynced
    BY <1>4 DEF PageFault
  <2>2. Steps(place, place)
    BY <1>2, <2>1, Same
  <2>3. TypeOK'
    BY <1>1, <1>3, <2>1 DEF TypeOK
  <2> QED BY <2>1, <2>2, <2>3, Preserved
<1>5. CASE stval \in UserPages
  <2>1. /\ ram' = MapPage(AllocPage(ram), page_table[current], stval, ram.next, UserFlags)
        /\ mode' = ModeAfter(ram', "run")
        /\ tlb' = IF ram'.ok THEN FlushTlbPage(stval) ELSE tlb
        /\ unsynced' = Unsynced
        /\ UNCHANGED <<kernel_page_table, page_table, current, satp, loaded, stval>>
    BY <1>5 DEF PageFault
  <2>2. /\ Valid(ram, place) /\ current \in Owners /\ current \in Procs
        /\ place[<<current, 3, 0>>] # NULL
        /\ satp = place[<<current, 3, 0>>] /\ Current(ram, satp, tlb) /\ ram.ok
    BY <1>1, <1>2, Running
  <2>3. Lacks(ram, place, current, stval)
    BY <1>2, <1>5, FaultMaps
  <2>4. PICK s : s = ram'
    OBVIOUS
  <2>5. PICK place2 : NewPage(ram, place, current, stval, ZeroPage, s, place2)
    BY <1>2, <1>5, <2>4, FaultMaps
  <2>6. /\ Valid(s, place2) /\ RamOK(s)
        /\ \A a \in Keys : place[a] # NULL => place2[a] = place[a]
        /\ \A a \in Keys : place2[a] # place[a] => \E l \in 0 .. 2 : a = <<current, l, Prefix(stval, l)>>
        /\ s.ok => \A W : Accounted(ram, place, W) => Accounted(s, place2, W)
    BY <2>5 DEF NewPage, Fills, Widens, Valid
  <2>7. mode' # "panic" => s.ok /\ mode' = "run"
    BY <2>1, <2>4 DEF ModeAfter
  <2>8. \A o \in Owners : <<o, 3, 0>> \in Keys /\ place2[<<o, 3, 0>>] = place[<<o, 3, 0>>]
    <3> SUFFICES ASSUME NEW o \in Owners
                 PROVE  <<o, 3, 0>> \in Keys /\ place2[<<o, 3, 0>>] = place[<<o, 3, 0>>]
      OBVIOUS
    <3>1. <<o, 3, 0>> \in Keys
      BY KeyFacts, RangeFacts
    <3> QED BY <3>1, <2>6
  <2>9. kernel_page_table # NULL => \A k \in Ram : place2[<<TEMPLATE, 0, k>>] = k
    <3> SUFFICES ASSUME kernel_page_table # NULL, NEW k \in Ram PROVE place2[<<TEMPLATE, 0, k>>] = k
      OBVIOUS
    <3>1. <<TEMPLATE, 0, k>> \in Keys /\ k # NULL
      BY KeyFacts, RangeFacts
    <3>2. place[<<TEMPLATE, 0, k>>] = k
      BY <1>2 DEF Describes
    <3> QED BY <3>1, <3>2, <2>6
  <2>10. mode' # "panic" => Describes(place2)'
    <3> SUFFICES ASSUME mode' # "panic" PROVE Describes(place2)'
      OBVIOUS
    <3>1. Valid(ram', place2) /\ Accounted(ram', place2, {}) /\ mode' = "run"
      BY <1>2, <2>4, <2>6, <2>7 DEF Describes
    <3>2. /\ kernel_page_table' = place2[<<TEMPLATE, 3, 0>>]
          /\ \A p \in Procs : page_table'[p] = place2[<<p, 3, 0>>]
          /\ \A p \in Procs : Made(p)' => kernel_page_table' # NULL
      BY <1>2, <2>1, <2>8, RangeFacts DEF Describes, Made
    <3>3. Provided(place2)'
      <4>1. Users \subseteq Procs /\ IDLE \in Procs /\ \A v \in ImagePages : v \in UserPages
        BY MemoryAssumption, ImageInUserSpace DEF Users, Procs, IDLE
      <4>2. current # IDLE /\ Provided(place)
        BY <1>1, <1>2 DEF HartInv, Describes
      <4>3. ASSUME NEW v \in Pages, NEW l \in 0 .. 2 PROVE place2[<<IDLE, l, Prefix(v, l)>>] = NULL
        <5>1. PICK key : key = <<IDLE, l, Prefix(v, l)>>
          OBVIOUS
        <5>2. key \in Keys /\ place[key] = NULL
          <6>1. l \in 0 .. 3 /\ Prefix(v, l) \in Pages /\ IDLE \in Owners
            BY <4>1, PrefixFacts, RangeFacts
          <6> QED BY <5>1, <6>1, <4>2, KeyFacts DEF Provided, Nothing
        <5>3. place2[key] = place[key]
          BY <5>1, <5>2, <4>2, <2>6
        <5> QED BY <5>1, <5>2, <5>3
      <4>4. ASSUME NEW p \in Users, NEW v \in ImagePages, Made(p)' PROVE place2[<<p, 0, v>>] # NULL
        <5>1. place[<<p, 0, v>>] # NULL
          BY <4>2, <4>4, <2>1 DEF Provided, Made
        <5>2. <<p, 0, v>> \in Keys
          BY <4>1, RangeFacts, KeyFacts
        <5> QED BY <5>1, <5>2, <2>6
      <4> QED BY <4>3, <4>4, <3>1 DEF Provided, Nothing
    <3> QED BY <2>1, <2>9, <3>1, <3>2, <3>3 DEF Describes
  <2>11. Steps(place, place2)
    BY <1>2, <2>1, <2>4, <2>6, <2>10 DEF Steps
  <2>12. FlushTlbPage(stval) = {e \in tlb : e.prefix # Prefix(stval, e.level)}
    BY DEF FlushTlbPage
  <2>13. TypeOK'
    <3>1. tlb' \subseteq tlb /\ mode' \in {"run", "panic"}
      BY <2>1, <2>12 DEF ModeAfter
    <3>2. RamOK(ram')
      BY <2>4, <2>6
    <3> QED BY <1>1, <1>3, <2>1, <3>1, <3>2 DEF TypeOK, RamOK
  <2>14. mode' # "panic" => HartInv'
    BY <1>1, <2>1, <2>4, <2>7 DEF HartInv, Made
  <2>15. mode' # "panic" => TlbIsCurrent'
    <3> SUFFICES ASSUME s.ok, NEW e \in tlb'
                 PROVE  \E v \in Touched : /\ e.prefix = Prefix(v, e.level)
                                           /\ e.pte \in Reads(ram', satp', {}, v)[e.level]
      BY <2>7 DEF TlbIsCurrent
    <3>1. e \in tlb /\ e.prefix # Prefix(stval, e.level) /\ e.level \in 0 .. 2
      BY <1>1, <2>1, <2>4, <2>12 DEF TypeOK
    <3>2. PICK v \in Touched : e.prefix = Prefix(v, e.level) /\ e.pte \in Reads(ram, satp, {}, v)[e.level]
      BY <1>1, <3>1 DEF TlbIsCurrent
    <3>3. PICK l \in 0 .. 2 : l = e.level
      BY <3>1
    <3>4. PICK h \in Owners : h = Holder(current, v)
      BY <2>2, HolderFacts
    <3>5. v \in Pages
      BY MemoryAssumption DEF Pages
    <3>6. Read(place, h, l, v, e.pte)
      BY <2>2, <3>2, <3>3, <3>4, <3>5, FreshReads
    <3>7. \A m \in 0 .. 2 : <<h, m, Prefix(v, m)>> \in Keys
      BY <3>5, KeyFacts, PrefixFacts
    <3>8. place2[<<h, l, Prefix(v, l)>>] = place[<<h, l, Prefix(v, l)>>]
      <4> SUFFICES ASSUME place2[<<h, l, Prefix(v, l)>>] # place[<<h, l, Prefix(v, l)>>] PROVE FALSE
        OBVIOUS
      <4>1. PICK m \in 0 .. 2 : <<h, l, Prefix(v, l)>> = <<current, m, Prefix(stval, m)>>
        BY <2>6, <3>7
      <4>2. m = l /\ Prefix(v, l) = Prefix(stval, m)
        BY <4>1
      <4> QED BY <4>2, <3>1, <3>2, <3>3
    <3>9. Entry(place2, h, l, v) = Entry(place, h, l, v)
      BY <3>8 DEF Entry
    <3>10. l < 2 => place2[<<h, l + 1, Prefix(v, l + 1)>>] # NULL
      <4> SUFFICES ASSUME l < 2 PROVE place2[<<h, l + 1, Prefix(v, l + 1)>>] # NULL
        OBVIOUS
      <4>1. <<h, l + 1, Prefix(v, l + 1)>> \in Keys
        BY <3>7
      <4> QED BY <4>1, <2>6, <3>6 DEF Read
    <3>11. Read(place2, h, l, v, e.pte)
      BY <3>6, <3>9, <3>10 DEF Read
    <3>12. e.pte \in Reads(s, satp, {}, v)[l]
      <4>1. satp = place2[<<current, 3, 0>>] /\ place2[<<current, 3, 0>>] # NULL
        BY <2>2, <2>8
      <4> QED BY <4>1, <2>2, <2>6, <3>4, <3>5, <3>11, FreshReads
    <3> QED BY <3>2, <3>3, <3>12, <2>1, <2>4
  <2> QED BY <2>11, <2>13, <2>14, <2>15, Preserved
<1> QED BY <1>4, <1>5

(* A process has no pages before it is made.                               *)
LEMMA NothingYet ==
  ASSUME NEW r, NEW place, NEW template, NEW p, Creates(r, place, template, p)
  PROVE  \A u \in UserPages : place[<<p, 0, u>>] = NULL
<1>1. Placement(r, place) /\ p \in Owners /\ place[<<p, 3, 0>>] = NULL
  BY RangeFacts DEF Creates, Valid
<1>2. Nothing(place, p)
  BY <1>1, NoRoot
<1>3. \A u \in UserPages : u \in Pages /\ Prefix(u, 0) = u
  BY RangeFacts, PrefixFacts
<1>4. 0 \in 0 .. 2
  OBVIOUS
<1>5. \A u \in UserPages : place[<<p, 0, Prefix(u, 0)>>] = NULL
  BY <1>2, <1>3, <1>4, Zenon DEF Nothing
<1> QED BY <1>3, <1>5

(* Process p has its table and, if it is a user process, its image, in the *)
(* places of place2, and nothing else has changed.                         *)
Finished(place, p, place2) ==
  /\ Accounted(ram', place2, {}) /\ Nothing(place2, IDLE)
  /\ kernel_page_table' = place2[<<TEMPLATE, 3, 0>>] /\ kernel_page_table' # NULL
  /\ \A k \in Ram : place2[<<TEMPLATE, 0, k>>] = k
  /\ \A q \in Procs : page_table'[q] = place2[<<q, 3, 0>>]
  /\ page_table'[p] # NULL /\ PagesKept(ram, place, ram')
  /\ \A q \in Procs, x \in Pages : q # p => place2[<<q, 0, x>>] = place[<<q, 0, x>>]
  /\ p # IDLE => \A k \in 0 .. IMAGE_PAGES - 1 : Shown(ram', place2, p, k)

(* Process p is made, unless frames run out, which they do not if there is *)
(* room for boot.                                                          *)
Makes(place, p, place2) ==
  /\ Valid(ram', place2) /\ \A a \in Keys : place[a] # NULL => place2[a] = place[a]
  /\ kernel_page_table' \in Ram \cup {NULL} /\ page_table' \in [Procs -> Ram \cup {NULL}]
  /\ \A q \in Procs : q # p => page_table'[q] = page_table[q]
  /\ Roomy(place) => ram'.ok /\ Roomy(place2)
  /\ ram'.ok => Finished(place, p, place2)

(* The table is made.                                                      *)
LEMMA TableMade ==
  ASSUME MemInv, NEW p \in Procs, CreateProcess(p), NEW place, Describes(place),
         NEW r, r = ram, NEW made, made = CreatePageTable(ram, kernel_page_table)
  PROVE  Creates(r, place, kernel_page_table, p) /\ \E place1 : Created(r, place, p, made, place1)
<1>1. TypeOK /\ HartInv /\ mode = "boot" /\ page_table[p] = NULL /\ ram.ok
  BY DEF MemInv, CreateProcess, HartInv
<1>2. PICK template : template = kernel_page_table
  OBVIOUS
<1>3. Creates(r, place, template, p)
  <2>1. template = NULL => \A q \in Procs : place[<<q, 3, 0>>] = NULL
    BY <1>2 DEF Describes, Made
  <2> QED BY <2>1, <1>1, <1>2 DEF Creates, Describes
<1>4. \E place1 : Created(r, place, p, made, place1)
  BY <1>2, <1>3, CreateFacts
<1> QED BY <1>2, <1>3, <1>4

(* And the image is loaded: place1 has the table of process p.             *)
Loaded(r, place, p, s, place1, place2) ==
  /\ Valid(s, place2) /\ \A a \in Keys : place1[a] # NULL => place2[a] = place1[a]
  /\ Roomy(place) => s.ok /\ Roomy(place2)
  /\ s.ok => /\ Accounted(s, place2, {}) /\ Nothing(place2, IDLE)
             /\ \A o \in Owners : place2[<<o, 3, 0>>] = place1[<<o, 3, 0>>]
             /\ PagesKept(r, place, s)
             /\ \A q \in Procs, x \in Pages : q # p => place2[<<q, 0, x>>] = place[<<q, 0, x>>]
             /\ p # IDLE => \A k \in 0 .. IMAGE_PAGES - 1 : Shown(s, place2, p, k)

LEMMA ImageLoaded ==
  ASSUME NEW r, NEW place, NEW template, NEW p, Creates(r, place, template, p), Nothing(place, IDLE),
         NEW made, NEW place1, Created(r, place, p, made, place1), made.ram.ok,
         NEW s, s = IF p = IDLE THEN made.ram ELSE LoadImage(made.ram, made.root)
  PROVE  \E place2 : Loaded(r, place, p, s, place1, place2)
<1>1. PICK r1 : r1 = made.ram
  OBVIOUS
<1>2. /\ r1.ok /\ Valid(r1, place1) /\ Accounted(r1, place1, {}) /\ PagesKept(r, place, r1)
      /\ made.root = place1[<<p, 3, 0>>] /\ made.root # NULL
      /\ \A q \in Procs, l \in 0 .. 3, x \in Pages :
           <<q, l, x>> # <<p, 3, 0>> => place1[<<q, l, x>>] = place[<<q, l, x>>]
  BY <1>1 DEF Created
<1>3. \A q \in Procs, l \in 0 .. 2, x \in Pages : place1[<<q, l, x>>] = place[<<q, l, x>>]
  BY <1>2
<1>4. p \in Procs /\ IDLE \in Procs
  BY MemoryAssumption DEF Creates, Procs, IDLE
<1>5. Roomy(place) => Roomy(place1)
  BY <1>3, RoomKept
<1>6. Nothing(place1, IDLE)
  BY <1>3, <1>4, NothingKept
<1>7. \A q \in Procs, x \in Pages : place1[<<q, 0, x>>] = place[<<q, 0, x>>]
  <2>1. 0 \in 0 .. 2
    OBVIOUS
  <2> QED BY <2>1, <1>3, Zenon
<1>8. CASE p = IDLE
  <2>1. s = r1
    BY <1>1, <1>8
  <2>2. Loaded(r, place, p, s, place1, place1)
    BY <2>1, <1>2, <1>5, <1>6, <1>7, <1>8 DEF Loaded
  <2> QED BY <2>2
<1>9. CASE p # IDLE
  <2>1. s = LoadImage(r1, place1[<<p, 3, 0>>])
    BY <1>1, <1>2, <1>9
  <2>2. Rooted(r1, place1, p)
    <3>1. \A u \in UserPages : place[<<p, 0, u>>] = NULL
      BY NothingYet
    <3>2. p \in Users
      BY <1>4, <1>9, MemoryAssumption DEF Procs, Users, IDLE
    <3> QED BY <3>1, <3>2, <1>2, <1>4, <1>7, RangeFacts DEF Rooted
  <2>3. PICK place2 : ImageUpTo(r1, place1, p, IMAGE_PAGES, s, place2)
    BY <2>1, <2>2, LoadImageFacts
  <2>4. /\ Valid(s, place2) /\ Keeps(r1, place1, s, place2)
        /\ \A a \in Keys : place1[a] # NULL => place2[a] = place1[a]
        /\ \A a \in Keys : place2[a] # place1[a] => \E l \in 0 .. 2, x \in Pages : a = <<p, l, x>>
        /\ s.ok => Accounted(s, place2, {})
    BY <2>3, <1>2 DEF ImageUpTo, Fills, Widens
  <2>5. IMAGE_PAGES \in Nat /\ IMAGE_PAGES <= IMAGE_PAGES
    BY ImageFits
  <2>6. ASSUME Roomy(place) PROVE s.ok /\ Roomy(place2)
    <3>1. Roomy(place1)
      BY <2>6, <1>5
    <3>2. s.ok
      BY <3>1, <2>3, <1>2 DEF ImageUpTo, Lasts
    <3> QED BY <3>1, <3>2, <2>2, <2>3, <2>5, ImageLeavesRoom
  <2>7. \A q \in Procs, l \in 0 .. 2, x \in Pages : q # p => place2[<<q, l, x>>] = place1[<<q, l, x>>]
    BY <2>2, <2>3, ImageOfOne
  <2>8. Nothing(place2, IDLE)
    BY <2>7, <1>4, <1>6, <1>9, NothingKept
  <2>9. ASSUME NEW o \in Owners PROVE place2[<<o, 3, 0>>] = place1[<<o, 3, 0>>]
    <3>1. <<o, 3, 0>> \in Keys
      BY KeyFacts, RangeFacts
    <3> QED BY <2>4, <3>1
  <2>10. ASSUME NEW q \in Procs, NEW x \in Pages, q # p
         PROVE  place2[<<q, 0, x>>] = place[<<q, 0, x>>]
    <3>1. 0 \in 0 .. 2
      OBVIOUS
    <3>2. place2[<<q, 0, x>>] = place1[<<q, 0, x>>]
      BY <2>7, <2>10, <3>1, Zenon
    <3> QED BY <3>2, <1>7
  <2>11. s.ok => \A k \in 0 .. IMAGE_PAGES - 1 : Shown(s, place2, p, k)
    <3>1. \A k \in 0 .. IMAGE_PAGES - 1 : k \in Nat /\ k < IMAGE_PAGES
      BY ImageFits
    <3> QED BY <3>1, <2>3 DEF ImageUpTo
  <2>12. ASSUME NEW q \in Procs, NEW x \in Pages, NEW g, g = place[<<q, 0, x>>], g # NULL
         PROVE  s.page[g] = r.page[g]
    <3>1. PICK key : key = <<q, 0, x>>
      OBVIOUS
    <3>2. key \in FrameKeys /\ key[2] = 0 /\ place1[key] = g
      BY <3>1, <2>12, <1>7, KeyFacts, RangeFacts
    <3>3. g \in Given(r1) /\ Spare(place1, g)
      BY <3>2, <2>12, <1>2 DEF Valid, Placement, Spare
    <3>4. s.page[g] = r1.page[g]
      BY <3>3, <2>4 DEF Keeps
    <3>5. r1.page[g] = r.page[g]
      BY <2>12, <1>2 DEF PagesKept
    <3> QED BY <3>4, <3>5
  <2>13. PagesKept(r, place, s)
    BY <2>12 DEF PagesKept
  <2>14. Loaded(r, place, p, s, place1, place2)
    BY <2>4, <2>6, <2>8, <2>9, <2>10, <2>11, <2>13 DEF Loaded
  <2> QED BY <2>14
<1> QED BY <1>8, <1>9

(* So it is made.                                                          *)
LEMMA Making ==
  ASSUME MemInv, NEW p \in Procs, CreateProcess(p), NEW place, Describes(place)
  PROVE  \E place2 : Makes(place, p, place2)
<1>1. TypeOK /\ mode = "boot" /\ page_table[p] = NULL /\ Nothing(place, IDLE)
  BY DEF MemInv, CreateProcess, Describes, Provided
<1>2. PICK made : made = CreatePageTable(ram, kernel_page_table)
  OBVIOUS
<1>3. /\ ram' = IF p = IDLE THEN made.ram ELSE LoadImage(made.ram, made.root)
      /\ kernel_page_table' = made.template
      /\ page_table' = [page_table EXCEPT ![p] = made.root]
  BY <1>2 DEF CreateProcess
<1>4. PICK r : r = ram
  OBVIOUS
<1>5. PICK template : template = kernel_page_table
  OBVIOUS
<1>6. Creates(r, place, template, p) /\ \E place1 : Created(r, place, p, made, place1)
  BY <1>2, <1>4, <1>5, TableMade
<1>7. PICK place1 : Created(r, place, p, made, place1)
  BY <1>6
<1>8. PICK s : s = ram'
  OBVIOUS
<1>9. /\ Valid(made.ram, place1) /\ \A a \in Keys : place[a] # NULL => place1[a] = place[a]
      /\ made.template \in Ram \cup {NULL} /\ made.root \in Ram \cup {NULL}
      /\ Roomy(place) => made.ram.ok
  BY <1>7 DEF Created
<1>10. /\ kernel_page_table' \in Ram \cup {NULL} /\ page_table' \in [Procs -> Ram \cup {NULL}]
       /\ \A q \in Procs : page_table'[q] = IF q = p THEN made.root ELSE page_table[q]
  BY <1>1, <1>3, <1>9 DEF TypeOK
<1>11. CASE ~ made.ram.ok
  <2>1. ram' = made.ram
    BY <1>3, <1>11, LoadImageStopped
  <2>2. Makes(place, p, place1)
    BY <2>1, <1>9, <1>10, <1>11 DEF Makes
  <2> QED BY <2>2
<1>12. CASE made.ram.ok
  <2>1. PICK place2 : Loaded(r, place, p, s, place1, place2)
    BY <1>1, <1>3, <1>6, <1>7, <1>8, <1>12, ImageLoaded
  <2>2. /\ Valid(s, place2) /\ \A a \in Keys : place[a] # NULL => place2[a] = place[a]
        /\ Roomy(place) => s.ok /\ Roomy(place2)
    BY <2>1, <1>9 DEF Loaded
  <2>3. ASSUME s.ok PROVE Finished(place, p, place2)
    <3>1. /\ Accounted(s, place2, {}) /\ Nothing(place2, IDLE) /\ PagesKept(r, place, s)
          /\ \A a \in Keys : place1[a] # NULL => place2[a] = place1[a]
          /\ \A o \in Owners : place2[<<o, 3, 0>>] = place1[<<o, 3, 0>>]
          /\ \A q \in Procs, x \in Pages : q # p => place2[<<q, 0, x>>] = place[<<q, 0, x>>]
          /\ p # IDLE => \A k \in 0 .. IMAGE_PAGES - 1 : Shown(s, place2, p, k)
      BY <2>1, <2>3 DEF Loaded
    <3>2. /\ made.template = place1[<<TEMPLATE, 3, 0>>] /\ made.template # NULL
          /\ made.root = place1[<<p, 3, 0>>] /\ made.root # NULL
          /\ \A k \in Ram : place1[<<TEMPLATE, 0, k>>] = k
          /\ \A q \in Procs, l \in 0 .. 3, x \in Pages :
               <<q, l, x>> # <<p, 3, 0>> => place1[<<q, l, x>>] = place[<<q, l, x>>]
      BY <1>7, <1>12 DEF Created
    <3>3. ASSUME NEW k \in Ram PROVE place2[<<TEMPLATE, 0, k>>] = k
      <4>1. <<TEMPLATE, 0, k>> \in Keys /\ k # NULL
        BY KeyFacts, RangeFacts
      <4> QED BY <4>1, <3>1, <3>2
    <3>4. ASSUME NEW q \in Procs PROVE page_table'[q] = place2[<<q, 3, 0>>]
      <4>1. place2[<<q, 3, 0>>] = place1[<<q, 3, 0>>]
        BY <3>1, RangeFacts
      <4>2. CASE q = p
        BY <4>1, <4>2, <3>2, <1>10
      <4>3. CASE q # p
        <5>1. place1[<<q, 3, 0>>] = place[<<q, 3, 0>>]
          BY <4>3, <3>2, RangeFacts
        <5> QED BY <4>1, <4>3, <5>1, <1>10 DEF Describes
      <4> QED BY <4>2, <4>3
    <3>5. kernel_page_table' = place2[<<TEMPLATE, 3, 0>>] /\ kernel_page_table' # NULL
      BY <3>1, <3>2, <1>3, RangeFacts
    <3>6. page_table'[p] # NULL
      BY <3>2, <1>10
    <3> QED BY <3>1, <3>3, <3>4, <3>5, <3>6, <1>4, <1>8 DEF Finished
  <2>4. Makes(place, p, place2)
    BY <2>2, <2>3, <1>8, <1>10 DEF Makes
  <2> QED BY <2>4
<1> QED BY <1>11, <1>12

(* Then the places of place2 describe the state.                           *)
LEMMA MadeDescribed ==
  ASSUME MemInv, NEW p \in Procs, CreateProcess(p), NEW place, Describes(place),
         NEW place2, Makes(place, p, place2), ram'.ok
  PROVE  Describes(place2)'
<1>1. mode = "boot" /\ page_table[p] = NULL /\ \A q \in 0 .. p - 1 : Made(q)
  BY DEF CreateProcess, Made
<1>2. Describes(place)
  OBVIOUS
<1>3. Makes(place, p, place2) /\ Finished(place, p, place2)
  BY DEF Makes
<1>4. /\ mode' = "boot" /\ UNCHANGED <<current, stval>>
      /\ unsynced' = IF p = IDLE THEN Unsynced ELSE SyncIcache
  BY DEF CreateProcess, ModeAfter
<1>5. Users \subseteq Procs /\ IDLE \in Procs /\ \A v \in ImagePages : v \in UserPages
  BY MemoryAssumption, ImageInUserSpace DEF Users, Procs, IDLE
<1>6. \A q \in Procs : q # p => (Made(q)' <=> Made(q))
  BY <1>3 DEF Makes, Made
<1>7. Provided(place) /\ (RoomForBoot => Roomy(place))
  BY <1>1, <1>2 DEF Describes, Provided
<1>8. ASSUME NEW q \in Users, NEW v \in ImagePages, Made(q)' PROVE place2[<<q, 0, v>>] # NULL
  <2>1. CASE q = p
    <3>1. PICK k \in 0 .. IMAGE_PAGES - 1 : v = USER_BASE + k
      BY ImageInUserSpace
    <3>2. q # IDLE
      BY DEF Users, IDLE
    <3> QED BY <2>1, <3>1, <3>2, <1>3 DEF Finished, Shown
  <2>2. CASE q # p
    <3>1. place[<<q, 0, v>>] # NULL
      BY <2>2, <1>5, <1>6, <1>7, <1>8 DEF Provided
    <3>2. <<q, 0, v>> \in Keys
      BY <1>5, RangeFacts, KeyFacts
    <3> QED BY <3>1, <3>2, <1>3 DEF Makes
  <2> QED BY <2>1, <2>2
<1>9. ASSUME NEW q \in Users, Made(q)' PROVE Made(IDLE)' /\ unsynced' = {}
  <2>1. CASE p = IDLE
    <3>1. q \in Procs /\ q # p
      BY <1>5, <2>1 DEF Users, IDLE
    <3>2. Made(q)
      BY <1>6, <1>9, <3>1
    <3>3. Made(IDLE)
      BY <1>7, <1>1, <3>2 DEF Provided
    <3> QED BY <3>3, <2>1, <1>1 DEF Made
  <2>2. CASE p # IDLE
    <3>1. IDLE \in 0 .. p - 1
      BY <2>2, MemoryAssumption DEF Procs, IDLE
    <3>2. Made(IDLE)'
      BY <3>1, <2>2, <1>1, <1>5, <1>6
    <3> QED BY <3>2, <2>2, <1>4 DEF SyncIcache
  <2> QED BY <2>1, <2>2
<1>10. Provided(place2)'
  <2>1. (RoomForBoot => Roomy(place2)) /\ Nothing(place2, IDLE)
    BY <1>3, <1>7 DEF Makes, Finished
  <2> QED BY <2>1, <1>8, <1>9 DEF Provided
<1>11. \A q \in Procs : Made(q)' => kernel_page_table' # NULL
  BY <1>3 DEF Finished
<1> QED BY <1>3, <1>4, <1>10, <1>11 DEF Describes, Makes, Finished

(* A process is made: its root, and what boot loads below it.              *)
LEMMA CreateProcessStep ==
  ASSUME MemInv, NEW p \in Procs, CreateProcess(p) PROVE Preserves
<1>1. TypeOK /\ HartInv /\ mode = "boot" /\ page_table[p] = NULL
  BY DEF MemInv, CreateProcess
<1>2. PICK place : Describes(place)
  BY <1>1 DEF MemInv
<1>3. PICK place2 : Makes(place, p, place2)
  BY <1>2, Making
<1>4. /\ mode' = ModeAfter(ram', "boot") /\ UNCHANGED <<current, satp, tlb, loaded, stval>>
      /\ unsynced' = IF p = IDLE THEN Unsynced ELSE SyncIcache
  BY DEF CreateProcess
<1>5. mode' # "panic" => ram'.ok /\ mode' = "boot"
  BY <1>4 DEF ModeAfter
<1>6. Steps(place, place2)
  <2>1. \A q \in Procs : Made(q) => page_table'[q] = page_table[q]
    BY <1>1, <1>3 DEF Made, Makes
  <2>2. mode' # "panic" => Describes(place2)'
    BY <1>2, <1>3, <1>5, MadeDescribed
  <2> QED BY <2>1, <2>2, <1>2, <1>3 DEF Steps, Makes
<1>7. TypeOK'
  <2>1. RamOK(ram')
    BY <1>3 DEF Makes, Valid
  <2>2. unsynced' \subseteq Ram
    BY <1>1, <1>4, UnsyncedTyped DEF TypeOK, SyncIcache
  <2>3. mode' \in {"boot", "panic"}
    BY <1>4 DEF ModeAfter
  <2>4. kernel_page_table' \in Ram \cup {NULL} /\ page_table' \in [Procs -> Ram \cup {NULL}]
    BY <1>3 DEF Makes
  <2> QED BY <2>1, <2>2, <2>3, <2>4, <1>1, <1>4 DEF TypeOK, RamOK
<1>8. mode' # "panic" => HartInv' /\ TlbIsCurrent'
  <2>1. mode' # "panic" => HartInv'
    BY <1>1, <1>4, <1>5 DEF HartInv
  <2>2. mode' # "panic" => TlbIsCurrent'
    BY <1>5 DEF TlbIsCurrent
  <2> QED BY <2>1, <2>2
<1> QED BY <1>6, <1>7, <1>8, Preserved

(* At power on nothing is placed.                                          *)
LEMMA InitMem == ASSUME Init PROVE MemInv
<1>1. PICK place : place = [a \in Keys |-> NULL]
  OBVIOUS
<1>2. \A a \in Keys : place[a] = NULL
  BY <1>1
<1>3. /\ Ram \cup {NULL} # {} /\ FREE_RAM \in FREE_RAM .. FREE_RAM_END + 1 /\ FREE_RAM <= FREE_RAM_END
      /\ GARBAGE \in Nat
  BY Constants
<1>4. RamOK(ram) /\ ram.ok /\ Given(ram) = {}
  <2>1. RamOK(ram) /\ ram.ok /\ ram.next = FREE_RAM
    BY <1>3 DEF Init, PowerOn, RamOK
  <2> QED BY <2>1, RangeFacts, Constants DEF Given
<1>5. Placement(ram, place)
  <2>1. place \in [Keys -> Ram \cup {NULL}]
    BY <1>1
  <2>2. \A a \in FrameKeys : place[a] = NULL
    BY <1>2 DEF FrameKeys
  <2>3. ASSUME NEW o \in Owners, NEW l \in 0 .. 3, NEW x \in Pages PROVE place[<<o, l, x>>] = NULL
    <3>1. <<o, l, x>> \in Keys
      BY KeyFacts
    <3> QED BY <3>1, <1>2
  <2> QED BY <2>1, <2>2, <2>3, RangeFacts DEF Placement
<1>6. Holds(ram, place)
  <2>1. ASSUME NEW o \in Owners PROVE place[<<o, 3, 0>>] = NULL
    <3>1. <<o, 3, 0>> \in Keys
      BY KeyFacts, RangeFacts
    <3> QED BY <3>1, <1>2
  <2>2. ASSUME NEW o \in Owners, NEW v \in Pages, NEW l \in 0 .. 1
        PROVE  place[<<o, l + 1, Prefix(v, l + 1)>>] = NULL
    <3>1. Prefix(v, l + 1) \in Pages /\ l + 1 \in 0 .. 3
      BY PrefixFacts
    <3>2. <<o, l + 1, Prefix(v, l + 1)>> \in Keys
      BY <3>1, KeyFacts
    <3> QED BY <3>2, <1>2
  <2> QED BY <2>1, <2>2 DEF Holds
<1>7. Describes(place)
  <2>1. \A o \in Owners : place[<<o, 3, 0>>] = NULL
    <3> SUFFICES ASSUME NEW o \in Owners PROVE place[<<o, 3, 0>>] = NULL
      OBVIOUS
    <3>1. <<o, 3, 0>> \in Keys
      BY KeyFacts, RangeFacts
    <3> QED BY <3>1, <1>2
  <2>2. ASSUME NEW o \in Owners, NEW l \in 0 .. 2, NEW x \in Pages PROVE place[<<o, l, x>>] = NULL
    <3>1. <<o, l, x>> \in Keys
      BY KeyFacts
    <3> QED BY <3>1, <1>2
  <2>3. Fits(place, Users \X ImagePages)
    <3>1. IDLE \in Owners /\ Users \subseteq Owners /\ UserPages \subseteq Pages
      BY RangeFacts, MemoryAssumption DEF Users, Procs, IDLE
    <3>2. \A v \in Pages, l \in 0 .. 2 : Prefix(v, l) \in Pages
      BY PrefixFacts
    <3>3. 0 \in 0 .. 2
      OBVIOUS
    <3>4. \A p \in Users, v \in UserPages : place[<<p, 0, v>>] = NULL
      BY <2>2, <3>1, <3>3, Zenon
    <3> QED BY <2>2, <3>1, <3>2, <3>4 DEF Fits, Nothing
  <2>4. \A p \in Procs : ~ Made(p)
    BY DEF Init, Made
  <2>5. Users \subseteq Procs
    BY MemoryAssumption DEF Users, Procs
  <2>6. Provided(place)
    BY <2>3, <2>4, <2>5 DEF Provided, Roomy, Fits
  <2> QED BY <2>1, <2>4, <2>6, <1>4, <1>5, <1>6, RangeFacts DEF Init, Describes, Valid, Accounted
<1>8. TypeOK
  BY <1>4, RangeFacts, MemoryAssumption DEF Init, TypeOK, RamOK, Procs, IDLE, BARE, NULL
<1>9. HartInv /\ TlbIsCurrent
  BY <1>4 DEF Init, HartInv, TlbIsCurrent, BARE
<1> QED BY <1>7, <1>8, <1>9 DEF MemInv

(* Every step before a PANIC.                                              *)
LEMMA EveryStep ==
  ASSUME FENCE_DROPS_TABLES, MemInv, mode # "panic", Next PROVE Preserves
<1>1. ASSUME NEW p \in Procs, CreateProcess(p) PROVE Preserves
  BY <1>1, CreateProcessStep
<1>2. ASSUME NEW p \in Procs, Yield(p) PROVE Preserves
  BY <1>2, YieldStep
<1>3. ASSUME NEW v \in Touched, Fault(v) PROVE Preserves
  BY <1>3, FaultStep
<1>4. ASSUME NEW v \in Touched, NEW level \in 0 .. 2, TlbFill(v, level) PROVE Preserves
  BY <1>4, TlbFillStep
<1>5. ASSUME NEW v \in Touched, NEW i \in Offsets, Load(v, i) PROVE Preserves
  BY <1>5, LoadStep
<1>6. ASSUME NEW v \in Stored, NEW i \in Offsets, NEW word \in Data, Store(v, i, word) PROVE Preserves
  BY <1>6, StoreStep
<1>7. ASSUME NEW v \in Code, NEW i \in Offsets, Fetch(v, i) PROVE Preserves
  BY <1>7, FetchStep
<1>8. ASSUME TlbEvict PROVE Preserves
  BY <1>8, TlbEvictStep
<1>9. ASSUME PageFault PROVE Preserves
  BY <1>9, PageFaultStep
<1>10. ~ StayHalted
  BY DEF StayHalted
<1> QED BY <1>1, <1>2, <1>3, <1>4, <1>5, <1>6, <1>7, <1>8, <1>9, <1>10 DEF Next

(* Behind a PANIC only the hart's memory changes.                          *)
LEMMA Halted ==
  ASSUME mode = "panic", [Next]_vars
  PROVE  /\ UNCHANGED <<ram, kernel_page_table, page_table, current, satp, loaded, unsynced, mode, stval>>
         /\ tlb' \subseteq tlb
<1>1. CASE TlbEvict
  BY <1>1 DEF TlbEvict
<1>2. CASE UNCHANGED vars
  BY <1>2 DEF vars
<1>3. CASE Next /\ ~ TlbEvict
  BY <1>3 DEF Next, StayHalted, CreateProcess, Yield, Fault, TlbFill, Load, Store, Fetch, PageFault,
     UserRuns, vars
<1> QED BY <1>1, <1>2, <1>3

(* MemInv is inductive.                                                    *)
LEMMA NextMem ==
  ASSUME FENCE_DROPS_TABLES, MemInv, [Next]_vars PROVE MemInv'
<1>1. CASE mode = "panic"
  <2>1. TypeOK'
    BY <1>1, Halted DEF MemInv, TypeOK
  <2>2. mode' = "panic"
    BY <1>1, Halted
  <2> QED BY <2>1, <2>2 DEF MemInv
<1>2. CASE mode # "panic" /\ Next
  BY <1>2, EveryStep DEF Preserves
<1>3. CASE mode # "panic" /\ UNCHANGED vars
  <2>1. PICK place : Describes(place)
    BY <1>3 DEF MemInv
  <2>2. Steps(place, place)
    BY <1>3, <2>1, Same DEF vars, Describes
  <2>3. TypeOK' /\ HartInv' /\ TlbIsCurrent'
    BY <1>3 DEF MemInv, TypeOK, HartInv, TlbIsCurrent, vars, Made
  <2>4. Preserves
    BY <2>2, <2>3, Preserved
  <2> QED BY <2>4 DEF Preserves
<1> QED BY <1>1, <1>2, <1>3

(* The tables in RAM are always those of a placement, on a hart whose      *)
(* fence for an address drops all that it remembers for it.                *)
THEOREM TablesDescribed ==
  ASSUME FENCE_DROPS_TABLES PROVE Spec => []MemInv
<1>1. Init => MemInv
  BY InitMem
<1>2. MemInv /\ [Next]_vars => MemInv'
  BY NextMem
<1> QED BY <1>1, <1>2, PTL DEF Spec

(* RAM holds words, tables are pages of RAM, and the hart walks from a     *)
(* root that create_page_table made.                                       *)
THEOREM MemoryTypeCorrect ==
  ASSUME FENCE_DROPS_TABLES PROVE Spec => []TypeOK
<1>1. MemInv => TypeOK
  BY DEF MemInv
<1> QED BY <1>1, TablesDescribed, PTL

(* While code runs the hart remembers nothing that the tables do not say:  *)
(* the flush in handle_page_fault drops every entry that map_page changed, *)
(* invalid ones and those above the last level too.                        *)
THEOREM RemembersOnlyWhatHolds ==
  ASSUME FENCE_DROPS_TABLES PROVE Spec => []TlbIsCurrent
<1>1. MemInv => TlbIsCurrent
  BY DEF MemInv, TlbIsCurrent
<1> QED BY <1>1, TablesDescribed, PTL
-----------------------------------------------------------------------------
(* The kernel's memory.                                                    *)

(* What the tables say of a page.                                          *)
LEMMA LeafFacts ==
  ASSUME NEW r, NEW place, Valid(r, place), NEW o \in Owners, NEW root, root = place[<<o, 3, 0>>],
         root # NULL, NEW v \in Pages, NEW e, e = Leaf(r, root, v)
  PROVE  e = Entry(place, Holder(o, v), 0, v)
<1>1. PICK h : h = Holder(o, v)
  OBVIOUS
<1>2. PICK reads : reads = Reads(r, root, {}, v)
  OBVIOUS
<1>3. place[<<o, 3, 0>>] # NULL
  OBVIOUS
<1>4. Walks(r, place, root, h, v, reads)
  BY <1>1, <1>2, <1>3, WalkFacts
<1> QED BY <1>1, <1>4 DEF Walks

(* What the tables of a process say of a page of the kernel.               *)
LEMMA KernelLeaf ==
  ASSUME NEW place, Describes(place), NEW p \in Procs, Made(p), NEW f \in Ram,
         NEW e, e = Leaf(ram, page_table[p], f)
  PROVE  LeadsTo(e, f, TEMPLATE, 0)
<1>1. /\ Valid(ram, place) /\ p \in Owners /\ TEMPLATE \in Owners
      /\ page_table[p] = place[<<p, 3, 0>>] /\ place[<<p, 3, 0>>] # NULL
      /\ place[<<TEMPLATE, 0, f>>] = f /\ place \in [Keys -> Ram \cup {NULL}]
  BY RangeFacts DEF Describes, Made, Valid, Placement
<1>2. f \in Pages /\ Prefix(f, 0) = f /\ Holder(p, f) = TEMPLATE
  BY <1>1, RangeFacts, PrefixFacts, HolderFacts
<1>3. PICK root : root = place[<<p, 3, 0>>]
  OBVIOUS
<1>4. e = Entry(place, TEMPLATE, 0, f)
  BY <1>1, <1>2, <1>3, LeafFacts
<1>5. LeadsTo(Entry(place, TEMPLATE, 0, f), place[<<TEMPLATE, 0, Prefix(f, 0)>>], TEMPLATE, 0)
  <2>1. 0 \in 0 .. 2
    OBVIOUS
  <2> QED BY <2>1, <1>1, <1>2, EntryFacts, Zenon
<1> QED BY <1>1, <1>2, <1>4, <1>5

(* Every process sees all of the kernel's memory where it is, with the     *)
(* rights the kernel needs and none for user code, so that the kernel goes *)
(* on after yield() changed satp.                                          *)
THEOREM KernelStaysMapped ==
  ASSUME FENCE_DROPS_TABLES PROVE Spec => []KernelMappedEverywhere
<1>1. MemInv => KernelMappedEverywhere
  <2> SUFFICES ASSUME MemInv, mode # "panic", NEW p \in Procs, Made(p), NEW f \in Ram,
                      NEW e, e = Leaf(ram, page_table[p], f)
               PROVE  /\ PteToPpn(e) = f /\ ~ Has(e, PAGE_U)
                      /\ \A b \in {PAGE_V, PAGE_R, PAGE_W, PAGE_X, PAGE_A, PAGE_D} : Has(e, b)
    BY DEF KernelMappedEverywhere
  <2>1. PICK place : Describes(place)
    BY DEF MemInv
  <2>2. LeadsTo(e, f, TEMPLATE, 0)
    BY <2>1, KernelLeaf
  <2> QED BY <2>2, RangeFacts DEF LeadsTo, Bits
<1> QED BY <1>1, TablesDescribed, PTL
-----------------------------------------------------------------------------
(* Mappings.                                                               *)

(* What the tables of a process say of a page of its own.                  *)
LEMMA UserPageLeaf ==
  ASSUME NEW r, NEW place, Valid(r, place), NEW p \in Procs, NEW root, root = place[<<p, 3, 0>>],
         root # NULL, NEW v \in UserPages, NEW e, e = Leaf(r, root, v)
  PROVE  /\ e = Entry(place, p, 0, v) /\ v \in Pages /\ Prefix(v, 0) = v
         /\ Has(e, PAGE_V) => place[<<p, 0, v>>] # NULL
<1>1. p \in Owners /\ p # TEMPLATE /\ v \in Pages /\ PagesOf(p) = UserPages
  BY RangeFacts DEF PagesOf
<1>2. Prefix(v, 0) = v /\ Holder(p, v) = p
  BY <1>1, PrefixFacts, HolderFacts
<1>3. e = Entry(place, p, 0, v)
  BY <1>1, <1>2, LeafFacts
<1>4. ~ Has(0, PAGE_V)
  BY NoPte DEF Bits
<1>5. Has(e, PAGE_V) => place[<<p, 0, v>>] # NULL
  BY <1>2, <1>3, <1>4, Zenon DEF Entry
<1> QED BY <1>1, <1>2, <1>3, <1>5

(* It goes on saying that when more is placed.                             *)
LEMMA LeafStays ==
  ASSUME NEW r, NEW place, Valid(r, place), NEW s, NEW place2, Valid(s, place2),
         \A a \in Keys : place[a] # NULL => place2[a] = place[a],
         NEW p \in Procs, NEW root, root = place[<<p, 3, 0>>], root # NULL,
         NEW v \in UserPages, Has(Leaf(r, root, v), PAGE_V)
  PROVE  Leaf(s, root, v) = Leaf(r, root, v)
<1>1. PICK e : e = Leaf(r, root, v)
  OBVIOUS
<1>2. /\ e = Entry(place, p, 0, v) /\ v \in Pages /\ Prefix(v, 0) = v
      /\ Has(e, PAGE_V) => place[<<p, 0, v>>] # NULL
  BY <1>1, UserPageLeaf
<1>3. p \in Owners /\ <<p, 3, 0>> \in Keys /\ <<p, 0, v>> \in Keys
  BY <1>2, RangeFacts, KeyFacts
<1>4. root = place2[<<p, 3, 0>>] /\ place2[<<p, 0, v>>] = place[<<p, 0, v>>]
  BY <1>1, <1>2, <1>3
<1>5. PICK e2 : e2 = Leaf(s, root, v)
  OBVIOUS
<1>6. e2 = Entry(place2, p, 0, v)
  BY <1>4, <1>5, UserPageLeaf
<1>7. e2 = e
  BY <1>2, <1>4, <1>6 DEF Entry
<1> QED BY <1>1, <1>5, <1>7

(* No step takes a page away from a process or moves it, so that no fault  *)
(* replaces a page that is there by a clear one.                           *)
THEOREM MappedPagesStay ==
  ASSUME FENCE_DROPS_TABLES PROVE Spec => MappingsStay
<1>1. MemInv /\ [Next]_vars =>
        [\A p \in Procs, v \in UserPages :
           Mapped(p, v) => page_table'[p] = page_table[p] /\ UserLeaf(p, v)' = UserLeaf(p, v)]_vars
  <2> SUFFICES ASSUME MemInv, Next, NEW p \in Procs, NEW v \in UserPages, Mapped(p, v)
               PROVE  page_table'[p] = page_table[p] /\ UserLeaf(p, v)' = UserLeaf(p, v)
    OBVIOUS
  <2>1. CASE mode = "panic"
    <3>1. ram' = ram /\ page_table' = page_table
      BY <2>1, Halted
    <3> QED BY <3>1 DEF UserLeaf
  <2>2. CASE mode # "panic"
    <3>1. PICK place, place2 : Steps(place, place2)
      BY <2>2, EveryStep DEF Preserves
    <3>2. /\ Valid(ram, place) /\ Valid(ram', place2) /\ Made(p)
          /\ \A a \in Keys : place[a] # NULL => place2[a] = place[a]
          /\ page_table[p] = place[<<p, 3, 0>>] /\ page_table[p] # NULL
          /\ page_table'[p] = page_table[p]
      BY <3>1 DEF Steps, Mapped, Made, Describes
    <3>3. PICK r, s, root : r = ram /\ s = ram' /\ root = page_table[p]
      OBVIOUS
    <3>4. Has(Leaf(r, root, v), PAGE_V)
      BY <3>3 DEF Mapped, UserLeaf
    <3>5. Leaf(s, root, v) = Leaf(r, root, v)
      BY <3>2, <3>3, <3>4, LeafStays
    <3> QED BY <3>2, <3>3, <3>5 DEF UserLeaf
  <2> QED BY <2>1, <2>2
<1> QED BY <1>1, TablesDescribed, PTL DEF Spec, MappingsStay
-----------------------------------------------------------------------------
(* The use of frames.                                                      *)

(* The record of Uses for what is placed at key a.                         *)
Use(place, a) == [owner |-> a[1], level |-> a[2], prefix |-> a[3], frame |-> place[a]]

(* Every owner's root is in its place.                                     *)
LEMMA Roots ==
  ASSUME NEW place, Describes(place) PROVE \A o \in Owners : Root(o) = place[<<o, 3, 0>>]
BY RangeFacts DEF Describes, Root, Owners

(* The valid entries that Uses finds are those of the placement.           *)
LEMMA EntriesFacts ==
  ASSUME NEW place, Describes(place), NEW o \in Owners, Root(o) # NULL
  PROVE  \A v \in PagesOf(o), l \in 0 .. 2 : \A e :
           e \in Entries(o, v, l) <=> place[<<o, l, Prefix(v, l)>>] # NULL /\ e = Entry(place, o, l, v)
<1>1. PICK r, root : r = ram /\ root = place[<<o, 3, 0>>]
  OBVIOUS
<1>2. Root(o) = root /\ root # NULL /\ Valid(r, place) /\ Placement(r, place)
      /\ place \in [Keys -> Ram \cup {NULL}] /\ place[<<o, 3, 0>>] # NULL
  BY <1>1, Roots DEF Describes, Valid, Placement
<1>3. \A v \in Pages, l \in 0 .. 2 : \A e :
        e \in Reads(r, root, {}, v)[l] <=> Read(place, Holder(o, v), l, v, e)
  BY <1>1, <1>2, FreshReads
<1>4. \A w \in Pages, l \in 0 .. 1 :
        place[<<o, l + 1, Prefix(w, l + 1)>>] = NULL => place[<<o, l, Prefix(w, l)>>] = NULL
  BY <1>2, NothingBelow
<1> SUFFICES ASSUME NEW v \in PagesOf(o), NEW l \in 0 .. 2, NEW e
             PROVE  e \in Entries(o, v, l) <=>
                      place[<<o, l, Prefix(v, l)>>] # NULL /\ e = Entry(place, o, l, v)
  OBVIOUS
<1>5. v \in Pages /\ Holder(o, v) = o
  BY RangeFacts, HolderFacts
<1>6. e \in Entries(o, v, l) <=> e \in Reads(r, root, {}, v)[l] /\ Has(e, PAGE_V)
  BY <1>1, <1>2 DEF Entries
<1>7. e \in Entries(o, v, l) <=> Read(place, o, l, v, e) /\ Has(e, PAGE_V)
  BY <1>3, <1>5, <1>6
<1>8. LeadsTo(Entry(place, o, l, v), place[<<o, l, Prefix(v, l)>>], o, l)
  BY <1>2, <1>5, EntryFacts
<1>9. Has(Entry(place, o, l, v), PAGE_V) <=> place[<<o, l, Prefix(v, l)>>] # NULL
  <2>1. ~ Has(0, PAGE_V)
    BY NoPte DEF Bits
  <2> QED BY <2>1, <1>8, Zenon DEF LeadsTo
<1>10. place[<<o, l, Prefix(v, l)>>] # NULL => (l < 2 => place[<<o, l + 1, Prefix(v, l + 1)>>] # NULL)
  <2> SUFFICES ASSUME place[<<o, l, Prefix(v, l)>>] # NULL, l < 2
               PROVE  place[<<o, l + 1, Prefix(v, l + 1)>>] # NULL
    OBVIOUS
  <2>1. l \in 0 .. 1
    OBVIOUS
  <2> QED BY <2>1, <1>4, <1>5
<1> QED BY <1>7, <1>9, <1>10 DEF Read

(* The uses of what is placed for owner o.                                 *)
OwnUses(place, o, uses) ==
  \A u : u \in uses <=> \E a \in FrameKeys : a[1] = o /\ place[a] # NULL /\ u = Use(place, a)

(* So what Uses finds of an owner is what is placed for it.                *)
LEMMA UsesOfFacts ==
  ASSUME NEW place, Describes(place), NEW o \in Owners, Root(o) # NULL,
         NEW pages, pages = PagesOf(o), NEW lowest, lowest = IF o = TEMPLATE THEN 1 ELSE 0,
         NEW uses, uses = UsesOf(o, pages, lowest)
  PROVE  OwnUses(place, o, uses)
<1>1. \A v \in PagesOf(o), l \in 0 .. 2 : \A e :
        e \in Entries(o, v, l) <=> place[<<o, l, Prefix(v, l)>>] # NULL /\ e = Entry(place, o, l, v)
  BY EntriesFacts
<1>2. Root(o) = place[<<o, 3, 0>>] /\ Placement(ram, place) /\ place \in [Keys -> Ram \cup {NULL}]
  BY Roots DEF Describes, Valid, Placement
<1>3. \A v \in PagesOf(o), l \in 0 .. 2 :
        place[<<o, l, Prefix(v, l)>>] # NULL => PteToPpn(Entry(place, o, l, v)) = place[<<o, l, Prefix(v, l)>>]
  <2>1. \A v \in Pages, l \in 0 .. 2 : LeadsTo(Entry(place, o, l, v), place[<<o, l, Prefix(v, l)>>], o, l)
    BY <1>2, EntryFacts
  <2> QED BY <2>1, RangeFacts DEF LeadsTo
<1>4. \A u : u \in UsesOf(o, pages, lowest) <=>
        \/ u = [owner |-> o, level |-> 3, prefix |-> 0, frame |-> Root(o)]
        \/ \E v \in pages, l \in lowest .. 2 : \E e \in Entries(o, v, l) :
             u = [owner |-> o, level |-> l, prefix |-> Prefix(v, l), frame |-> PteToPpn(e)]
  <2> DEFINE Own(v, l) == {[owner |-> o, level |-> l, prefix |-> Prefix(v, l), frame |-> PteToPpn(e)]
                             : e \in Entries(o, v, l)}
             root == [owner |-> o, level |-> 3, prefix |-> 0, frame |-> Root(o)]
  <2>1. UsesOf(o, pages, lowest) = {root} \cup UNION {Own(v, l) : v \in pages, l \in lowest .. 2}
    BY DEF UsesOf
  <2>2. \A v, l, u : u \in Own(v, l) <=> \E e \in Entries(o, v, l) :
          u = [owner |-> o, level |-> l, prefix |-> Prefix(v, l), frame |-> PteToPpn(e)]
    OBVIOUS
  <2> HIDE DEF Own, root
  <2>3. \A u : u \in UsesOf(o, pages, lowest) <=>
          u = root \/ \E v \in pages, l \in lowest .. 2 : u \in Own(v, l)
    BY <2>1
  <2> QED BY <2>2, <2>3 DEF root
<1>5. lowest \in 0 .. 1 /\ \A v \in pages : v \in Pages
  BY RangeFacts
<1> SUFFICES ASSUME NEW u
             PROVE  u \in UsesOf(o, pages, lowest) <=>
                      \E a \in FrameKeys : a[1] = o /\ place[a] # NULL /\ u = Use(place, a)
  BY DEF OwnUses
<1>6. ASSUME u \in UsesOf(o, pages, lowest)
      PROVE  \E a \in FrameKeys : a[1] = o /\ place[a] # NULL /\ u = Use(place, a)
  <2>1. CASE u = [owner |-> o, level |-> 3, prefix |-> 0, frame |-> Root(o)]
    <3>0. <<o, 3, 0>> \in FrameKeys
      BY RangeFacts, KeyFacts
    <3>1. PICK a \in FrameKeys : a = <<o, 3, 0>>
      BY <3>0
    <3>2. u = Use(place, a)
      BY <2>1, <3>1, <1>2 DEF Use
    <3> QED BY <3>1, <3>2, <1>2
  <2>2. ASSUME NEW v \in pages, NEW l \in lowest .. 2, NEW e \in Entries(o, v, l),
               u = [owner |-> o, level |-> l, prefix |-> Prefix(v, l), frame |-> PteToPpn(e)]
        PROVE  \E a \in FrameKeys : a[1] = o /\ place[a] # NULL /\ u = Use(place, a)
    <3>1. l \in 0 .. 2 /\ (o = TEMPLATE => l # 0) /\ v \in Pages /\ v \in PagesOf(o)
      BY <1>5
    <3>0. Prefix(v, l) \in Pages /\ l \in 0 .. 3
      BY <3>1, PrefixFacts
    <3>2. PICK a \in FrameKeys : a = <<o, l, Prefix(v, l)>>
      <4>1. <<o, l, Prefix(v, l)>> \in FrameKeys
        BY <3>0, <3>1, KeyFacts
      <4> QED BY <4>1
    <3>3. place[a] # NULL /\ PteToPpn(e) = place[a]
      BY <3>1, <3>2, <1>1, <1>3
    <3>4. u = Use(place, a)
      BY <2>2, <3>2, <3>3 DEF Use
    <3> QED BY <3>2, <3>3, <3>4
  <2> QED BY <1>4, <1>6, <2>1, <2>2
<1>7. ASSUME NEW a \in FrameKeys, a[1] = o, place[a] # NULL, u = Use(place, a)
      PROVE  u \in UsesOf(o, pages, lowest)
  <2>1. PICK l \in 0 .. 3, x \in Pages : a = <<o, l, x>> /\ (o = TEMPLATE => l # 0)
    BY <1>7 DEF FrameKeys, Keys
  <2>2. u = [owner |-> o, level |-> l, prefix |-> x, frame |-> place[<<o, l, x>>]]
    BY <1>7, <2>1 DEF Use
  <2>3. CASE l = 3
    <3>1. x = 0
      BY <1>2, <1>7, <2>1, <2>3 DEF Placement
    <3> QED BY <3>1, <2>2, <2>3, <1>2, <1>4
  <2>4. CASE l # 3
    <3>1. l \in 0 .. 2 /\ l \in lowest .. 2
      BY <2>1, <2>4
    <3>2. PICK v \in PagesOf(o) : x = Prefix(v, l) /\ place[<<o, l + 1, Above(v, l + 1)>>] # NULL
      <4>1. place[<<o, l, x>>] # NULL
        BY <1>7, <2>1
      <4> QED BY <4>1, <3>1, <1>2 DEF Placement
    <3>3. PICK e \in Entries(o, v, l) : PteToPpn(e) = place[<<o, l, x>>]
      <4>1. place[<<o, l, Prefix(v, l)>>] # NULL /\ place[<<o, l, Prefix(v, l)>>] = place[<<o, l, x>>]
        BY <3>2, <1>7, <2>1
      <4>2. PICK e : e = Entry(place, o, l, v)
        OBVIOUS
      <4>3. e \in Entries(o, v, l)
        BY <4>1, <4>2, <3>1, <1>1
      <4>4. PteToPpn(e) = place[<<o, l, x>>]
        BY <4>1, <4>2, <3>1, <1>3
      <4> QED BY <4>3, <4>4
    <3> QED BY <3>1, <3>2, <3>3, <2>2, <1>4
  <2> QED BY <2>3, <2>4
<1> QED BY <1>6, <1>7

(* And Uses is all that is placed.                                         *)
LEMMA UsesFacts ==
  ASSUME NEW place, Describes(place)
  PROVE  \A u : u \in Uses <=> \E a \in FrameKeys : place[a] # NULL /\ u = Use(place, a)
<1>1. \A u : u \in Uses <=>
        \/ kernel_page_table # NULL /\ u \in UsesOf(TEMPLATE, Ram, 1)
        \/ \E p \in Procs : Made(p) /\ u \in UsesOf(p, UserPages, 0)
  BY DEF Uses
<1>2. kernel_page_table # NULL =>
        \A u : u \in UsesOf(TEMPLATE, Ram, 1) <=>
                 \E a \in FrameKeys : a[1] = TEMPLATE /\ place[a] # NULL /\ u = Use(place, a)
  <2> SUFFICES ASSUME kernel_page_table # NULL
               PROVE  \A u : u \in UsesOf(TEMPLATE, Ram, 1) <=>
                        \E a \in FrameKeys : a[1] = TEMPLATE /\ place[a] # NULL /\ u = Use(place, a)
    OBVIOUS
  <2>1. PICK o \in Owners : o = TEMPLATE
    BY RangeFacts
  <2>2. PICK pages, lowest : pages = PagesOf(o) /\ lowest = IF o = TEMPLATE THEN 1 ELSE 0
    OBVIOUS
  <2>3. Root(o) # NULL /\ pages = Ram /\ lowest = 1
    BY <2>1, <2>2 DEF Root, PagesOf
  <2>4. PICK uses : uses = UsesOf(o, pages, lowest)
    OBVIOUS
  <2>5. OwnUses(place, o, uses)
    BY <2>2, <2>3, <2>4, UsesOfFacts
  <2> QED BY <2>1, <2>3, <2>4, <2>5 DEF OwnUses
<1>3. ASSUME NEW p \in Procs, Made(p)
      PROVE  \A u : u \in UsesOf(p, UserPages, 0) <=>
                      \E a \in FrameKeys : a[1] = p /\ place[a] # NULL /\ u = Use(place, a)
  <2>1. PICK pages, lowest : pages = PagesOf(p) /\ lowest = IF p = TEMPLATE THEN 1 ELSE 0
    OBVIOUS
  <2>2. p \in Owners /\ Root(p) # NULL /\ pages = UserPages /\ lowest = 0
    BY <1>3, <2>1, RangeFacts DEF Root, PagesOf, Made
  <2>3. PICK uses : uses = UsesOf(p, pages, lowest)
    OBVIOUS
  <2>4. OwnUses(place, p, uses)
    BY <2>1, <2>2, <2>3, UsesOfFacts
  <2> QED BY <2>2, <2>3, <2>4 DEF OwnUses
<1>4. ASSUME NEW a \in FrameKeys, place[a] # NULL
      PROVE  IF a[1] = TEMPLATE THEN kernel_page_table # NULL ELSE a[1] \in Procs /\ Made(a[1])
  <2>1. PICK o \in Owners, l \in 0 .. 3, x \in Pages : a = <<o, l, x>>
    BY DEF FrameKeys, Keys
  <2>2. Placement(ram, place) /\ Root(o) = place[<<o, 3, 0>>]
    BY Roots DEF Describes, Valid
  <2>3. Root(o) # NULL
    <3> SUFFICES ASSUME Root(o) = NULL PROVE FALSE
      OBVIOUS
    <3>1. l \in 0 .. 2
      <4>1. l = 3 => x = 0
        BY <1>4, <2>1, <2>2 DEF Placement
      <4> QED BY <4>1, <1>4, <2>1, <2>2
    <3>2. PICK v \in PagesOf(o) : x = Prefix(v, l)
      BY <1>4, <2>1, <2>2, <3>1 DEF Placement
    <3>3. Nothing(place, o)
      BY <2>2, NoRoot
    <3>4. v \in Pages
      BY RangeFacts
    <3> QED BY <1>4, <2>1, <3>1, <3>2, <3>3, <3>4 DEF Nothing
  <2> QED BY <2>1, <2>3, RangeFacts DEF Root, Made, Owners
<1> QED BY <1>1, <1>2, <1>3, <1>4

(* Every page that alloc_pages gave out has exactly one use: none is       *)
(* shared between two processes or between a table and user memory, and    *)
(* none is lost.                                                           *)
THEOREM PagesHaveOneUse ==
  ASSUME FENCE_DROPS_TABLES PROVE Spec => []EveryPageHasOneUse
<1>1. ASSUME MemInv, mode # "panic"
      PROVE  /\ {u.frame : u \in Uses} = FREE_RAM .. ram.next - 1
             /\ Cardinality(Uses) = ram.next - FREE_RAM
  <2>1. PICK place : Describes(place)
    BY <1>1 DEF MemInv
  <2>2. \A u : u \in Uses <=> \E a \in FrameKeys : place[a] # NULL /\ u = Use(place, a)
    BY <2>1, UsesFacts
  <2>3. /\ RamOK(ram) /\ ram.ok /\ Accounted(ram, place, {})
        /\ \A a, b \in FrameKeys : place[a] = place[b] /\ place[a] # NULL => a = b
        /\ \A a \in FrameKeys : place[a] # NULL => place[a] \in Given(ram)
    BY <1>1, <2>1 DEF MemInv, HartInv, Describes, Valid, Placement
  <2>4. PICK n : n = ram.next
    OBVIOUS
  <2>5. n \in FREE_RAM .. FREE_RAM_END /\ FREE_RAM \in Int /\ Given(ram) = FREE_RAM .. n - 1
    BY <2>3, <2>4, Constants DEF RamOK, Given, Ram
  <2>6. PICK U : U = Uses
    OBVIOUS
  <2>7. PICK G : G = FREE_RAM .. n - 1
    OBVIOUS
  <2>8. \A a : Use(place, a).frame = place[a]
    BY DEF Use
  <2>9. \A u \in U : u.frame \in G
    BY <2>2, <2>3, <2>5, <2>6, <2>7, <2>8
  <2>10. \A f \in G : \E u \in U : u.frame = f
    <3> SUFFICES ASSUME NEW f \in G PROVE \E u \in U : u.frame = f
      OBVIOUS
    <3>1. PICK a \in FrameKeys : place[a] = f
      BY <2>3, <2>5, <2>7 DEF Accounted
    <3>2. f # NULL
      BY <2>5, <2>7, Constants DEF NULL
    <3>3. Use(place, a) \in U
      BY <3>1, <3>2, <2>2, <2>6
    <3> QED BY <3>1, <3>3, <2>8
  <2>11. ASSUME NEW u \in U, NEW w \in U, u.frame = w.frame PROVE u = w
    <3>1. PICK a \in FrameKeys : place[a] # NULL /\ u = Use(place, a)
      BY <2>2, <2>6
    <3>2. PICK b \in FrameKeys : place[b] # NULL /\ w = Use(place, b)
      BY <2>2, <2>6
    <3>3. place[a] = place[b]
      BY <2>8, <2>11, <3>1, <3>2
    <3> QED BY <2>3, <3>1, <3>2, <3>3
  <2>12. PICK F : F = [u \in U |-> u.frame]
    OBVIOUS
  <2>13. F \in Injection(U, G) /\ F \in Surjection(U, G)
    BY <2>9, <2>10, <2>11, <2>12 DEF Injection, IsInjective, Surjection
  <2>14. IsFiniteSet(G) /\ Cardinality(G) = n - FREE_RAM
    <3>1. IsFiniteSet(G) /\ Cardinality(G) = IF FREE_RAM > n - 1 THEN 0 ELSE n - 1 - FREE_RAM + 1
      BY <2>5, <2>7, FS_Interval
    <3> QED BY <3>1, <2>5
  <2>15. Cardinality(U) = Cardinality(G)
    BY <2>13, <2>14, FS_Injection
  <2> QED BY <2>4, <2>6, <2>7, <2>9, <2>10, <2>14, <2>15
<1>2. MemInv => EveryPageHasOneUse
  BY <1>1 DEF EveryPageHasOneUse
<1> QED BY <1>2, TablesDescribed, PTL
-----------------------------------------------------------------------------
(* What user programs see.                                                 *)

(* PrivateMemory's state, read off a placement.                            *)
Owns(place, p, v) == place[<<p, 3, 0>>] # NULL /\ place[<<p, 0, v>>] # NULL
PageIn(r, place, p, v) == IF Owns(place, p, v) THEN r.page[place[<<p, 0, v>>]] ELSE InitialPage(v)
MemoryIn(r, place) == [p \in Users |-> [v \in UserPages |-> PageIn(r, place, p, v)]]
UsedIn(place) ==
  {u \in Users \X UserPages :
     IF place[<<u[1], 3, 0>>] # NULL THEN place[<<u[1], 0, u[2]>>] # NULL ELSE u[2] \in ImagePages}
ModifiedIn(place, frames) ==
  {u \in Users \X ImagePages : place[<<u[1], 3, 0>>] # NULL /\ place[<<u[1], 0, u[2]>>] \in frames}

(* The tables are those of the placement, with every image in it.          *)
Viewed(place) ==
  /\ Valid(ram, place) /\ \A p \in Procs : page_table[p] = place[<<p, 3, 0>>]
  /\ \A p \in Users, v \in ImagePages : Made(p) => place[<<p, 0, v>>] # NULL

(* What the tables of a process say is what is placed.                     *)
LEMMA LeafIsPlace ==
  ASSUME NEW r, NEW place, Valid(r, place), NEW p \in Procs, NEW root, root = place[<<p, 3, 0>>],
         root # NULL, NEW v \in UserPages, NEW e, e = Leaf(r, root, v)
  PROVE  /\ Has(e, PAGE_V) <=> place[<<p, 0, v>>] # NULL
         /\ place[<<p, 0, v>>] # NULL => PteToPpn(e) = place[<<p, 0, v>>]
<1>1. /\ e = Entry(place, p, 0, v) /\ v \in Pages /\ Prefix(v, 0) = v
      /\ Has(e, PAGE_V) => place[<<p, 0, v>>] # NULL
  BY UserPageLeaf
<1>2. p \in Owners /\ place \in [Keys -> Ram \cup {NULL}]
  BY RangeFacts DEF Valid, Placement
<1>3. LeadsTo(Entry(place, p, 0, v), place[<<p, 0, Prefix(v, 0)>>], p, 0)
  <2>1. 0 \in 0 .. 2
    OBVIOUS
  <2> QED BY <2>1, <1>1, <1>2, EntryFacts, Zenon
<1> QED BY <1>1, <1>3 DEF LeadsTo

(* Then what programs see is read off it.                                  *)
SeenInPlaces ==
  \A place : Viewed(place) =>
    /\ UserMemory = MemoryIn(ram, place) /\ UsedPages = UsedIn(place)
    /\ ModifiedPages = ModifiedIn(place, unsynced)

LEMMA View == SeenInPlaces
<1> SUFFICES ASSUME NEW place, Viewed(place)
             PROVE  /\ UserMemory = MemoryIn(ram, place) /\ UsedPages = UsedIn(place)
                    /\ ModifiedPages = ModifiedIn(place, unsynced)
  BY DEF SeenInPlaces
<1>1. Users \subseteq Procs /\ \A v \in ImagePages : v \in UserPages
  BY MemoryAssumption, ImageInUserSpace DEF Users, Procs
<1>2. ASSUME NEW p \in Users, NEW v \in UserPages
      PROVE  /\ Made(p) <=> place[<<p, 3, 0>>] # NULL
             /\ Mapped(p, v) <=> Owns(place, p, v)
             /\ Owns(place, p, v) => PteToPpn(UserLeaf(p, v)) = place[<<p, 0, v>>]
  <2>1. PICK r, root, e : r = ram /\ root = page_table[p] /\ e = Leaf(r, root, v)
    OBVIOUS
  <2>2. Valid(r, place) /\ p \in Procs /\ root = place[<<p, 3, 0>>] /\ (Made(p) <=> root # NULL)
    BY <1>1, <2>1 DEF Viewed, Made
  <2>3. root # NULL => /\ Has(e, PAGE_V) <=> place[<<p, 0, v>>] # NULL
                       /\ place[<<p, 0, v>>] # NULL => PteToPpn(e) = place[<<p, 0, v>>]
    BY <2>1, <2>2, LeafIsPlace
  <2>4. e = UserLeaf(p, v)
    BY <2>1 DEF UserLeaf
  <2> QED BY <2>2, <2>3, <2>4 DEF Mapped, Owns
<1>3. ASSUME NEW p \in Users, NEW v \in UserPages PROVE SeenPage(p, v) = PageIn(ram, place, p, v)
  BY <1>2 DEF SeenPage, Mapped, PageIn
<1>4. UserMemory = MemoryIn(ram, place)
  BY <1>3 DEF UserMemory, MemoryIn
<1>5. UsedPages = UsedIn(place)
  BY <1>2 DEF UsedPages, UsedIn, Owns
<1>6. ModifiedPages = ModifiedIn(place, unsynced)
  <2>1. ASSUME NEW p \in Users, NEW v \in ImagePages
        PROVE  Made(p) /\ PteToPpn(UserLeaf(p, v)) \in unsynced
                 <=> place[<<p, 3, 0>>] # NULL /\ place[<<p, 0, v>>] \in unsynced
    BY <1>1, <1>2 DEF Viewed, Owns
  <2> QED BY <2>1 DEF ModifiedPages, ModifiedIn
<1> QED BY <1>4, <1>5, <1>6

\* The same behind a step.
LEMMA ViewNext ==
  ASSUME NEW place, Viewed(place)'
  PROVE  /\ UserMemory' = MemoryIn(ram', place) /\ UsedPages' = UsedIn(place)
         /\ ModifiedPages' = ModifiedIn(place, unsynced')
<1>1. SeenInPlaces'
  BY View, PTL
<1> QED BY <1>1 DEF SeenInPlaces, MemoryIn, UsedIn, ModifiedIn, PageIn, Owns
\* The placement that describes the state is viewed.
LEMMA DescribedIsViewed ==
  ASSUME NEW place, Describes(place)
  PROVE  /\ Viewed(place)
         /\ UserMemory = MemoryIn(ram, place) /\ UsedPages = UsedIn(place)
         /\ ModifiedPages = ModifiedIn(place, unsynced)
<1>1. Viewed(place)
  BY DEF Viewed, Describes, Provided
<1> QED BY <1>1, View DEF SeenInPlaces

(* A step that leaves the tables and the user pages alone is invisible but *)
(* for the words loaded and the process that executes.                     *)
LEMMA NothingSeen ==
  ASSUME UNCHANGED <<ram, page_table, unsynced>>
  PROVE  UNCHANGED <<UserMemory, UsedPages, ModifiedPages>>
BY DEF UserMemory, UsedPages, ModifiedPages, SeenPage, Mapped, UserLeaf, Made

\* Then the step is invisible altogether.
LEMMA StepsInvisible ==
  ASSUME UNCHANGED <<UserMemory, UsedPages, ModifiedPages, current, loaded>>,
         Machine' = Machine
  PROVE  UNCHANGED PM!vars
BY DEF PM!vars

\* Code that runs is that of a user process.
LEMMA WhoRuns ==
  ASSUME MemInv, mode \in {"run", "fault"}, mode = "run" => current # IDLE
  PROVE  current \in Users /\ PM!Runs(current) /\ \A p \in Procs : Made(p)
<1>1. current \in Procs /\ current # IDLE /\ \A p \in Procs : Made(p)
  BY DEF MemInv, TypeOK, HartInv
<1>2. current \in Users
  BY <1>1, MemoryAssumption DEF Procs, Users, IDLE
<1> QED BY <1>1, <1>2 DEF PM!Runs, Machine

(* The leaf that lets user code through leads to a page of its own that it *)
(* uses.                                                                   *)
LEMMA AccessesOwnPage ==
  ASSUME MemInv, UserRuns, NEW place, Describes(place), NEW v \in Pages,
         NEW e \in Leaves(ram, satp, tlb, v), Has(e, PAGE_U),
         NEW f, f = PteToPpn(e)
  PROVE  /\ f = place[<<current, 0, v>>] /\ f \in Ram /\ current \in Users /\ v \in UserPages
         /\ Owns(place, current, v) /\ <<current, v>> \in UsedPages
         /\ UserMemory[current][v] = ram.page[f]
<1>1. current \in Users /\ \A p \in Procs : Made(p)
  BY WhoRuns DEF UserRuns
<1>2. f = place[<<current, 0, v>>] /\ f \in Ram /\ current \in Procs
  BY AllowedLeaf DEF UserRuns
<1>3. f # NULL /\ place[<<current, 3, 0>>] # NULL
  BY <1>1, <1>2, RangeFacts DEF Describes, Made
<1>4. v \in UserPages
  <2>1. PICK x \in PagesOf(current) : v = Prefix(x, 0)
    <3>1. PICK l \in 0 .. 2 : l = 0
      OBVIOUS
    <3>2. PICK o \in Owners : o = current
      BY <1>2, RangeFacts
    <3>3. Placement(ram, place) /\ place[<<o, l, v>>] # NULL
      BY <1>2, <1>3, <3>1, <3>2 DEF Describes, Valid
    <3>4. \E x \in PagesOf(o) : v = Prefix(x, l)
      BY <3>3, PlacedForAPage
    <3> QED BY <3>1, <3>2, <3>4
  <2>2. PagesOf(current) = UserPages
    BY <1>2, RangeFacts DEF PagesOf
  <2>3. Prefix(x, 0) = x
    BY <2>1, <2>2, RangeFacts, PrefixFacts
  <2> QED BY <2>1, <2>2, <2>3
<1>5. Owns(place, current, v)
  BY <1>2, <1>3 DEF Owns
<1>6. <<current, v>> \in UsedPages
  <2>1. <<current, v>> \in UsedIn(place)
    BY <1>1, <1>4, <1>5 DEF UsedIn, Owns
  <2> QED BY <2>1, DescribedIsViewed
<1>7. UserMemory[current][v] = ram.page[f]
  BY <1>1, <1>2, <1>4, <1>5, DescribedIsViewed DEF MemoryIn, PageIn
<1> QED BY <1>1, <1>2, <1>4, <1>5, <1>6, <1>7

(* yield() is a dispatch.                                                  *)
LEMMA YieldDispatches ==
  ASSUME NEW p \in Procs, Yield(p) PROVE PM!Next
<1>1. PM!Dispatch(p)
  <2>1. UNCHANGED <<UserMemory, UsedPages, ModifiedPages>>
    BY NothingSeen DEF Yield
  <2>2. Machine = "ok" /\ Machine' = "ok" /\ current' = p /\ loaded' = 0
    BY DEF Yield, Machine
  <2> QED BY <2>1, <2>2 DEF PM!Dispatch
<1>2. p \in Users \cup {PM!NOBODY}
  BY MemoryAssumption DEF Procs, Users, PM!NOBODY
<1> QED BY <1>1, <1>2 DEF PM!Next

(* What the hart remembers is invisible, and so is a fault by itself.      *)
LEMMA HartInvisible ==
  ASSUME mode # "panic",
         TlbEvict \/ (\E v \in Touched : Fault(v) \/ \E level \in 0 .. 2 : TlbFill(v, level))
  PROVE  UNCHANGED PM!vars
<1>1. /\ UNCHANGED <<ram, page_table, unsynced, current, loaded>>
      /\ mode' # "panic"
  BY DEF TlbEvict, Fault, TlbFill
<1>2. Machine' = Machine
  BY <1>1 DEF Machine
<1> QED BY <1>1, <1>2, NothingSeen, StepsInvisible

(* User code loads what the abstract memory holds.                         *)
LEMMA LoadLoads ==
  ASSUME MemInv, NEW v \in Touched, NEW i \in Offsets, Load(v, i) PROVE PM!Next
<1>1. UserRuns /\ mode = "run" /\ v \in Pages
  BY MemoryAssumption DEF Load, UserRuns, Pages
<1>2. PICK place : Describes(place)
  BY <1>1 DEF MemInv
<1>3. PICK e \in Leaves(ram, satp, tlb, v) : Has(e, PAGE_U) /\ loaded' = ram.page[PteToPpn(e)][i]
  BY DEF Load, Allows
<1>4. PICK f : f = PteToPpn(e)
  OBVIOUS
<1>5. /\ current \in Users /\ v \in UserPages /\ <<current, v>> \in UsedPages
      /\ UserMemory[current][v] = ram.page[f]
  BY <1>1, <1>2, <1>3, <1>4, AccessesOwnPage
<1>6. PM!Runs(current)
  BY <1>1, WhoRuns DEF UserRuns
<1>7. UNCHANGED <<UserMemory, UsedPages, ModifiedPages>>
  BY NothingSeen DEF Load
<1>8. Machine' = Machine /\ current' = current
  BY DEF Load, Machine
<1>9. PM!Load(current, v, i)
  BY <1>3, <1>4, <1>5, <1>6, <1>7, <1>8 DEF PM!Load
<1> QED BY <1>5, <1>9 DEF PM!Next

(* User code executes what the abstract memory holds, unless it has        *)
(* written there.                                                          *)
LEMMA FetchFetches ==
  ASSUME MemInv, NEW v \in Code, NEW i \in Offsets, Fetch(v, i) PROVE PM!Next
<1>1. UserRuns /\ mode = "run" /\ v \in Pages /\ i \in Index
  BY MemoryAssumption DEF Fetch, UserRuns, Pages
<1>2. PICK place : Describes(place)
  BY <1>1 DEF MemInv
<1>3. PICK e \in Leaves(ram, satp, tlb, v) :
        Has(e, PAGE_U) /\ loaded' \in {ram.page[PteToPpn(e)][i]} \cup
                                      (IF PteToPpn(e) \in unsynced THEN {GARBAGE} ELSE {})
  BY DEF Fetch, Allows
<1>4. PICK f : f = PteToPpn(e)
  OBVIOUS
<1>5. /\ f = place[<<current, 0, v>>] /\ f \in Ram
      /\ current \in Users /\ v \in UserPages /\ <<current, v>> \in UsedPages
      /\ UserMemory[current][v] = ram.page[f] /\ Owns(place, current, v)
  BY <1>1, <1>2, <1>3, <1>4, AccessesOwnPage
<1>6. PM!Runs(current)
  BY <1>1, WhoRuns DEF UserRuns
<1>7. UNCHANGED <<UserMemory, UsedPages, ModifiedPages>>
  BY NothingSeen DEF Fetch
<1>8. Machine' = Machine /\ current' = current
  BY DEF Fetch, Machine
<1>9. v \in ImagePages /\ f \in unsynced => <<current, v>> \in ModifiedPages
  BY <1>2, <1>5, DescribedIsViewed DEF ModifiedIn, Owns
<1>10. loaded' \in Nat /\ ram.page[f][i] \in Nat
  <2>1. ram.page[f][i] \in Nat
    BY <1>1, <1>5 DEF MemInv, TypeOK
  <2> QED BY <2>1, <1>3, <1>4, Constants
<1>11. loaded' \in IF v \in ImagePages /\ <<current, v>> \notin ModifiedPages
                   THEN {UserMemory[current][v][i]} ELSE Nat
  BY <1>3, <1>4, <1>5, <1>9, <1>10
<1>12. PM!Fetch(current, v, i)
  BY <1>5, <1>6, <1>7, <1>8, <1>11 DEF PM!Fetch
<1> QED BY <1>5, <1>12 DEF PM!Next

(* A word stored in a user page changes that page for its process, and     *)
(* nothing for the others.                                                 *)
StoredAt(place, p, v, i, word, frames, more, M, M2) ==
  /\ M2 = [M EXCEPT ![p][v][i] = word]
  /\ ModifiedIn(place, more) =
       ModifiedIn(place, frames) \cup {u \in {<<p, v>>} : v \in ImagePages /\ M2 # M}

LEMMA StoreInPlace ==
  ASSUME NEW r, NEW place, Valid(r, place), NEW p \in Users, NEW v \in UserPages, Owns(place, p, v),
         NEW f \in Ram, f = place[<<p, 0, v>>], NEW i \in Index, NEW word \in Nat,
         NEW s, s = Write(r, f, i, word), NEW frames,
         NEW more, more = frames \cup {g \in Ram : s.page[g] # r.page[g]},
         NEW M, M = MemoryIn(r, place), NEW M2, M2 = MemoryIn(s, place)
  PROVE  StoredAt(place, p, v, i, word, frames, more, M, M2)
<1>1. /\ s.page[f] = [r.page[f] EXCEPT ![i] = word]
      /\ \A g \in Ram : g # f => s.page[g] = r.page[g]
  BY DEF Valid, RamOK, Write
<1>2. Users \subseteq Procs /\ \A x \in ImagePages : x \in UserPages
  BY MemoryAssumption, ImageInUserSpace DEF Users, Procs
<1>3. ASSUME NEW q \in Users, NEW x \in UserPages
      PROVE  /\ place[<<q, 0, x>>] = f => q = p /\ x = v
             /\ place[<<q, 0, x>>] \in Ram \cup {NULL}
  <2>1. PICK a : a = <<q, 0, x>>
    OBVIOUS
  <2>2. PICK b : b = <<p, 0, v>>
    OBVIOUS
  <2>3. a \in FrameKeys /\ b \in FrameKeys /\ a \in Keys
    BY <1>2, <2>1, <2>2, KeyFacts, RangeFacts
  <2>4. place[a] = place[b] /\ place[a] # NULL => a = b
    BY <2>3 DEF Valid, Placement
  <2> QED BY <2>1, <2>2, <2>3, <2>4, RangeFacts DEF Valid, Placement
<1>4. ASSUME NEW q \in Users, NEW x \in UserPages
      PROVE  PageIn(s, place, q, x) = IF q = p /\ x = v THEN [r.page[f] EXCEPT ![i] = word]
                                      ELSE PageIn(r, place, q, x)
  BY <1>1, <1>3 DEF PageIn, Owns
<1>5. PageIn(r, place, p, v) = r.page[f]
  BY DEF PageIn
<1>6. M2 = [M EXCEPT ![p][v][i] = word]
  <2>1. PICK words : words = [r.page[f] EXCEPT ![i] = word]
    OBVIOUS
  <2>2. M[p][v] = r.page[f] /\ M[p] = [x \in UserPages |-> PageIn(r, place, p, x)]
    BY <1>5 DEF MemoryIn
  <2>3. PICK row : row = [M[p] EXCEPT ![v] = words]
    OBVIOUS
  <2>4. \A x \in UserPages : row[x] = PageIn(s, place, p, x)
    BY <2>1, <2>2, <2>3, <1>4
  <2>5. row = [x \in UserPages |-> PageIn(s, place, p, x)]
    BY <2>2, <2>3, <2>4
  <2>6. M2[p] = row
    BY <2>5 DEF MemoryIn
  <2>7. ASSUME NEW q \in Users, q # p PROVE M2[q] = M[q]
    BY <2>7, <1>4 DEF MemoryIn
  <2>8. M2 = [q \in Users |-> M2[q]] /\ M = [q \in Users |-> M[q]]
    BY DEF MemoryIn
  <2>9. M2 = [M EXCEPT ![p] = row]
    BY <2>6, <2>7, <2>8
  <2> QED BY <2>1, <2>2, <2>3, <2>9
<1>7. M2 # M <=> s.page[f] # r.page[f]
  <2>1. M[p][v] = r.page[f] /\ M2[p][v] = s.page[f]
    BY <1>1, <1>4, <1>5 DEF MemoryIn
  <2>2. ASSUME s.page[f] = r.page[f] PROVE M2 = M
    <3>1. \A q \in Users, x \in UserPages : PageIn(s, place, q, x) = PageIn(r, place, q, x)
      BY <2>2, <1>1, <1>4, <1>5
    <3> QED BY <3>1 DEF MemoryIn
  <2> QED BY <2>1, <2>2
<1>8. ASSUME NEW q \in Users, NEW x \in ImagePages
      PROVE  place[<<q, 3, 0>>] # NULL /\ place[<<q, 0, x>>] \in more
               <=> \/ place[<<q, 3, 0>>] # NULL /\ place[<<q, 0, x>>] \in frames
                   \/ q = p /\ x = v /\ v \in ImagePages /\ M2 # M
  BY <1>1, <1>2, <1>3, <1>7 DEF Owns
<1>9. ModifiedIn(place, more) =
        ModifiedIn(place, frames) \cup {u \in {<<p, v>>} : v \in ImagePages /\ M2 # M}
  BY <1>8 DEF ModifiedIn
<1> QED BY <1>6, <1>9 DEF StoredAt

(* User code stores into its own memory, and nobody else's.                *)
LEMMA StoreStores ==
  ASSUME MemInv, NEW v \in Stored, NEW i \in Offsets, NEW word \in Data, Store(v, i, word)
  PROVE  PM!Next
<1>1. UserRuns /\ mode = "run" /\ v \in Pages /\ i \in Index /\ word \in Nat
  BY MemoryAssumption DEF Store, UserRuns, Pages
<1>2. PICK place : Describes(place)
  BY <1>1 DEF MemInv
<1>3. PICK e \in Leaves(ram, satp, tlb, v) : Has(e, PAGE_U) /\ ram' = Write(ram, PteToPpn(e), i, word)
  BY DEF Store, Allows
<1>4. PICK f : f = PteToPpn(e)
  OBVIOUS
<1>5. /\ f = place[<<current, 0, v>>] /\ f \in Ram
      /\ current \in Users /\ v \in UserPages /\ <<current, v>> \in UsedPages
      /\ Owns(place, current, v)
  BY <1>1, <1>2, <1>3, <1>4, AccessesOwnPage
<1>6. PM!Runs(current)
  BY <1>1, WhoRuns DEF UserRuns
<1>7. Machine' = Machine /\ UNCHANGED <<page_table, current, loaded>> /\ unsynced' = Unsynced
  BY DEF Store, Machine
<1>8. Valid(ram, place) /\ Viewed(place)'
  <2>1. Viewed(place) /\ Valid(ram', place)
    BY <1>2, DescribedIsViewed, StoreSparesTables
  <2> QED BY <2>1, <1>7 DEF Viewed, Made
<1>9. /\ UserMemory = MemoryIn(ram, place) /\ UserMemory' = MemoryIn(ram', place)
      /\ UsedPages' = UsedPages
      /\ ModifiedPages = ModifiedIn(place, unsynced) /\ ModifiedPages' = ModifiedIn(place, unsynced')
  BY <1>2, <1>8, DescribedIsViewed, ViewNext
<1>10. PICK p : p = current
  OBVIOUS
<1>11. PICK r, s : r = ram /\ s = ram'
  OBVIOUS
<1>12. PICK M, M2, frames, more :
         M = UserMemory /\ M2 = UserMemory' /\ frames = unsynced /\ more = unsynced'
  OBVIOUS
<1>13. /\ Valid(r, place) /\ p \in Users /\ Owns(place, p, v) /\ f = place[<<p, 0, v>>]
       /\ s = Write(r, f, i, word) /\ more = frames \cup {g \in Ram : s.page[g] # r.page[g]}
       /\ M = MemoryIn(r, place) /\ M2 = MemoryIn(s, place)
  BY <1>3, <1>4, <1>5, <1>7, <1>8, <1>9, <1>10, <1>11, <1>12 DEF Unsynced
<1>14. StoredAt(place, p, v, i, word, frames, more, M, M2)
  BY <1>1, <1>5, <1>13, StoreInPlace
<1>15. PM!Store(current, v, i, word)
  BY <1>5, <1>6, <1>7, <1>9, <1>10, <1>12, <1>14 DEF PM!Store, StoredAt
<1> QED BY <1>5, <1>15 DEF PM!Next
\* A page of a user process has a key, and what it holds is spared.
LEMMA UserFrame ==
  ASSUME NEW r, NEW place, Valid(r, place), NEW q \in Users, NEW x \in UserPages,
         NEW a, a = <<q, 0, x>>
  PROVE  /\ a \in Keys /\ a \in FrameKeys /\ q \in Procs /\ x \in Pages
         /\ place[a] # NULL => place[a] \in Given(r) /\ place[a] \in Ram /\ Spare(place, place[a])
<1>1. q \in Procs /\ x \in Pages /\ q \in Owners /\ q # TEMPLATE
  BY RangeFacts, MemoryAssumption DEF Users, Procs
<1>2. a \in Keys /\ a \in FrameKeys /\ a[2] = 0
  BY <1>1, KeyFacts
<1> QED BY <1>1, <1>2 DEF Valid, Placement, Spare, Given

\* At boot no image is modified.
LEMMA NoneModified ==
  ASSUME \A q \in Users : Made(q) => unsynced = {} PROVE ModifiedPages = {}
BY DEF ModifiedPages

\* The same behind a step.
LEMMA NoneModifiedNext ==
  ASSUME \A q \in Users : Made(q)' => unsynced' = {} PROVE ModifiedPages' = {}
BY DEF ModifiedPages

(* A process that boot makes sees what it is promised from the start: the  *)
(* image and zeros.                                                        *)
LEMMA MakingInvisible ==
  ASSUME RoomForBoot, MemInv, NEW p \in Procs, CreateProcess(p) PROVE UNCHANGED PM!vars
<1>1. mode = "boot" /\ page_table[p] = NULL
  BY DEF CreateProcess
<1>2. PICK place : Describes(place)
  BY <1>1 DEF MemInv
<1>3. PICK place2 : Makes(place, p, place2) /\ ram'.ok /\ Finished(place, p, place2) /\ Roomy(place2)
  <2>1. Roomy(place)
    BY <1>1, <1>2 DEF Describes, Provided
  <2>2. PICK place2 : Makes(place, p, place2)
    BY <1>2, Making
  <2> QED BY <2>1, <2>2 DEF Makes
<1>4. mode' = "boot" /\ UNCHANGED <<current, loaded>>
  BY <1>3 DEF CreateProcess, ModeAfter
<1>5. Describes(place2)'
  BY <1>2, <1>3, MadeDescribed
<1>6. Viewed(place2)'
  BY <1>5 DEF Viewed, Describes, Provided
<1>7. /\ UserMemory = MemoryIn(ram, place) /\ UserMemory' = MemoryIn(ram', place2)
      /\ UsedPages = UsedIn(place) /\ UsedPages' = UsedIn(place2)
  BY <1>2, <1>6, DescribedIsViewed, ViewNext
<1>8. ModifiedPages = {} /\ ModifiedPages' = {}
  <2>1. \A q \in Users : Made(q) => unsynced = {}
    BY <1>1, <1>2 DEF Describes, Provided
  <2>2. \A q \in Users : Made(q)' => unsynced' = {}
    BY <1>4, <1>5 DEF Describes, Provided
  <2> QED BY <2>1, <2>2, NoneModified, NoneModifiedNext
<1>9. Users \subseteq Procs /\ IDLE \notin Users
  BY MemoryAssumption DEF Users, Procs, IDLE
<1>10. ASSUME NEW q \in Users, NEW x \in UserPages
       PROVE  /\ PageIn(ram', place2, q, x) = PageIn(ram, place, q, x)
              /\ <<q, x>> \in UsedIn(place2) <=> <<q, x>> \in UsedIn(place)
  <2>1. x \in Pages
    BY RangeFacts
  <2>2. CASE q # p
    <3>1. place2[<<q, 3, 0>>] = place[<<q, 3, 0>>] /\ place2[<<q, 0, x>>] = place[<<q, 0, x>>]
      BY <2>1, <2>2, <1>2, <1>3, <1>9 DEF Finished, Makes, Describes
    <3>2. place[<<q, 0, x>>] # NULL => ram'.page[place[<<q, 0, x>>]] = ram.page[place[<<q, 0, x>>]]
      BY <2>1, <1>3, <1>9 DEF Finished, PagesKept
    <3> QED BY <3>1, <3>2 DEF PageIn, Owns, UsedIn
  <2>3. CASE q = p
    <3>1. place[<<q, 3, 0>>] = NULL /\ place2[<<q, 3, 0>>] # NULL
      BY <2>3, <1>1, <1>2, <1>3 DEF Finished, Describes
    <3>2. CASE x \in ImagePages
      <4>1. PICK k \in 0 .. IMAGE_PAGES - 1 : x = USER_BASE + k
        BY <3>2, ImageInUserSpace
      <4>2. Shown(ram', place2, q, k)
        BY <2>3, <1>3, <1>9 DEF Finished
      <4>3. x - USER_BASE = k
        BY <4>1, Constants
      <4>4. place2[<<q, 0, x>>] # NULL /\ ram'.page[place2[<<q, 0, x>>]] = InitialPage(x)
        BY <3>2, <4>1, <4>2, <4>3 DEF Shown, InitialPage
      <4> QED BY <3>1, <3>2, <4>4 DEF PageIn, Owns, UsedIn
    <3>3. CASE x \notin ImagePages
      <4>1. place2[<<q, 0, x>>] = NULL
        BY <3>3, <1>3 DEF Roomy, Fits
      <4> QED BY <3>1, <3>3, <4>1 DEF PageIn, Owns, UsedIn
    <3> QED BY <3>2, <3>3
  <2> QED BY <2>2, <2>3
<1>11. UserMemory' = UserMemory
  BY <1>7, <1>10 DEF MemoryIn
<1>12. UsedPages' = UsedPages
  <2>1. \A u \in Users \X UserPages : u \in UsedIn(place2) <=> u \in UsedIn(place)
    BY <1>10
  <2>2. UsedIn(place2) \subseteq Users \X UserPages /\ UsedIn(place) \subseteq Users \X UserPages
    BY DEF UsedIn
  <2> QED BY <1>7, <2>1, <2>2
<1>13. Machine' = Machine
  BY <1>1, <1>4 DEF Machine
<1> QED BY <1>4, <1>8, <1>11, <1>12, <1>13, StepsInvisible

(* A page given to a process is the clear one it saw before, and the first *)
(* touch of it; when there is none, all stays as it is.                    *)
LEMMA NewPageSeen ==
  ASSUME NEW r, NEW place, NEW p \in Users, NEW u, Lacks(r, place, p, u), u \notin ImagePages,
         NEW s, NEW place2, NewPage(r, place, p, u, ZeroPage, s, place2),
         \A q \in Users, x \in ImagePages : place[<<q, 3, 0>>] # NULL => place[<<q, 0, x>>] # NULL,
         NEW frames, NEW more, more = frames \cup {g \in Ram : s.page[g] # r.page[g]}
  PROVE  /\ MemoryIn(s, place2) = MemoryIn(r, place)
         /\ <<p, u>> \notin UsedIn(place)
         /\ UsedIn(place2) = UsedIn(place) \cup (IF s.ok THEN {<<p, u>>} ELSE {})
         /\ ModifiedIn(place2, more) = ModifiedIn(place, frames)
<1>1. /\ Valid(r, place) /\ Valid(s, place2) /\ u \in UserPages /\ Keeps(r, place, s, place2)
      /\ place[<<p, 3, 0>>] # NULL /\ place[<<p, 0, u>>] = NULL
      /\ s.ok => place2[<<p, 0, u>>] = r.next /\ s.page[r.next] = ZeroPage
      /\ ~ s.ok => place2[<<p, 0, u>>] = NULL
      /\ \A a \in Keys : place2[a] # place[a] => \E l \in 0 .. 2 : a = <<p, l, Prefix(u, l)>>
  BY DEF Lacks, NewPage, Fills, Widens
<1>2. r.next # NULL
  BY <1>1, Constants DEF Valid, RamOK, NULL
<1>3. Prefix(u, 0) = u
  BY <1>1, RangeFacts, PrefixFacts
<1>4. ASSUME NEW q \in Users PROVE place2[<<q, 3, 0>>] = place[<<q, 3, 0>>]
  <2>1. <<q, 3, 0>> \in Keys
    BY RangeFacts, KeyFacts, MemoryAssumption DEF Users, Procs
  <2> QED BY <2>1, <1>1
<1>5. ASSUME NEW q \in Users, NEW x \in UserPages, q # p \/ x # u
      PROVE  /\ place2[<<q, 0, x>>] = place[<<q, 0, x>>]
             /\ place[<<q, 0, x>>] # NULL => s.page[place[<<q, 0, x>>]] = r.page[place[<<q, 0, x>>]]
  <2>1. PICK a : a = <<q, 0, x>>
    OBVIOUS
  <2>2. /\ a \in Keys
        /\ place[a] # NULL => place[a] \in Given(r) /\ Spare(place, place[a])
    BY <2>1, <1>1, UserFrame
  <2>3. place2[a] = place[a]
    BY <2>1, <2>2, <1>1, <1>3, <1>5
  <2>4. place[a] # NULL => s.page[place[a]] = r.page[place[a]]
    BY <2>2, <1>1 DEF Keeps
  <2> QED BY <2>1, <2>3, <2>4
<1>6. InitialPage(u) = ZeroPage
  BY DEF InitialPage
<1>7. ASSUME NEW q \in Users, NEW x \in UserPages
      PROVE  PageIn(s, place2, q, x) = PageIn(r, place, q, x)
  BY <1>1, <1>4, <1>5, <1>6 DEF PageIn, Owns
<1>8. MemoryIn(s, place2) = MemoryIn(r, place)
  BY <1>7 DEF MemoryIn
<1>9. <<p, u>> \notin UsedIn(place)
  BY <1>1 DEF UsedIn
<1>10. ASSUME NEW q \in Users, NEW x \in UserPages
       PROVE  <<q, x>> \in UsedIn(place2)
                <=> <<q, x>> \in UsedIn(place) \/ (s.ok /\ q = p /\ x = u)
  BY <1>1, <1>2, <1>4, <1>5 DEF UsedIn
<1>11. UsedIn(place2) = UsedIn(place) \cup (IF s.ok THEN {<<p, u>>} ELSE {})
  <2>1. UsedIn(place2) \subseteq Users \X UserPages /\ UsedIn(place) \subseteq Users \X UserPages
    BY DEF UsedIn
  <2> QED BY <2>1, <1>1, <1>10
<1>12. ASSUME NEW q \in Users, NEW x \in ImagePages
       PROVE  place2[<<q, 3, 0>>] # NULL /\ place2[<<q, 0, x>>] \in more
                <=> place[<<q, 3, 0>>] # NULL /\ place[<<q, 0, x>>] \in frames
  <2>1. x \in UserPages /\ x # u
    BY ImageInUserSpace
  <2> QED BY <2>1, <1>4, <1>5
<1>13. ModifiedIn(place2, more) = ModifiedIn(place, frames)
  BY <1>12 DEF ModifiedIn
<1> QED BY <1>8, <1>9, <1>11, <1>13

(* When no frame is left for a page, as many are used as was promised: the *)
(* tables and the used pages need no more than those of FramesForPages.    *)
LEMMA NoRoomIsRunOut ==
  ASSUME NEW r, NEW place, Placement(r, place), Nothing(place, IDLE),
         NEW p \in Users, NEW u \in UserPages, NoRoom(place, Way(p, u)),
         \A q \in Users : place[<<q, 3, 0>>] # NULL,
         NEW used, used = UsedIn(place)
  PROVE  Cardinality(used) >= FramesForPages
<1>1. PICK S : S = used \cup {<<p, u>>}
  OBVIOUS
<1>2. used \in SUBSET (Users \X UserPages) /\ S \in SUBSET (Users \X UserPages)
  BY <1>1 DEF UsedIn
<1>3. IsFiniteSet(used) /\ IsFiniteSet(S) /\ Cardinality(S) <= Cardinality(used) + 1
      /\ Cardinality(used) \in Nat /\ Cardinality(S) \in Nat
  <2>1. IsFiniteSet(UserPages)
    <3>1. USER_BASE \in Int /\ USER_LIMIT - 1 \in Int
      BY Constants
    <3> QED BY <3>1, FS_Interval DEF UserPages
  <2>2. IsFiniteSet(Users \X UserPages)
    BY <2>1, FiniteKeys, FS_Product
  <2>3. IsFiniteSet(used)
    BY <2>2, <1>2, FS_Subset
  <2>4. PICK x : x = <<p, u>>
    OBVIOUS
  <2>5. /\ IsFiniteSet(used \cup {x})
        /\ Cardinality(used \cup {x}) = IF x \in used THEN Cardinality(used) ELSE Cardinality(used) + 1
    BY <2>3, FS_AddElement
  <2>6. S = used \cup {x}
    BY <1>1, <2>4
  <2>7. Cardinality(used) \in Nat
    BY <2>3, FS_CardinalityType
  <2> QED BY <2>3, <2>5, <2>6, <2>7
<1>4. Fits(place, S)
  BY <1>1 DEF Fits, UsedIn
<1>5. Way(p, u) \subseteq Budget(S)
  <2>1. p \in Owners /\ p # IDLE /\ u \in PagesOf(p)
    BY RangeFacts, MemoryAssumption DEF Users, Procs, IDLE, PagesOf
  <2> QED BY <2>1, <1>1, WayInBudget
<1>6. FramesForPages < Cardinality(S)
  BY <1>2, <1>3, <1>4, <1>5, RoomFor
<1>7. FramesForPages \in Int
  BY TableKeysCounted
<1> QED BY <1>3, <1>6, <1>7

\* The abstract specification counts with the same operator.
LEMMA SameCount == ASSUME NEW S PROVE PM!Cardinality(S) = Cardinality(S)
BY DEF PM!Cardinality, Cardinality

(* A page fault is a first touch, the end of memory or a bad address.      *)
LEMMA FaultSeen ==
  ASSUME MemInv, PageFault PROVE PM!Next
<1>1. mode = "fault" /\ UNCHANGED <<page_table, current, loaded, stval>> /\ unsynced' = Unsynced
  BY DEF PageFault
<1>2. current \in Users /\ PM!Runs(current) /\ \A p \in Procs : Made(p)
  BY <1>1, WhoRuns
<1>3. PICK place : Describes(place)
  BY <1>1 DEF MemInv
<1>4. CASE stval \notin UserPages
  <2>1. mode' = "panic" /\ ram' = ram
    BY <1>4 DEF PageFault
  <2>2. unsynced' = unsynced
    BY <1>1, <2>1 DEF Unsynced
  <2>3. UNCHANGED <<UserMemory, UsedPages, ModifiedPages>>
    BY <1>1, <2>1, <2>2, NothingSeen
  <2>4. Machine' = "badaddr"
    BY <1>1, <1>4, <2>1 DEF Machine
  <2>5. PM!BadAddress(current)
    BY <1>1, <1>2, <2>3, <2>4 DEF PM!BadAddress
  <2> QED BY <1>2, <2>5 DEF PM!Next
<1>5. CASE stval \in UserPages
  <2>1. mode' = ModeAfter(ram', "run")
    BY <1>5 DEF PageFault
  <2>2. Lacks(ram, place, current, stval)
    BY <1>3, <1>5, FaultMaps
  <2>3. PICK r, s, p, u : r = ram /\ s = ram' /\ p = current /\ u = stval
    OBVIOUS
  <2>4. PICK place2 : NewPage(ram, place, current, stval, ZeroPage, ram', place2)
    BY <1>3, <1>5, FaultMaps
  <2>5. PICK frames, more : frames = unsynced /\ more = unsynced'
    OBVIOUS
  <2>6. Users \subseteq Procs /\ \A x \in ImagePages : x \in UserPages
    BY MemoryAssumption, ImageInUserSpace DEF Users, Procs
  <2>7. \A q \in Procs : page_table[q] = place[<<q, 3, 0>>] /\ place[<<q, 3, 0>>] # NULL
    BY <1>2, <1>3 DEF Describes, Made
  <2>8. \A q \in Users, x \in ImagePages : place[<<q, 0, x>>] # NULL
    BY <1>2, <1>3, <2>6 DEF Describes, Provided
  <2>9. /\ p \in Users /\ u \in UserPages /\ Lacks(r, place, p, u)
        /\ NewPage(r, place, p, u, ZeroPage, s, place2) /\ u \notin ImagePages
        /\ more = frames \cup {g \in Ram : s.page[g] # r.page[g]}
    BY <1>1, <1>2, <1>5, <2>2, <2>3, <2>4, <2>5, <2>8 DEF Unsynced, Lacks
  <2>10. /\ MemoryIn(s, place2) = MemoryIn(r, place)
         /\ <<p, u>> \notin UsedIn(place)
         /\ UsedIn(place2) = UsedIn(place) \cup (IF s.ok THEN {<<p, u>>} ELSE {})
         /\ ModifiedIn(place2, more) = ModifiedIn(place, frames)
    BY <2>8, <2>9, NewPageSeen
  <2>11. Viewed(place2)'
    <3>1. Valid(s, place2) /\ \A a \in Keys : place[a] # NULL => place2[a] = place[a]
      BY <2>9 DEF NewPage, Fills, Widens
    <3>2. ASSUME NEW q \in Procs PROVE page_table'[q] = place2[<<q, 3, 0>>]
      <4>1. <<q, 3, 0>> \in Keys
        BY RangeFacts, KeyFacts
      <4> QED BY <4>1, <3>1, <2>7, <1>1
    <3>3. ASSUME NEW q \in Users, NEW x \in ImagePages PROVE place2[<<q, 0, x>>] # NULL
      <4>1. <<q, 0, x>> \in Keys
        BY <2>6, RangeFacts, KeyFacts
      <4> QED BY <4>1, <3>1, <2>8
    <3> QED BY <3>1, <3>2, <3>3, <2>3 DEF Viewed
  <2>12. /\ UserMemory' = UserMemory /\ ModifiedPages' = ModifiedPages
         /\ UsedPages = UsedIn(place) /\ UsedPages' = UsedIn(place2)
    BY <1>3, <2>3, <2>5, <2>10, <2>11, DescribedIsViewed, ViewNext
  <2>13. CASE s.ok
    <3>1. Machine' = "ok" /\ Machine = "ok"
      BY <1>1, <2>1, <2>3, <2>13 DEF Machine, ModeAfter
    <3>2. PM!FirstTouch(current, stval)
      BY <1>1, <1>2, <2>3, <2>10, <2>12, <2>13, <3>1 DEF PM!FirstTouch
    <3> QED BY <1>2, <1>5, <3>2 DEF PM!Next
  <2>14. CASE ~ s.ok
    <3>1. Machine' = "nomem"
      BY <1>1, <1>5, <2>1, <2>3, <2>14 DEF Machine, ModeAfter
    <3>2. Accounted(r, place, {}) /\ Placement(r, place) /\ Nothing(place, IDLE)
      BY <1>3, <2>3 DEF Describes, Valid, Provided
    <3>3. NoRoom(place, Way(p, u))
      BY <2>9, <2>14, <3>2 DEF NewPage
    <3>4. PICK used : used = UsedIn(place)
      OBVIOUS
    <3>5. Cardinality(used) >= FramesForPages
      BY <2>6, <2>7, <2>9, <3>2, <3>3, <3>4, NoRoomIsRunOut
    <3>6. UsedPages' = UsedPages /\ Cardinality(UsedPages) >= FramesForPages
      BY <2>10, <2>12, <2>14, <3>4, <3>5
    <3>7. <<current, stval>> \notin UsedPages
      BY <2>3, <2>10, <2>12
    <3>8. PM!Cardinality(UsedPages) = Cardinality(UsedPages)
      BY SameCount
    <3>9. PM!RunOut(current, stval)
      BY <1>1, <1>2, <2>12, <3>1, <3>6, <3>7, <3>8 DEF PM!RunOut
    <3> QED BY <1>2, <1>5, <3>9 DEF PM!Next
  <2> QED BY <2>13, <2>14
<1> QED BY <1>4, <1>5

(* At power on every process is promised the image and zeros.              *)
LEMMA RefinementInit == ASSUME Init PROVE PM!Init
<1>1. \A p \in Users : ~ Made(p)
  BY MemoryAssumption DEF Init, Made, Users, Procs
<1>2. UserMemory = [p \in Users |-> [v \in UserPages |-> InitialPage(v)]]
  BY <1>1 DEF UserMemory, SeenPage
<1>3. UsedPages = Users \X ImagePages
  BY <1>1, ImageInUserSpace DEF UsedPages
<1>4. ModifiedPages = {}
  BY <1>1 DEF ModifiedPages
<1>5. Machine = "ok" /\ current = PM!NOBODY /\ loaded = 0
  BY DEF Init, Machine, IDLE, PM!NOBODY
<1> QED BY <1>2, <1>3, <1>4, <1>5 DEF PM!Init

(* Every step is one of PrivateMemory or invisible.                        *)
LEMMA RefinementNext ==
  ASSUME RoomForBoot, MemInv, [Next]_vars PROVE [PM!Next]_PM!vars
<1>1. CASE mode = "panic" \/ UNCHANGED vars
  <2>1. UNCHANGED <<ram, page_table, current, loaded, unsynced, mode, stval>>
    BY <1>1, Halted DEF vars
  <2>2. Machine' = Machine
    BY <2>1 DEF Machine
  <2> QED BY <2>1, <2>2, NothingSeen, StepsInvisible
<1>2. CASE mode # "panic" /\ Next
  <2>1. ASSUME NEW p \in Procs, CreateProcess(p) PROVE UNCHANGED PM!vars
    BY <2>1, MakingInvisible
  <2>2. ASSUME NEW p \in Procs, Yield(p) PROVE PM!Next
    BY <2>2, YieldDispatches
  <2>3. ASSUME NEW v \in Touched, Fault(v) \/ \E level \in 0 .. 2 : TlbFill(v, level)
        PROVE  UNCHANGED PM!vars
    BY <1>2, <2>3, HartInvisible
  <2>4. ASSUME NEW v \in Touched, NEW i \in Offsets, Load(v, i) PROVE PM!Next
    BY <2>4, LoadLoads
  <2>5. ASSUME NEW v \in Stored, NEW i \in Offsets, NEW word \in Data, Store(v, i, word) PROVE PM!Next
    BY <2>5, StoreStores
  <2>6. ASSUME NEW v \in Code, NEW i \in Offsets, Fetch(v, i) PROVE PM!Next
    BY <2>6, FetchFetches
  <2>7. ASSUME TlbEvict PROVE UNCHANGED PM!vars
    BY <1>2, <2>7, HartInvisible
  <2>8. ASSUME PageFault PROVE PM!Next
    BY <2>8, FaultSeen
  <2>9. ~ StayHalted
    BY <1>2 DEF StayHalted
  <2> QED BY <1>2, <2>1, <2>2, <2>3, <2>4, <2>5, <2>6, <2>7, <2>8, <2>9 DEF Next
<1> QED BY <1>1, <1>2

(* Every process has the memory that PrivateMemory promises it, whatever   *)
(* the tables are made of: it loads what it stored, no process disturbs    *)
(* another, untouched pages are the image or clear, instructions are those *)
(* of the image, and a fault in the user space ends the machine only when  *)
(* all frames are in use.  Boot is promised to end (RoomForBoot).          *)
THEOREM MemoryRefines ==
  ASSUME FENCE_DROPS_TABLES, RoomForBoot PROVE Spec => ImplementsPrivateMemory
<1>1. Init => PM!Init
  BY RefinementInit
<1>2. MemInv /\ [Next]_vars => [PM!Next]_PM!vars
  BY RefinementNext
<1> QED BY <1>1, <1>2, TablesDescribed, PTL DEF Spec, ImplementsPrivateMemory, PM!Spec
=============================================================================
