# Verification of simple-riscv-os

TLA+ models of simple-riscv-os, a teaching kernel for one RV64 hart, with TLC
runs on small instances and proofs checked by TLAPS. File names without a path
(`kernel.c`, `process.c`, ...) are those of the repository.

## The system

One hart runs a kernel in S-mode and two user programs, made at boot from the
same image, in U-mode. The firmware (SBI) provides the console, the timer and
power off.

| component | state | operations | interacts through |
|---|---|---|---|
| Boot (`kernel.c` 397-493) | sstatus, sie, stvec, the boot stack | `kernel_main`, `init_process_management`, `init_timer`, `create_user_processes` | fills `procs[]`, ends in the idle loop on the boot stack |
| Process table, scheduler (`process.c`) | `procs[8]` (pid, state, sp, page table, wake_time, arg, stack), `current_proc`, `idle_proc` | `alloc_process`, `create_process2`, `yield`, `switch_context`, `wake_expired_processes`, `has_live_process` | called from handlers and from the idle loop; sets satp and sscratch |
| Trap entry and return (`exception.c`, `kernel.c` 55-132) | the hart's sepc, sstatus, sscratch (one set), a trap frame on a kernel stack | `kernel_entry`, `handle_trap`, `user_entry` | hardware enters it; it calls the handlers, which may switch stacks under it |
| System calls (`kernel.c` 193-312) | the caller's trap frame and process fields | putchar, getchar, sleep, getpid, exit | `yield`, SBI console |
| Timer (`kernel.c` 329-385) | the SBI timer, sie.STIE | `schedule_next_tick`, `handle_interrupt` | wakes sleepers, calls `yield` |
| Idle loop (`kernel.c` 460-482) | a position in `has_live_process` | check, `wfi`, `shutdown` | runs with interrupts on, over the table that interrupts change |
| Pages and page tables (`memory.c`, `process.c` 85-97, `kernel.c` 150-179) | the bump pointer, page tables | `alloc_pages`, `map_page`, `create_page_table`, `handle_page_fault` | called at boot and from page faults |
| User library and programs (`ulib.c`, `usys.c`, `user.c`) | a line buffer, registers | `syscall` and its wrappers, `readline`, `printf`, console and printer | system calls |
| Helpers (`common.c`, `sbi.c`) | none | `printf`, memory and string functions, `sbi_call` | |

What is hard about it:

- **One set of CSRs, many stacks.** A handler may call `yield()` in the middle;
  when it goes on, sepc, sstatus and sscratch have served other processes.
- **Traps push their frame where sscratch points**, over whatever is there.
  That this is always free depends on masking, on `yield()`, and on the idle
  process living on the boot stack while sscratch points to `procs[0].stack`.
- **The idle loop is interruptible**; `has_live_process()` reads a table that
  ticks change between any two of its tests.
- **Waiting is polling at ticks.** Nobody may wait in the kernel without going
  through SLEEPING, or the timer is locked out; and what is late depends on how
  wake times and ticks fall.
- **The hart remembers what it read from page tables**, invalid entries too,
  until a fence; tables of the kernel half are shared by all processes; and
  `map_page` allocates while it descends.
- **The terminal echoes nothing**: what the user sees of a line is what the
  console prints of it, character by character, and must agree with the array
  it edits; the array still holds what was in it before.
- **Numbers at the ends of their words**: the magnitude of the least int, the
  divisor that grows up to it, sleeps in 32 and 64 bits.
- **Instructions are copied as data**, and fetched by a hart that need not see it.
- **Exit is final**: the last exit must lead to power off, and never earlier.

What makes each component correct is stated under *Properties*.

## The modules

| module | models |
|---|---|
| `Kernel` | boot, traps, scheduler, system calls, timer, idle loop; user programs, time, keys and the firmware as environment |
| `VirtualCpus` | what user programs are promised: a CPU of one's own (abstract specification) |
| `KernelRefinement` | the refinement mapping from `Kernel` to `VirtualCpus` |
| `KernelTimed` | `Kernel` with time that passes only outside kernel code, and history variables that measure lateness |
| `PageTables` | pages, page tables and the hart's walk through them, as operators on the state of RAM |
| `Memory` | the making of address spaces at boot, demand paging, `yield()`'s change of tables, a hart with a TLB |
| `PrivateMemory` | what user programs are promised of memory (abstract specification) |
| `MemoryRefinement` | the refinement mapping from `Memory` to `PrivateMemory` |
| `Console` | the user program: both roles of `main`, `readline`, the commands, the printer, one action per system call or key |
| `Terminal` | what the console promises to whoever sits at the terminal (abstract specification) |
| `NumberFormat` | the loops that print numbers, in the kernel and in the user library |
| `Printf` | the two loops over formats, side by side |
| `Strings` | `memset`, `memcpy`, `strcpy`, `strcmp`, `str_eq` |
| `SleepArithmetic` | the number of a sleep on its way from `sleep` through a register to the wake time |
| `MCKernel`, `MCKernelTimed`, `MCMemory`, `MCConsole`, `MCPrintf`, `MCNumberFormat` | values of the constants for TLC |
| `KernelProofs` | theorems: the safety of `Kernel`, and that it implements `VirtualCpus` |
| `KernelTimedProofs` | theorems: the bounds of `KernelTimed` |
| `MemoryProofs` | theorems: the safety of `Memory`, and that it implements `PrivateMemory` |
| `ConsoleProofs` | theorems: the row shows the line, and `Console` implements `Terminal` |
| `StringsProofs`, `NumberFormatProofs`, `PrintfProofs`, `SleepArithmeticProofs` | theorems about the pure parts |

### How Kernel corresponds to the code

Kernel code runs with interrupts masked on a single hart, so an action is a
stretch of kernel code up to the next point where something else can make a
difference: a call of `yield()`, a second read of the time CSR, an `sret`. The
variable `ctl` names the code that is executed next. `"run"` means code that can
be interrupted: a user program, or, when `current` is slot 0, the idle loop.

| state | in the code |
|---|---|
| `pstate`, `pid`, `arg`, `psp` | the fields of `struct process`, by slot |
| `wake_in` | `wake_time` as the time left until it, 0 when it has passed |
| `loaded`, `booting` | how far `create_process2` has got, and with which slot |
| `current` | `current_proc` |
| `mode`, `sstatus`, `sepc`, `scause`, `satp`, `sscratch`, `stie` | the hart's CSRs, one of each |
| `pc`, `a0`, `sp` | registers of the code between traps |
| `frame[k]` | the trap frame at the top of kernel stack `k`, with the locals `user_pc` and `saved_sstatus` of `handle_trap` |
| `ctx[k]` | the switch frame on stack `k`: the label `switch_context` returns to |
| `tick_in` | time left to the timer interrupt, 0 when it is pending |
| `rx` | the character waiting in the console |

`Init` is the entry of `kernel_main`, with `sstatus` and `sie` as the firmware
left them; `KernelMain` masks interrupts (`Mask`) and makes the idle process. An
interrupt before the mask is out of the kernel's hands and not modelled.

Stacks have numbers: stack `s` is `procs[s].stack`, `BOOT` the boot stack,
`USTACK` any stack in user memory. `PickNext` is the search of `yield()`,
`SwitchContext` the assembly below it. A trap (`Trap`) pushes its frame and
destroys whatever was on that stack top, as `kernel_entry` does: nothing in the
model protects a stack but the code. The idle loop is modelled test by test:
`pc` is the position in `has_live_process()`, and the timer may interrupt at each.

`(uint32_t) f->a0` of `SYS_SLEEP` is a remainder by `WORD` (2^32 in the code).

The environment: a user program executes any instruction, makes any system call
and raises any exception at any time; keys are pressed; time passes (`Advance`)
at any point, kernel code included; `SbiMayFail` lets the firmware refuse the
timer and power off, at any call. The kernel answers both with a PANIC. A page fault on a user address is served or finds memory
exhausted.

### How Memory corresponds to the code

| state | in the code |
|---|---|
| `ram.page` | the contents of every page from `__kernel_base` to `__free_ram_end`, as words; at power on all `GARBAGE` |
| `ram.next`, `ram.ok` | `next_paddr` of `alloc_pages`; FALSE after a PANIC |
| `kernel_page_table`, `page_table[p]`, `current` | the variables of these names, as page numbers |
| `satp`, `stval` | the CSRs |
| `tlb` | what the hart has read from the tables and not yet forgotten: level, address prefix, entry |
| `mode` | boot, user code or the idle loop (`run`), the page fault handler, PANIC |

Page tables are in `ram.page` as numbers with the bits of `memory.h`, attribute
bits above the PPN included, and both the kernel (`MapPage`) and the hart
(`Reads`) work on those; nothing is shared between the two but the bits.
`AllocPage`, `NextTable`, `MapPage`, `CreatePageTable` and `LoadPage` take the
state of RAM to the next one in the order of the source, a PANIC included.
A table has `ENTRIES` words in the place of 512, with three levels as in Sv39.

The hart: at any time it may walk the tables for any address, valid or not, and
keep what it reads at any level (`TlbFill`), and user code may use what is kept
or what is in memory (`Leaves`). Only a fence removes an entry for certain. All
processes use address space number 0, so kept entries serve any of them.
`FENCE_DROPS_TABLES` says what `sfence.vma` with an address does to entries that
are no leaves: the architecture promises nothing, many harts drop them.

Stores and fetches: `unsynced` holds the frames that were written since the last
`fence.i`, by the kernel (the image, cleared pages) or by user code. A fetch
from such a frame may find what it held before (`Fetch`); `CreateProcess` ends
with `sync_icache()`. What is promised (`PrivateMemory`) is that a process
executes the image as long as it has not stored into the page; with `Unsynced` in
the place of `SyncIcache` there is a counterexample.

`Kernel` and `Memory` look at the same kernel from two sides. `Kernel` has the
handlers, the order in which `yield()` picks processes, and page faults as
served or out of memory; `Memory` has what a page fault does and lets any
process be next, so whatever `Kernel` does is among what `Memory` allows.

### How Console corresponds to the code

A process runs until its next system call, so an action is what lies between
two of them: `todo[p]` holds the characters p has still to write, each a call of
its own (`Putchar`), and `pc[p]` the call it makes behind them. `Readline` is
what `readline` does with one key; when the key ends the line, that includes
what `run_console` makes of the line, since no system call lies between.
`buf` is the array with its NUL, read back as a C string (`CString`, `StrEq`).
`screen[p]` is a terminal with backspace and newline as terminals have them, as
if only p wrote to it: that rows of two processes mix is documented
(`README.md:317`). A text printed as a whole is one token; keys are their codes.

`Terminal` knows rows only. The mapping takes the row and the rows above it as
they will be when the output of the process is written (`Settled`).

`Console` and `Kernel` meet in the system calls: `Kernel` lets a user program
make any call at any time and shows that every call but a read without input
is answered (`RunnableGetsCpu`, `SleepersWake`), which `Console` assumes; a read
returns a key that was pressed (`InputReachesReader`). A result below 0 is not
among them, so the retry in `readline` is not an action.

### The pure parts

`NumberFormat`, `Printf`, `Strings` and `SleepArithmetic` each model one call, one
step per iteration of its loop, started with every argument of a small word, a
short format or a small memory. Words wrap (`% WORD`) where the code computes
with unsigned words. `Weight` are the powers of 16 that the digits of a hexadecimal
count for, a constant defined by its recurrence. `-value` in `print_decimal` overflows for the least int; the
negation instruction gives the word with the same bits, which is what the
build produces and `test_user.c` expects, and what `Magnitude` says. In `Printf`
a format is made of directives and each library has to find them again. A directive
is a character, or a percent sign with one letter or with an `l` and a letter
(`PrintfAssumption`); `%l%` is none, since only the kernel takes it for one, and the user
library's loop would take its second percent sign for the next.
`SleepArithmetic` has what `Kernel` leaves out, the numbers: `int`, register,
`uint32_t` and a time taken to be wide enough, in words of 7 and 8 bits.

## Properties and runs

The runs of `Kernel` use two user programs and the idle process
unless said otherwise. `LAST_PC = 1` gives user code two addresses: enough to tell a
process's own pc from another's, and a retried instruction from the next one.

| run | shows | bounds |
|---|---|---|
| `kernel_safety` | `TypeOK`, the six safety invariants below and `ImplementsVirtualCpus` | tick 2, sleep arguments 0 (none), 7 (refused), 11 (cut to 3, the longest, longer than a tick) with `WORD = 8`; firmware may fail; a fourth, unused slot that the scheduler has to pass |
| `kernel_liveness` | the four liveness properties | tick 1, one sleep of 2; firmware may fail: a kernel that went on after a refused timer call would wait for ever, and so would its sleepers and readers |
| `kernel_timing` | `SleepRoundedToTick`, `OffWithinOneTick`, `InputDelayBelowTwoTicks` | tick 3, so that calls fall at, before and after the middle of a tick; sleeps shorter and longer than a tick |
| `round_robin` | `CpuWithinOneRound` | three user processes, tick 2 |
| `input_delay` | a counterexample to `InputDelayAtMostOneTick` | as `kernel_timing` |
| `memory` | `TypeOK`, the four memory properties and the refinement below | see below; `FENCE_DROPS_TABLES` TRUE |
| `memory_fence` | a counterexample to `TlbIsCurrent` | as `memory`, FALSE |
| `console` | `TypeOK`, `RowShowsLine`, `ImplementsTerminal`, and the liveness of both processes | an array of 4 bytes, the keys at both sides of each limit of `readline` |
| `number_format` | all numbers of a 12-bit word: 4 decimal, 3 hexadecimal digits | |
| `printf` | all formats of 2 directives and an ending; strings that are NULL, empty, or look like a format | |
| `strings` | all legal calls on 5 bytes of any contents | bytes 0, 1, 200 |
| `sleep_arithmetic` | all arguments of an int of 7 bits, at all distances from the tick, ticks up to 2 counts late | |

Why these bounds are enough: the state of a process in the kernel is its label,
its frame and its time left; two user processes and the idle process give every
pair of things that can interfere (process/process, process/idle), and
`round_robin` adds a third for the order among those that wait. Times matter
only relative to a tick and to each other; ticks of 2 and 3 units with sleeps
below and above them give each order in which they can run out. For the safety
and timing properties of `Kernel`, for those of `Memory` and for those of
`Console` but its liveness, the bounds do not matter: they are proved for every
value of the constants.

The instance of `memory`: tables of 6 entries, so that the kernel's 23 pages
need four lowest tables under one middle table; four user pages, two with the
image (the second filled in part), one that shares its lowest table with the
image and one that needs a new table; accesses below, inside and above the user
space; a word of storage per page; code executed from the second image page and stores
into the pages behind it (an image that overwrites itself is in the model, but
not in this instance); 21 free pages, which is two fewer than two processes can
use, so that memory ends both in `alloc_pages` for the data and in `map_page`
for a table. `GARBAGE` looks like a valid pointer. The hart keeps one entry
(`TLB_SIZE`), of any level and any accessed address: one stale entry is what a
missing fence needs to do harm.

Safety of `Kernel`:

- `HartBelongsToCurrent`: while a process or the idle loop runs, satp, sscratch,
  privilege and stack are its own, its image is loaded, and the stack that the
  next trap will use holds nothing.
- `SavedContextsIntact`: every live process that is not running can be continued
  from a stack of its own, with a frame that returns to its own privilege.
- `KernelNotInterrupted`: kernel code has SIE clear, from the mask of
  `kernel_main` on, whatever the firmware left, and from each trap to its `sret`.
- `OnlyTheRunnableRun`: nothing runs for an exited or sleeping process; the
  PANICs in `idle_entry` and behind `syscall_exit` are unreachable.
- `IdleOnlyWhenNothingIsReady`, `OffOnlyWhenAllExited`: the idle loop and power
  off happen only when they should, although the table changes under the scan.
- `ImplementsVirtualCpus`: to a user program all of this is invisible. Its
  registers change only by its own instructions and answers, `sleep` does not
  return early, a character reaches one reader once, exit is final, failure has
  a cause.

Safety of `Memory`:

- `KernelMappedEverywhere`: in every address space, once made, all of the
  kernel's memory is at its physical address and out of reach of user code.
- `EveryPageHasOneUse`: each page that `alloc_pages` gave out is one table of one
  process or of the template, or one page of one process; none is lost.
- `TlbIsCurrent`: whenever user code or the idle loop runs, what the hart has kept
  agrees with the tables of the current process.
- `MappingsStay` (of steps): a mapped page is never replaced or its rights changed.
- `ImplementsPrivateMemory`: loads give what the process itself stored last, the
  image or 0; nobody else changes it; only a touched page takes memory; memory
  ends only at a first touch, with all pages in use but those for tables.

The user program:

- `RowShowsLine`: whenever the console waits for a key, the row shows the prompt
  and exactly what is stored, with nothing left of what was erased.
- `ImplementsTerminal`: each key does to the screen what `Terminal` says; a line is
  answered by what was typed, whatever the array held before.
- `ConsoleResponds`, `PrinterGoesOn`: after each key the console waits for the next
  one, or has exited; the printer prints and sleeps for ever. Assumed is weak
  fairness of each process's next call (see above), nothing of keys.

The array of `console` takes three characters, so that a line can be full, be
erased and be typed again over a longer one; its command words have two letters
and share beginnings as `help` and `hello` do, and one is the beginning of
another. Lines of two pages or words of six letters add no case to that.

The pure parts:

- `ReadsBack`, `Canonical`, `Terminates`: the text of a number is read back as the
  number, least value included; there is one text for each; the loops end.
- `DecodesTheFormat`: both `printf` functions print what the directives mean and
  fetch just the arguments these take, each with its type; `TypeOK` of `Printf`
  says that they do not pass the end of the format.
- `LeavesMemoryRight`, `ComparesStrings`, `Returns`: the functions do what their
  names say to all of memory; `TypeOK` of `Strings`: no string is followed past its
  terminator.
- `SleepsAsLongAsAsked`: no sleep ends early, each ends with the first tick after
  its time, and what is no duration does not sleep.

Liveness of `Kernel` (`FairSpec`): `SleepersWake`, `RunnableGetsCpu`, `AllExitedLeadsToOff`,
`InputReachesReader`. The fairness assumed, and why the code justifies it:

- weak fairness of kernel steps: masked straight-line code on the only hart;
- strong fairness of the idle loop's tests and of reaching `wfi`: a tick is
  longer than the loop, so interrupts cannot keep it from getting on for ever
  (only strong fairness says so, because an interrupt disables it each time);
- strong fairness of the timer interrupt: the hart takes a pending interrupt
  that is enabled again and again, as an `sret` to user code makes it;
- weak fairness of time. User programs owe nothing: they may loop for ever.

Timing (`KernelTimed`) assumes that kernel code takes no time and that
interrupts are taken when due; what it shows late is late by design.
`SleepRoundedToTick`: a sleep ends at the first tick at or after its end
(`README.md:328`). `OffWithinOneTick`: `kernel.c:472-474`. `CpuWithinOneRound`:
a ready process waits at most one time slice per other process.

**Findings.** `kernel.c:251` says that waiting for input delays it by at most one
tick. A reader that polls between two ticks sets its wake time one whole tick
after the poll, which is after the next tick; the tick that wakes it is the
second one. `input_delay` shows it, and `InputDelayBelowTwoTicks` states what
the code does keep.

`memory.h:56-58` says that every update of a PTE needs the barrier of
`flush_tlb_page`, those from invalid to valid too. A page fault may write two:
the entry of a new table and the leaf. The barrier used is `sfence.vma` with an
address, which the architecture defines for leaf entries; for the other one it
asks for `rs1 = x0`. `memory_fence` shows a hart that keeps the invalid table
entry over the handler: the retried instruction faults again, and the page, with
what was stored in it meanwhile, is replaced by a new one. With a fence that
drops all entries of the address (`memory`) nothing goes wrong.

## What is proved

`KernelProofs` proves for every value of the constants that satisfies
`KernelAssumption` (some slots, fewer processes than slots, a tick that takes
time) that all safety invariants of `Kernel` above hold of `Spec`. None of them is inductive
as it stands. The inductive invariant `IInv` is the conjunction of

- `TypeOK`;
- `TableInv`: slots are taken in order, pid is slot + 1 for the taken ones and 0
  for the others, the idle process is always RUNNABLE, images are loaded;
- `BootInv`: during boot no frame is live and every process made so far has its
  first context;
- `HartInv`: at each label of the kernel the hart is set up for `current`, with
  a live frame of `current` on its stack inside a handler and none outside;
- `SavedInv`: every other live process has a context it can be continued from;
- `IdleInv` and `ScanInv`: the idle loop runs only when no process is ready, and
  the slots it has passed hold exited processes, also in the position that an
  interrupt has saved in the idle process's frame.

`ScanInv` is what makes power off safe: between two tests a tick can wake a
process, but then the idle loop loses the hart until that process sleeps or
exits, and it is not in a slot already passed, since those have exited.

The lemmas go from the arithmetic of the scheduler's ring (`RingCoversSlots`,
`PickNextFacts`) over a lemma for a switch (`YieldStep`, used by every caller of
`yield()`) and one for a trap (`TrapInv`) to one lemma per action and `NextInv`.

The second half of `KernelProofs` proves `Spec => ImplementsVirtualCpus`. The mapping reads the registers
of a process from where they are just then (the hart, a trap frame, or the switch
frame of one that has not started) and what it is doing from its place in the
kernel (`Place`: the label it executes or will return to). `ViewInv` adds to `IInv` that an
exception is pending only inside its handler (`CauseInv`), that each process made at boot
starts with its own argument (`ArgInv`, `UnstartedInv`), and that a process woken in `sleep`
has slept its time (`WokenInv`). Boot is stuttering (`BootViews`); every other
step moves the current process at most, as `VirtualCpus` allows, and leaves the
views of the others alone, also when `yield()` switches stacks (`YieldPlaces`).

`KernelTimedProofs` proves the four invariants of `KernelTimed`, for any length of a tick,
any sleeps and any number of processes. The inductive invariant `TimedInv` relates each
history variable to the clock: what a sleeper is late by and what is left of the
tick are together less than a tick (`LateInv`), input that has waited and the time its
reader still sleeps less than two (`InputInv`); a ready process that has waited has
that many time slices behind it and one slice for each process between the
current one and itself in the ring ahead (`RoundInv`, with `Ahead` for the distance);
with nobody alive the idle loop is on its way to `shutdown` and no later tick
can find it elsewhere (`OffInv`).

`MemoryProofs` proves `TypeOK`, `KernelMappedEverywhere`, `EveryPageHasOneUse`, `TlbIsCurrent`,
`MappingsStay` and `ImplementsPrivateMemory` of `Memory`, for tables with any number of entries, any layout of memory
that satisfies `PageTablesAssumption`, any number of processes and any image. All
six are proved under the hypothesis `FENCE_DROPS_TABLES`: `memory_fence` shows that
without it `TlbIsCurrent` fails, and with it the argument that a page that faults is
not mapped. `PageTablesAssumption`
asks of the platform what `kernel.ld` and `kernel.h` say: kernel and user addresses
in different entries of the root, the image within the user space.

The invariant `MemInv` says, besides `TypeOK` and `TlbIsCurrent`, that there is a
*placement* that describes the tables (`Describes`): a function from owner (a process
or the template), level and address prefix to a frame or NULL, from which every
word of every table follows (`Holds`, `Entry`). No frame is in it twice, what is
placed has a table above it, and all frames given out are placed (`Placement`,
`Accounted`). The properties of the walk are then facts about a function
(`WalkFacts`), and every operation of the kernel is an update of it: an allocation
that nobody holds yet (`AllocValid`), a link to the table above (`LinkStep`), the
descent of `map_page` (`MapPageFacts`), and by induction over the pages (`UpTo`) the
loops that map the kernel and load the image (`MapKernelFacts`, `LoadImageFacts`).
A root that is a copy of the template's shows the template's tables in the
kernel's half (`CopiedRoot`). Memory may end at each allocation: then the placement
so far describes RAM still, which is why `MappingsStay` holds for the step into the
PANIC, too. Of the hart, `CacheReads` shows that a walk through remembered entries
reads nothing else than one through memory, so user code reaches pages of its own
only (`AllowedLeaf`), a store changes no table, and a page that faults is not placed.

`MemoryRefines`, the refinement, reads the state of `PrivateMemory` off the same placement:
what a process sees at a page is what the frame in its place holds, or what it
was promised while there is none (`View`). For that `Describes` also says what the
pages hold while the process has not started (`Provided`: the image, with zeros behind it,
page by page as the loop of `load_image` gets on). Steps of the hart, of boot and of
`yield()` are then invisible or a dispatch (`HartInvisible`, `MakingInvisible`,
`YieldDispatches`), a load, a fetch and a store go to the frame of the process itself, which has
no other key (`AccessesOwnPage`, `StoreInPlace`), and the page that a fault adds holds the
zeros that were promised (`NewPageSeen`). That memory ends only when promised is a count:
all frames given out are placed, the tables a process may need are those above its
pages, so when none is left for `Way(p, u)` at least `FramesForPages` pages are used
(`NoRoomIsRunOut`). This theorem alone has `RoomForBoot` as a hypothesis: free RAM has
room for all images, as `kernel.ld:44-45` asks, since `PrivateMemory` has no end of
memory before the first instruction. The same count shows that boot then never
runs out of frames (`BootHasRoom`).

`StringsProofs`: all three invariants of `Strings`, for a memory of any size and any bytes. The
invariant `StrInv` has what each loop has done of its work and that the pointers are
within the strings (`InStrings`), whose ends are those of the memory before the call, also
where `strcpy` is in the middle of writing over it.

`NumberFormatProofs`: `TypeOK` and `ReadsBack` for words of any width, the least value
included, and `OneForm`: no leading zero, no minus zero, all digits of a hexadecimal. The
invariant `NumInv` splits the magnitude into what is printed, times the divisor,
and what is left. `NumbersCanonical` adds that the digits, folded in their base by the
community modules' `FoldSeq`, are the number that was read back. `FoldSeq` recurs over
sets of indices, so the induction is over their number: the table of all partial
folds of a text exists (`FoldTable`) and agrees with that of any longer text, which gives
what appending a digit does; `FoldInv` follows from it for each round of the loop.

`PrintfProofs`: `TypeOK` and `DecodesTheFormat` for formats of any length, in any characters
and with any directives that `PrintfAssumption` allows. The meaning of a format is a
flattening (`FlattenSeq`) of what its directives mean, which is its value up to each
directive joined to that one (`UpJoins`, from the recursion inside `FlattenSeq`). `PrintfInv` says
that each library stands before a directive, having fetched and printed the
flattening up to there (`Before`), or, for the user library, behind a `%l` that it has
printed as it is (`Halfway`). What is before a directive is a prefix of the format (`UpIsAhead`), so the
characters that the loop looks at are those of the directive (`Seen`), or NUL behind the
ending, and `RightEverywhere` says for each character that the step made on it is the
right one.

`SleepArithmeticProofs`: `TypeOK` and `SleepsAsLongAsAsked` for words of any width and any
rate of the timer, from one invariant that says what `a0` and the wake time are
of what was promised.

`ConsoleProofs`: `TypeOK`, `RowShowsLine` and `ImplementsTerminal`, for an array of any size, any
keys, any commands that are different words (`ConsoleAssumption`; those of `run_console` are) and any
number of processes; the refinement, of the first console, if there is one. The row
that a user sees is behind by what `todo` still holds, so nothing about `screen` alone is
inductive. `ConInv` speaks of the terminal as it will be when everything has been
written (`Settled`): taking the next character from `todo` and writing it changes nothing about
it, and a key only appends (`Settle` of a text behind another). What each text does to a
row is a lemma: a character lengthens it, the three characters of an erasure take the
last one away and leave a blank, a newline moves it up. The answer is the one to the row
shown because the row is the prompt and what is stored, and the first NUL is behind
what is stored, whatever the array held before (`CString`).

Only model-checked:

- Liveness of `Kernel` and `Console` and that the pure loops end: the prover has
  no rules for fairness and ENABLED that reach them.

## Not modelled

- Left out for good: build scripts, linker scripts and platform constants (no
  behaviour at run time; their values are constants of the models), `delay()`
  (nothing calls it), the wording of messages, the count the printer prints,
  and tests. `sbi_call` is an ecall without state; what the firmware does with
  it is part of the environment in `Kernel`.
