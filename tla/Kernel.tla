------------------------------- MODULE Kernel -------------------------------
(***************************************************************************)
(* The kernel of simple-riscv-os on its single hart: boot, trap entry and  *)
(* return, the round-robin scheduler, system calls, the timer tick and the *)
(* idle loop (kernel.c, process.c, exception.c), with the user programs,   *)
(* the clock, the console and the firmware as the environment.             *)
(*                                                                         *)
(* Kernel code runs with interrupts masked, so an action is a stretch of   *)
(* kernel code up to the next point where another process, the clock or    *)
(* the console can make a difference: a call of yield(), a second read of  *)
(* the time CSR, an sret.  `ctl` names the code the hart executes next.    *)
(***************************************************************************)
EXTENDS Integers, Sequences

CONSTANTS
  PROCS_MAX,   \* number of slots of procs[]
  BootArgs,    \* start arguments of the processes create_user_processes makes
  TICK,        \* TICK_INTERVAL_MS, in units of model time
  WORD,        \* the number of values of a uint32_t (2^32)
  SleepArgs,   \* the values of a0 with which user programs call SYS_SLEEP
  Chars,       \* character codes the console can deliver
  LAST_PC,     \* user programs execute at addresses 0 .. LAST_PC
  SbiMayFail   \* whether the firmware may refuse a timer or a shutdown call

NProcs    == Len(BootArgs)
Slots     == 0 .. PROCS_MAX - 1
Users     == 1 .. NProcs
IDLE      == 0                     \* the slot of idle_proc: the first one taken
BOOT      == PROCS_MAX             \* the boot stack; stack s is procs[s].stack
USTACK    == PROCS_MAX + 1         \* any stack in user memory
UserPc    == 0 .. LAST_PC
USER_BASE == 0
NOCHAR    == -1                    \* what SBI getchar returns without input
NOSTACK   == -1                    \* sscratch before the first yield()
BARE      == -1                    \* satp before the first yield()

ASSUME KernelAssumption ==
  /\ PROCS_MAX \in Nat \ {0}
  /\ BootArgs \in Seq(Nat)
  /\ NProcs \in 1 .. PROCS_MAX - 1
  /\ TICK \in Nat \ {0}
  /\ WORD \in Nat \ {0}
  /\ SleepArgs \subseteq Nat
  /\ Chars \subseteq Nat
  /\ LAST_PC \in Nat
  /\ SbiMayFail \in BOOLEAN

VARIABLES
  pstate, pid, wake_in, arg, psp,  \* the fields of struct process, by slot
  loaded,     \* loaded[s]: the image of slot s is copied and mapped
  current,    \* current_proc, as a slot
  booting,    \* the slot create_process2 is filling (its local proc)
  ctl,        \* what the hart executes next
  pc, a0, sp, \* registers of the code that runs between traps
  mode,       \* privilege the hart runs at
  sstatus, sepc, scause, satp, sscratch,  \* CSRs; the hart has one of each
  stie,       \* sie.STIE
  frame,      \* frame[k]: the trap frame at the top of kernel stack k
  ctx,        \* ctx[k]: where the switch frame on stack k returns to
  tick_in,    \* time to the timer interrupt; 0: it is pending
  rx          \* the character waiting in the console, or NOCHAR

procVars == <<pstate, pid, wake_in, arg, psp, loaded, booting>>
hartVars == <<pc, a0, mode, sstatus, sepc, satp, sscratch, stie>>
vars == <<procVars, current, ctl, hartVars, sp, scause, frame, ctx, tick_in, rx>>

KStacks  == 0 .. PROCS_MAX
Sstatus  == [sie : BOOLEAN, spie : BOOLEAN, spp : {"U", "S"}]

(* A struct trap_frame, with the locals user_pc and saved_sstatus that     *)
(* handle_trap keeps beside it on the same stack.                          *)
Frame    == [live : BOOLEAN, pc : Nat, a0 : Nat, sp : 0 .. USTACK, sstatus : Sstatus]
NoStatus == [sie |-> FALSE, spie |-> FALSE, spp |-> "U"]
NoFrame  == [live |-> FALSE, pc |-> 0, a0 |-> 0, sp |-> 0, sstatus |-> NoStatus]

Syscalls   == {"putchar", "getchar", "getpid", "sleep", "exit"}
Fatal      == {"badsys", "badaddr", "illegal"}
Exceptions == Syscalls \cup Fatal \cup {"fault"}

(* Addresses of the idle loop: has_live_process() tests slot pc \div 2 at  *)
(* pc, for RUNNABLE when pc is even and for SLEEPING when it is odd.       *)
NONE_LIVE == 2 * PROCS_MAX
WFI       == NONE_LIVE + 1
STALLED   == NONE_LIVE + 2

Halted == ctl \in {"off", "panic"}
-----------------------------------------------------------------------------
(* A faulty variant of Runnable: the state is not looked at.               *)
RunnableIgnoringState(st, s) == st[s] # "UNUSED" /\ pid[s] > 0

(* yield(): the first runnable user process in slot order, starting behind *)
(* the current one; the idle process when there is none.                   *)
Runnable(st, s) == st[s] = "RUNNABLE" /\ pid[s] > 0
Ring(i) == (pid[current] + i) % PROCS_MAX

(* Faulty variants of PickNext: the search starts at the first slot, or    *)
(* does not wrap around.                                                   *)
PickFirstSlot(st) ==
  IF \E s \in Slots : Runnable(st, s)
  THEN CHOOSE s \in Slots : Runnable(st, s) /\ \A t \in 0 .. s - 1 : ~ Runnable(st, t)
  ELSE IDLE
PickWithoutWrap(st) ==
  IF \E s \in Slots : s >= pid[current] /\ Runnable(st, s)
  THEN CHOOSE s \in Slots : s >= pid[current] /\ Runnable(st, s)
  ELSE IDLE

PickNext(st) ==
  IF \E i \in Slots : Runnable(st, Ring(i))
  THEN Ring(CHOOSE i \in Slots : /\ Runnable(st, Ring(i))
                                 /\ \A j \in 0 .. i - 1 : ~ Runnable(st, Ring(j)))
  ELSE IDLE

(* switch_context: the caller's context, to be continued at label k, is    *)
(* left on its stack, and the one on the stack of next is continued.       *)
SwitchContext(next, k) ==
  /\ psp' = [psp EXCEPT ![current] = sp]
  /\ sp' = psp[next]
  /\ ctx' = [ctx EXCEPT ![sp] = k, ![psp[next]] = "none"]
  /\ ctl' = ctx[psp[next]]

(* Faulty variants of Yield: sscratch is left alone; the stack pointer is  *)
(* saved in the next process.                                              *)
YieldKeepingSscratch(st, k) ==
  LET next == PickNext(st) IN
  /\ pstate' = st
  /\ IF next = current
     THEN ctl' = k /\ UNCHANGED <<current, satp, sscratch, psp, sp, ctx>>
     ELSE /\ current' = next
          /\ satp' = next
          /\ SwitchContext(next, k)
          /\ UNCHANGED sscratch
YieldSavingIntoNext(st, k) ==
  LET next == PickNext(st) IN
  /\ pstate' = st
  /\ current' = next
  /\ satp' = next
  /\ sscratch' = next
  /\ psp' = [psp EXCEPT ![next] = sp]
  /\ ctl' = k
  /\ UNCHANGED <<sp, ctx>>

(* yield() with process states st by a caller that goes on at label k:     *)
(* satp, sscratch and current_proc are switched, then the context.         *)
Yield(st, k) ==
  LET next == PickNext(st) IN
  /\ pstate' = st
  /\ IF next = current
     THEN ctl' = k /\ UNCHANGED <<current, satp, sscratch, psp, sp, ctx>>
     ELSE /\ current' = next
          /\ satp' = next
          /\ sscratch' = next
          /\ SwitchContext(next, k)

(* Everything yield() leaves alone besides the clock and the console.      *)
UnchangedByYield ==
  UNCHANGED <<pid, arg, loaded, booting, pc, a0, mode, sstatus, sepc, stie, frame>>

(* PANIC: the system stops.                                                *)
Panic ==
  /\ ctl' = "panic"
  /\ UNCHANGED <<procVars, current, hartVars, sp, scause, frame, ctx, tick_in, rx>>

(* An sret with saved status ss to address p, register a0 = r and stack k. *)
Sret(ss, p, r, k) ==
  /\ mode' = ss.spp
  /\ sstatus' = [sie |-> ss.spie, spie |-> TRUE, spp |-> "U"]
  /\ sepc' = p
  /\ pc' = p
  /\ a0' = r
  /\ sp' = k
  /\ ctl' = "run"
-----------------------------------------------------------------------------
(* The firmware enters kernel_main in S-mode and leaves sstatus and sie as *)
(* it pleases.  The variables are zero, as kernel_main makes .bss before   *)
(* it uses them.                                                           *)
Init ==
  /\ pstate = [s \in Slots |-> "UNUSED"]
  /\ pid = [s \in Slots |-> 0]
  /\ wake_in = [s \in Slots |-> 0]
  /\ arg = [s \in Slots |-> 0]
  /\ psp = [s \in Slots |-> s]
  /\ loaded = [s \in Slots |-> FALSE]
  /\ current = IDLE
  /\ booting = IDLE
  /\ ctl = "kernel_main"
  /\ pc = 0 /\ a0 = 0 /\ sp = BOOT
  /\ mode = "S"
  /\ sstatus \in Sstatus
  /\ sepc = 0 /\ scause = "none" /\ satp = BARE /\ sscratch = NOSTACK
  /\ stie \in BOOLEAN
  /\ frame = [k \in KStacks |-> NoFrame]
  /\ ctx = [k \in KStacks |-> "none"]
  /\ tick_in = 0
  /\ rx = NOCHAR

(* A faulty variant of Mask: sstatus is left as the firmware had it.       *)
MaskSieRegisterOnly == stie' = FALSE /\ UNCHANGED sstatus

(* The first thing kernel_main does: no interrupt until it says so.        *)
Mask ==
  /\ sstatus' = [sstatus EXCEPT !.sie = FALSE]
  /\ stie' = FALSE

(* kernel_main up to init_process_management, where the idle process takes *)
(* slot 0 and pid 0.                                                       *)
KernelMain ==
  /\ ctl = "kernel_main"
  /\ Mask
  /\ pstate' = [pstate EXCEPT ![IDLE] = "RUNNABLE"]
  /\ psp' = [psp EXCEPT ![IDLE] = IDLE]
  /\ ctx' = [ctx EXCEPT ![IDLE] = "idle_entry"]
  /\ current' = IDLE
  /\ ctl' = "init_timer"
  /\ UNCHANGED <<pid, wake_in, arg, loaded, booting, pc, a0, mode, sepc, satp,
                 sscratch, sp, scause, frame, tick_in, rx>>

(* A faulty variant of NextTick: twice the interval.                       *)
EverySecondTick == 2 * TICK

(* schedule_next_tick: the time to the next tick, which clears this one.   *)
NextTick == TICK

(* init_timer: the first tick is booked, then STIE is set.                 *)
InitTimer ==
  /\ ctl = "init_timer"
  /\ tick_in' = NextTick
  /\ stie' = TRUE
  /\ ctl' = "create"
  /\ UNCHANGED <<procVars, current, pc, a0, mode, sstatus, sepc, satp, sscratch,
                 sp, scause, frame, ctx, rx>>

FreeSlots == {s \in Slots : pstate[s] = "UNUSED"}
FirstFree == CHOOSE s \in FreeSlots : \A t \in FreeSlots : s <= t

(* create_process2, first part (alloc_process): the slot becomes RUNNABLE. *)
CreateProcess ==
  /\ ctl = "create"
  /\ IF FreeSlots = {}
     THEN Panic
     ELSE LET s == FirstFree IN
          /\ booting' = s
          /\ pid' = [pid EXCEPT ![s] = s + 1]
          /\ psp' = [psp EXCEPT ![s] = s]
          /\ ctx' = [ctx EXCEPT ![s] = "user_entry"]
          /\ wake_in' = [wake_in EXCEPT ![s] = 0]
          /\ arg' = [arg EXCEPT ![s] = 0]
          /\ pstate' = [pstate EXCEPT ![s] = "RUNNABLE"]
          /\ ctl' = "load"
          /\ UNCHANGED <<loaded, current, hartVars, sp, scause, frame, tick_in, rx>>

(* create_process2, second part: the argument is set and the image loaded. *)
(* The processes are created in slot order, so slot k takes argument k.    *)
LoadProcess ==
  /\ ctl = "load"
  /\ arg' = [arg EXCEPT ![booting] = BootArgs[booting]]
  /\ loaded' = [loaded EXCEPT ![booting] = TRUE]
  /\ ctl' = IF booting < NProcs THEN "create" ELSE "boot_yield"
  /\ UNCHANGED <<pstate, pid, wake_in, psp, booting, current, hartVars, sp,
                 scause, frame, ctx, tick_in, rx>>

(* The yield() at the end of create_user_processes.                        *)
BootYield ==
  /\ ctl = "boot_yield"
  /\ Yield(pstate, "idle_loop")
  /\ UnchangedByYield
  /\ UNCHANGED <<wake_in, scause, tick_in, rx>>

(* The boot context, back from that yield(), unmasks interrupts and enters *)
(* the idle loop.                                                          *)
EnterIdleLoop ==
  /\ ctl = "idle_loop"
  /\ sstatus' = [sstatus EXCEPT !.sie = TRUE]
  /\ pc' = 0
  /\ a0' = 0
  /\ ctl' = "run"
  /\ UNCHANGED <<procVars, current, mode, sepc, satp, sscratch, stie, sp, scause,
                 frame, ctx, tick_in, rx>>
-----------------------------------------------------------------------------
(* Trap entry: the hart masks interrupts and enters S-mode, kernel_entry   *)
(* takes the stack sscratch points to and pushes a trap frame at its top,  *)
(* over whatever is there; handle_trap reads sepc and sstatus.             *)
Trap(cause, r, epc) ==
  LET saved == [sie |-> FALSE, spie |-> sstatus.sie, spp |-> mode] IN
  /\ sstatus' = saved
  /\ mode' = "S"
  /\ sepc' = epc
  /\ scause' = cause
  /\ frame' = [frame EXCEPT ![sscratch] =
                 [live |-> TRUE, pc |-> epc, a0 |-> r, sp |-> sp, sstatus |-> saved]]
  /\ ctx' = [ctx EXCEPT ![sscratch] = "none"]
  /\ sp' = sscratch
  /\ pc' = 0
  /\ a0' = 0
  /\ ctl' = "trap"
  /\ UNCHANGED <<procVars, current, satp, sscratch, stie, tick_in, rx>>

InterruptTaken == stie /\ tick_in = 0 /\ (mode = "U" \/ sstatus.sie)

(* A timer interrupt resumes at the interrupted instruction; a wfi that    *)
(* was already waiting has completed.                                      *)
TimerTrap ==
  /\ ctl = "run"
  /\ InterruptTaken
  /\ Trap("timer", a0, IF current = IDLE /\ pc = STALLED THEN 0 ELSE pc)

(* The user program: any instruction, any system call, any exception.      *)
UserRuns == ctl = "run" /\ current # IDLE

UserStep ==
  /\ UserRuns
  /\ pc' \in UserPc \ {pc}
  /\ UNCHANGED <<procVars, current, ctl, a0, mode, sstatus, sepc, satp, sscratch,
                 stie, sp, scause, frame, ctx, tick_in, rx>>

UserTrap(cause) ==
  /\ UserRuns
  /\ cause \in Syscalls => pc < LAST_PC
  /\ \E r \in IF cause = "sleep" THEN SleepArgs ELSE {a0} : Trap(cause, r, pc)

(* A faulty variant of TrapReturn: sepc is not written back.               *)
TrapReturnBySepc ==
  /\ ctl = "ret"
  /\ LET f == frame[sp] IN Sret(f.sstatus, sepc, f.a0, f.sp)
  /\ frame' = [frame EXCEPT ![sp] = NoFrame]
  /\ UNCHANGED <<procVars, current, satp, sscratch, stie, scause, ctx, tick_in, rx>>

(* handle_trap's return path: sstatus and sepc are written back from the   *)
(* handler's stack, the registers restored, sret.                          *)
TrapReturn ==
  /\ ctl = "ret"
  /\ LET f == frame[sp] IN Sret(f.sstatus, f.pc, f.a0, f.sp)
  /\ frame' = [frame EXCEPT ![sp] = NoFrame]
  /\ UNCHANGED <<procVars, current, satp, sscratch, stie, scause, ctx, tick_in, rx>>

(* user_entry: where a process is first switched to.                       *)
UserEntry ==
  /\ ctl = "user_entry"
  /\ Sret([sie |-> FALSE, spie |-> TRUE, spp |-> "U"], USER_BASE, arg[current], USTACK)
  /\ UNCHANGED <<procVars, current, satp, sscratch, stie, scause, frame, ctx,
                 tick_in, rx>>
-----------------------------------------------------------------------------
(* handle_interrupt, first part: the next tick is booked.                  *)
BookTick ==
  /\ ctl = "trap" /\ scause = "timer"
  /\ tick_in' = NextTick
  /\ ctl' = "irq"
  /\ scause' = "none"
  /\ UNCHANGED <<procVars, current, hartVars, sp, frame, ctx, rx>>

(* handle_interrupt, second part: time is read again, expired sleepers are *)
(* made runnable and the CPU is taken from the running process.            *)
WakeExpired == [s \in Slots |-> IF pstate[s] = "SLEEPING" /\ wake_in[s] = 0
                                THEN "RUNNABLE" ELSE pstate[s]]

WakeAndYield ==
  /\ ctl = "irq"
  /\ Yield(WakeExpired, "ret")
  /\ UnchangedByYield
  /\ UNCHANGED <<wake_in, scause, tick_in, rx>>

(* A faulty variant of TimerRefused: the kernel goes on.  No tick comes    *)
(* any more, which is what a hart with STIE clear sees.                    *)
TimerRefusedUnnoticed ==
  /\ ctl \in {"trap", "init_timer"}
  /\ ctl = "trap" => scause = "timer"
  /\ SbiMayFail
  /\ ctl' = IF ctl = "trap" THEN "irq" ELSE "create"
  /\ stie' = FALSE
  /\ scause' = "none"
  /\ UNCHANGED <<procVars, current, pc, a0, mode, sstatus, sepc, satp, sscratch,
                 sp, frame, ctx, tick_in, rx>>

(* schedule_next_tick when the firmware refuses the timer call.            *)
TimerRefused ==
  /\ ctl \in {"trap", "init_timer"}
  /\ ctl = "trap" => scause = "timer"
  /\ SbiMayFail
  /\ Panic

InSyscall(c) == ctl = "trap" /\ scause = c

(* The end of a system call: f->a0 = r and user_pc += 4.                   *)
FinishSyscall(r) ==
  /\ frame' = [frame EXCEPT ![sp].a0 = r, ![sp].pc = @ + 1]
  /\ ctl' = "ret"
  /\ scause' = "none"
  /\ UNCHANGED <<procVars, current, hartVars, sp, ctx, tick_in>>

(* block_current_process(ms), whose caller goes on at label k.             *)
BlockCurrent(ms, k) ==
  /\ wake_in' = [wake_in EXCEPT ![current] = ms]
  /\ Yield([pstate EXCEPT ![current] = "SLEEPING"], k)
  /\ UnchangedByYield
  /\ scause' = "none"
  /\ UNCHANGED <<tick_in, rx>>

SysPutchar == InSyscall("putchar") /\ FinishSyscall(0) /\ UNCHANGED rx

SysGetpid == InSyscall("getpid") /\ FinishSyscall(pid[current]) /\ UNCHANGED rx

(* A faulty variant of PollInterval: twice the interval.                   *)
PollTwoTicks == 2 * TICK

PollInterval == TICK

(* Faulty variants of SysGetchar: it returns without input, or waits by    *)
(* yield() alone.                                                          *)
GetcharReturning ==
  /\ InSyscall("getchar") \/ ctl = "getchar"
  /\ FinishSyscall(rx) /\ rx' = NOCHAR
GetcharYielding ==
  /\ InSyscall("getchar") \/ ctl = "getchar"
  /\ \/ rx # NOCHAR /\ FinishSyscall(rx) /\ rx' = NOCHAR
     \/ /\ rx = NOCHAR
        /\ Yield(pstate, "getchar")
        /\ UnchangedByYield
        /\ scause' = "none"
        /\ UNCHANGED <<wake_in, tick_in, rx>>

(* syscall_getchar, one turn of its loop: poll, and block for one tick     *)
(* when there is no input.                                                 *)
SysGetchar ==
  /\ InSyscall("getchar") \/ ctl = "getchar"
  /\ \/ rx # NOCHAR /\ FinishSyscall(rx) /\ rx' = NOCHAR
     \/ rx = NOCHAR /\ BlockCurrent(PollInterval, "getchar")

(* syscall_sleep, up to its return when it does not block: a0 is cut to a  *)
(* uint32_t, of which the upper half is taken for a negative number.       *)
MAX_SLEEP == WORD \div 2 - 1

SysSleep ==
  /\ InSyscall("sleep")
  /\ LET ms == frame[sp].a0 % WORD IN
     IF ms = 0 \/ ms > MAX_SLEEP
     THEN FinishSyscall(0) /\ UNCHANGED rx
     ELSE BlockCurrent(ms, "sleep_ret")

SleepReturn == ctl = "sleep_ret" /\ FinishSyscall(0) /\ UNCHANGED rx

(* syscall_exit: the PANIC behind its yield() is the label "exit_ret".     *)
SysExit ==
  /\ InSyscall("exit")
  /\ Yield([pstate EXCEPT ![current] = "EXITED"], "exit_ret")
  /\ UnchangedByYield
  /\ scause' = "none"
  /\ UNCHANGED <<wake_in, tick_in, rx>>

(* handle_page_fault on a user address: a page is mapped and the access    *)
(* retried, unless memory is exhausted; a fault of S-mode code panics.     *)
PageFault ==
  /\ InSyscall("fault")
  /\ IF sstatus.spp = "S"
     THEN Panic
     ELSE \/ /\ ctl' = "ret"
             /\ scause' = "none"
             /\ UNCHANGED <<procVars, current, hartVars, sp, frame, ctx, tick_in, rx>>
          \/ Panic

(* An unknown system call, an address outside user space, or an exception  *)
(* the kernel does not handle.                                             *)
FatalTrap ==
  /\ ctl = "trap" /\ scause \in Fatal
  /\ Panic
-----------------------------------------------------------------------------
(* The idle loop, which interrupts may enter anywhere.                     *)
IdleRuns == ctl = "run" /\ current = IDLE

UnchangedInIdle ==
  UNCHANGED <<procVars, current, a0, mode, sstatus, sepc, satp, sscratch, stie,
              sp, scause, frame, ctx, tick_in, rx>>

(* Faulty variants of FoundLive: sleepers do not count, everything counts. *)
LiveIfReady(s, t)   == pstate[s] = "RUNNABLE"
LiveUnlessFree(s, t) == pstate[s] # "UNUSED"

(* One test of has_live_process(): is slot s in state t?                   *)
FoundLive(s, t) == pstate[s] = t

IdleScan ==
  /\ IdleRuns /\ pc < NONE_LIVE
  /\ LET s    == pc \div 2
         test == IF pc % 2 = 0 THEN "RUNNABLE" ELSE "SLEEPING"
     IN pc' = IF pid[s] <= 0 THEN 2 * (s + 1)
              ELSE IF FoundLive(s, test) THEN WFI ELSE pc + 1
  /\ UNCHANGED ctl
  /\ UnchangedInIdle

(* wfi is executed; it may also complete at any time, as a nop.            *)
IdleWfi ==
  /\ IdleRuns /\ pc \in {WFI, STALLED}
  /\ pc' = IF pc = WFI THEN STALLED ELSE 0
  /\ UNCHANGED ctl
  /\ UnchangedInIdle

(* No live process: shutdown().  It panics when the firmware refuses.      *)
IdleShutdown ==
  /\ IdleRuns /\ pc = NONE_LIVE
  /\ \/ ctl' = "off"
     \/ SbiMayFail /\ ctl' = "panic"
  /\ UNCHANGED pc
  /\ UnchangedInIdle
-----------------------------------------------------------------------------
(* The environment: time passes, a key is pressed.                         *)
Less(t) == IF t > 0 THEN t - 1 ELSE 0

Advance ==
  /\ ~ Halted
  /\ tick_in > 0 \/ \E s \in Slots : wake_in[s] > 0
  /\ tick_in' = Less(tick_in)
  /\ wake_in' = [s \in Slots |-> Less(wake_in[s])]
  /\ UNCHANGED <<pstate, pid, arg, psp, loaded, booting, current, ctl, hartVars,
                 sp, scause, frame, ctx, rx>>

KeyPressed ==
  /\ ~ Halted
  /\ rx = NOCHAR
  /\ rx' \in Chars
  /\ UNCHANGED <<procVars, current, ctl, hartVars, sp, scause, frame, ctx, tick_in>>

(* A machine that is off, or in PANIC's endless loop, stays so.            *)
StayHalted == Halted /\ UNCHANGED vars
-----------------------------------------------------------------------------
BootStep == KernelMain \/ InitTimer \/ CreateProcess \/ LoadProcess \/ BootYield
              \/ EnterIdleLoop
SyscallStep == SysPutchar \/ SysGetpid \/ SysGetchar \/ SysSleep \/ SleepReturn
                 \/ SysExit
KernelStep == BootStep \/ SyscallStep \/ TrapReturn \/ UserEntry \/ BookTick
                \/ WakeAndYield \/ TimerRefused \/ PageFault \/ FatalTrap
IdleStep == IdleScan \/ IdleShutdown \/ IdleWfi

(* Everything but the passing of time.                                     *)
Step ==
  \/ KernelStep
  \/ TimerTrap
  \/ UserStep
  \/ \E c \in Exceptions : UserTrap(c)
  \/ IdleStep
  \/ KeyPressed
  \/ StayHalted

Next == Step \/ Advance

Spec == Init /\ [][Next]_vars

(* The hart executes the kernel, the idle loop up to its wfi, and takes a  *)
(* pending interrupt that is enabled again and again; time goes on.  User  *)
(* programs owe nothing.                                                   *)
Fairness ==
  /\ WF_vars(KernelStep)
  /\ SF_vars(IdleScan \/ IdleShutdown)
  /\ SF_vars(IdleWfi /\ pc = WFI)
  /\ SF_vars(TimerTrap)
  /\ WF_vars(Advance)

FairSpec == Spec /\ Fairness
-----------------------------------------------------------------------------
(* Properties.                                                             *)

Labels == {"kernel_main", "init_timer", "create", "load", "boot_yield", "idle_loop",
           "run", "trap", "irq", "getchar", "sleep_ret", "exit_ret", "ret",
           "user_entry", "idle_entry", "off", "panic"}

(* Every variable keeps the kind of value the code gives it: states, pids, *)
(* stack pointers and CSRs are never anything the C types cannot hold.     *)
TypeOK ==
  /\ pstate \in [Slots -> {"UNUSED", "RUNNABLE", "SLEEPING", "EXITED"}]
  /\ pid \in [Slots -> 0 .. PROCS_MAX]
  /\ wake_in \in [Slots -> Nat]
  /\ arg \in [Slots -> Nat]
  /\ psp \in [Slots -> KStacks]
  /\ loaded \in [Slots -> BOOLEAN]
  /\ current \in Slots
  /\ booting \in Slots
  /\ ctl \in Labels
  /\ pc \in Nat
  /\ a0 \in Nat
  /\ sp \in 0 .. USTACK
  /\ mode \in {"U", "S"}
  /\ sstatus \in Sstatus
  /\ sepc \in Nat
  /\ scause \in Exceptions \cup {"timer", "none"}
  /\ satp \in Slots \cup {BARE}
  /\ sscratch \in Slots \cup {NOSTACK}
  /\ stie \in BOOLEAN
  /\ frame \in [KStacks -> Frame]
  /\ ctx \in [KStacks -> Labels \cup {"none"}]
  /\ tick_in \in Nat
  /\ rx \in Chars \cup {NOCHAR}

(* While a process or the idle loop runs, the address space, the trap      *)
(* stack and the privilege are its own, its image is loaded, and the trap  *)
(* that may come at any instruction pushes its frame where nothing is      *)
(* saved (yield, kernel_entry and the order of create_process2).           *)
HartBelongsToCurrent ==
  ctl = "run" =>
    /\ satp = current
    /\ sscratch = current
    /\ mode = IF current = IDLE THEN "S" ELSE "U"
    /\ sp = IF current = IDLE THEN BOOT ELSE USTACK
    /\ loaded[current] \/ current = IDLE
    /\ ~ frame[sscratch].live
    /\ ctx[sscratch] \in {"none", "idle_entry"}

(* Every process that has lost the CPU can be continued: its saved stack   *)
(* pointer names a stack of its own that still holds where it goes on, and *)
(* the trap frame it will return through, with its own privilege.          *)
Booting == {"kernel_main", "init_timer", "create", "load", "boot_yield"}

OwnStack(s)  == IF s = IDLE THEN BOOT ELSE USTACK
OwnStatus(s) == [sie |-> FALSE, spie |-> TRUE, spp |-> IF s = IDLE THEN "S" ELSE "U"]
Fresh(s) ==
  IF s = IDLE THEN psp[s] = BOOT /\ ctx[BOOT] = "idle_loop"
  ELSE psp[s] = s /\ ctx[s] = "user_entry"
InTrap(s) ==
  /\ psp[s] = s
  /\ ctx[s] = "ret" \/ (s # IDLE /\ ctx[s] \in {"getchar", "sleep_ret"})
  /\ frame[s].live
  /\ frame[s].sp = OwnStack(s)
  /\ frame[s].sstatus = OwnStatus(s)

SavedContextsIntact ==
  ctl \notin Booting =>
    \A s \in Slots \ {current} :
      pstate[s] \in {"RUNNABLE", "SLEEPING"} => Fresh(s) \/ InTrap(s)

(* Kernel code is not interrupted: from the first lines of kernel_main,    *)
(* whatever the firmware left, and from each trap to its sret, the hart is *)
(* in S-mode with SIE clear, except in the idle loop, so that kernel_entry *)
(* never runs on a stack the kernel is using, nor with sscratch unset      *)
(* (kernel.c:373-376, 398-405).                                            *)
KernelNotInterrupted ==
  ctl \notin {"kernel_main", "run", "off", "panic"} => mode = "S" /\ ~ sstatus.sie

(* The process the hart runs for may run: nothing is executed for a        *)
(* process that has exited or sleeps, so the PANICs behind syscall_exit's  *)
(* yield() and in idle_entry are never reached.                            *)
OnlyTheRunnableRun ==
  /\ pstate[current] = "RUNNABLE" \/ ctl = "kernel_main"
  /\ ctl \notin {"exit_ret", "idle_entry"}

(* The idle loop runs only when no process is ready, although the timer    *)
(* wakes sleepers while it runs (handle_interrupt, yield).                 *)
IdleOnlyWhenNothingIsReady ==
  ctl = "run" /\ current = IDLE => \A s \in Users : pstate[s] # "RUNNABLE"

(* The machine goes off only when every process has exited: a sleeper is   *)
(* never shut down over, wherever in has_live_process() it is woken.       *)
OffOnlyWhenAllExited ==
  ctl = "off" => \A s \in Users : pstate[s] = "EXITED"

(* A sleeping process is woken, whatever the others do (kernel.c:234-238:  *)
(* readers must not keep the timer interrupt out).                         *)
SleepersWake ==
  \A s \in Users : pstate[s] = "SLEEPING" ~> pstate[s] # "SLEEPING" \/ Halted

(* A process that can run is given the CPU, even when the others never     *)
(* leave it (README.md:310, 334).                                          *)
RunnableGetsCpu ==
  \A s \in Users : pstate[s] = "RUNNABLE" ~> current = s \/ Halted

(* When the last process has exited the machine stops (kernel.c:472-474).  *)
AllExitedLeadsToOff ==
  (\A s \in Users : pstate[s] = "EXITED") ~> Halted

(* A character does not stay in the console while a process waits for it.  *)
Reading(s) ==
  /\ pstate[s] # "EXITED"
  /\ IF s = current THEN ctl = "getchar" ELSE ctx[psp[s]] = "getchar"
InputReachesReader ==
  (rx # NOCHAR /\ \E s \in Users : Reading(s)) ~> rx = NOCHAR \/ Halted
=============================================================================
