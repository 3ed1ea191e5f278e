-------------------------- MODULE KernelTimedProofs --------------------------
(***************************************************************************)
(* Proofs of how late the kernel may be, for every number of slots and     *)
(* processes, every tick and every user program: sleeps are rounded up to  *)
(* the next tick, a process that is ready waits for one slice of each of   *)
(* the others, input meets no blocked reader for two ticks, and the power  *)
(* is off within a tick of the last exit.                                  *)
(*                                                                         *)
(* Each bound is inductive together with what is still to come: the time   *)
(* that has been measured and the time left until the event that ends it   *)
(* never add up to more than the bound.                                    *)
(***************************************************************************)
EXTENDS KernelTimed, KernelProofs

(* A tick is always booked, and no more than a tick away; a timer trap has *)
(* been taken because its time was over.                                   *)
ClockInv ==
  /\ tick_in <= TICK
  /\ ctl \notin {"kernel_main", "init_timer", "panic"} => stie
  /\ ctl = "trap" /\ scause = "timer" => tick_in = 0

(* A sleep that is over ends at the tick that is booked.                   *)
LateInv ==
  \A s \in Users :
    /\ late[s] \in Nat
    /\ late[s] > 0 => Oversleeps(s)
    /\ Oversleeps(s) => late[s] + (IF ctl = "irq" THEN 0 ELSE tick_in) < TICK

(* A blocked reader is woken at the tick that is booked or at the one      *)
(* behind it.                                                              *)
Polling(s) == Place(s) = "getchar" /\ pstate[s] = "SLEEPING"
TimeToWake(s) ==
  IF ctl = "irq" /\ wake_in[s] = 0 THEN 0
  ELSE IF wake_in[s] <= tick_in THEN tick_in ELSE tick_in + TICK
InputInv ==
  /\ waiting \in Nat
  /\ waiting > 0 => InputWaits
  /\ \A s \in Users : Polling(s) =>
       /\ wake_in[s] <= TICK
       /\ rx # NOCHAR => waiting + TimeToWake(s) < 2 * TICK

(* The processes between c and s in the order of yield(), c included.      *)
Ahead(c, s) == IF c < s THEN s - c ELSE s - c + NProcs

(* What remains of the current slice and a slice for each process between  *)
(* is what a process that is ready still has to wait.                      *)
RoundInv ==
  \A s \in Users :
    /\ queued[s] \in Nat
    /\ queued[s] > 0 => Queued(s) /\ ctl \notin Booting
    /\ Queued(s) /\ ctl \notin Booting =>
         queued[s] + (IF ctl = "irq" THEN 0 ELSE tick_in) + (Ahead(current, s) - 1) * TICK
           <= (NProcs - 1) * TICK

(* The idle loop comes to the end of has_live_process() or waits for the   *)
(* next tick, and the timer interrupt brings it back.                      *)
OnTheWay ==
  \/ ctl = "run" /\ pc = STALLED /\ empty + tick_in <= TICK
  \/ ctl = "run" /\ pc <= NONE_LIVE
  \/ ctl \in {"trap", "irq", "ret"} /\ frame[IDLE].pc <= NONE_LIVE
  \/ Halted

(* Once time has passed with nobody alive, the idle loop waits for the     *)
(* tick that is booked, or is past it and finds nobody.                    *)
OffInv ==
  /\ empty \in Nat /\ empty <= TICK
  /\ empty > 0 => NobodyIsAlive /\ OnTheWay

TimedInv == ViewInv /\ ClockInv /\ LateInv /\ InputInv /\ RoundInv /\ OffInv
-----------------------------------------------------------------------------
(* What the steps of the hart do to the process table and the clock.       *)

(* No process is woken, blocked, ended or given the CPU.                   *)
Undisturbed ==
  /\ UNCHANGED <<pstate, wake_in, current>>
  /\ \A p \in Users : pstate[p] = "SLEEPING" => Place(p)' = Place(p)

(* A call of yield(): the expired sleepers are woken if it is that of the  *)
(* timer interrupt, the caller may block or end, the next process runs.    *)
Switched ==
  /\ ctl \in Kern \cup {"boot_yield"} /\ ctl' \notin Booting \cup {"irq", "trap", "panic"}
  /\ UNCHANGED <<tick_in, rx>>
  /\ current' = PickNext(pstate')
  /\ \A p \in Users \ {current} :
       /\ wake_in'[p] = wake_in[p]
       /\ pstate[p] = "SLEEPING" => Place(p)' = Place(p)
       /\ pstate'[p] = IF ctl = "irq" /\ Oversleeps(p) THEN "RUNNABLE" ELSE pstate[p]
  /\ \A p \in Users : p = current /\ pstate'[p] = "SLEEPING" =>
       /\ ctl # "irq" /\ wake_in'[p] \in Nat \ {0}
       /\ Place(p)' = "getchar" => rx = NOCHAR /\ wake_in'[p] = TICK

(* A yield() with the process states st is such a switch.                  *)
LEMMA YieldSwitches ==
  ASSUME ViewInv, NEW st, NEW k, MayYield(st, k), Yield(st, k), UnchangedByYield,
         UNCHANGED <<tick_in, rx>>,
         \A p \in Users \ {current} :
           /\ wake_in'[p] = wake_in[p]
           /\ st[p] = IF ctl = "irq" /\ Oversleeps(p) THEN "RUNNABLE" ELSE pstate[p],
         \A p \in Users : p = current /\ st[p] = "SLEEPING" =>
           /\ ctl # "irq" /\ wake_in'[p] \in Nat \ {0}
           /\ k = "getchar" => rx = NOCHAR /\ wake_in'[p] = TICK
  PROVE  Switched
<1>1. /\ \A p \in Users \ {current} : pstate[p] # "EXITED" => Place(p)' = Place(p)
      /\ \A p \in Users : p = current => Place(p)' = k
      /\ ctl' \in Waiting \cup {"idle_loop", "exit_ret"}
  BY YieldPlaces
<1>2. pstate' = st /\ current' = PickNext(st) /\ ctl \in Kern \cup {"boot_yield"}
  BY DEF Yield, MayYield
<1> QED BY <1>1, <1>2 DEF Switched, Waiting, Booting

(* The yield() at the end of boot finds nobody asleep.                     *)
LEMMA BootYieldSwitches == ViewInv /\ BootYield => Switched
<1> SUFFICES ASSUME ViewInv, BootYield PROVE Switched
  OBVIOUS
<1>1. MayYield(pstate, "idle_loop")
  BY BootMayYield DEF ViewInv
<1>2. current \notin Users /\ ctl # "irq"
  BY StackFacts DEF BootYield, ViewInv, IInv, BootInv, Booting
<1> QED BY <1>1, <1>2, YieldSwitches DEF BootYield

(* The timer interrupt wakes those whose sleep is over, and no other.      *)
LEMMA WakeAndYieldSwitches == ViewInv /\ WakeAndYield => Switched
<1> SUFFICES ASSUME ViewInv, WakeAndYield PROVE Switched
  OBVIOUS
<1>1. MayYield(WakeExpired, "ret")
  BY TickMayYield DEF ViewInv, WakeAndYield
<1>2. /\ ctl = "irq" /\ pstate[current] = "RUNNABLE" /\ current \in Slots
      /\ \A p \in Slots : WakeExpired[p] = IF Oversleeps(p) THEN "RUNNABLE" ELSE pstate[p]
  BY DEF WakeAndYield, WakeExpired, Oversleeps, ViewInv, IInv, TypeOK, HartInv
<1>3. \A p \in Users : p = current => WakeExpired[p] # "SLEEPING"
  BY <1>2, StackFacts
<1> QED BY <1>1, <1>2, <1>3, YieldSwitches, StackFacts DEF WakeAndYield

(* Blocking puts the caller to sleep for a time that is not over at once.  *)
LEMMA BlockSwitches ==
  ASSUME ViewInv, ctl \in Kern \ {"irq"}, current # IDLE,
         NEW ms \in Nat \ {0}, NEW k \in {"getchar", "sleep_ret"}, BlockCurrent(ms, k),
         k = "getchar" => rx = NOCHAR /\ ms = TICK
  PROVE  Switched
<1>1. PICK c \in Users : c = current
  BY CurrentIsUser DEF ViewInv, Kern, Booting
<1> DEFINE st == [pstate EXCEPT ![c] = "SLEEPING"]
<1>2. /\ MayYield(st, k) /\ Yield(st, k) /\ UnchangedByYield
      /\ \A p \in Users \ {current} : wake_in'[p] = wake_in[p]
      /\ wake_in'[c] = ms
  BY <1>1, BlockMayYield
<1>3. \A p \in Users \ {current} : st[p] = pstate[p]
  BY <1>1, StackFacts DEF ViewInv, IInv, TypeOK
<1>4. UNCHANGED <<tick_in, rx>>
  BY DEF BlockCurrent
<1> HIDE DEF st
<1> QED BY <1>1, <1>2, <1>3, <1>4, YieldSwitches

(* A process that exits is not woken again.                                *)
LEMMA ExitSwitches == ViewInv /\ SysExit => Switched
<1> SUFFICES ASSUME ViewInv, SysExit PROVE Switched
  OBVIOUS
<1>1. ctl = "trap" /\ ctl \in Kern /\ current # IDLE
  BY DEF SysExit, InSyscall, ViewInv, IInv, HartInv, Kern
<1> DEFINE st == [pstate EXCEPT ![current] = "EXITED"]
<1>2. MayYield(st, "exit_ret")
  BY <1>1, MayLeave DEF ViewInv
<1>3. /\ \A p \in Users \ {current} : st[p] = pstate[p]
      /\ \A p \in Users : p = current => st[p] = "EXITED"
  BY StackFacts DEF ViewInv, IInv, TypeOK
<1>4. Yield(st, "exit_ret") /\ UnchangedByYield /\ UNCHANGED <<wake_in, tick_in, rx>>
  BY DEF SysExit
<1> HIDE DEF st
<1> QED BY <1>1, <1>2, <1>3, <1>4, YieldSwitches

(* Every step but the passing of time is one of boot, one that disturbs no *)
(* process, or a switch.                                                   *)
LEMMA StepKinds ==
  ASSUME ViewInv, Step
  PROVE  \/ ctl' \in Booting
         \/ /\ Undisturbed /\ tick_in' = tick_in /\ (ctl' = "irq" <=> ctl = "irq")
            /\ ctl' \notin Booting /\ (ctl \in Booting => booting = 0)
            /\ rx' \in {rx, NOCHAR} \/ KeyPressed
         \/ Undisturbed /\ BookTick
         \/ Switched
<1> USE DEF procVars
<1>1. ctl \notin Booting => pstate[current] = "RUNNABLE"
  BY DEF ViewInv, IInv, HartInv, Booting
<1>2. ASSUME UNCHANGED <<pstate, psp, wake_in, current>>, ctl # "panic",
             \A p \in Users \ {current} : ctx'[p] = ctx[p]
      PROVE  Undisturbed
  <2>1. ASSUME NEW p \in Users, pstate[p] = "SLEEPING" PROVE Place(p)' = Place(p)
    <3>1. p # current
      BY <1>1, <2>1, StackFacts DEF ViewInv, IInv, BootInv
    <3> QED BY <1>2, <2>1, <3>1, PlaceOfOther DEF Place
  <2> QED BY <1>2, <2>1 DEF Undisturbed
<1>3. CASE BootStep
  <2>1. CASE EnterIdleLoop
    BY <1>2, <2>1 DEF EnterIdleLoop, Booting
  <2> QED BY <1>3, <2>1, BootYieldSwitches, FirstFreeFacts
          DEF BootStep, KernelMain, InitTimer, CreateProcess, LoadProcess, Booting, ViewInv
<1>4. (ctl \in {"getchar", "sleep_ret"} \/ (ctl = "trap" /\ scause # "timer")) =>
         ctl \in Kern \ {"irq"} /\ current # IDLE /\ ctl \notin Booting \cup {"panic"}
  BY DEF ViewInv, IInv, HartInv, Kern, Booting
<1>5. CASE SyscallStep
  <2>1. ASSUME NEW r, FinishSyscall(r), ctl \in Kern \ {"irq"}, rx' \in {rx, NOCHAR}
        PROVE  /\ Undisturbed /\ tick_in' = tick_in /\ (ctl' = "irq" <=> ctl = "irq")
               /\ ctl' \notin Booting \cup {"panic"} /\ ctl \notin Booting
               /\ rx' \in {rx, NOCHAR}
    BY <1>2, <2>1 DEF FinishSyscall, Kern, Booting
  <2>2. CASE SysGetchar
    <3>1. CASE rx = NOCHAR /\ BlockCurrent(PollInterval, "getchar")
      BY <1>4, <2>2, <3>1, BlockSwitches, KernelAssumption
         DEF SysGetchar, InSyscall, PollInterval
    <3> QED BY <1>4, <2>1, <2>2, <3>1 DEF SysGetchar, InSyscall
  <2>3. CASE SysSleep
    <3> DEFINE ms == frame[sp].a0 % WORD
    <3>1. CASE ms = 0 \/ ms > MAX_SLEEP
      BY <1>4, <2>1, <2>3, <3>1 DEF SysSleep, InSyscall
    <3>2. CASE ~ (ms = 0 \/ ms > MAX_SLEEP)
      <4>1. sp \in KStacks /\ frame[sp].a0 \in Nat
        BY <1>4, <2>3, StackFacts, FrameFacts
           DEF SysSleep, InSyscall, ViewInv, IInv, HartInv, TypeOK, Kern
      <4>2. ms \in 0 .. WORD - 1 /\ WORD \in Nat \ {0}
        BY <4>1, KernelAssumption, ModRange
      <4>3. ms \in Nat \ {0} /\ BlockCurrent(ms, "sleep_ret")
        BY <2>3, <3>2, <4>2 DEF SysSleep
      <4> HIDE DEF ms
      <4> QED BY <1>4, <2>3, <4>3, BlockSwitches DEF SysSleep, InSyscall
    <3> QED BY <3>1, <3>2
  <2> QED BY <1>4, <1>5, <2>1, <2>2, <2>3, ExitSwitches
          DEF SyscallStep, SysPutchar, SysGetpid, SleepReturn, InSyscall
<1>6. CASE TrapReturn \/ UserEntry
  BY <1>2, <1>6 DEF TrapReturn, UserEntry, Sret, Booting
<1>7. CASE BookTick \/ WakeAndYield
  BY <1>2, <1>7, WakeAndYieldSwitches DEF BookTick
<1>8. CASE TimerRefused \/ FatalTrap \/ PageFault
  BY <1>2, <1>8 DEF TimerRefused, FatalTrap, PageFault, InSyscall, Panic, Booting,
                    ViewInv, IInv, BootInv
<1>9. ASSUME NEW cause, NEW r, NEW epc, ctl = "run", Trap(cause, r, epc)
      PROVE  /\ Undisturbed /\ tick_in' = tick_in /\ rx' = rx /\ ctl' = "trap"
  <2>1. sscratch = current /\ ctx \in [KStacks -> Labels \cup {"none"}]
    BY <1>9 DEF ViewInv, IInv, TypeOK, HartInv
  <2>2. \A p \in Users \ {current} : ctx'[p] = ctx[p]
    BY <1>9, <2>1, StackFacts DEF Trap
  <2> QED BY <1>2, <1>9, <2>2 DEF Trap
<1>10. CASE TimerTrap \/ \E c \in Exceptions : UserTrap(c)
  BY <1>9, <1>10 DEF TimerTrap, UserTrap, UserRuns, Booting
<1>11. CASE UserStep \/ IdleStep
  BY <1>2, <1>11 DEF UserStep, UserRuns, IdleStep, IdleScan, IdleWfi, IdleShutdown,
                     IdleRuns, UnchangedInIdle, Booting
<1>12. CASE KeyPressed
  BY <1>2, <1>12 DEF KeyPressed, Halted
<1>13. CASE StayHalted
  BY <1>13 DEF StayHalted, vars, Halted, Booting, Undisturbed, Place
<1> QED BY <1>3, <1>5, <1>6, <1>7, <1>8, <1>10, <1>11, <1>12, <1>13 DEF Step, KernelStep
-----------------------------------------------------------------------------
(* The clock.                                                              *)

(* The clock goes on only while the next tick is still to come.            *)
LEMMA RestFacts ==
  ASSUME ViewInv, ClockInv, AtRest
  PROVE  ctl = "run" /\ tick_in \in Nat \ {0}
  BY DEF ViewInv, IInv, TypeOK, HartInv, ClockInv, AtRest, InterruptTaken, Booting

(* During boot nobody sleeps.                                              *)
LEMMA NobodySleepsInBoot ==
  IInv /\ ctl \in Booting => \A s \in Users : pstate[s] # "SLEEPING"
  BY StackFacts DEF IInv, TableInv, BootInv

(* Nor has anybody been put to sleep by a step of boot.                    *)
LEMMA NobodySleepsInBootNext ==
  (IInv /\ ctl \in Booting)' => (\A s \in Users : pstate[s] # "SLEEPING")'
BY NobodySleepsInBoot, PTL

(* The time measured over one step.                                        *)
LEMMA MeasureFacts ==
  ASSUME NEW m \in Nat, NEW d \in Nat, NEW VARIABLE x
  PROVE  /\ Measure(m, d, x) \in Nat
         /\ Measure(m, d, x) > 0 => x'
  BY DEF Measure

(* A tick is booked as long as the machine is on.                          *)
LEMMA ClockStep == ViewInv /\ ClockInv /\ TimedNext => ClockInv'
<1> SUFFICES ASSUME ViewInv, ClockInv, TimedNext PROVE ClockInv'
  OBVIOUS
<1> USE DEF ClockInv, procVars, hartVars, Booting
<1>1. TICK \in Nat \ {0} /\ tick_in \in Nat
  BY KernelAssumption DEF ViewInv, IInv, TypeOK
<1>2. CASE Elapse
  <2>1. ctl = "run" /\ tick_in' = Less(tick_in) /\ UNCHANGED <<ctl, stie>>
    BY <1>2, RestFacts DEF Elapse, Advance
  <2> QED BY <1>1, <2>1 DEF Less
<1>3. CASE BootStep
  <2>1. CASE BootYield
    <3>1. ctl' # "trap"
      BY <2>1, BootYieldSwitches DEF Switched
    <3> QED BY <2>1, <3>1 DEF BootYield, UnchangedByYield
  <2>2. CASE KernelMain \/ InitTimer
    BY <1>1, <2>2 DEF KernelMain, InitTimer, NextTick
  <2>3. CASE CreateProcess
    BY <2>3, FirstFreeFacts DEF CreateProcess, ViewInv
  <2>4. CASE LoadProcess \/ EnterIdleLoop
    BY <2>4 DEF LoadProcess, EnterIdleLoop
  <2> QED BY <1>3, <2>1, <2>2, <2>3, <2>4 DEF BootStep
<1>4. ASSUME UNCHANGED <<stie, tick_in>>, ctl \notin Booting \cup {"panic"}, scause' # "timer"
      PROVE  ClockInv'
  BY <1>4
<1>5. ASSUME NEW r, FinishSyscall(r), ctl \notin Booting \cup {"panic"} PROVE ClockInv'
  BY <1>4, <1>5 DEF FinishSyscall
<1>6. CASE SyscallStep
  BY <1>4, <1>5, <1>6
     DEF SyscallStep, SysPutchar, SysGetpid, SysGetchar, SysSleep, SleepReturn, SysExit,
         InSyscall, BlockCurrent, UnchangedByYield
<1>7. CASE TrapReturn \/ UserEntry \/ BookTick
  BY <1>1, <1>7 DEF TrapReturn, UserEntry, Sret, BookTick, NextTick
<1>8. CASE WakeAndYield
  <2>1. ctl' # "trap"
    BY <1>8, WakeAndYieldSwitches DEF Switched
  <2> QED BY <1>8, <2>1 DEF WakeAndYield, UnchangedByYield
<1>9. CASE TimerRefused \/ FatalTrap \/ PageFault
  BY <1>9 DEF TimerRefused, FatalTrap, PageFault, InSyscall, Panic
<1>10. CASE TimerTrap \/ \E c \in Exceptions : UserTrap(c)
  BY <1>10 DEF TimerTrap, InterruptTaken, UserTrap, UserRuns, Trap, Exceptions, Syscalls, Fatal
<1>11. CASE UserStep \/ IdleStep
  BY <1>11 DEF UserStep, UserRuns, IdleStep, IdleScan, IdleWfi, IdleShutdown, IdleRuns,
               UnchangedInIdle
<1>12. CASE KeyPressed \/ StayHalted
  BY <1>12 DEF KeyPressed, StayHalted, vars
<1> QED BY <1>2, <1>3, <1>6, <1>7, <1>8, <1>9, <1>10, <1>11, <1>12
        DEF TimedNext, TimedStep, Step, KernelStep
-----------------------------------------------------------------------------
(* Sleep is rounded up to the tick.                                        *)

(* No sleep outlasts its end by a tick, after any step.                    *)
LEMMA LateStep ==
  ASSUME ViewInv, ViewInv', ClockInv, LateInv, TimedNext
  PROVE  LateInv'
<1> SUFFICES ASSUME NEW s \in Users
             PROVE  /\ late'[s] \in Nat
                    /\ late'[s] > 0 => Oversleeps(s)'
                    /\ Oversleeps(s)' => late'[s] + (IF ctl' = "irq" THEN 0 ELSE tick_in') < TICK
  BY DEF LateInv, Users, NProcs
<1>1. /\ TICK \in Nat \ {0} /\ tick_in \in Nat /\ tick_in <= TICK /\ late[s] \in Nat
      /\ wake_in[s] \in Nat /\ wake_in \in [Slots -> Nat] /\ s \in Slots
  BY KernelAssumption, StackFacts DEF ViewInv, IInv, TypeOK, ClockInv, LateInv
<1>2. Oversleeps(s) => late[s] + (IF ctl = "irq" THEN 0 ELSE tick_in) < TICK
  BY DEF LateInv
<1>3. CASE TimedStep
  <2>1. late'[s] = IF Oversleeps(s) /\ Oversleeps(s)' THEN late[s] ELSE 0
    BY <1>1, <1>3 DEF TimedStep, Record, Measure
  <2>2. CASE ctl' \in Booting
    <3>1. pstate'[s] # "SLEEPING"
      BY <2>2, NobodySleepsInBootNext DEF ViewInv, Users, NProcs
    <3> QED BY <2>1, <3>1 DEF Oversleeps
  <2>3. CASE Undisturbed /\ tick_in' = tick_in /\ (ctl' = "irq" <=> ctl = "irq")
    BY <1>1, <1>2, <2>1, <2>3 DEF Undisturbed, Oversleeps
  <2>4. CASE Undisturbed /\ BookTick
    BY <1>1, <1>2, <2>1, <2>4 DEF Undisturbed, Oversleeps, BookTick
  <2>5. CASE Switched
    <3>1. Oversleeps(s)' => Oversleeps(s) /\ ctl # "irq"
      BY <2>5 DEF Switched, Oversleeps
    <3> QED BY <1>1, <1>2, <2>1, <2>5, <3>1 DEF Switched
  <2> QED BY <1>3, <2>2, <2>3, <2>4, <2>5, StepKinds DEF TimedStep
<1>4. CASE Elapse
  <2>1. late'[s] = IF Oversleeps(s) /\ Oversleeps(s)' THEN late[s] + 1 ELSE 0
    BY <1>4 DEF Elapse, Record, Measure
  <2>2. /\ ctl = "run" /\ tick_in > 0 /\ tick_in' = tick_in - 1 /\ ctl' = ctl
        /\ pstate' = pstate /\ wake_in'[s] = Less(wake_in[s])
    BY <1>1, <1>4, RestFacts DEF Elapse, Advance, Less
  <2> QED BY <1>1, <1>2, <2>1, <2>2 DEF Oversleeps, Less
<1> QED BY <1>3, <1>4 DEF TimedNext
-----------------------------------------------------------------------------
(* The reaction to input.                                                  *)

(* No input outlasts two ticks in front of a blocked reader.               *)
LEMMA InputStep ==
  ASSUME ViewInv, ViewInv', ClockInv, InputInv, TimedNext
  PROVE  InputInv'
<1>1. /\ TICK \in Nat \ {0} /\ tick_in \in Nat /\ tick_in <= TICK /\ waiting \in Nat
      /\ wake_in \in [Slots -> Nat] /\ Users \subseteq Slots
      /\ ctl = "trap" /\ scause = "timer" => tick_in = 0
  BY KernelAssumption, StackFacts DEF ViewInv, IInv, TypeOK, ClockInv, InputInv
<1>2. \A s \in Users : Polling(s) =>
        wake_in[s] <= TICK /\ (rx # NOCHAR => waiting + TimeToWake(s) < 2 * TICK)
  BY DEF InputInv
<1>3. InputWaits' <=> rx' # NOCHAR /\ \E s \in Users' : Polling(s)'
  BY DEF InputWaits, Reading, Polling, Place
<1>4. Users' = Users
  BY DEF Users, NProcs
<1>5. CASE TimedStep
  <2>1. waiting' = IF InputWaits /\ InputWaits' THEN waiting ELSE 0
    BY <1>1, <1>5 DEF TimedStep, Record, Measure
  <2>2. SUFFICES ASSUME NEW s \in Users, Polling(s)'
                 PROVE  /\ wake_in'[s] <= TICK
                        /\ rx' # NOCHAR => waiting' + TimeToWake(s)' < 2 * TICK
    BY <1>1, <1>4, <2>1 DEF InputInv
  <2>3. pstate'[s] = "SLEEPING" /\ Place(s)' = "getchar"
    BY <2>2 DEF Polling
  <2>4. s \in Slots /\ wake_in[s] \in Nat
    BY <1>1
  <2>5. CASE ctl' \in Booting
    BY <1>4, <2>3, <2>5, NobodySleepsInBootNext DEF ViewInv
  <2>6. CASE Switched
    <3>1. UNCHANGED <<tick_in, rx>> /\ ctl' # "irq"
      BY <2>6 DEF Switched
    <3>2. CASE s = current
      BY <1>1, <2>3, <2>6, <3>2 DEF Switched
    <3>3. CASE s # current
      <4>1. /\ wake_in'[s] = wake_in[s] /\ pstate[s] = "SLEEPING" /\ Polling(s)
            /\ ~ (ctl = "irq" /\ wake_in[s] = 0)
        BY <2>3, <2>6, <3>3 DEF Switched, Oversleeps, Polling
      <4> QED BY <1>1, <1>2, <2>1, <2>4, <3>1, <4>1 DEF TimeToWake
    <3> QED BY <3>2, <3>3
  <2>7. CASE Undisturbed
    <3>1. Polling(s) /\ wake_in'[s] = wake_in[s]
      BY <2>3, <2>7 DEF Undisturbed, Polling
    <3>2. CASE tick_in' = tick_in /\ (ctl' = "irq" <=> ctl = "irq") /\ rx' \in {rx, NOCHAR}
      BY <1>1, <1>2, <2>1, <2>4, <3>1, <3>2 DEF TimeToWake
    <3>3. CASE tick_in' = tick_in /\ (ctl' = "irq" <=> ctl = "irq") /\ KeyPressed
      <4>1. waiting' = 0
        BY <2>1, <3>3 DEF KeyPressed, InputWaits
      <4> QED BY <1>1, <1>2, <2>4, <3>1, <3>3, <4>1 DEF TimeToWake
    <3>4. CASE BookTick
      <4>1. tick_in = 0 /\ tick_in' = TICK /\ ctl = "trap" /\ ctl' = "irq" /\ rx' = rx
        BY <1>1, <3>4 DEF BookTick, NextTick
      <4> QED BY <1>1, <1>2, <2>1, <2>4, <3>1, <4>1 DEF TimeToWake
    <3> QED BY <1>5, <2>5, <2>6, <3>2, <3>3, <3>4, StepKinds DEF TimedStep
  <2> QED BY <1>5, <2>5, <2>6, <2>7, StepKinds DEF TimedStep
<1>6. CASE Elapse
  <2>1. waiting' = IF InputWaits /\ InputWaits' THEN waiting + 1 ELSE 0
    BY <1>6 DEF Elapse, Record, Measure
  <2>2. /\ ctl = "run" /\ tick_in > 0 /\ tick_in' = tick_in - 1 /\ ctl' = ctl /\ rx' = rx
        /\ UNCHANGED <<pstate, current, ctx, psp>>
        /\ \A s \in Users : wake_in'[s] = Less(wake_in[s])
    BY <1>1, <1>6, RestFacts DEF Elapse, Advance, Less
  <2>3. SUFFICES ASSUME NEW s \in Users, Polling(s)'
                 PROVE  /\ wake_in'[s] <= TICK
                        /\ rx' # NOCHAR => waiting' + TimeToWake(s)' < 2 * TICK
    BY <1>1, <1>4, <2>1 DEF InputInv
  <2>4. Polling(s) /\ wake_in[s] \in Nat
    BY <1>1, <2>2, <2>3 DEF Polling, Place
  <2>5. wake_in[s] <= TICK /\ (rx # NOCHAR => waiting + TimeToWake(s) < 2 * TICK)
    BY <1>2, <2>4
  <2>6. wake_in'[s] = IF wake_in[s] > 0 THEN wake_in[s] - 1 ELSE 0
    BY <2>2 DEF Less
  <2> QED BY <1>1, <2>1, <2>2, <2>4, <2>5, <2>6 DEF TimeToWake
<1> QED BY <1>5, <1>6 DEF TimedNext
-----------------------------------------------------------------------------
(* Round robin.                                                            *)

(* The loop of yield() starts behind the process p and comes back to it    *)
(* last: i steps on is slot p + i + 1, or that many slots less.            *)
LEMMA RingFromUser ==
  ASSUME IInv, ctl \notin {"kernel_main", "init_timer", "create", "load", "panic"},
         current \in Users, NEW i \in Slots
  PROVE  Ring(i) = IF current + 1 + i < PROCS_MAX THEN current + 1 + i
                   ELSE current + 1 + i - PROCS_MAX
<1>1. /\ pid[current] = current + 1 /\ current \in Nat /\ i \in Nat
      /\ PROCS_MAX \in Nat \ {0} /\ current < PROCS_MAX /\ i < PROCS_MAX
  BY KernelAssumption, StackFacts DEF IInv, TableInv, BootInv, Users, Slots
<1>2. CASE current + 1 + i < PROCS_MAX
  <2>1. current + 1 + i \in 0 .. PROCS_MAX - 1
    BY <1>1, <1>2
  <2>2. (current + 1 + i) % PROCS_MAX = current + 1 + i
    BY <1>1, <2>1, ModFacts
  <2> QED BY <1>1, <1>2, <2>2 DEF Ring
<1>3. CASE current + 1 + i >= PROCS_MAX
  <2> DEFINE s == current + 1 + i - PROCS_MAX
  <2>1. s \in 0 .. PROCS_MAX - 1 /\ s + PROCS_MAX = current + 1 + i
    BY <1>1, <1>3
  <2> HIDE DEF s
  <2>2. (current + 1 + i) % PROCS_MAX = s
    BY <1>1, <2>1, ModFacts
  <2> QED BY <1>1, <1>3, <2>2 DEF Ring, s
<1> QED BY <1>1, <1>2, <1>3

(* Whom yield() picks, when s may run: s or a process before s in the      *)
(* order that starts behind the current process, and so never that one.    *)
LEMMA NextInOrder ==
  ASSUME IInv, ctl \notin {"kernel_main", "init_timer", "create", "load", "panic"},
         current \in Users, NEW st, NEW s \in Users \ {current}, Runnable(st, s)
  PROVE  /\ PickNext(st) \in Users \ {current}
         /\ PickNext(st) # s => Ahead(PickNext(st), s) < Ahead(current, s)
<1>1. TypeOK /\ current \in Nat /\ s \in Nat /\ current \in 1 .. NProcs /\ s \in 1 .. NProcs
      /\ PROCS_MAX \in Nat \ {0} /\ NProcs < PROCS_MAX /\ NProcs \in Nat
  BY KernelAssumption, StackFacts DEF IInv, Users
<1>2. PICK k \in Slots : Ring(k) = s
  BY <1>1, RingCoversSlots, StackFacts
<1>3. PICK i \in Slots : /\ PickNext(st) = Ring(i) /\ Runnable(st, Ring(i))
                         /\ \A j \in 0 .. i - 1 : ~ Runnable(st, Ring(j))
  BY <1>1, PickNextIsFirst, StackFacts
<1>4. i <= k
  BY <1>1, <1>2, <1>3 DEF Slots
<1>5. Ring(i) \in Users
  BY <1>1, <1>3, RingInSlots DEF IInv, TableInv, BootInv, Runnable, Users
<1> DEFINE n == Ring(i)
<1>6. /\ n = IF current + 1 + i < PROCS_MAX THEN current + 1 + i
             ELSE current + 1 + i - PROCS_MAX
      /\ s = IF current + 1 + k < PROCS_MAX THEN current + 1 + k
             ELSE current + 1 + k - PROCS_MAX
      /\ n \in 1 .. NProcs /\ i \in 0 .. PROCS_MAX - 1 /\ k \in 0 .. PROCS_MAX - 1
  BY <1>2, <1>5, RingFromUser DEF Slots, Users
<1> HIDE DEF n
<1> QED BY <1>1, <1>3, <1>4, <1>6 DEF Ahead, n, Users

(* A process further back waits for a whole slice more.                    *)
LEMMA SliceLess ==
  ASSUME NEW a \in Int, NEW b \in Int, a <= b, NEW T \in Nat
  PROVE  (a - 1) * T <= (b - 1) * T /\ (a < b => (a - 1) * T + T <= (b - 1) * T)
<1>1. PICK k \in Nat : b = a + k
  BY b - a \in Nat
<1>2. (b - 1) * T = (a - 1) * T + k * T /\ k * T >= 0
  BY <1>1
<1>3. a < b => k * T = (k - 1) * T + T /\ (k - 1) * T >= 0
  BY <1>1
<1> QED BY <1>2, <1>3

(* The places in the order of yield() are numbered from 1; the process     *)
(* itself is the last.                                                     *)
LEMMA AheadRange ==
  ASSUME NEW c \in Users, NEW s \in Users, c # s
  PROVE  Ahead(c, s) \in 1 .. NProcs - 1
  BY StackFacts DEF Ahead, Users

(* What a process has to wait for after a switch.                          *)
LEMMA RoundSwitch ==
  ASSUME ViewInv, ViewInv', ClockInv, RoundInv, Switched, NEW s \in Users, Queued(s)',
         queued'[s] = IF Queued(s) THEN queued[s] ELSE 0
  PROVE  queued'[s] + tick_in' + (Ahead(current', s) - 1) * TICK <= (NProcs - 1) * TICK
<1>1. /\ TICK \in Nat \ {0} /\ tick_in \in Nat /\ tick_in <= TICK /\ NProcs \in Nat \ {0}
      /\ queued[s] \in Nat /\ tick_in' = tick_in /\ s \in Slots
  BY KernelAssumption, StackFacts DEF ViewInv, IInv, TypeOK, ClockInv, RoundInv, Switched
<1>2. /\ current' = PickNext(pstate') /\ ctl \in Kern \cup {"boot_yield"} /\ current' # s
      /\ pstate'[s] = "RUNNABLE"
  BY DEF Switched, Queued
<1>3. booting = NProcs /\ pid[s] > 0 /\ Runnable(pstate', s)
  BY <1>1, <1>2 DEF ViewInv, IInv, TableInv, BootInv, Kern, Users, Runnable
<1>4. current' \in Users
  <2>1. current' \in Slots /\ Runnable(pstate', current')
    BY <1>1, <1>2, <1>3, PickNextFacts DEF ViewInv, IInv
  <2> QED BY <1>3, <2>1 DEF ViewInv, IInv, TableInv, Runnable, Users
<1> DEFINE b == Ahead(current', s)
           left == IF ctl = "irq" THEN 0 ELSE tick_in
<1>5. b \in 1 .. NProcs - 1
  BY <1>2, <1>4, AheadRange
<1>6. CASE Queued(s) /\ queued[s] > 0
  <2>1. ctl \notin Booting /\ current # s
    BY <1>6 DEF RoundInv, Queued
  <2>2. current # IDLE
    BY <1>6, <2>1 DEF ViewInv, IInv, IdleInv, Queued
  <2>3. current \in Users
    BY <1>2, <2>1, <2>2, CurrentIsUser DEF ViewInv, Kern
  <2> DEFINE a == Ahead(current, s)
  <2>4. b < a
    BY <1>2, <1>3, <2>1, <2>3, NextInOrder DEF ViewInv, Kern, Booting
  <2>5. a \in 1 .. NProcs - 1
    BY <2>1, <2>3, AheadRange
  <2>6. queued[s] + left + (a - 1) * TICK <= (NProcs - 1) * TICK
    BY <1>6, <2>1 DEF RoundInv
  <2> HIDE DEF a, b
  <2>7. (b - 1) * TICK + TICK <= (a - 1) * TICK /\ (b - 1) * TICK \in Int /\ (a - 1) * TICK \in Int
    BY <1>1, <1>5, <2>4, <2>5, SliceLess
  <2>8. (NProcs - 1) * TICK \in Int /\ queued'[s] = queued[s]
    BY <1>1, <1>6
  <2> QED BY <1>1, <2>6, <2>7, <2>8 DEF b
<1>7. CASE ~ (Queued(s) /\ queued[s] > 0)
  <2>1. queued'[s] = 0
    BY <1>1, <1>7
  <2> HIDE DEF b
  <2>2. (b - 1) * TICK + TICK <= (NProcs - 1) * TICK
    BY <1>1, <1>5, SliceLess
  <2>3. (b - 1) * TICK \in Int /\ (NProcs - 1) * TICK \in Int
    BY <1>1, <1>5
  <2> QED BY <1>1, <2>1, <2>2, <2>3 DEF b
<1> QED BY <1>6, <1>7

(* No process that is ready waits for more than a slice of each other one. *)
LEMMA RoundStep ==
  ASSUME ViewInv, ViewInv', ClockInv, RoundInv, TimedNext
  PROVE  RoundInv'
<1> SUFFICES ASSUME NEW s \in Users
             PROVE  /\ queued'[s] \in Nat
                    /\ queued'[s] > 0 => Queued(s)' /\ ctl' \notin Booting
                    /\ Queued(s)' /\ ctl' \notin Booting =>
                         queued'[s] + (IF ctl' = "irq" THEN 0 ELSE tick_in')
                             + (Ahead(current', s) - 1) * TICK <= (NProcs - 1) * TICK
  BY DEF RoundInv, Users, NProcs, Ahead, Booting
<1>1. /\ TICK \in Nat \ {0} /\ tick_in \in Nat /\ queued[s] \in Nat
      /\ queued[s] > 0 => Queued(s) /\ ctl \notin Booting
      /\ Queued(s) /\ ctl \notin Booting =>
           queued[s] + (IF ctl = "irq" THEN 0 ELSE tick_in) + (Ahead(current, s) - 1) * TICK
             <= (NProcs - 1) * TICK
      /\ ctl = "trap" /\ scause = "timer" => tick_in = 0
  BY KernelAssumption DEF ViewInv, IInv, TypeOK, ClockInv, RoundInv
<1>2. CASE TimedStep
  <2>1. queued'[s] = IF Queued(s) /\ Queued(s)' THEN queued[s] ELSE 0
    BY <1>1, <1>2 DEF TimedStep, Record, Measure
  <2>2. CASE ctl' \in Booting
    <3>1. ctl \in Booting
      BY <1>2, <2>2, BootEnds
         DEF TimedStep, Next, KernelMain, InitTimer, CreateProcess, LoadProcess, Booting
    <3> QED BY <1>1, <2>1, <2>2, <3>1
  <2>3. CASE Switched
    <3>1. ctl' \notin Booting /\ ctl' # "irq"
      BY <2>3 DEF Switched
    <3> QED BY <1>1, <2>1, <2>3, <3>1, RoundSwitch
  <2>4. CASE Undisturbed /\ ctl' \notin Booting /\ ctl \in Booting /\ booting = 0
    <3>1. pstate'[s] = "UNUSED"
      BY <2>4, StackFacts DEF Undisturbed, ViewInv, IInv, TableInv
    <3> QED BY <1>1, <2>1, <3>1 DEF Queued
  <2>5. CASE Undisturbed /\ ctl \notin Booting /\ ctl' \notin Booting
    <3>1. (Queued(s)' <=> Queued(s)) /\ current' = current
      BY <2>5 DEF Undisturbed, Queued
    <3>2. CASE tick_in' = tick_in /\ (ctl' = "irq" <=> ctl = "irq")
      BY <1>1, <2>1, <2>5, <3>1, <3>2
    <3>3. CASE BookTick
      BY <1>1, <2>1, <2>5, <3>1, <3>3 DEF BookTick
    <3> QED BY <1>2, <2>2, <2>3, <2>5, <3>2, <3>3, StepKinds DEF TimedStep
  <2>6. BookTick => ctl \notin Booting /\ ctl' \notin Booting
    BY DEF BookTick, Booting
  <2> QED BY <1>2, <2>2, <2>3, <2>4, <2>5, <2>6, StepKinds DEF TimedStep
<1>3. CASE Elapse
  <2>1. queued'[s] = IF Queued(s) /\ Queued(s)' THEN queued[s] + 1 ELSE 0
    BY <1>3 DEF Elapse, Record, Measure
  <2>2. /\ ctl = "run" /\ tick_in > 0 /\ tick_in' = tick_in - 1 /\ ctl' = ctl
        /\ UNCHANGED <<pstate, current>> /\ ctl \notin Booting
    BY <1>1, <1>3, RestFacts DEF Elapse, Advance, Less, Booting
  <2>3. Queued(s)' <=> Queued(s)
    BY <2>2 DEF Queued
  <2> QED BY <1>1, <2>1, <2>2, <2>3
<1> QED BY <1>2, <1>3 DEF TimedNext
-----------------------------------------------------------------------------
(* Power off.                                                              *)

(* When nobody is alive, only the idle process is left.                    *)
LEMMA NobodyMeansIdle ==
  IInv /\ NobodyIsAlive => ctl \notin Booting /\ current = IDLE
<1> SUFFICES ASSUME IInv, NobodyIsAlive PROVE ctl \notin Booting /\ current = IDLE
  OBVIOUS
<1>1. 1 \in Users /\ 1 \in Slots \ {IDLE} /\ pstate[1] = "EXITED" /\ booting \in 0 .. NProcs
  BY StackFacts DEF NobodyIsAlive, IInv, TableInv
<1>2. 1 \in 1 .. booting
  BY <1>1 DEF IInv, TableInv
<1>3. ctl \notin Booting
  BY <1>1, <1>2 DEF IInv, BootInv
<1>4. pstate[current] = "RUNNABLE" /\ current \in Slots
  BY <1>3 DEF IInv, HartInv, TypeOK, Booting
<1>5. current # IDLE => current \in 1 .. booting
  BY <1>4 DEF IInv, TableInv
<1>6. current # IDLE => current \in Users
  BY <1>1, <1>5, StackFacts DEF Users
<1> QED BY <1>3, <1>4, <1>6 DEF NobodyIsAlive

(* Then has_live_process() passes one slot after another.                  *)
LEMMA ScanFindsNobody ==
  ASSUME IInv, NobodyIsAlive, IdleScan
  PROVE  pc' \in Nat /\ pc' <= NONE_LIVE
<1> DEFINE s == pc \div 2
<1>1. pc \in Nat /\ pc < NONE_LIVE /\ PROCS_MAX \in Nat \ {0} /\ NONE_LIVE = 2 * PROCS_MAX
  BY KernelAssumption DEF IdleScan, IInv, TypeOK, NONE_LIVE
<1>2. s \in Nat /\ 2 * s <= pc
  BY <1>1, DivFacts
<1>3. pc' = IF pid[s] <= 0 THEN 2 * (s + 1)
            ELSE IF pstate[s] = IF pc % 2 = 0 THEN "RUNNABLE" ELSE "SLEEPING" THEN WFI
            ELSE pc + 1
  BY DEF IdleScan, FoundLive
<1>4. s \in Slots
  BY <1>1, <1>2 DEF Slots
<1>5. pid[s] > 0 => pstate[s] = "EXITED"
  <2>1. pid[s] > 0 => s \in 1 .. booting /\ booting \in 0 .. NProcs
    BY <1>4 DEF IInv, TableInv
  <2> QED BY <2>1, StackFacts DEF NobodyIsAlive, Users
<1>6. pid[s] \in Nat
  BY <1>4, KernelAssumption DEF IInv, TypeOK
<1> HIDE DEF s
<1>7. CASE pid[s] <= 0
  BY <1>1, <1>2, <1>3, <1>4, <1>7, KernelAssumption DEF Slots
<1>8. CASE pid[s] > 0
  BY <1>1, <1>3, <1>5, <1>6, <1>8
<1> QED BY <1>6, <1>7, <1>8

(* What the hart does for the idle process once boot is over.              *)
LEMMA IdleSteps ==
  ASSUME ViewInv, current = IDLE, ctl \in {"run", "trap", "irq", "ret", "off", "panic"}, Step
  PROVE  \/ TimerTrap \/ IdleScan \/ IdleWfi \/ IdleShutdown
         \/ BookTick \/ WakeAndYield \/ TrapReturn
         \/ TimerRefused
         \/ UNCHANGED <<pc, frame, current, ctl, tick_in>>
<1>1. ctl = "trap" => scause = "timer"
  BY DEF ViewInv, IInv, HartInv
<1>2. KeyPressed \/ StayHalted => UNCHANGED <<pc, frame, current, ctl, tick_in>>
  BY DEF KeyPressed, StayHalted, vars, hartVars
<1> QED BY <1>1, <1>2
        DEF Step, KernelStep, BootStep, SyscallStep, KernelMain, InitTimer, CreateProcess,
            LoadProcess, BootYield, EnterIdleLoop, SysPutchar, SysGetpid, SysGetchar, SysSleep,
            SleepReturn, SysExit, InSyscall, UserEntry, PageFault, FatalTrap, Fatal, UserStep,
            UserTrap, UserRuns, IdleStep

(* No step but the passing of time leads away from the power-off.          *)
LEMMA StaysOnTheWay ==
  ASSUME ViewInv, NobodyIsAlive, OnTheWay, empty \in Nat, empty' = empty, Step
  PROVE  OnTheWay'
<1>1. /\ current = IDLE /\ ctl \in {"run", "trap", "irq", "ret", "off", "panic"}
      /\ PROCS_MAX \in Nat \ {0} /\ pc \in Nat /\ NONE_LIVE = 2 * PROCS_MAX
      /\ WFI = NONE_LIVE + 1 /\ STALLED = NONE_LIVE + 2
      /\ NONE_LIVE' = NONE_LIVE /\ STALLED' = STALLED /\ IDLE' = IDLE
  BY NobodyMeansIdle, KernelAssumption
     DEF ViewInv, IInv, TypeOK, OnTheWay, Halted, NONE_LIVE, WFI, STALLED, IDLE
<1>2. CASE TimerTrap
  <2>1. /\ frame'[IDLE].pc = IF pc = STALLED THEN 0 ELSE pc
        /\ ctl = "run" /\ ctl' = "trap"
    BY <1>1, <1>2, StackFacts DEF TimerTrap, Trap, ViewInv, IInv, TypeOK, HartInv
  <2> QED BY <1>1, <2>1 DEF OnTheWay, Halted
<1>3. CASE IdleScan
  BY <1>1, <1>3, ScanFindsNobody DEF OnTheWay, IdleScan, IdleRuns, ViewInv
<1>4. CASE IdleWfi
  BY <1>1, <1>4 DEF OnTheWay, IdleWfi, IdleRuns, Halted
<1>5. CASE IdleShutdown \/ TimerRefused
  BY <1>5 DEF IdleShutdown, TimerRefused, Panic, OnTheWay, Halted
<1>6. CASE BookTick
  BY <1>1, <1>6 DEF BookTick, OnTheWay, Halted
<1>7. CASE WakeAndYield
  <2>1. \A s \in Slots : pid[s] > 0 => s \in Users
    BY StackFacts DEF ViewInv, IInv, TableInv, Users
  <2>2. \A s \in Slots : ~ Runnable(WakeExpired, s)
    BY <2>1 DEF Runnable, WakeExpired, NobodyIsAlive
  <2>3. PickNext(WakeExpired) = IDLE
    BY <2>2, PickNextFacts DEF ViewInv, IInv
  <2>4. ctl = "irq" /\ ctl' = "ret" /\ frame' = frame
    BY <1>1, <1>7, <2>3 DEF WakeAndYield, Yield, UnchangedByYield
  <2> QED BY <1>1, <2>4 DEF OnTheWay, Halted
<1>8. CASE TrapReturn
  <2>1. pc' = frame[IDLE].pc /\ ctl = "ret" /\ ctl' = "run"
    BY <1>1, <1>8 DEF TrapReturn, Sret, ViewInv, IInv, HartInv, Kern
  <2> QED BY <1>1, <2>1 DEF OnTheWay, Halted
<1>9. CASE UNCHANGED <<pc, frame, current, ctl, tick_in>>
  BY <1>1, <1>9 DEF OnTheWay, Halted
<1> QED BY <1>1, <1>2, <1>3, <1>4, <1>5, <1>6, <1>7, <1>8, <1>9, IdleSteps

(* The power is off a tick after the last exit.                            *)
LEMMA OffStep ==
  ASSUME ViewInv, ViewInv', ClockInv, OffInv, TimedNext
  PROVE  OffInv'
<1>1. /\ TICK \in Nat \ {0} /\ tick_in \in Nat /\ tick_in <= TICK
      /\ empty \in Nat /\ empty <= TICK
      /\ empty > 0 => NobodyIsAlive /\ OnTheWay
  BY KernelAssumption DEF ViewInv, IInv, TypeOK, ClockInv, OffInv, OnTheWay
<1>2. SUFFICES /\ empty' \in Nat /\ empty' <= TICK
               /\ empty' > 0 => NobodyIsAlive' /\ OnTheWay'
  BY DEF OffInv, OnTheWay
<1>3. CASE TimedStep
  <2>1. empty' = IF NobodyIsAlive /\ NobodyIsAlive' THEN empty ELSE 0
    BY <1>1, <1>3 DEF TimedStep, Record, Measure
  <2> QED BY <1>1, <1>3, <2>1, StaysOnTheWay DEF TimedStep
<1>4. CASE Elapse
  <2>1. empty' = IF NobodyIsAlive /\ NobodyIsAlive' THEN empty + 1 ELSE 0
    BY <1>4 DEF Elapse, Record, Measure
  <2>2. /\ ctl = "run" /\ tick_in > 0 /\ tick_in' = tick_in - 1
        /\ ctl' = "run" /\ pc' = pc
    BY <1>1, <1>4, RestFacts DEF Elapse, Advance, Less, hartVars
  <2>3. CASE NobodyIsAlive
    <3>1. /\ pc = STALLED /\ STALLED > NONE_LIVE /\ STALLED' = STALLED
          /\ STALLED \in Nat /\ NONE_LIVE \in Nat
      BY <1>4, <2>3, NobodyMeansIdle, KernelAssumption
         DEF Elapse, AtRest, ViewInv, STALLED, NONE_LIVE
    <3>2. empty + tick_in <= TICK
      BY <1>1, <2>2, <3>1 DEF OnTheWay, Halted
    <3> QED BY <1>1, <2>1, <2>2, <3>1, <3>2 DEF OnTheWay
  <2> QED BY <1>1, <2>1, <2>3
<1> QED BY <1>3, <1>4 DEF TimedNext
-----------------------------------------------------------------------------
(* The theorems.                                                           *)

(* When the machine starts nothing is late.                                *)
LEMMA TimedInvInit == TimedInit => TimedInv
<1> SUFFICES ASSUME TimedInit PROVE TimedInv
  OBVIOUS
<1>1. ViewInv /\ Init
  BY ViewInvInit DEF TimedInit
<1>2. /\ TICK \in Nat \ {0} /\ NProcs \in Nat \ {0} /\ Users \subseteq Slots
      /\ \A s \in Users : late[s] = 0 /\ queued[s] = 0 /\ pstate[s] = "UNUSED"
      /\ waiting = 0 /\ empty = 0 /\ tick_in = 0 /\ rx = NOCHAR /\ ctl = "kernel_main"
  BY <1>1, KernelAssumption, StackFacts DEF TimedInit, Init
<1>3. ClockInv /\ LateInv /\ InputInv /\ OffInv
  BY <1>2 DEF ClockInv, LateInv, InputInv, OffInv, Oversleeps, Polling
<1>4. RoundInv
  BY <1>2 DEF RoundInv, Queued
<1> QED BY <1>1, <1>3, <1>4 DEF TimedInv

(* Time passes and nothing else, or the hart takes a step.                 *)
LEMMA TimedNextIsNext == TimedNext => [Next]_vars
BY DEF TimedNext, TimedStep, Elapse, Next

(* Every step keeps every bound.                                           *)
LEMMA TimedInvNext == TimedInv /\ [TimedNext]_timedVars => TimedInv'
<1>1. ASSUME TimedInv, TimedNext PROVE TimedInv'
  <2>1. ViewInv'
    BY <1>1, TimedNextIsNext, ViewInvNext DEF TimedInv
  <2>2. ClockInv'
    BY <1>1, ClockStep DEF TimedInv
  <2>3. LateInv' /\ InputInv'
    BY <1>1, <2>1, LateStep, InputStep DEF TimedInv
  <2>4. RoundInv' /\ OffInv'
    BY <1>1, <2>1, RoundStep, OffStep DEF TimedInv
  <2> QED BY <2>1, <2>2, <2>3, <2>4 DEF TimedInv
<1>2. ASSUME TimedInv, UNCHANGED timedVars PROVE TimedInv'
  <2>1. /\ UNCHANGED <<ctl, stie, scause, tick_in, rx, pstate, wake_in, current, psp, ctx, frame, pc>>
        /\ UNCHANGED <<late, waiting, queued, empty>> /\ UNCHANGED vars
    BY <1>2 DEF timedVars, history, vars, procVars, hartVars
  <2>2. ViewInv'
    BY <1>2, <2>1, ViewInvNext DEF TimedInv
  <2>3. ClockInv' /\ OffInv'
    BY <1>2, <2>1 DEF TimedInv, ClockInv, OffInv, OnTheWay, NobodyIsAlive, Halted, Booting
  <2>4. LateInv'
    BY <1>2, <2>1 DEF TimedInv, LateInv, Oversleeps
  <2>5. InputInv'
    BY <1>2, <2>1 DEF TimedInv, InputInv, InputWaits, Reading, Polling, Place, TimeToWake
  <2>6. RoundInv'
    BY <1>2, <2>1 DEF TimedInv, RoundInv, Queued, Ahead, Booting
  <2> QED BY <2>2, <2>3, <2>4, <2>5, <2>6 DEF TimedInv
<1> QED BY <1>1, <1>2

(* The bounds hold as long as the machine runs.                            *)
THEOREM TimedInvariance == TimedSpec => []TimedInv
BY TimedInvInit, TimedInvNext, PTL DEF TimedSpec

(* A sleep is over less than a tick after its end: the timer interrupt is  *)
(* booked anew at every tick, and wakes all whose time is over.            *)
THEOREM SleepIsRoundedToTick == TimedSpec => []SleepRoundedToTick
<1>1. TimedInv => SleepRoundedToTick
  <2> SUFFICES ASSUME TimedInv, NEW s \in Users PROVE late[s] < TICK
    BY DEF SleepRoundedToTick
  <2>1. TICK \in Nat \ {0} /\ tick_in \in Nat /\ late[s] \in Nat
    BY KernelAssumption DEF TimedInv, LateInv, ViewInv, IInv, TypeOK
  <2>2. late[s] > 0 => late[s] + (IF ctl = "irq" THEN 0 ELSE tick_in) < TICK
    BY DEF TimedInv, LateInv
  <2> QED BY <2>1, <2>2
<1> QED BY <1>1, TimedInvariance, PTL

(* A process that is ready gets the CPU before the others have had a slice *)
(* each, whatever they do meanwhile: yield() goes round in slot order.     *)
THEOREM CpuInOneRound == TimedSpec => []CpuWithinOneRound
<1>1. TimedInv => CpuWithinOneRound
  <2> SUFFICES ASSUME TimedInv, NEW s \in Users PROVE queued[s] <= (NProcs - 1) * TICK
    BY DEF CpuWithinOneRound
  <2>1. /\ TICK \in Nat /\ tick_in \in Nat /\ NProcs \in Nat \ {0} /\ queued[s] \in Nat
        /\ (NProcs - 1) * TICK \in Nat
    BY KernelAssumption, StackFacts DEF TimedInv, RoundInv, ViewInv, IInv, TypeOK
  <2>2. CASE queued[s] > 0
    <3>1. /\ Queued(s) /\ ctl \notin Booting
          /\ queued[s] + (IF ctl = "irq" THEN 0 ELSE tick_in) + (Ahead(current, s) - 1) * TICK
               <= (NProcs - 1) * TICK
      BY <2>2 DEF TimedInv, RoundInv
    <3>2. current # s /\ current # IDLE
      BY <3>1 DEF Queued, TimedInv, ViewInv, IInv, IdleInv
    <3>3. current \in 1 .. booting /\ booting \in 0 .. NProcs
      BY <3>1, <3>2 DEF TimedInv, ViewInv, IInv, TypeOK, TableInv, HartInv, Booting
    <3>4. current \in Users
      BY <2>1, <3>3 DEF Users
    <3>5. (Ahead(current, s) - 1) * TICK \in Nat
      BY <2>1, <3>2, <3>4, AheadRange
    <3> QED BY <2>1, <3>1, <3>5
  <2> QED BY <2>1, <2>2
<1> QED BY <1>1, TimedInvariance, PTL

(* The power is off within a tick of the last exit: has_live_process()     *)
(* is reached from the wfi by the next interrupt.                          *)
THEOREM OffInOneTick == TimedSpec => []OffWithinOneTick
<1>1. TimedInv => OffWithinOneTick
  BY DEF TimedInv, OffInv, OffWithinOneTick
<1> QED BY <1>1, TimedInvariance, PTL

(* Input never waits for two ticks while its reader sleeps.                *)
THEOREM InputDelayIsBounded == TimedSpec => []InputDelayBelowTwoTicks
<1>1. TimedInv => InputDelayBelowTwoTicks
  <2> SUFFICES ASSUME TimedInv, waiting > 0 PROVE waiting < 2 * TICK
    BY KernelAssumption DEF InputDelayBelowTwoTicks, TimedInv, InputInv
  <2>1. PICK s \in Users : Polling(s) /\ rx # NOCHAR
    BY DEF TimedInv, InputInv, InputWaits, Reading, Polling, Place
  <2>2. waiting + TimeToWake(s) < 2 * TICK
    BY <2>1 DEF TimedInv, InputInv
  <2> QED BY <2>2, KernelAssumption
          DEF TimedInv, InputInv, ViewInv, IInv, TypeOK, TimeToWake
<1> QED BY <1>1, TimedInvariance, PTL
=============================================================================
