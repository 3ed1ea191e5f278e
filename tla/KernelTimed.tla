----------------------------- MODULE KernelTimed -----------------------------
(***************************************************************************)
(* The kernel on a hart whose kernel code takes no time: the clock moves   *)
(* only while user code executes or the hart waits in wfi, and interrupts  *)
(* are taken when they are due.  What is late here is late by design, not  *)
(* because something was slow.  The history variables measure how late.    *)
(***************************************************************************)
EXTENDS Kernel

VARIABLES
  late,     \* late[s]: how long s has slept beyond the end of its sleep
  waiting,  \* how long input has been waiting while a reader is blocked
  queued,   \* queued[s]: how long s has been ready without being given the CPU
  empty     \* how long no process has been alive while the machine is on

history == <<late, waiting, queued, empty>>
timedVars == <<vars, history>>

AtRest == ctl = "run" /\ ~ InterruptTaken /\ (current = IDLE => pc = STALLED)

Oversleeps(s)  == pstate[s] = "SLEEPING" /\ wake_in[s] = 0
Queued(s)      == pstate[s] = "RUNNABLE" /\ current # s
InputWaits     == rx # NOCHAR /\ \E s \in Users : Reading(s) /\ pstate[s] = "SLEEPING"
NobodyIsAlive  == \A s \in Users : pstate[s] = "EXITED"

(* A measure m of a condition c over a step that takes time d: it grows    *)
(* while c lasts and starts again from 0.                                  *)
Measure(m, d, c) == IF c /\ c' THEN m + d ELSE 0

Record(d) ==
  /\ late' = [s \in Users |-> Measure(late[s], d, Oversleeps(s))]
  /\ waiting' = Measure(waiting, d, InputWaits)
  /\ queued' = [s \in Users |-> Measure(queued[s], d, Queued(s))]
  /\ empty' = Measure(empty, d, NobodyIsAlive)

TimedInit ==
  /\ Init
  /\ late = [s \in Users |-> 0]
  /\ waiting = 0
  /\ queued = [s \in Users |-> 0]
  /\ empty = 0

TimedStep == Step /\ Record(0)
Elapse    == AtRest /\ Advance /\ Record(1)
TimedNext == TimedStep \/ Elapse

TimedSpec == TimedInit /\ [][TimedNext]_timedVars

(* The accuracy of sleep is the interval of the timer interrupt            *)
(* (README.md:328): at the first tick at or after its end a sleep is over. *)
SleepRoundedToTick == \A s \in Users : late[s] < TICK

(* Round robin with a time slice of one tick (README.md:371): a process    *)
(* that is ready is given the CPU before the others have had more than one *)
(* slice each, although they block, wake and exit while it waits.          *)
CpuWithinOneRound == \A s \in Users : queued[s] <= (NProcs - 1) * TICK

(* When nobody is alive the power is off within a tick (kernel.c:472-474). *)
OffWithinOneTick == empty <= TICK

(* "The reaction to input is late by at most one tick (10ms)", says        *)
(* kernel.c:251 of the blocking of syscall_getchar.                        *)
InputDelayAtMostOneTick == waiting <= TICK

(* What the code does keep: a reader that polled between two ticks sleeps  *)
(* over the next one, whose time is before its wake_time, but the second   *)
(* one wakes it: input never meets a blocked reader for two whole ticks.   *)
InputDelayBelowTwoTicks == waiting < 2 * TICK
=============================================================================
