-------------------------- MODULE SleepArithmetic --------------------------
(***************************************************************************)
(* How long one call of sleep, sleep_ms or SYS_SLEEP lasts: the number on  *)
(* its way from the user library through a register into the wake time,    *)
(* and the comparison of every tick.  In Kernel durations are what is left *)
(* of them; here they are the words the code computes with.                *)
(*                                                                         *)
(* An int holds -HALF..HALF-1, a register holds WORD * HIGH values; the 64 *)
(* bits of the time CSR are taken to suffice.                              *)
(***************************************************************************)
EXTENDS Integers

CONSTANTS
  HALF,             \* 2^31
  HIGH,             \* the values of the upper half of a register
  SECOND,           \* milliseconds of a second
  CAP,              \* the most seconds that sleep takes
  TICKS_PER_MS,     \* counts of the time CSR
  TICK_INTERVAL_MS,
  LATE,             \* how late a tick may be handled, in counts
  Times             \* when the program may make its call

WORD == 2 * HALF
TICK == TICK_INTERVAL_MS * TICKS_PER_MS
Ints == -HALF..HALF - 1
Registers == 0..WORD * HIGH - 1

ASSUME SleepAssumption ==
  /\ {HALF, HIGH, SECOND, CAP, TICKS_PER_MS, TICK_INTERVAL_MS} \subseteq Nat \ {0}
  /\ CAP * SECOND < HALF
  /\ TICK_INTERVAL_MS < HALF
  /\ LATE \in Nat /\ Times \subseteq Nat

VARIABLES
  pc,         \* program, ecall, asleep, back
  a0,         \* the register with the argument
  promised,   \* history: for how many milliseconds the caller asks
  begun,      \* history: when
  now, next,  \* the time, and the time of the timer interrupt
  wake_time

vars == <<pc, a0, promised, begun, now, next, wake_time>>

Init ==
  /\ pc = "program" /\ a0 = 0 /\ promised = 0 /\ wake_time = 0
  /\ begun \in Times /\ now = begun /\ next \in now + 1..now + TICK

ToInt(n) == ((n + HALF) % WORD) - HALF       \* the result of arithmetic on ints
Register(n) == n % (WORD * HIGH)           \* an int in a register
Word(r) == r % WORD                        \* (uint32_t)
NotBelow(n) == IF n < 0 THEN 0 ELSE n
Capped(s) == IF s > CAP THEN CAP ELSE s

SleepMs(ms) ==
  /\ pc' = IF ms <= 0 THEN "back" ELSE "ecall"
  /\ a0' = IF ms <= 0 THEN a0 ELSE Register(ms)

Seconds(s) ==
  /\ promised' = NotBelow(IF s > CAP THEN CAP ELSE s) * SECOND
  /\ SleepMs(IF s <= 0 THEN 0 ELSE ToInt(Capped(s) * SECOND))

Milliseconds(ms) == promised' = NotBelow(ms) /\ SleepMs(ms)

(* A program that makes the call itself: a word with the highest bit set   *)
(* is taken for a negative number (kernel.c:268-270).                      *)
Ecall(r) ==
  /\ promised' = NotBelow(ToInt(r))
  /\ a0' = r /\ pc' = "ecall"

Call ==
  /\ pc = "program"
  /\ (\E i \in Ints : Seconds(i) \/ Milliseconds(i)) \/ \E r \in Registers : Ecall(r)
  /\ UNCHANGED <<begun, now, next, wake_time>>

(* A faulty variant of WakeTime: the product has 32 bits.                  *)
WakeTimeIn32Bits(ms) == now + ((ms * TICKS_PER_MS) % WORD)

WakeTime(ms) == now + ms * TICKS_PER_MS

Block(ms) ==
  /\ wake_time' = WakeTime(ms)
  /\ pc' = "asleep"

(* A faulty variant of Misuse: the highest bit is not looked at.           *)
MisuseIfZero(ms) == ms = 0

Misuse(ms) == ms = 0 \/ ms >= HALF

SyscallSleep ==
  /\ pc = "ecall"
  /\ IF Misuse(Word(a0))
       THEN pc' = "back" /\ UNCHANGED wake_time
       ELSE Block(Word(a0))
  /\ UNCHANGED <<a0, promised, begun, now, next>>

(* getchar without input waits in the same way.                            *)
SyscallGetchar ==
  /\ pc = "program"
  /\ promised' = TICK_INTERVAL_MS
  /\ Block(TICK_INTERVAL_MS)
  /\ UNCHANGED <<a0, begun, now, next>>

Due(t) == t >= wake_time

(* The interrupt asks for the next tick and looks for sleepers.            *)
Tick ==
  /\ pc = "asleep"
  /\ now' \in next..next + LATE
  /\ next' = now' + TICK
  /\ pc' = IF Due(now') THEN "back" ELSE pc
  /\ UNCHANGED <<a0, promised, begun, wake_time>>

Next == Call \/ SyscallSleep \/ SyscallGetchar \/ Tick

Spec == Init /\ [][Next]_vars

----------------------------------------------------------------------------
(* What is accepted is shorter than what a negative number would be taken  *)
(* for (kernel.c:268-270).                                                 *)
TypeOK ==
  /\ pc \in {"program", "ecall", "asleep", "back"}
  /\ a0 \in Registers
  /\ {promised, begun, now, next, wake_time} \subseteq Nat
  /\ pc = "asleep" => wake_time - begun < HALF * TICKS_PER_MS

(* No call returns before its time, whatever the number; it does with the  *)
(* first tick after it; and what asks for no time takes none               *)
(* (kernel.c:286-287, ulib.c:50, README.md:328).                           *)
SleepsAsLongAsAsked == pc = "back" =>
  LET slept == now - begun IN
    /\ slept >= promised * TICKS_PER_MS
    /\ promised = 0 => slept = 0
    /\ promised > 0 => slept < promised * TICKS_PER_MS + TICK + LATE
=============================================================================
