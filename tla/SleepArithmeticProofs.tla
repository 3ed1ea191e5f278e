------------------------ MODULE SleepArithmeticProofs ------------------------
(***************************************************************************)
(* Proof that a sleep lasts as long as was asked for and ends with the     *)
(* first tick after that, for every width of int and register, every cap   *)
(* on the seconds, every rate of the clock and every argument.             *)
(*                                                                         *)
(* The argument reaches the kernel as the number of milliseconds that was  *)
(* asked for, or as one the kernel refuses when that is none (Passed);     *)
(* from then on wake_time is ahead of the time by what is left.            *)
(***************************************************************************)
EXTENDS SleepArithmetic, TLAPS

(* What the kernel takes register r for.                                   *)
Passed(r) == IF Misuse(Word(r)) THEN 0 ELSE Word(r)

SleepInv ==
  /\ pc \in {"program", "ecall", "asleep", "back"}
  /\ a0 \in Registers
  /\ promised \in Nat /\ begun \in Nat /\ now \in Nat /\ next \in Nat /\ wake_time \in Nat
  /\ next \in now + 1 .. now + TICK
  /\ pc \in {"program", "ecall"} => now = begun
  /\ pc = "ecall" => promised = Passed(a0)
  /\ pc = "asleep" => /\ promised \in 1 .. HALF - 1
                      /\ wake_time = begun + promised * TICKS_PER_MS
                      /\ now < wake_time
  /\ SleepsAsLongAsAsked

-----------------------------------------------------------------------------
(* Arithmetic.                                                             *)

(* A remainder is the only number of its range with its quotient.          *)
LEMMA ModUnique ==
  ASSUME NEW n \in Nat \ {0}, NEW w \in 0 .. n - 1, NEW k \in Int, NEW a \in Int,
         a = n * k + w
  PROVE  a % n = w
  OBVIOUS

(* Every number has a quotient and a remainder.                            *)
LEMMA ModDiv ==
  ASSUME NEW n \in Nat \ {0}, NEW a \in Int
  PROVE  a % n \in 0 .. n - 1 /\ \E k \in Int : a = n * k + (a % n)
<1>1. a \div n \in Int /\ a % n \in 0 .. n - 1 /\ a = n * (a \div n) + (a % n)
  OBVIOUS
<1> QED BY <1>1

(* Products by a positive number are ordered like the factors.             *)
LEMMA ProductLess ==
  ASSUME NEW a \in Nat, NEW b \in Nat, NEW t \in Nat \ {0}
  PROVE  /\ a * t \in Nat
         /\ a < b => a * t < b * t
         /\ a <= b => a * t <= b * t
         /\ a > 0 => a * t > 0
  OBVIOUS

(* The constants are positive, and so is the tick.                         *)
LEMMA Constants ==
  /\ HALF \in Nat \ {0} /\ HIGH \in Nat \ {0} /\ SECOND \in Nat \ {0} /\ CAP \in Nat \ {0}
  /\ TICKS_PER_MS \in Nat \ {0} /\ TICK_INTERVAL_MS \in Nat \ {0}
  /\ CAP * SECOND < HALF /\ CAP * SECOND \in Nat
  /\ TICK_INTERVAL_MS < HALF /\ LATE \in Nat /\ Times \subseteq Nat
  /\ TICK \in Nat \ {0} /\ WORD \in Nat \ {0} /\ WORD * HIGH \in Nat \ {0}
  /\ WORD = 2 * HALF /\ WORD <= WORD * HIGH
<1>1. /\ HALF \in Nat \ {0} /\ HIGH \in Nat \ {0} /\ SECOND \in Nat \ {0} /\ CAP \in Nat \ {0}
      /\ TICKS_PER_MS \in Nat \ {0} /\ TICK_INTERVAL_MS \in Nat \ {0}
      /\ CAP * SECOND < HALF /\ TICK_INTERVAL_MS < HALF /\ LATE \in Nat /\ Times \subseteq Nat
  BY SleepAssumption
<1>2. TICK \in Nat \ {0} /\ CAP * SECOND \in Nat
  BY <1>1, ProductLess DEF TICK
<1>3. WORD \in Nat \ {0} /\ WORD = 2 * HALF
  BY <1>1 DEF WORD
<1>4. WORD * HIGH \in Nat \ {0} /\ WORD <= WORD * HIGH
  BY <1>1, <1>3
<1> QED BY <1>1, <1>2, <1>3, <1>4

(* A positive int keeps its value in a register, and the kernel reads it   *)
(* as what it was.                                                         *)
LEMMA PositiveIsPassed ==
  ASSUME NEW ms \in 1 .. HALF - 1
  PROVE  ToInt(ms) = ms /\ Register(ms) \in Registers /\ Passed(Register(ms)) = ms
<1>1. ms \in 0 .. WORD - 1 /\ ms \in 0 .. WORD * HIGH - 1 /\ ms + HALF \in 0 .. WORD - 1
  BY Constants
<1>2. Register(ms) = ms
  BY <1>1, ModUnique, Constants DEF Register
<1>3. Word(ms) = ms
  BY <1>1, ModUnique, Constants DEF Word
<1>4. (ms + HALF) % WORD = ms + HALF
  BY <1>1, ModUnique, Constants
<1>5. Registers = 0 .. WORD * HIGH - 1
  BY DEF Registers
<1> QED BY <1>1, <1>2, <1>3, <1>4, <1>5, Constants DEF ToInt, Passed, Misuse

(* A word with the highest bit set is the one the kernel refuses.          *)
LEMMA WordIsPassed ==
  ASSUME NEW r \in Registers
  PROVE  NotBelow(ToInt(r)) = Passed(r) /\ Word(r) \in 0 .. WORD - 1
<1> DEFINE w == r % WORD
<1>1. r \in Nat /\ r \in Int /\ WORD \in Nat \ {0} /\ WORD = 2 * HALF /\ HALF \in Nat \ {0}
  BY Constants DEF Registers
<1>2. w \in 0 .. WORD - 1 /\ \E k \in Int : r = WORD * k + w
  BY <1>1, ModDiv, Zenon
<1>3. PICK k \in Int : r = WORD * k + w
  BY <1>2
<1> HIDE DEF w
<1>4. CASE w < HALF
  <2> DEFINE a == r + HALF
             v == w + HALF
  <2>1. v \in 0 .. WORD - 1 /\ a = WORD * k + v /\ a \in Int /\ v >= HALF /\ v - HALF = w
    BY <1>1, <1>2, <1>3, <1>4
  <2> HIDE DEF a, v
  <2>2. a % WORD = v
    BY <1>1, <2>1, ModUnique
  <2> QED BY <1>1, <1>2, <1>4, <2>1, <2>2 DEF ToInt, NotBelow, Passed, Misuse, Word, w, a
<1>5. CASE w >= HALF
  <2> DEFINE a == r + HALF
             v == w - HALF
  <2>1. v \in 0 .. WORD - 1 /\ a = WORD * (k + 1) + v /\ a \in Int /\ v < HALF
    BY <1>1, <1>2, <1>3, <1>5
  <2> HIDE DEF a, v
  <2>2. a % WORD = v
    BY <1>1, <2>1, ModUnique
  <2> QED BY <1>1, <1>2, <1>5, <2>1, <2>2 DEF ToInt, NotBelow, Passed, Misuse, Word, w, a
<1> QED BY <1>1, <1>2, <1>4, <1>5 DEF w, Word
-----------------------------------------------------------------------------
(* The steps.                                                              *)

(* A call that hands ms over, or returns at once when it asks for no time. *)
LEMMA CallIsPassed ==
  ASSUME SleepInv, NEW ms \in Int, ms < HALF, SleepMs(ms), promised' = NotBelow(ms)
  PROVE  /\ pc' \in {"ecall", "back"} /\ a0' \in Registers /\ promised' \in Nat
         /\ pc' = "ecall" => promised' = Passed(a0')
         /\ pc' = "back" => promised' = 0
<1>1. CASE ms <= 0
  BY <1>1 DEF SleepMs, NotBelow, SleepInv
<1>2. CASE ms > 0
  <2>1. ms \in 1 .. HALF - 1
    BY <1>2, Constants
  <2>2. Register(ms) \in Registers /\ Passed(Register(ms)) = ms
    BY <2>1, PositiveIsPassed
  <2> QED BY <1>2, <2>2 DEF SleepMs, NotBelow
<1> QED BY <1>1, <1>2

(* The seconds are cut before they are multiplied, so the product is an    *)
(* int.                                                                    *)
LEMMA SecondsAreMilliseconds ==
  ASSUME NEW s \in Int
  PROVE  \E ms \in Int : /\ ms < HALF
                         /\ Seconds(s) => SleepMs(ms) /\ promised' = NotBelow(ms)
<1>1. CASE s <= 0
  <2>1. NotBelow(IF s > CAP THEN CAP ELSE s) = 0 /\ 0 * SECOND = 0
    BY <1>1, Constants DEF NotBelow
  <2> QED BY <1>1, <2>1, Constants DEF Seconds, NotBelow
<1>2. CASE s > 0
  <2> DEFINE c == Capped(s)
             ms == c * SECOND
  <2>1. c \in Nat \ {0} /\ c <= CAP /\ NotBelow(c) = c
    BY <1>2, Constants DEF Capped, NotBelow
  <2> HIDE DEF c
  <2>2. ms \in Nat /\ ms <= CAP * SECOND /\ ms > 0
    BY <2>1, ProductLess, Constants
  <2> HIDE DEF ms
  <2>3. ms \in 1 .. HALF - 1
    BY <2>2, Constants
  <2>4. ToInt(ms) = ms
    BY <2>3, PositiveIsPassed
  <2>5. Seconds(s) => SleepMs(ms) /\ promised' = NotBelow(ms)
    BY <1>2, <2>1, <2>3, <2>4 DEF Seconds, Capped, NotBelow, c, ms
  <2> QED BY <2>3, <2>5, Constants
<1> QED BY <1>1, <1>2

(* However the program calls, the kernel is asked for what it should be.   *)
LEMMA CallInv == SleepInv /\ Call => SleepInv'
<1> SUFFICES ASSUME SleepInv, Call PROVE SleepInv'
  OBVIOUS
<1>1. /\ pc = "program" /\ now = begun /\ UNCHANGED <<begun, now, next, wake_time>>
      /\ begun \in Nat /\ now - begun = 0
  BY DEF Call, SleepInv
<1>2. /\ pc' \in {"ecall", "back"} /\ a0' \in Registers /\ promised' \in Nat
      /\ pc' = "ecall" => promised' = Passed(a0')
      /\ pc' = "back" => promised' = 0
  <2>0. \A i \in Ints : i \in Int /\ i < HALF
    BY Constants DEF Ints
  <2>1. CASE \E i \in Ints : Seconds(i)
    <3>1. PICK i \in Ints : Seconds(i)
      BY <2>1
    <3>2. PICK ms \in Int : ms < HALF /\ SleepMs(ms) /\ promised' = NotBelow(ms)
      BY <2>0, <3>1, SecondsAreMilliseconds
    <3> QED BY <3>2, CallIsPassed
  <2>2. CASE \E i \in Ints : Milliseconds(i)
    BY <2>0, <2>2, CallIsPassed DEF Milliseconds
  <2>3. CASE \E r \in Registers : Ecall(r)
    <3>1. PICK r \in Registers : Ecall(r)
      BY <2>3
    <3>2. promised' = Passed(r) /\ a0' = r /\ pc' = "ecall" /\ Word(r) \in Nat
      BY <3>1, WordIsPassed, Constants DEF Ecall
    <3> QED BY <3>1, <3>2 DEF Passed
  <2> QED BY <2>1, <2>2, <2>3 DEF Call
<1>3. SleepsAsLongAsAsked'
  BY <1>1, <1>2, Constants DEF SleepsAsLongAsAsked
<1> QED BY <1>1, <1>2, <1>3 DEF SleepInv

(* A process falls asleep for what it asked for, from now on.              *)
LEMMA BlockInv ==
  ASSUME SleepInv, pc \in {"program", "ecall"}, NEW ms \in 1 .. HALF - 1, Block(ms),
         promised' = ms, a0' = a0, UNCHANGED <<begun, now, next>>
  PROVE  SleepInv'
<1>1. ms * TICKS_PER_MS \in Nat \ {0} /\ now \in Nat /\ begun = now
  BY ProductLess, Constants DEF SleepInv
<1> QED BY <1>1 DEF SleepInv, Block, WakeTime, SleepsAsLongAsAsked, Registers

(* The kernel blocks the caller, or refuses and takes no time.             *)
LEMMA SyscallSleepInv == SleepInv /\ SyscallSleep => SleepInv'
<1> SUFFICES ASSUME SleepInv, SyscallSleep PROVE SleepInv'
  OBVIOUS
<1>1. /\ pc = "ecall" /\ promised = Passed(a0) /\ a0 \in Registers /\ now = begun
      /\ UNCHANGED <<a0, promised, begun, now, next>>
  BY DEF SyscallSleep, SleepInv
<1>2. CASE Misuse(Word(a0))
  <2>1. promised' = 0 /\ pc' = "back" /\ wake_time' = wake_time
    BY <1>1, <1>2 DEF SyscallSleep, Passed
  <2>2. SleepsAsLongAsAsked'
    BY <1>1, <2>1, Constants DEF SleepsAsLongAsAsked, SleepInv
  <2> QED BY <1>1, <2>1, <2>2 DEF SleepInv, Registers
<1>3. CASE ~ Misuse(Word(a0))
  <2>1. Word(a0) \in 1 .. HALF - 1 /\ promised = Word(a0)
    BY <1>1, <1>3, WordIsPassed, Constants DEF Misuse, Passed
  <2> QED BY <1>1, <1>3, <2>1, BlockInv DEF SyscallSleep
<1> QED BY <1>2, <1>3

(* A tick wakes the sleeper if its time is over; if it is not, the next    *)
(* tick is less than an interval and its delay away.                       *)
LEMMA TickInv == SleepInv /\ Tick => SleepInv'
<1> SUFFICES ASSUME SleepInv, Tick PROVE SleepInv'
  OBVIOUS
<1>1. PICK d \in Nat : d = promised * TICKS_PER_MS
  BY ProductLess, Constants DEF SleepInv
<1>2. PICK t \in next .. next + LATE : now' = t
  BY DEF Tick
<1>3. /\ pc = "asleep" /\ promised \in 1 .. HALF - 1 /\ now < wake_time
      /\ wake_time = begun + d
      /\ next \in now + 1 .. now + TICK /\ begun \in Nat /\ now \in Nat /\ next \in Nat
      /\ UNCHANGED <<a0, promised, begun, wake_time>>
      /\ next' = t + TICK
      /\ pc' = IF t >= wake_time THEN "back" ELSE pc
  BY <1>1, <1>2 DEF SleepInv, Tick, Due
<1>4. TICK \in Nat \ {0} /\ LATE \in Nat /\ HALF \in Nat
  BY Constants
<1>5. t \in Nat /\ t + TICK \in Nat /\ t + TICK \in t + 1 .. t + TICK
  BY <1>2, <1>3, <1>4
<1>6. t - begun < d + TICK + LATE /\ (t >= wake_time => t - begun >= d)
  BY <1>2, <1>3, <1>4
<1>7. SleepsAsLongAsAsked'
  BY <1>1, <1>2, <1>3, <1>6 DEF SleepsAsLongAsAsked
<1>8. t < wake_time \/ pc' = "back"
  BY <1>3, <1>5
<1> QED BY <1>1, <1>2, <1>3, <1>5, <1>7, <1>8 DEF SleepInv, Registers

(* Every step keeps the invariant.                                         *)
LEMMA SleepNext == SleepInv /\ [Next]_vars => SleepInv'
<1> SUFFICES ASSUME SleepInv, [Next]_vars PROVE SleepInv'
  OBVIOUS
<1>1. CASE SyscallGetchar
  <2>1. TICK_INTERVAL_MS \in 1 .. HALF - 1
    BY Constants
  <2> QED BY <1>1, <2>1, BlockInv DEF SyscallGetchar
<1>2. CASE UNCHANGED vars
  BY <1>2 DEF vars, SleepInv, SleepsAsLongAsAsked, Registers
<1> QED BY <1>1, <1>2, CallInv, SyscallSleepInv, TickInv DEF Next

(* The program has called nothing yet.                                     *)
LEMMA SleepInit == Init => SleepInv
<1>1. Registers = 0 .. WORD * HIGH - 1 /\ 0 \in Registers
  BY Constants DEF Registers
<1> QED BY <1>1, Constants DEF Init, SleepInv, SleepsAsLongAsAsked

(* The invariant holds as long as the program runs.                        *)
THEOREM SleepInvariance == Spec => []SleepInv
BY SleepInit, SleepNext, PTL DEF Spec

(* No call of sleep, sleep_ms, SYS_SLEEP or getchar returns before its     *)
(* time, none later than the first tick after it, and what asks for no     *)
(* time takes none: whatever the number, and however wide the words are.   *)
THEOREM SleepIsAsAsked == Spec => []SleepsAsLongAsAsked
BY SleepInvariance, PTL DEF SleepInv

(* The words keep their ranges: no sleep is as long as the least negative  *)
(* number would be when it is taken for an unsigned one.                   *)
THEOREM SleepTyped == Spec => []TypeOK
<1>1. SleepInv => TypeOK
  <2> SUFFICES ASSUME SleepInv, pc = "asleep"
               PROVE  wake_time - begun < HALF * TICKS_PER_MS
    BY DEF SleepInv, TypeOK
  <2>1. promised \in Nat /\ promised < HALF /\ begun \in Nat
        /\ wake_time = begun + promised * TICKS_PER_MS
    BY Constants DEF SleepInv
  <2>2. promised * TICKS_PER_MS < HALF * TICKS_PER_MS /\ promised * TICKS_PER_MS \in Nat
    BY <2>1, ProductLess, Constants
  <2> QED BY <2>1, <2>2
<1> QED BY <1>1, SleepInvariance, PTL
=============================================================================
