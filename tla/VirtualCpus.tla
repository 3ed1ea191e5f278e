----------------------------- MODULE VirtualCpus -----------------------------
(***************************************************************************)
(* What the kernel promises to user programs: every process has a CPU of   *)
(* its own.  Its registers change only by its own instructions and by the  *)
(* answers to its own system calls; sleep never returns early; a character *)
(* is delivered to one reader, once; exit is for ever; the machine goes    *)
(* off only when all have exited, and fails only for a cause.  How the one *)
(* hart is shared is not said here, only that one process runs at a time.  *)
(***************************************************************************)
EXTENDS Integers, Sequences

CONSTANTS Args,       \* Args[p]: the start argument of process p
          WORD, SleepArgs, Chars, LAST_PC,
          MayFail     \* whether the firmware may fail

Procs   == DOMAIN Args
NOBODY  == 0
NOCHAR  == -1
Queries == {"putchar", "getpid"}
Requests == Queries \cup {"getchar", "sleep", "exit"}
Faults  == {"fault"}
Fatal   == {"badsys", "badaddr", "illegal"}

VARIABLES
  vpc, va0,   \* the registers of each process
  vst,        \* what each process does: runs user code, a request, ...
  vleft,      \* time a sleeping process still has to sleep
  vrx,        \* the character waiting at the console
  turn,       \* the process whose instructions are being executed
  machine     \* "on", "off", or "failed"

vars == <<vpc, va0, vst, vleft, vrx, turn, machine>>

Init ==
  /\ vpc = [p \in Procs |-> 0]
  /\ va0 = Args
  /\ vst = [p \in Procs |-> "user"]
  /\ vleft = [p \in Procs |-> 0]
  /\ vrx = NOCHAR
  /\ turn = NOBODY
  /\ machine = "on"

(* The hart is given to p, or taken away from it, between instructions.    *)
Dispatch(p) ==
  /\ turn = NOBODY /\ vst[p] = "user"
  /\ turn' = p
  /\ UNCHANGED <<vpc, va0, vst, vleft, vrx, machine>>

Preempt(p) ==
  /\ turn = p
  /\ turn' = NOBODY
  /\ UNCHANGED <<vpc, va0, vst, vleft, vrx, machine>>

Execute(p) ==
  /\ turn = p
  /\ \E a \in 0 .. LAST_PC : vpc' = [vpc EXCEPT ![p] = a]
  /\ UNCHANGED <<va0, vst, vleft, vrx, turn, machine>>

(* A request or an exception at the instruction p is about to execute.     *)
Enter(p, c) ==
  /\ turn = p
  /\ turn' = NOBODY
  /\ vst' = [vst EXCEPT ![p] = c]
  /\ IF c = "sleep"
     THEN \E ms \in SleepArgs : va0' = [va0 EXCEPT ![p] = ms]
     ELSE UNCHANGED va0
  /\ UNCHANGED <<vpc, vleft, vrx, machine>>

(* p goes on behind its system call with result r.                         *)
Answer(p, r) ==
  /\ vpc' = [vpc EXCEPT ![p] = @ + 1]
  /\ va0' = [va0 EXCEPT ![p] = r]
  /\ vst' = [vst EXCEPT ![p] = "user"]
  /\ UNCHANGED <<vleft, turn, machine>>

Putchar(p) == vst[p] = "putchar" /\ Answer(p, 0) /\ UNCHANGED vrx
Getpid(p)  == vst[p] = "getpid" /\ Answer(p, p + 1) /\ UNCHANGED vrx
Getchar(p) == /\ vst[p] = "getchar" /\ vrx # NOCHAR
              /\ Answer(p, vrx) /\ vrx' = NOCHAR

(* The time a sleep asks for: a 32-bit number, none when it is negative.   *)
Time(a)   == a % WORD
Sleeps(a) == Time(a) > 0 /\ Time(a) < WORD \div 2

Sleep(p) ==
  /\ vst[p] = "sleep"
  /\ \/ ~ Sleeps(va0[p]) /\ Answer(p, 0)
     \/ /\ Sleeps(va0[p])
        /\ vst' = [vst EXCEPT ![p] = "asleep"]
        /\ vleft' = [vleft EXCEPT ![p] = Time(va0[p])]
        /\ UNCHANGED <<vpc, va0, turn, machine>>
  /\ UNCHANGED vrx

Wake(p) == vst[p] = "asleep" /\ vleft[p] = 0 /\ Answer(p, 0) /\ UNCHANGED vrx

Exit(p) ==
  /\ vst[p] = "exit"
  /\ vst' = [vst EXCEPT ![p] = "exited"]
  /\ UNCHANGED <<vpc, va0, vleft, vrx, turn, machine>>

(* A missing page has been supplied: the instruction is executed again.    *)
Retry(p) ==
  /\ vst[p] \in Faults
  /\ vst' = [vst EXCEPT ![p] = "user"]
  /\ UNCHANGED <<vpc, va0, vleft, vrx, turn, machine>>

PowerOff ==
  /\ \A p \in Procs : vst[p] = "exited"
  /\ machine' = "off"
  /\ UNCHANGED <<vpc, va0, vst, vleft, vrx, turn>>

(* A failure has a cause: an access or a call the kernel does not serve,   *)
(* memory that ran out under a page fault, or the firmware.                *)
Fail ==
  /\ turn = NOBODY
  /\ MayFail \/ \E p \in Procs : vst[p] \in Fatal \cup Faults
  /\ machine' = "failed"
  /\ UNCHANGED <<vpc, va0, vst, vleft, vrx, turn>>

TimePasses ==
  /\ vleft' = [p \in Procs |-> IF vleft[p] > 0 THEN vleft[p] - 1 ELSE 0]
  /\ UNCHANGED <<vpc, va0, vst, vrx, turn, machine>>

Key == /\ vrx = NOCHAR
       /\ vrx' \in Chars
       /\ UNCHANGED <<vpc, va0, vst, vleft, turn, machine>>

ProcStep(p) ==
  \/ Dispatch(p) \/ Preempt(p) \/ Execute(p)
  \/ \E c \in Requests \cup Faults \cup Fatal : Enter(p, c)
  \/ Putchar(p) \/ Getpid(p) \/ Getchar(p) \/ Sleep(p) \/ Wake(p) \/ Exit(p)
  \/ Retry(p)

Next ==
  /\ machine = "on"
  /\ (\E p \in Procs : ProcStep(p)) \/ PowerOff \/ Fail \/ TimePasses \/ Key

Spec == Init /\ [][Next]_vars
=============================================================================
