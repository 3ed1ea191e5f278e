---------------------------- MODULE KernelProofs ----------------------------
(***************************************************************************)
(* Proofs that the safety invariants of Kernel hold, and that the kernel   *)
(* implements VirtualCpus, for every number of slots and processes, tick   *)
(* length, sleep and user program.                                         *)
(*                                                                         *)
(* The argument for the invariants is one inductive invariant, IInv: the   *)
(* process table is filled in slot order (TableInv), boot runs masked      *)
(* (BootInv), at each label of the kernel the hart is set up for the       *)
(* current process (HartInv), every other process left a context that can  *)
(* be continued (SavedInv), and the idle loop runs, and has got as far as  *)
(* it has in has_live_process(), only for a reason (IdleInv, ScanInv).     *)
(***************************************************************************)
EXTENDS KernelRefinement, TLAPS, WellFoundedInduction

(* The labels of a handler that runs on the kernel stack of a process.     *)
Kern == {"trap", "irq", "getchar", "sleep_ret", "ret"}

TableInv ==
  /\ booting \in 0 .. NProcs
  /\ \A s \in Slots : pid[s] = IF s \in 1 .. booting THEN s + 1 ELSE 0
  /\ \A s \in Slots \ {IDLE} : pstate[s] = "UNUSED" <=> s \notin 1 .. booting
  /\ ctl # "kernel_main" => pstate[IDLE] = "RUNNABLE"
  /\ \A s \in 1 .. booting : loaded[s] \/ (ctl = "load" /\ s = booting)

BootInv ==
  /\ ctl \in {"kernel_main", "init_timer"} => booting = 0
  /\ ctl = "create" => booting < NProcs
  /\ ctl = "load" => booting > 0
  /\ ctl \notin {"kernel_main", "init_timer", "create", "load", "panic"} => booting = NProcs
  /\ ctl \in Booting =>
       /\ current = IDLE
       /\ sp = BOOT
       /\ mode = "S" /\ (ctl # "kernel_main" => ~ sstatus.sie)
       /\ \A k \in KStacks : ~ frame[k].live
       /\ ctx[IDLE] \in {"none", "idle_entry"}
       /\ \A s \in 1 .. booting : /\ pstate[s] = "RUNNABLE"
                                  /\ psp[s] = s
                                  /\ ctx[s] = "user_entry"

HartInv ==
  /\ ctl \notin {"exit_ret", "idle_entry"}
  /\ ctl # "kernel_main" => pstate[current] = "RUNNABLE"
  /\ ctl \in Kern \cup {"user_entry", "idle_loop", "run"} =>
       satp = current /\ sscratch = current
  /\ ctl \in Kern \cup {"user_entry", "idle_loop"} => mode = "S" /\ ~ sstatus.sie
  /\ ctl \in Kern \cup {"user_entry"} => sp = current /\ ctx[current] = "none"
  /\ ctl \in Kern => /\ frame[current].live
                     /\ frame[current].sp = OwnStack(current)
                     /\ frame[current].sstatus = OwnStatus(current)
  /\ ctl \in {"user_entry", "idle_loop", "run"} => ~ frame[current].live
  /\ ctl \in {"user_entry", "getchar", "sleep_ret"} => current # IDLE
  /\ ctl = "trap" /\ scause # "timer" => current # IDLE
  /\ ctl = "idle_loop" => current = IDLE
  /\ ctl \in {"idle_loop", "run"} => /\ sp = OwnStack(current)
                                     /\ ctx[current] \in {"none", "idle_entry"}
  /\ ctl = "run" => /\ mode = IF current = IDLE THEN "S" ELSE "U"
                    /\ sstatus.sie

Live(s) == pstate[s] \in {"RUNNABLE", "SLEEPING"}
NotStarted(s) ==
  /\ Fresh(s)
  /\ ~ frame[s].live
  /\ s = IDLE => ctx[IDLE] \in {"none", "idle_entry"}
Saved(s) == NotStarted(s) \/ InTrap(s)
SavedInv == ctl \notin Booting => \A s \in Slots \ {current} : Live(s) => Saved(s)

IdleInv ==
  ctl \notin Booting /\ current = IDLE => \A s \in Users : pstate[s] # "RUNNABLE"

(* Slots that has_live_process() has passed hold no live process.          *)
Scanned(a) == a <= NONE_LIVE => \A s \in Users : s < a \div 2 => pstate[s] = "EXITED"
ScanInv ==
  /\ ctl = "run" /\ current = IDLE => Scanned(pc)
  /\ frame[IDLE].live => Scanned(frame[IDLE].pc)
  /\ ctl = "off" => \A s \in Users : pstate[s] = "EXITED"

IInv == TypeOK /\ TableInv /\ BootInv /\ HartInv /\ SavedInv /\ IdleInv /\ ScanInv
-----------------------------------------------------------------------------
(* Arithmetic of the scheduler's ring of slots.                            *)

(* A nonempty set of numbers has a first element: the loop of yield() and  *)
(* alloc_process stop at one.                                              *)
LEMMA LeastElement ==
  ASSUME NEW S, S \subseteq Nat, S # {}
  PROVE  \E n \in S : \A m \in 0 .. n - 1 : m \notin S
<1> DEFINE R == {ss \in Nat \X Nat : ss[1] < ss[2]}
<1>1. OpToRel(<, Nat) = R
  BY Zenon DEF OpToRel
<1>2. IsWellFoundedOn(R, Nat)
  BY <1>1, NatLessThanWellFounded, Zenon
<1>3. \E n \in S : \A m \in S : ~ (<<m, n>> \in R)
  <2> HIDE DEF R
  <2> QED BY <1>2, WFMin
<1>4. PICK n \in S : \A m \in S : ~ (<<m, n>> \in R)
  BY <1>3
<1>5. \A m \in S : ~ (m < n)
  BY <1>4
<1> QED BY <1>5

(* Remainders by the number of slots, within one turn of the ring.         *)
LEMMA ModFacts ==
  ASSUME NEW n \in Nat \ {0}, NEW s \in 0 .. n - 1
  PROVE  s % n = s /\ (s + n) % n = s
  OBVIOUS

(* A remainder: the number of a slot, or what a uint32_t keeps.            *)
LEMMA ModRange ==
  ASSUME NEW n \in Nat \ {0}, NEW a \in Nat
  PROVE  a % n \in 0 .. n - 1
  OBVIOUS

(* The loop of yield() visits slots, and every slot.                       *)
LEMMA RingInSlots ==
  ASSUME TypeOK, NEW i \in Slots
  PROVE  Ring(i) \in Slots
<1>1. pid[current] \in 0 .. PROCS_MAX
  BY DEF TypeOK
<1>2. PROCS_MAX \in Nat \ {0} /\ i \in Nat
  BY KernelAssumption DEF Slots
<1>3. pid[current] + i \in Nat
  BY <1>1, <1>2
<1> QED BY <1>2, <1>3, ModRange DEF Ring, Slots

(* Every slot is visited by the loop of yield(), from wherever it starts.  *)
LEMMA RingCoversSlots ==
  ASSUME TypeOK, NEW s \in Slots
  PROVE  \E i \in Slots : Ring(i) = s
<1> DEFINE p == pid[current]
<1>1. p \in 0 .. PROCS_MAX /\ PROCS_MAX \in Nat \ {0} /\ s \in 0 .. PROCS_MAX - 1
  BY KernelAssumption DEF TypeOK, Slots
<1>2. s % PROCS_MAX = s /\ (s + PROCS_MAX) % PROCS_MAX = s
  BY <1>1, ModFacts
<1>3. CASE s >= p
  <2>1. s - p \in Slots /\ p + (s - p) = s
    BY <1>1, <1>3 DEF Slots
  <2> QED BY <2>1, <1>2 DEF Ring
<1>4. CASE s < p
  <2>1. s - p + PROCS_MAX \in Slots /\ p + (s - p + PROCS_MAX) = s + PROCS_MAX
    BY <1>1, <1>4 DEF Slots
  <2> QED BY <2>1, <1>2 DEF Ring
<1> QED BY <1>1, <1>3, <1>4

(* The loop of yield() stops at the first runnable process it visits.      *)
LEMMA PickNextIsFirst ==
  ASSUME TypeOK, NEW st, \E s \in Slots : Runnable(st, s)
  PROVE  \E i \in Slots : /\ PickNext(st) = Ring(i)
                          /\ Runnable(st, Ring(i))
                          /\ \A j \in 0 .. i - 1 : ~ Runnable(st, Ring(j))
<1> DEFINE Found == {i \in Slots : Runnable(st, Ring(i))}
           First(i) == i \in Slots /\ Runnable(st, Ring(i))
                         /\ \A j \in 0 .. i - 1 : ~ Runnable(st, Ring(j))
           c == CHOOSE i \in Slots : /\ Runnable(st, Ring(i))
                                     /\ \A j \in 0 .. i - 1 : ~ Runnable(st, Ring(j))
<1>1. Found # {} /\ Found \subseteq Nat
  <2>1. PICK s \in Slots : Runnable(st, s)
    OBVIOUS
  <2>2. PICK i \in Slots : Ring(i) = s
    BY RingCoversSlots
  <2>3. i \in Found
    BY <2>1, <2>2
  <2>4. Slots \subseteq Nat
    BY KernelAssumption DEF Slots
  <2> QED BY <2>3, <2>4
<1>2. PICK n \in Found : \A m \in 0 .. n - 1 : m \notin Found
  BY <1>1, LeastElement
<1>3. \A j \in 0 .. n - 1 : j \in Slots
  BY <1>2, KernelAssumption DEF Slots
<1>4. First(n)
  BY <1>2, <1>3
<1>5. First(c)
  BY <1>4
<1>6. PickNext(st) = Ring(c)
  BY <1>1 DEF PickNext
<1> QED BY <1>5, <1>6

(* What the loop of yield() finds: a runnable process whenever there is    *)
(* one, and the idle process otherwise.                                    *)
LEMMA PickNextFacts ==
  ASSUME TypeOK, NEW st
  PROVE  /\ PickNext(st) \in Slots
         /\ PickNext(st) = IDLE \/ Runnable(st, PickNext(st))
         /\ \A s \in Slots : Runnable(st, s) => Runnable(st, PickNext(st))
<1>1. CASE \E s \in Slots : Runnable(st, s)
  BY <1>1, PickNextIsFirst, RingInSlots
<1>2. CASE ~ \E s \in Slots : Runnable(st, s)
  <2>1. PickNext(st) = IDLE
    BY <1>2, RingInSlots DEF PickNext
  <2> QED BY <1>2, <2>1, KernelAssumption DEF IDLE, Slots
<1> QED BY <1>1, <1>2
-----------------------------------------------------------------------------
(* The stacks: slots have numbers below that of the boot stack.            *)
LEMMA StackFacts ==
  /\ IDLE \in Slots /\ BOOT \notin Slots /\ BOOT \in KStacks
  /\ Slots \subseteq KStacks /\ Slots \subseteq Nat
  /\ Users \subseteq Slots \ {IDLE}
  /\ NProcs \in Nat \ {0} /\ 1 \in Users
  /\ USTACK \notin KStacks
  BY KernelAssumption DEF Slots, KStacks, Users, IDLE, BOOT, USTACK

PStates == {"UNUSED", "RUNNABLE", "SLEEPING", "EXITED"}

(* What each caller of yield() has to establish: it is on the stack of the *)
(* current process (or the boot stack), has only woken sleepers and moved  *)
(* its own process out of RUNNABLE, and goes on at k only if it may.       *)
MayYield(st, k) ==
  /\ ctl \in Kern \cup {"boot_yield"}
  /\ st \in [Slots -> PStates]
  /\ st[IDLE] = "RUNNABLE"
  /\ \A s \in Slots \ {IDLE} : st[s] = "UNUSED" <=> pstate[s] = "UNUSED"
  /\ \A s \in Slots : pstate[s] = "EXITED" => st[s] = "EXITED"
  /\ \A s \in Slots \ {current} : st[s] \in {"RUNNABLE", "SLEEPING"} => Live(s)
  /\ ctl = "boot_yield" => k = "idle_loop" /\ st = pstate
  /\ ctl \in Kern => k \in {"ret", "getchar", "sleep_ret", "exit_ret"}
  /\ k \in {"getchar", "sleep_ret", "exit_ret"} => current # IDLE
  /\ k = "exit_ret" => st[current] = "EXITED"

(* The process that yield() switches to has a context to be continued.     *)
LEMMA NextIsSaved ==
  ASSUME IInv, NEW st, NEW k, MayYield(st, k),
         PickNext(st) # current
  PROVE  /\ st[PickNext(st)] = "RUNNABLE"
         /\ Saved(PickNext(st))
         /\ ctl = "boot_yield" => PickNext(st) # IDLE /\ Fresh(PickNext(st))
<1> DEFINE next == PickNext(st)
<1>1. /\ next \in Slots
      /\ next = IDLE \/ Runnable(st, next)
      /\ \A s \in Slots : Runnable(st, s) => Runnable(st, next)
  BY PickNextFacts DEF IInv
<1>2. st[next] = "RUNNABLE"
  BY <1>1 DEF MayYield, Runnable
<1>3. Live(next)
  BY <1>1, <1>2 DEF MayYield
<1>4. CASE ctl = "boot_yield"
  <2>1. booting = NProcs /\ current = IDLE
    BY <1>4 DEF IInv, BootInv, Booting
  <2>2. next # IDLE
    BY <2>1
  <2>3. next \in 1 .. booting
    BY <1>1, <1>2, <2>2, <1>4 DEF MayYield, IInv, TableInv
  <2>4. psp[next] = next /\ ctx[next] = "user_entry" /\ ~ frame[next].live
    BY <2>3, <1>1, <1>4, StackFacts DEF IInv, BootInv, Booting
  <2> QED BY <1>2, <2>2, <2>4 DEF Saved, NotStarted, Fresh
<1>5. CASE ctl \in Kern
  <2>1. ctl \notin Booting /\ ctl # "boot_yield"
    BY <1>5 DEF Kern, Booting
  <2> QED BY <1>1, <1>2, <1>3, <2>1 DEF IInv, SavedInv
<1> QED BY <1>4, <1>5 DEF MayYield

Untyped == TableInv /\ BootInv /\ HartInv /\ SavedInv /\ IdleInv /\ ScanInv

(* yield() leads from the invariant to the invariant: it continues a saved *)
(* context, and leaves one behind that can be continued.                   *)
LEMMA YieldStep ==
  ASSUME IInv, NEW st, NEW k, MayYield(st, k),
         Yield(st, k), UnchangedByYield
  PROVE  Untyped'
<1> DEFINE next == PickNext(st)
<1>1. /\ next \in Slots
      /\ next = IDLE \/ Runnable(st, next)
      /\ \A s \in Slots : Runnable(st, s) => Runnable(st, next)
  BY PickNextFacts DEF IInv
<1>2. st[next] = "RUNNABLE"
  BY <1>1 DEF MayYield, Runnable
<1>3. /\ pstate' = st /\ current' = next
      /\ UNCHANGED <<pid, loaded, booting, pc, mode, sstatus, frame>>
  BY DEF Yield, UnchangedByYield
<1>4. /\ booting = NProcs
      /\ mode = "S" /\ ~ sstatus.sie
      /\ ctl # "kernel_main"
  BY DEF MayYield, IInv, BootInv, HartInv, Kern, Booting
<1>5. next = current => ctl \in Kern
  <2> SUFFICES ASSUME ctl = "boot_yield", next = current PROVE FALSE
    BY DEF MayYield
  <2>1. Runnable(st, 1)
    BY <1>4, StackFacts DEF MayYield, IInv, BootInv, TableInv, Booting, Runnable
  <2>2. current = IDLE /\ Runnable(st, current)
    BY <1>1, <2>1, StackFacts DEF IInv, BootInv, Booting
  <2> QED BY <2>2, StackFacts DEF IInv, TableInv, Runnable, IDLE
<1>6. ctl' \in {"user_entry", "idle_loop", "ret", "getchar", "sleep_ret"}
  <2>1. CASE next = current
    BY <2>1, <1>2, <1>5 DEF Yield, MayYield
  <2>2. CASE next # current
    <3>1. ctl' = ctx[psp[next]]
      BY <2>2 DEF Yield, SwitchContext
    <3> QED BY <2>2, <3>1, NextIsSaved DEF Saved, NotStarted, Fresh, InTrap
  <2> QED BY <2>1, <2>2
<1>7. TableInv'
  <2>1. \A s \in Slots \ {IDLE} : st[s] = "UNUSED" <=> s \notin 1 .. booting
    BY DEF MayYield, IInv, TableInv
  <2>2. \A s \in 1 .. booting : loaded[s]
    BY DEF MayYield, IInv, TableInv, Kern
  <2>3. st[IDLE] = "RUNNABLE"
    BY DEF MayYield
  <2>4. /\ booting \in 0 .. NProcs
        /\ \A s \in Slots : pid[s] = IF s \in 1 .. booting THEN s + 1 ELSE 0
    BY DEF IInv, TableInv
  <2> QED BY <1>3, <2>1, <2>2, <2>3, <2>4 DEF TableInv, Slots, NProcs
<1>8. BootInv'
  BY <1>3, <1>4, <1>6 DEF BootInv, Booting
<1>9. IdleInv'
  <2> SUFFICES ASSUME next = IDLE, NEW s \in Users PROVE st[s] # "RUNNABLE"
    BY <1>3 DEF IdleInv, Users
  <2>1. ~ Runnable(st, IDLE)
    BY StackFacts DEF IInv, TableInv, Runnable, IDLE
  <2>2. ~ Runnable(st, s)
    BY <1>1, <2>1, StackFacts
  <2>3. pid[s] > 0
    BY <1>4, StackFacts DEF IInv, TableInv, Users
  <2> QED BY <2>2, <2>3 DEF Runnable
<1>10. ScanInv'
  BY <1>3, <1>6, StackFacts DEF IInv, ScanInv, Scanned, MayYield, Users, NProcs
<1>11. CASE next = current
  <2>1. ctl' = k /\ UNCHANGED <<satp, sscratch, psp, sp, ctx>>
    BY <1>11 DEF Yield
  <2>2. ctl \in Kern /\ ctl' \in {"ret", "getchar", "sleep_ret"}
    BY <2>1, <1>2, <1>5, <1>11 DEF MayYield
  <2>3. HartInv'
    BY <2>1, <2>2, <1>2, <1>3, <1>11
       DEF MayYield, IInv, HartInv, Kern, OwnStack, OwnStatus
  <2>4. SavedInv'
    <3> SUFFICES ASSUME NEW s \in Slots \ {current}, Live(s)' PROVE Saved(s)'
      BY <1>3, <1>11 DEF SavedInv
    <3>1. Saved(s)
      BY <2>2, <1>3 DEF MayYield, IInv, SavedInv, Live, Kern, Booting
    <3> QED BY <3>1, <2>1, <1>3
            DEF Saved, NotStarted, Fresh, InTrap, OwnStack, OwnStatus
  <2> QED BY <2>3, <2>4, <1>7, <1>8, <1>9, <1>10 DEF Untyped
<1>12. CASE next # current
  <2> DEFINE k2 == psp[next]
  <2>1. /\ satp' = next /\ sscratch' = next
        /\ psp' = [psp EXCEPT ![current] = sp]
        /\ sp' = k2
        /\ ctx' = [ctx EXCEPT ![sp] = k, ![k2] = "none"]
        /\ ctl' = ctx[k2]
    BY <1>12 DEF Yield, SwitchContext
  <2>2. /\ Saved(next)
        /\ ctl = "boot_yield" => next # IDLE /\ Fresh(next)
    BY <1>12, NextIsSaved
  <2>3. sp \in KStacks /\ sp = IF ctl = "boot_yield" THEN BOOT ELSE current
    BY StackFacts DEF MayYield, IInv, TypeOK, BootInv, HartInv, Kern, Booting
  <2>4. k2 \in KStacks /\ k2 = IF Fresh(next) /\ next = IDLE THEN BOOT ELSE next
    BY <2>2, <1>1, StackFacts DEF Saved, NotStarted, Fresh, InTrap
  <2>5. sp # k2
    BY <2>2, <2>3, <2>4, <1>12, <1>1, StackFacts DEF IInv, TypeOK
  <2>6. /\ ctx \in [KStacks -> Labels \cup {"none"}]
        /\ psp \in [Slots -> KStacks]
        /\ current \in Slots
    BY DEF IInv, TypeOK
  <2>7. HartInv'
    <3>1. ctx'[k2] = "none" /\ ctx'[sp] = k
      BY <2>1, <2>3, <2>4, <2>5, <2>6
    <3>2. /\ satp' = current' /\ sscratch' = current'
          /\ mode' = "S" /\ ~ sstatus'.sie
          /\ pstate'[current'] = "RUNNABLE"
          /\ ctl' \notin {"trap", "irq", "run", "kernel_main"}
      BY <1>2, <1>3, <1>4, <1>6, <2>1
    <3>3. CASE NotStarted(next) /\ next # IDLE
      <4>1. /\ ctl' = "user_entry" /\ sp' = current' /\ current' # IDLE
            /\ ctx'[current'] = "none" /\ ~ frame'[current'].live
        BY <3>1, <3>3, <1>3, <2>1, <2>4 DEF NotStarted, Fresh
      <4> QED BY <3>2, <4>1 DEF HartInv, Kern
    <3>4. CASE NotStarted(next) /\ next = IDLE
      <4>1. ctl' = "idle_loop" /\ sp' = BOOT /\ ~ frame'[IDLE].live
        BY <3>4, <1>3, <2>1, <2>4 DEF NotStarted, Fresh
      <4>2. ctx'[IDLE] \in {"none", "idle_entry"}
        BY <3>4, <2>1, <2>2, <2>3, <2>4, <2>6, <1>12, StackFacts DEF NotStarted
      <4> QED BY <3>2, <3>4, <4>1, <4>2, <1>3 DEF HartInv, Kern, OwnStack
    <3>5. CASE InTrap(next)
      <4>1. k2 = next
        BY <3>5 DEF InTrap
      <4>2. /\ ctl' = "ret" \/ (next # IDLE /\ ctl' \in {"getchar", "sleep_ret"})
            /\ sp' = current' /\ ctx'[current'] = "none"
            /\ frame'[current'].live
            /\ frame'[current'].sp = OwnStack(current')
            /\ frame'[current'].sstatus = OwnStatus(current')
        BY <3>1, <3>5, <4>1, <1>3, <2>1 DEF InTrap
      <4> QED BY <3>2, <4>2, <1>3 DEF HartInv, Kern
    <3> QED BY <2>2, <3>3, <3>4, <3>5 DEF Saved
  <2>8. SavedInv'
    <3> SUFFICES ASSUME NEW s \in Slots, s # next, Live(s)' PROVE Saved(s)'
      BY <1>3 DEF SavedInv, Slots
    <3>1. CASE s = current
      <4>1. st[s] \in {"RUNNABLE", "SLEEPING"}
        BY <1>3 DEF Live
      <4>2. psp'[s] = sp /\ ctx'[sp] = k
        BY <3>1, <2>1, <2>3, <2>5, <2>6
      <4>3. CASE ctl = "boot_yield"
        <5>1. s = IDLE /\ k = "idle_loop" /\ sp = BOOT /\ ~ frame[IDLE].live
          BY <3>1, <4>3, <2>3, StackFacts DEF IInv, BootInv, Booting, MayYield
        <5>2. ctx'[IDLE] \in {"none", "idle_entry"}
          BY <4>3, <5>1, <2>1, <2>3, <2>6, StackFacts DEF IInv, BootInv, Booting
        <5> QED BY <4>2, <5>1, <5>2, <1>3 DEF Saved, NotStarted, Fresh
      <4>4. CASE ctl \in Kern
        <5>1. /\ sp = s
              /\ frame[s].live /\ frame[s].sp = OwnStack(s)
              /\ frame[s].sstatus = OwnStatus(s)
          BY <3>1, <4>4 DEF IInv, HartInv, Kern
        <5>2. k = "ret" \/ (s # IDLE /\ k \in {"getchar", "sleep_ret"})
          BY <3>1, <4>1, <4>4 DEF MayYield
        <5> QED BY <4>2, <5>1, <5>2, <1>3 DEF Saved, InTrap, OwnStack, OwnStatus
      <4> QED BY <4>3, <4>4 DEF MayYield
    <3>2. CASE s # current
      <4>1. Live(s)
        BY <3>2, <1>3 DEF Live, MayYield
      <4>2. psp'[s] = psp[s]
        BY <3>2, <2>1, <2>6
      <4>3. CASE ctl = "boot_yield"
        <5>1. s \in 1 .. booting
          BY <3>2, <4>1, <4>3 DEF IInv, TableInv, BootInv, Booting, Live
        <5>2. NotStarted(s) /\ s # IDLE /\ sp = BOOT /\ psp[s] = s
          BY <5>1, <4>3, <2>3, StackFacts
             DEF IInv, BootInv, Booting, NotStarted, Fresh, IDLE
        <5>3. ctx'[s] = ctx[s]
          BY <5>2, <2>1, <2>2, <2>4, <2>6, <4>3, StackFacts
        <5> QED BY <5>2, <5>3, <4>2, <1>3 DEF Saved, NotStarted, Fresh
      <4>4. CASE ctl \in Kern
        <5>1. Saved(s) /\ sp = current
          BY <3>2, <4>1, <4>4, <2>3 DEF IInv, SavedInv, Kern, Booting
        <5>2. psp[s] \in {s, BOOT} /\ (psp[s] = BOOT => s = IDLE)
          BY <5>1, StackFacts DEF Saved, NotStarted, Fresh, InTrap
        <5>3. k2 \in {next, BOOT} /\ (k2 = BOOT => next = IDLE)
          BY <2>4, <1>1, StackFacts
        <5>4. ctx'[psp[s]] = ctx[psp[s]] /\ ctx'[s] = ctx[s]
          BY <5>1, <5>2, <5>3, <3>2, <2>1, <2>6, StackFacts
        <5> QED BY <5>1, <5>4, <4>2, <1>3
                DEF Saved, NotStarted, Fresh, InTrap, OwnStack, OwnStatus
      <4> QED BY <4>3, <4>4 DEF MayYield
    <3> QED BY <3>1, <3>2
  <2> QED BY <2>7, <2>8, <1>7, <1>8, <1>9, <1>10 DEF Untyped
<1> QED BY <1>11, <1>12
-----------------------------------------------------------------------------
(* Types.                                                                  *)

(* What a trap frame holds, and what an empty place for one looks like.    *)
LEMMA FrameFacts ==
  /\ NoStatus \in Sstatus
  /\ NoFrame \in Frame
  /\ \A f \in Frame : /\ f.pc \in Nat /\ f.a0 \in Nat
                      /\ f.sp \in 0 .. USTACK /\ f.sstatus \in Sstatus
  BY KernelAssumption DEF NoStatus, NoFrame, Frame, Sstatus, USTACK

(* The initial values have their types.                                    *)
LEMMA InitTyped == Init => TypeOK
<1> SUFFICES ASSUME Init PROVE TypeOK
  OBVIOUS
<1>1. /\ 0 \in 0 .. PROCS_MAX /\ BOOT \in 0 .. USTACK /\ IDLE \in Slots
      /\ \A s \in Slots : s \in KStacks
  BY KernelAssumption, StackFacts DEF USTACK, BOOT
<1>2. /\ pstate \in [Slots -> {"UNUSED", "RUNNABLE", "SLEEPING", "EXITED"}]
      /\ pid \in [Slots -> 0 .. PROCS_MAX]
      /\ wake_in \in [Slots -> Nat] /\ arg \in [Slots -> Nat]
      /\ psp \in [Slots -> KStacks] /\ loaded \in [Slots -> BOOLEAN]
  BY <1>1 DEF Init
<1>3. frame \in [KStacks -> Frame] /\ ctx \in [KStacks -> Labels \cup {"none"}]
  BY FrameFacts DEF Init
<1>4. /\ current \in Slots /\ booting \in Slots /\ ctl \in Labels
      /\ pc \in Nat /\ a0 \in Nat /\ sp \in 0 .. USTACK
      /\ mode \in {"U", "S"} /\ sstatus \in Sstatus /\ sepc \in Nat
      /\ scause \in Exceptions \cup {"timer", "none"}
      /\ satp \in Slots \cup {BARE} /\ sscratch \in Slots \cup {NOSTACK}
      /\ stie \in BOOLEAN /\ tick_in \in Nat /\ rx \in Chars \cup {NOCHAR}
  BY <1>1, FrameFacts DEF Init, Labels
<1> QED BY <1>2, <1>3, <1>4 DEF TypeOK

(* yield() keeps the types, given a stack to save the context on.          *)
LEMMA YieldTyped ==
  ASSUME TypeOK, NEW st \in [Slots -> PStates], NEW k \in Labels,
         Yield(st, k), UnchangedByYield,
         sp \in KStacks,
         PickNext(st) # current => ctx[psp[PickNext(st)]] \in Labels
  PROVE  /\ pstate' \in [Slots -> PStates]
         /\ current' \in Slots
         /\ satp' \in Slots \cup {BARE} /\ sscratch' \in Slots \cup {NOSTACK}
         /\ psp' \in [Slots -> KStacks] /\ sp' \in 0 .. USTACK
         /\ ctx' \in [KStacks -> Labels \cup {"none"}]
         /\ ctl' \in Labels
<1>1. PickNext(st) \in Slots
  BY PickNextFacts
<1>2. KStacks \subseteq 0 .. USTACK
  BY KernelAssumption DEF KStacks, USTACK
<1>3. CASE PickNext(st) = current
  BY <1>3 DEF Yield, SwitchContext, TypeOK
<1>4. CASE PickNext(st) # current
  <2> DEFINE next == PickNext(st)
  <2>1. /\ pstate' = st /\ current' = next /\ satp' = next /\ sscratch' = next
        /\ psp' = [psp EXCEPT ![current] = sp] /\ sp' = psp[next]
        /\ ctx' = [ctx EXCEPT ![sp] = k, ![psp[next]] = "none"] /\ ctl' = ctx[psp[next]]
    BY <1>4, Zenon DEF Yield, SwitchContext
  <2>2. next \in Slots /\ next # current /\ ctx[psp[next]] \in Labels
    BY <1>1, <1>4
  <2>3. psp \in [Slots -> KStacks] /\ ctx \in [KStacks -> Labels \cup {"none"}]
    BY DEF TypeOK
  <2> HIDE DEF next
  <2>4. psp' \in [Slots -> KStacks] /\ sp' \in 0 .. USTACK
    BY <1>2, <2>1, <2>2, <2>3
  <2>5. ctx' \in [KStacks -> Labels \cup {"none"}]
    BY <2>1, <2>3
  <2> QED BY <2>1, <2>2, <2>4, <2>5
<1> QED BY <1>3, <1>4

(* A trap is entered with sscratch pointing to the current stack.          *)
LEMMA TrapTyped ==
  ASSUME TypeOK, NEW cause \in Exceptions \cup {"timer"}, NEW r \in Nat,
         NEW epc \in Nat, sscratch \in Slots, Trap(cause, r, epc)
  PROVE  TypeOK'
<1> DEFINE saved == [sie |-> FALSE, spie |-> sstatus.sie, spp |-> mode]
           f == [live |-> TRUE, pc |-> epc, a0 |-> r, sp |-> sp, sstatus |-> saved]
<1>1. saved \in Sstatus
  BY DEF TypeOK, Sstatus
<1>2. f \in Frame
  BY <1>1 DEF TypeOK, Frame
<1>3. sscratch \in KStacks /\ sscratch \in 0 .. USTACK
  BY KernelAssumption DEF Slots, KStacks, USTACK
<1>4. frame' = [frame EXCEPT ![sscratch] = f] /\ sstatus' = saved
  BY DEF Trap
<1>5. frame' \in [KStacks -> Frame] /\ sstatus' \in Sstatus
  BY <1>1, <1>2, <1>3, <1>4 DEF TypeOK
<1> QED BY <1>3, <1>5 DEF Trap, TypeOK, Labels, procVars

(* sret keeps the types of what it loads.                                  *)
LEMMA SretTyped ==
  ASSUME NEW ss \in Sstatus, NEW p \in Nat, NEW r \in Nat, NEW k \in 0 .. USTACK,
         Sret(ss, p, r, k)
  PROVE  /\ mode' \in {"U", "S"} /\ sstatus' \in Sstatus /\ sepc' \in Nat
         /\ pc' \in Nat /\ a0' \in Nat /\ sp' \in 0 .. USTACK /\ ctl' \in Labels
  BY DEF Sret, Sstatus, Labels

(* Answering a system call keeps the types, given a result that fits a0.   *)
LEMMA FinishTyped ==
  ASSUME TypeOK, NEW r \in Nat, FinishSyscall(r), sp \in KStacks,
         rx' \in Chars \cup {NOCHAR}
  PROVE  TypeOK'
<1> DEFINE f == frame[sp]
           g == [live |-> f.live, pc |-> f.pc + 1, a0 |-> r, sp |-> f.sp,
                 sstatus |-> f.sstatus]
<1>1. f \in Frame
  BY DEF TypeOK
<1>2. [frame[sp] EXCEPT !.a0 = r, !.pc = @ + 1] \in Frame
  <2>1. f.live \in BOOLEAN /\ f.pc \in Nat /\ f.sp \in 0 .. USTACK /\ f.sstatus \in Sstatus
    BY <1>1 DEF Frame
  <2>2. g \in Frame
    BY <2>1 DEF Frame
  <2> DEFINE f1 == [f EXCEPT !.a0 = r]
  <2>3. f1 = [live |-> f.live, pc |-> f.pc, a0 |-> r, sp |-> f.sp,
              sstatus |-> f.sstatus]
    BY <1>1 DEF Frame
  <2>4. [f EXCEPT !.a0 = r, !.pc = @ + 1] = [f1 EXCEPT !.pc = @ + 1]
    OBVIOUS
  <2>5. [f1 EXCEPT !.pc = @ + 1] = g
    <3> HIDE DEF f1
    <3> QED BY <2>3
  <2> QED BY <2>2, <2>4, <2>5
<1>3. frame' = [frame EXCEPT ![sp] = [frame[sp] EXCEPT !.a0 = r, !.pc = @ + 1]]
  BY DEF FinishSyscall, TypeOK
<1>4. frame' \in [KStacks -> Frame]
  BY <1>2, <1>3 DEF TypeOK
<1> QED BY <1>4 DEF FinishSyscall, TypeOK, Labels, procVars, hartVars

-----------------------------------------------------------------------------
(* The steps that call yield().                                            *)

(* A handler that calls yield() keeps the invariant if it may yield.       *)
LEMMA YieldInv ==
  ASSUME IInv, NEW st, NEW k, MayYield(st, k), Yield(st, k), UnchangedByYield,
         wake_in' \in [Slots -> Nat],
         scause' \in Exceptions \cup {"timer", "none"},
         tick_in' \in Nat, rx' \in Chars \cup {NOCHAR}
  PROVE  IInv'
<1>1. k \in Labels /\ st \in [Slots -> PStates]
  BY DEF MayYield, Kern, Labels
<1>2. sp \in KStacks
  BY StackFacts DEF MayYield, IInv, TypeOK, BootInv, HartInv, Kern, Booting
<1>3. PickNext(st) # current => ctx[psp[PickNext(st)]] \in Labels
  <2> SUFFICES ASSUME PickNext(st) # current
               PROVE  ctx[psp[PickNext(st)]] \in Labels
    OBVIOUS
  <2>1. Saved(PickNext(st))
    BY NextIsSaved
  <2> QED BY <2>1 DEF Saved, NotStarted, Fresh, InTrap, Labels
<1>4. TypeOK'
  <2>1. TypeOK
    BY DEF IInv
  <2>2. /\ pstate' \in [Slots -> PStates]
        /\ current' \in Slots
        /\ satp' \in Slots \cup {BARE} /\ sscratch' \in Slots \cup {NOSTACK}
        /\ psp' \in [Slots -> KStacks] /\ sp' \in 0 .. USTACK
        /\ ctx' \in [KStacks -> Labels \cup {"none"}]
        /\ ctl' \in Labels
    BY <1>1, <1>2, <1>3, <2>1, YieldTyped
  <2>3. UNCHANGED <<pid, arg, loaded, booting, pc, a0, mode, sstatus, sepc, stie, frame>>
    BY DEF UnchangedByYield
  <2> QED BY <2>1, <2>2, <2>3
          DEF TypeOK, PStates, Slots, KStacks, Labels, Sstatus, Frame, Exceptions,
              Syscalls, Fatal, USTACK, BARE, NOSTACK, NOCHAR
<1>5. Untyped'
  BY YieldStep
<1> QED BY <1>4, <1>5 DEF IInv, Untyped

(* The boot context may yield when the processes have been created.        *)
LEMMA BootMayYield == IInv /\ BootYield => MayYield(pstate, "idle_loop")
  BY DEF BootYield, MayYield, IInv, TypeOK, PStates, TableInv, Kern, Live

(* The yield() at the end of boot keeps the invariant.                     *)
LEMMA BootYieldInv == IInv /\ BootYield => IInv'
<1> SUFFICES ASSUME IInv, BootYield PROVE IInv'
  OBVIOUS
<1>1. MayYield(pstate, "idle_loop")
  BY BootMayYield
<1>2. /\ Yield(pstate, "idle_loop") /\ UnchangedByYield
      /\ UNCHANGED <<wake_in, scause, tick_in, rx>>
  BY DEF BootYield
<1>3. /\ wake_in' \in [Slots -> Nat] /\ tick_in' \in Nat
      /\ scause' \in Exceptions \cup {"timer", "none"} /\ rx' \in Chars \cup {NOCHAR}
  BY <1>2 DEF IInv, TypeOK
<1> QED BY <1>1, <1>2, <1>3, YieldInv

(* The timer interrupt wakes only sleepers and may yield.                  *)
LEMMA TickMayYield == IInv /\ ctl = "irq" => MayYield(WakeExpired, "ret")
<1> SUFFICES ASSUME IInv, ctl = "irq" PROVE MayYield(WakeExpired, "ret")
  OBVIOUS
<1>1. ctl \in Kern
  BY DEF Kern
<1>2. WakeExpired \in [Slots -> PStates]
  BY DEF WakeExpired, IInv, TypeOK, PStates
<1>3. pstate[IDLE] = "RUNNABLE"
  BY DEF IInv, TableInv
<1> QED BY <1>1, <1>2, <1>3, StackFacts DEF MayYield, WakeExpired, Live

(* The second part of the timer interrupt keeps the invariant.             *)
LEMMA WakeAndYieldInv == IInv /\ WakeAndYield => IInv'
<1> SUFFICES ASSUME IInv, WakeAndYield PROVE IInv'
  OBVIOUS
<1>1. MayYield(WakeExpired, "ret")
  BY TickMayYield DEF WakeAndYield
<1>2. /\ Yield(WakeExpired, "ret") /\ UnchangedByYield
      /\ UNCHANGED <<wake_in, scause, tick_in, rx>>
  BY DEF WakeAndYield
<1>3. /\ wake_in' \in [Slots -> Nat] /\ tick_in' \in Nat
      /\ scause' \in Exceptions \cup {"timer", "none"} /\ rx' \in Chars \cup {NOCHAR}
  BY <1>2 DEF IInv, TypeOK
<1> QED BY <1>1, <1>2, <1>3, YieldInv

(* The current process of a handler that is not the idle process may be    *)
(* given any state but UNUSED; it goes on only if it is to run again.      *)
LEMMA MayLeave ==
  ASSUME IInv, ctl \in Kern, current # IDLE,
         NEW x \in {"SLEEPING", "EXITED"},
         NEW k \in {"getchar", "sleep_ret", "exit_ret"},
         k = "exit_ret" => x = "EXITED"
  PROVE  MayYield([pstate EXCEPT ![current] = x], k)
<1>1. /\ pstate \in [Slots -> PStates] /\ current \in Slots
      /\ pstate[IDLE] = "RUNNABLE" /\ pstate[current] = "RUNNABLE"
  BY DEF IInv, TypeOK, TableInv, HartInv, Kern, PStates
<1>2. ctl # "boot_yield"
  BY DEF Kern
<1> QED BY <1>1, <1>2, StackFacts DEF MayYield, Live, PStates

(* block_current_process puts the current process to sleep and may yield.  *)
LEMMA BlockInv ==
  ASSUME IInv, ctl \in Kern, current # IDLE,
         NEW ms \in Nat, NEW k \in {"getchar", "sleep_ret"}, BlockCurrent(ms, k)
  PROVE  IInv'
<1>1. MayYield([pstate EXCEPT ![current] = "SLEEPING"], k)
  BY MayLeave
<1>2. /\ Yield([pstate EXCEPT ![current] = "SLEEPING"], k) /\ UnchangedByYield
      /\ wake_in' = [wake_in EXCEPT ![current] = ms]
      /\ scause' = "none" /\ UNCHANGED <<tick_in, rx>>
  BY DEF BlockCurrent
<1>3. /\ wake_in' \in [Slots -> Nat] /\ tick_in' \in Nat
      /\ scause' \in Exceptions \cup {"timer", "none"} /\ rx' \in Chars \cup {NOCHAR}
  BY <1>2 DEF IInv, TypeOK
<1> QED BY <1>1, <1>2, <1>3, YieldInv

(* syscall_exit ends the current process and is never returned to.         *)
LEMMA SysExitInv == IInv /\ SysExit => IInv'
<1> SUFFICES ASSUME IInv, SysExit PROVE IInv'
  OBVIOUS
<1>1. ctl \in Kern /\ current # IDLE
  BY DEF SysExit, InSyscall, IInv, HartInv, Kern
<1>2. MayYield([pstate EXCEPT ![current] = "EXITED"], "exit_ret")
  BY <1>1, MayLeave
<1>3. /\ Yield([pstate EXCEPT ![current] = "EXITED"], "exit_ret") /\ UnchangedByYield
      /\ scause' = "none" /\ UNCHANGED <<wake_in, tick_in, rx>>
  BY DEF SysExit
<1>4. /\ wake_in' \in [Slots -> Nat] /\ tick_in' \in Nat
      /\ scause' \in Exceptions \cup {"timer", "none"} /\ rx' \in Chars \cup {NOCHAR}
  BY <1>3 DEF IInv, TypeOK
<1> QED BY <1>2, <1>3, <1>4, YieldInv

(* A handler that answers a system call changes its own frame only.        *)
LEMMA FinishInv ==
  ASSUME IInv, ctl \in Kern, current # IDLE, NEW r \in Nat, FinishSyscall(r),
         rx' \in Chars \cup {NOCHAR}
  PROVE  IInv'
<1>1. sp = current /\ sp \in KStacks /\ current \in Slots /\ TypeOK
  BY StackFacts DEF IInv, TypeOK, HartInv, Kern
<1>2. TypeOK'
  BY <1>1, FinishTyped
<1>3. /\ UNCHANGED <<pstate, pid, psp, loaded, booting, current, pc, mode, sstatus,
                     satp, sscratch, sp, ctx>>
      /\ ctl' = "ret"
  BY DEF FinishSyscall, procVars, hartVars
<1>4. /\ \A t \in KStacks \ {current} : frame'[t] = frame[t]
      /\ frame'[current].live = frame[current].live
      /\ frame'[current].sp = frame[current].sp
      /\ frame'[current].sstatus = frame[current].sstatus
  <2>1. frame[sp] \in Frame /\ frame \in [KStacks -> Frame]
    BY <1>1 DEF TypeOK
  <2>2. frame' = [frame EXCEPT ![sp] = [frame[sp] EXCEPT !.a0 = r, !.pc = @ + 1]]
    BY <2>1 DEF FinishSyscall
  <2> QED BY <1>1, <2>1, <2>2 DEF Frame
<1>5. TableInv' /\ BootInv' /\ IdleInv'
  BY <1>3 DEF IInv, TableInv, BootInv, IdleInv, Kern, Booting, Users, NProcs, Slots
<1>6. HartInv'
  BY <1>3, <1>4 DEF IInv, HartInv, Kern, OwnStack, OwnStatus
<1>7. SavedInv'
  <2> SUFFICES ASSUME NEW s \in Slots, s # current, Live(s) PROVE Saved(s)'
    BY <1>3 DEF SavedInv, Live, Slots
  <2>1. Saved(s) /\ frame'[s] = frame[s]
    BY <1>4, StackFacts DEF IInv, SavedInv, Kern, Booting
  <2> QED BY <1>3, <2>1 DEF Saved, NotStarted, Fresh, InTrap, OwnStack, OwnStatus
<1>8. ScanInv'
  BY <1>3, <1>4, StackFacts DEF IInv, ScanInv, Scanned, Users, NProcs
<1> QED BY <1>2, <1>5, <1>6, <1>7, <1>8 DEF IInv

(* Every system call keeps the invariant.                                  *)
LEMMA SyscallInv == IInv /\ SyscallStep => IInv'
<1> SUFFICES ASSUME IInv, SyscallStep PROVE IInv'
  OBVIOUS
<1> USE DEF InSyscall
<1>1. /\ ctl = "trap" /\ scause # "timer" => current # IDLE
      /\ ctl \in {"getchar", "sleep_ret"} => current # IDLE
      /\ rx \in Chars \cup {NOCHAR} /\ pid[current] \in Nat
      /\ ctl \in Kern => sp \in KStacks /\ frame[sp].a0 \in Nat
  BY StackFacts, FrameFacts DEF IInv, HartInv, TypeOK, Kern
<1>2. CASE SysPutchar
  BY <1>1, <1>2, FinishInv DEF SysPutchar, Kern
<1>3. CASE SysGetpid
  BY <1>1, <1>3, FinishInv DEF SysGetpid, Kern
<1>4. CASE SysGetchar
  <2>1. ctl \in Kern /\ current # IDLE
    BY <1>1, <1>4 DEF SysGetchar, Kern
  <2>2. CASE rx # NOCHAR /\ FinishSyscall(rx) /\ rx' = NOCHAR
    BY <1>1, <2>1, <2>2, FinishInv, KernelAssumption
  <2>3. CASE rx = NOCHAR /\ BlockCurrent(PollInterval, "getchar")
    BY <2>1, <2>3, BlockInv, KernelAssumption DEF PollInterval
  <2> QED BY <1>4, <2>2, <2>3 DEF SysGetchar
<1>5. CASE SysSleep
  <2>1. ctl \in Kern /\ current # IDLE
    BY <1>1, <1>5 DEF SysSleep, Kern
  <2>2. CASE FinishSyscall(0) /\ UNCHANGED rx
    BY <1>1, <2>1, <2>2, FinishInv
  <2>3. CASE BlockCurrent(frame[sp].a0 % WORD, "sleep_ret")
    <3>1. frame[sp].a0 \in Nat /\ WORD \in Nat \ {0}
      BY <1>1, <2>1, KernelAssumption
    <3>2. \A n \in 0 .. WORD - 1 : n \in Nat
      BY <3>1
    <3>3. frame[sp].a0 % WORD \in Nat
      BY <3>1, <3>2, ModRange
    <3> QED BY <2>1, <2>3, <3>3, BlockInv
  <2> QED BY <1>5, <2>2, <2>3 DEF SysSleep
<1>6. CASE SleepReturn
  BY <1>1, <1>6, FinishInv DEF SleepReturn, Kern
<1>7. CASE SysExit
  BY <1>7, SysExitInv
<1> QED BY <1>2, <1>3, <1>4, <1>5, <1>6, <1>7 DEF SyscallStep
-----------------------------------------------------------------------------
(* The steps that do not switch.                                           *)

(* The invariant holds when kernel_main is entered.                        *)
LEMMA InitInv == Init => IInv
<1> SUFFICES ASSUME Init PROVE IInv
  OBVIOUS
<1>1. TypeOK
  BY InitTyped
<1>2. TableInv
  BY StackFacts DEF Init, TableInv, IDLE
<1>3. BootInv
  BY StackFacts DEF Init, BootInv, Booting, NoStatus, NoFrame, IDLE
<1>4. HartInv /\ SavedInv /\ IdleInv /\ ScanInv
  BY StackFacts DEF Init, HartInv, SavedInv, IdleInv, ScanInv, Kern, Booting, NoFrame
<1> QED BY <1>1, <1>2, <1>3, <1>4 DEF IInv

(* kernel_main keeps the invariant: interrupts are masked and the idle     *)
(* process takes slot 0.                                                   *)
LEMMA KernelMainInv == IInv /\ KernelMain => IInv'
<1> SUFFICES ASSUME IInv, KernelMain PROVE IInv'
  OBVIOUS
<1> USE DEF KernelMain
<1>1. TypeOK'
  BY StackFacts DEF IInv, TypeOK, Labels, Mask, Sstatus
<1>2. TableInv'
  BY StackFacts DEF IInv, TypeOK, TableInv, BootInv, IDLE
<1>3. BootInv'
  BY StackFacts DEF IInv, TypeOK, BootInv, Booting, Mask, Sstatus, IDLE
<1>4. HartInv' /\ SavedInv' /\ IdleInv' /\ ScanInv'
  BY StackFacts DEF IInv, TypeOK, HartInv, SavedInv, IdleInv, ScanInv, BootInv, Kern, Booting, hartVars
<1> QED BY <1>1, <1>2, <1>3, <1>4 DEF IInv

(* init_timer keeps the invariant: STIE is set while SIE is clear.         *)
LEMMA InitTimerInv == IInv /\ InitTimer => IInv'
<1> SUFFICES ASSUME IInv, InitTimer PROVE IInv'
  OBVIOUS
<1> USE DEF InitTimer, procVars, NextTick
<1>1. TypeOK'
  BY KernelAssumption DEF IInv, TypeOK, Labels
<1>2. TableInv'
  BY DEF IInv, TableInv
<1>3. BootInv'
  BY StackFacts DEF IInv, BootInv, Booting, IDLE
<1>4. HartInv' /\ SavedInv' /\ IdleInv' /\ ScanInv'
  BY StackFacts DEF IInv, HartInv, SavedInv, IdleInv, ScanInv, BootInv, Kern, Booting
<1> QED BY <1>1, <1>2, <1>3, <1>4 DEF IInv

(* The slot that is taken is the next one: slots are taken in order.       *)
LEMMA FirstFreeFacts ==
  ASSUME IInv, ctl = "create"
  PROVE  /\ FreeSlots # {} /\ FirstFree = booting + 1
         /\ booting + 1 \in Slots \ {IDLE} /\ booting + 1 \in 1 .. NProcs
<1>1. booting \in 0 .. NProcs - 1 /\ booting + 1 \in Slots \ {IDLE}
  BY StackFacts, KernelAssumption DEF IInv, TableInv, BootInv, Slots, IDLE
<1>2. booting + 1 \in FreeSlots
  BY <1>1 DEF FreeSlots, IInv, TableInv
<1>3. \A s \in FreeSlots : s \in Slots /\ booting + 1 <= s
  <2> SUFFICES ASSUME NEW s \in FreeSlots PROVE booting + 1 <= s
    BY DEF FreeSlots
  <2>1. s \in Slots /\ s # IDLE /\ s \notin 1 .. booting
    BY DEF FreeSlots, IInv, TableInv
  <2> QED BY <2>1, <1>1, StackFacts, KernelAssumption DEF Slots, IDLE
<1>4. \A s \in FreeSlots : (\A t \in FreeSlots : s <= t) => s = booting + 1
  <2> SUFFICES ASSUME NEW s \in FreeSlots, s <= booting + 1 PROVE s = booting + 1
    BY <1>2
  <2>1. s \in Nat /\ booting + 1 \in Nat /\ booting + 1 <= s
    BY <1>1, <1>3, StackFacts
  <2> QED BY <2>1
<1>5. FirstFree = booting + 1
  BY <1>2, <1>3, <1>4 DEF FirstFree
<1>6. booting + 1 \in 1 .. NProcs
  BY <1>1, StackFacts
<1> QED BY <1>1, <1>2, <1>5, <1>6

(* alloc_process keeps the invariant: the new process has a context to     *)
(* start from.                                                             *)
LEMMA CreateProcessInv == IInv /\ CreateProcess => IInv'
<1> SUFFICES ASSUME IInv, CreateProcess PROVE IInv'
  OBVIOUS
<1> DEFINE s == booting + 1
<1>1. /\ ctl = "create" /\ ctl' = "load"
      /\ booting' = s
      /\ pid' = [pid EXCEPT ![s] = s + 1]
      /\ psp' = [psp EXCEPT ![s] = s]
      /\ ctx' = [ctx EXCEPT ![s] = "user_entry"]
      /\ wake_in' = [wake_in EXCEPT ![s] = 0]
      /\ arg' = [arg EXCEPT ![s] = 0]
      /\ pstate' = [pstate EXCEPT ![s] = "RUNNABLE"]
      /\ UNCHANGED <<loaded, current, hartVars, sp, scause, frame, tick_in, rx>>
  BY FirstFreeFacts DEF CreateProcess
<1>2. s \in Slots \ {IDLE} /\ s \in 1 .. NProcs /\ s \in KStacks /\ s + 1 \in 0 .. PROCS_MAX
  BY <1>1, FirstFreeFacts, StackFacts, KernelAssumption DEF Slots
<1>3. TypeOK'
  BY <1>1, <1>2 DEF IInv, TypeOK, Labels, hartVars
<1>4. TableInv'
  <2>1. booting \in 0 .. NProcs /\ \A t \in 1 .. s : t \in 1 .. booting \/ t = s
    BY StackFacts DEF IInv, TableInv
  <2>2. 1 .. booting \subseteq 1 .. s /\ s \notin 1 .. booting
    BY <2>1, StackFacts
  <2>3. \A t \in Slots : pid'[t] = IF t \in 1 .. s THEN t + 1 ELSE 0
    BY <1>1, <1>2, <2>1, <2>2 DEF IInv, TypeOK, TableInv
  <2>4. \A t \in Slots \ {IDLE} : pstate'[t] = "UNUSED" <=> t \notin 1 .. s
    BY <1>1, <1>2, <2>1, <2>2 DEF IInv, TypeOK, TableInv
  <2>5. pstate'[IDLE] = "RUNNABLE"
    BY <1>1, <1>2, StackFacts DEF IInv, TypeOK, TableInv
  <2>6. \A t \in 1 .. s : loaded'[t] \/ t = s
    BY <1>1, <2>1 DEF IInv, TableInv
  <2> QED BY <1>1, <1>2, <2>3, <2>4, <2>5, <2>6 DEF TableInv, Slots, NProcs
<1>5. BootInv'
  <2>1. \A t \in 1 .. s : (t \in 1 .. booting \/ t = s) /\ t \in Slots /\ t \in KStacks
    BY <1>2, StackFacts, KernelAssumption DEF IInv, TableInv, Slots, KStacks
  <2>2. \A t \in 1 .. s : pstate'[t] = "RUNNABLE" /\ psp'[t] = t /\ ctx'[t] = "user_entry"
    BY <1>1, <1>2, <2>1 DEF IInv, TypeOK, BootInv, Booting
  <2>3. ctx'[IDLE] = ctx[IDLE]
    BY <1>1, <1>2, StackFacts DEF IInv, TypeOK
  <2>4. s > 0
    BY <1>2
  <2> QED BY <1>1, <2>2, <2>3, <2>4 DEF IInv, BootInv, Booting, hartVars, KStacks
<1>6. HartInv' /\ SavedInv' /\ IdleInv' /\ ScanInv'
  <2>1. current = IDLE /\ ~ frame[IDLE].live /\ pstate'[IDLE] = "RUNNABLE"
    BY <1>1, <1>2, StackFacts DEF IInv, TypeOK, TableInv, BootInv, Booting
  <2> QED BY <1>1, <2>1 DEF HartInv, SavedInv, IdleInv, ScanInv, Kern, Booting, IDLE
<1> QED BY <1>3, <1>4, <1>5, <1>6 DEF IInv

(* create_process2 keeps the invariant: the image is there before the next *)
(* slot is taken.                                                          *)
LEMMA LoadProcessInv == IInv /\ LoadProcess => IInv'
<1> SUFFICES ASSUME IInv, LoadProcess PROVE IInv'
  OBVIOUS
<1> USE DEF LoadProcess
<1>1. booting \in 1 .. NProcs /\ booting \in Slots
  BY StackFacts DEF IInv, TableInv, BootInv, TypeOK
<1>2. BootArgs[booting] \in Nat
  BY <1>1, KernelAssumption DEF NProcs
<1>3. TypeOK'
  BY <1>1, <1>2 DEF IInv, TypeOK, Labels, hartVars
<1>4. TableInv'
  BY <1>1 DEF IInv, TypeOK, TableInv
<1>5. BootInv'
  BY <1>1, StackFacts DEF IInv, BootInv, Booting, hartVars
<1>6. HartInv' /\ SavedInv' /\ IdleInv' /\ ScanInv'
  <2>1. current = IDLE /\ ~ frame[IDLE].live /\ pstate[IDLE] = "RUNNABLE"
    BY StackFacts DEF IInv, TypeOK, TableInv, BootInv, Booting
  <2> QED BY <2>1 DEF HartInv, SavedInv, IdleInv, ScanInv, Kern, Booting, IDLE
<1> QED BY <1>3, <1>4, <1>5, <1>6 DEF IInv

(* The boot context enters the idle loop as the idle process, with nothing *)
(* scanned.                                                                *)
LEMMA EnterIdleLoopInv == IInv /\ EnterIdleLoop => IInv'
<1> SUFFICES ASSUME IInv, EnterIdleLoop PROVE IInv'
  OBVIOUS
<1> USE DEF EnterIdleLoop, procVars
<1>1. TypeOK' /\ current = IDLE /\ sstatus'.sie
  BY DEF IInv, TypeOK, HartInv, Labels, Sstatus
<1>2. TableInv' /\ BootInv'
  BY DEF IInv, TableInv, BootInv, Booting
<1>3. HartInv'
  BY <1>1 DEF IInv, HartInv, Kern, OwnStack
<1>4. SavedInv'
  BY DEF IInv, SavedInv, Live, Saved, NotStarted, Fresh, InTrap, Booting, OwnStack, OwnStatus
<1>5. IdleInv' /\ ScanInv'
  <2>1. \A s \in Users : ~ (s < 0 \div 2)
    BY StackFacts
  <2> QED BY <1>1, <2>1 DEF IInv, HartInv, IdleInv, ScanInv, Scanned, Booting, Users, NProcs
<1> QED BY <1>1, <1>2, <1>3, <1>4, <1>5 DEF IInv

(* A trap from user code or from the idle loop finds its stack empty.      *)
LEMMA TrapInv ==
  ASSUME IInv, ctl = "run",
         NEW cause \in Exceptions \cup {"timer"}, NEW r \in Nat, NEW epc \in Nat,
         cause # "timer" => current # IDLE,
         current = IDLE => Scanned(epc),
         Trap(cause, r, epc)
  PROVE  IInv'
<1>1. /\ satp = current /\ sscratch = current /\ current \in Slots
      /\ current \in KStacks
      /\ mode = (IF current = IDLE THEN "S" ELSE "U") /\ sstatus.sie
      /\ sp = OwnStack(current) /\ pstate[current] = "RUNNABLE"
      /\ booting = NProcs
  BY StackFacts DEF IInv, TypeOK, HartInv, BootInv
<1> DEFINE saved == [sie |-> FALSE, spie |-> TRUE, spp |-> mode]
           f == [live |-> TRUE, pc |-> epc, a0 |-> r, sp |-> sp, sstatus |-> saved]
<1>2. /\ frame' = [frame EXCEPT ![current] = f]
      /\ ctx' = [ctx EXCEPT ![current] = "none"]
      /\ sstatus' = saved /\ mode' = "S" /\ scause' = cause
      /\ sp' = current /\ ctl' = "trap"
      /\ UNCHANGED <<pstate, pid, psp, loaded, booting, current, satp, sscratch>>
  BY <1>1 DEF Trap, procVars, TypeOK, IInv, Sstatus
<1>3. TypeOK'
  BY <1>1, TrapTyped DEF IInv
<1>4. /\ frame'[current] = f /\ ctx'[current] = "none"
      /\ \A t \in KStacks \ {current} : frame'[t] = frame[t] /\ ctx'[t] = ctx[t]
  BY <1>1, <1>2 DEF IInv, TypeOK
<1>5. TableInv' /\ BootInv' /\ IdleInv'
  BY <1>1, <1>2 DEF IInv, TableInv, BootInv, IdleInv, Booting, Users, NProcs, Slots
<1>6. HartInv'
  BY <1>1, <1>2, <1>4 DEF IInv, HartInv, Kern, OwnStack, OwnStatus
<1>7. SavedInv'
  <2> SUFFICES ASSUME NEW s \in Slots, s # current, Live(s) PROVE Saved(s)'
    BY <1>2 DEF SavedInv, Live, Slots
  <2>1. Saved(s)
    BY DEF IInv, SavedInv, Booting
  <2>2. /\ frame'[s] = frame[s] /\ ctx'[s] = ctx[s] /\ ctx'[BOOT] = ctx[BOOT]
        /\ psp'[s] = psp[s]
    BY <1>1, <1>2, <1>4, StackFacts
  <2> QED BY <2>1, <2>2 DEF Saved, NotStarted, Fresh, InTrap, OwnStack, OwnStatus
<1>8. ScanInv'
  <2>1. frame'[IDLE].live => Scanned(frame'[IDLE].pc)
    BY <1>4, StackFacts DEF IInv, ScanInv
  <2> QED BY <2>1, <1>2 DEF ScanInv, Scanned, Users, NProcs
<1> QED BY <1>3, <1>5, <1>6, <1>7, <1>8 DEF IInv

(* At the start of has_live_process() no slot has been passed.             *)
LEMMA ScannedNothing == Scanned(0)
  BY StackFacts DEF Scanned

(* A timer interrupt of user code or of the idle loop keeps the invariant. *)
LEMMA TimerTrapInv == IInv /\ TimerTrap => IInv'
<1> SUFFICES ASSUME IInv, TimerTrap PROVE IInv'
  OBVIOUS
<1> DEFINE epc == IF current = IDLE /\ pc = STALLED THEN 0 ELSE pc
<1>1. ctl = "run" /\ Trap("timer", a0, epc)
  BY DEF TimerTrap
<1>2. a0 \in Nat /\ epc \in Nat
  BY DEF IInv, TypeOK
<1>3. current = IDLE => Scanned(epc)
  BY <1>1, ScannedNothing DEF IInv, ScanInv
<1> QED BY <1>1, <1>2, <1>3, TrapInv

(* A system call or an exception of user code keeps the invariant.         *)
LEMMA UserTrapInv == ASSUME NEW c \in Exceptions, IInv, UserTrap(c) PROVE IInv'
<1>1. ctl = "run" /\ current # IDLE
  BY DEF UserTrap, UserRuns
<1>2. PICK r \in (IF c = "sleep" THEN SleepArgs ELSE {a0}) : Trap(c, r, pc)
  BY DEF UserTrap
<1>3. r \in Nat /\ pc \in Nat
  BY KernelAssumption DEF IInv, TypeOK
<1>4. c # "timer"
  BY DEF Exceptions, Syscalls, Fatal
<1> QED BY <1>1, <1>2, <1>3, TrapInv

(* The sret of a handler gives the hart back as the trap found it.         *)
LEMMA TrapReturnInv == IInv /\ TrapReturn => IInv'
<1> SUFFICES ASSUME IInv, TrapReturn PROVE IInv'
  OBVIOUS
<1> DEFINE f == frame[current]
<1>1. /\ ctl = "ret" /\ sp = current /\ current \in Slots /\ current \in KStacks
      /\ satp = current /\ sscratch = current /\ ctx[current] = "none"
      /\ f.live /\ f.sp = OwnStack(current) /\ f.sstatus = OwnStatus(current)
      /\ f \in Frame /\ booting = NProcs /\ pstate[current] = "RUNNABLE"
  BY StackFacts DEF TrapReturn, IInv, TypeOK, HartInv, BootInv, Kern
<1>2. /\ Sret(f.sstatus, f.pc, f.a0, f.sp)
      /\ frame' = [frame EXCEPT ![current] = NoFrame]
      /\ UNCHANGED <<procVars, current, satp, sscratch, stie, scause, ctx, tick_in, rx>>
  BY <1>1 DEF TrapReturn
<1>3. TypeOK'
  <2>1. /\ mode' \in {"U", "S"} /\ sstatus' \in Sstatus /\ sepc' \in Nat
        /\ pc' \in Nat /\ a0' \in Nat /\ sp' \in 0 .. USTACK /\ ctl' \in Labels
    BY <1>1, <1>2, SretTyped, FrameFacts
  <2>2. frame' \in [KStacks -> Frame]
    BY <1>1, <1>2, FrameFacts DEF IInv, TypeOK
  <2> QED BY <1>2, <2>1, <2>2 DEF IInv, TypeOK, procVars
<1>4. /\ ctl' = "run" /\ pc' = f.pc /\ sp' = OwnStack(current)
      /\ mode' = (IF current = IDLE THEN "S" ELSE "U") /\ sstatus'.sie
  BY <1>1, <1>2 DEF Sret, OwnStatus
<1>5. /\ ~ frame'[current].live
      /\ \A t \in KStacks \ {current} : frame'[t] = frame[t]
  BY <1>1, <1>2 DEF IInv, TypeOK, NoFrame
<1>6. TableInv' /\ BootInv' /\ IdleInv'
  BY <1>1, <1>2, <1>4
     DEF IInv, TableInv, BootInv, IdleInv, Booting, Users, NProcs, Slots, procVars
<1>7. HartInv'
  BY <1>1, <1>2, <1>4, <1>5 DEF HartInv, Kern, procVars, OwnStack
<1>8. SavedInv'
  <2> SUFFICES ASSUME NEW s \in Slots, s # current, Live(s) PROVE Saved(s)'
    BY <1>2 DEF SavedInv, Live, Slots, procVars
  <2>1. Saved(s)
    BY <1>1 DEF IInv, SavedInv, Booting
  <2>2. frame'[s] = frame[s] /\ UNCHANGED <<ctx, psp>>
    BY <1>2, <1>5, StackFacts DEF procVars
  <2> QED BY <2>1, <2>2 DEF Saved, NotStarted, Fresh, InTrap, OwnStack, OwnStatus
<1>9. ScanInv'
  <2>1. current = IDLE => Scanned(pc')
    BY <1>1, <1>4 DEF IInv, ScanInv
  <2>2. frame'[IDLE].live => frame'[IDLE] = frame[IDLE]
    BY <1>5, StackFacts
  <2> QED BY <2>1, <2>2, <1>2, <1>4 DEF IInv, ScanInv, Scanned, Users, NProcs, procVars
<1> QED BY <1>3, <1>6, <1>7, <1>8, <1>9 DEF IInv

(* user_entry starts a process in user mode on its user stack.             *)
LEMMA UserEntryInv == IInv /\ UserEntry => IInv'
<1> SUFFICES ASSUME IInv, UserEntry PROVE IInv'
  OBVIOUS
<1> DEFINE ss == [sie |-> FALSE, spie |-> TRUE, spp |-> "U"]
<1>1. /\ ctl = "user_entry" /\ current # IDLE /\ current \in Slots
      /\ satp = current /\ sscratch = current /\ ctx[current] = "none"
      /\ ~ frame[current].live /\ booting = NProcs /\ pstate[current] = "RUNNABLE"
      /\ arg[current] \in Nat
  BY DEF UserEntry, IInv, TypeOK, HartInv, BootInv, Kern
<1>2. /\ Sret(ss, USER_BASE, arg[current], USTACK)
      /\ UNCHANGED <<procVars, current, satp, sscratch, stie, scause, frame, ctx,
                     tick_in, rx>>
  BY DEF UserEntry
<1>3. TypeOK'
  <2>1. ss \in Sstatus /\ USTACK \in 0 .. USTACK /\ USER_BASE \in Nat
    BY KernelAssumption DEF Sstatus, USTACK, USER_BASE
  <2>2. /\ mode' \in {"U", "S"} /\ sstatus' \in Sstatus /\ sepc' \in Nat
        /\ pc' \in Nat /\ a0' \in Nat /\ sp' \in 0 .. USTACK /\ ctl' \in Labels
    BY <1>1, <1>2, <2>1, SretTyped
  <2> QED BY <1>2, <2>2 DEF IInv, TypeOK, procVars
<1>4. ctl' = "run" /\ sp' = OwnStack(current) /\ mode' = "U" /\ sstatus'.sie
  BY <1>1, <1>2 DEF Sret, OwnStack
<1>5. TableInv' /\ BootInv' /\ IdleInv' /\ ScanInv'
  BY <1>1, <1>2, <1>4 DEF IInv, TableInv, BootInv, IdleInv, ScanInv, Scanned, Booting,
                          Users, NProcs, Slots, procVars
<1>6. HartInv'
  BY <1>1, <1>2, <1>4 DEF HartInv, Kern, procVars, OwnStack
<1>7. SavedInv'
  BY <1>1, <1>2, <1>4 DEF IInv, SavedInv, Live, Saved, NotStarted, Fresh, InTrap, Booting,
                          OwnStack, OwnStatus, procVars, Slots
<1> QED BY <1>3, <1>5, <1>6, <1>7 DEF IInv

(* PANIC keeps everything as it is.  Where a handler or init_timer panics, *)
(* the current process is runnable and the others are saved or unused.     *)
LEMMA PanicInv ==
  ASSUME IInv, ctl \in {"trap", "init_timer"}, Panic
  PROVE  IInv'
<1> USE DEF Panic, procVars, hartVars
<1>1. TypeOK' /\ ctl' = "panic"
  BY DEF IInv, TypeOK, Labels
<1>2. pstate[current] = "RUNNABLE"
  BY DEF IInv, HartInv
<1>3. TableInv' /\ BootInv' /\ HartInv'
  BY <1>1, <1>2 DEF IInv, TableInv, BootInv, HartInv, Booting, Kern, Slots, NProcs, KStacks
<1>4. CASE ctl = "trap"
  <2>1. SavedInv'
    BY <1>1, <1>4 DEF IInv, SavedInv, Live, Saved, NotStarted, Fresh, InTrap, Booting,
                      OwnStack, OwnStatus, Slots
  <2>2. IdleInv' /\ ScanInv'
    BY <1>1, <1>4 DEF IInv, IdleInv, ScanInv, Scanned, Booting, Users, NProcs
  <2> QED BY <1>1, <1>3, <2>1, <2>2 DEF IInv
<1>5. CASE ctl = "init_timer"
  <2>1. current = IDLE /\ ~ frame[IDLE].live
    BY <1>5, StackFacts DEF IInv, BootInv, Booting
  <2>2. \A s \in Slots \ {IDLE} : pstate[s] = "UNUSED"
    BY <1>5 DEF IInv, TableInv, BootInv
  <2>3. SavedInv' /\ IdleInv' /\ ScanInv'
    BY <1>1, <2>1, <2>2, StackFacts DEF SavedInv, IdleInv, ScanInv, Live, Slots, Users, NProcs
  <2> QED BY <1>1, <1>3, <2>3 DEF IInv
<1> QED BY <1>4, <1>5

(* A handler moves on without touching any process.                        *)
LEMMA HandlerMovesOn ==
  ASSUME IInv, ctl = "trap", ctl' \in {"irq", "ret"}, scause' = "none", tick_in' \in Nat,
         UNCHANGED <<procVars, current, hartVars, sp, frame, ctx, rx>>
  PROVE  IInv'
<1> USE DEF procVars, hartVars
<1>1. TypeOK'
  BY DEF IInv, TypeOK, Labels
<1>2. TableInv' /\ BootInv'
  BY DEF IInv, TableInv, BootInv, Booting, Slots, NProcs, KStacks
<1>3. HartInv'
  BY DEF IInv, HartInv, Kern, OwnStack, OwnStatus
<1>4. SavedInv'
  BY DEF IInv, SavedInv, Live, Saved, NotStarted, Fresh, InTrap, Booting,
         OwnStack, OwnStatus, Slots
<1>5. IdleInv' /\ ScanInv'
  BY DEF IInv, IdleInv, ScanInv, Scanned, Booting, Users, NProcs
<1> QED BY <1>1, <1>2, <1>3, <1>4, <1>5 DEF IInv

(* Booking the next tick keeps the invariant.                              *)
LEMMA BookTickInv == IInv /\ BookTick => IInv'
<1>1. NextTick \in Nat
  BY KernelAssumption DEF NextTick
<1> QED BY <1>1, HandlerMovesOn DEF BookTick

(* A PANIC over the firmware or over the user program keeps the invariant. *)
LEMMA RefusalInv == IInv /\ (TimerRefused \/ FatalTrap) => IInv'
  BY PanicInv DEF TimerRefused, FatalTrap

(* A page fault is retried or stops the machine; either keeps the          *)
(* invariant.                                                              *)
LEMMA PageFaultInv == IInv /\ PageFault => IInv'
<1> SUFFICES ASSUME IInv, PageFault PROVE IInv'
  OBVIOUS
<1>1. ctl = "trap"
  BY DEF PageFault, InSyscall
<1>2. CASE Panic
  BY <1>1, <1>2, PanicInv
<1>3. CASE ~ Panic
  <2>1. /\ ctl' = "ret"
        /\ scause' = "none"
        /\ UNCHANGED <<procVars, current, hartVars, sp, frame, ctx, tick_in, rx>>
    BY <1>3 DEF PageFault
  <2>2. tick_in' \in Nat
    BY <2>1 DEF IInv, TypeOK
  <2> QED BY <1>1, <2>1, <2>2, HandlerMovesOn
<1> QED BY <1>2, <1>3
-----------------------------------------------------------------------------
(* User instructions, the idle loop, the environment.                      *)

(* A step that moves only the program counter of user code or of the idle  *)
(* loop, the clocks or the console, and passes no live slot of the scan.   *)
LEMMA QuietStep ==
  ASSUME IInv, TypeOK',
         UNCHANGED <<pstate, pid, psp, loaded, booting, current, ctl, mode,
                     sstatus, satp, sscratch, sp, scause, frame, ctx>>,
         ctl = "run" /\ current = IDLE => Scanned(pc')
  PROVE  IInv'
<1>1. TableInv' /\ BootInv'
  BY DEF IInv, TableInv, BootInv, Booting, Slots, NProcs, KStacks
<1>2. HartInv'
  BY DEF IInv, HartInv, Kern, OwnStack, OwnStatus
<1>3. SavedInv'
  BY DEF IInv, SavedInv, Live, Saved, NotStarted, Fresh, InTrap, Booting,
         OwnStack, OwnStatus, Slots
<1>4. IdleInv' /\ ScanInv'
  BY DEF IInv, IdleInv, ScanInv, Scanned, Booting, Users, NProcs
<1> QED BY <1>1, <1>2, <1>3, <1>4 DEF IInv

(* An instruction of user code keeps the invariant.                        *)
LEMMA UserStepInv == IInv /\ UserStep => IInv'
<1> SUFFICES ASSUME IInv, UserStep PROVE IInv'
  OBVIOUS
<1> USE DEF UserStep, UserRuns, procVars
<1>1. pc' \in Nat
  BY KernelAssumption DEF UserPc
<1>2. TypeOK'
  BY <1>1 DEF IInv, TypeOK
<1> QED BY <1>2, QuietStep

(* The passing of time keeps the invariant.                                *)
LEMMA AdvanceInv == IInv /\ Advance => IInv'
<1> SUFFICES ASSUME IInv, Advance PROVE IInv'
  OBVIOUS
<1> USE DEF Advance, hartVars
<1>1. \A t \in Nat : Less(t) \in Nat
  BY DEF Less
<1>2. wake_in' \in [Slots -> Nat] /\ tick_in' \in Nat
  BY <1>1 DEF IInv, TypeOK
<1>3. TypeOK'
  BY <1>2 DEF IInv, TypeOK
<1>4. ctl = "run" /\ current = IDLE => Scanned(pc')
  BY DEF IInv, ScanInv
<1> QED BY <1>3, <1>4, QuietStep

(* A key press keeps the invariant.                                        *)
LEMMA KeyPressedInv == IInv /\ KeyPressed => IInv'
<1> SUFFICES ASSUME IInv, KeyPressed PROVE IInv'
  OBVIOUS
<1> USE DEF KeyPressed, procVars, hartVars
<1>1. TypeOK'
  BY DEF IInv, TypeOK
<1>2. ctl = "run" /\ current = IDLE => Scanned(pc')
  BY DEF IInv, ScanInv
<1> QED BY <1>1, <1>2, QuietStep

(* A step that changes nothing keeps the invariant.                        *)
LEMMA StutterInv == IInv /\ UNCHANGED vars => IInv'
<1> SUFFICES ASSUME IInv, UNCHANGED vars PROVE IInv'
  OBVIOUS
<1> USE DEF vars, procVars, hartVars
<1>1. TypeOK'
  BY DEF IInv, TypeOK
<1>2. ctl = "run" /\ current = IDLE => Scanned(pc')
  BY DEF IInv, ScanInv
<1> QED BY <1>1, <1>2, QuietStep

(* An address of the idle loop names a slot and one of its two tests.      *)
LEMMA DivFacts ==
  ASSUME NEW a \in Nat
  PROVE  /\ a \div 2 \in Nat /\ a % 2 \in 0 .. 1
         /\ a = 2 * (a \div 2) + (a % 2)
  OBVIOUS

(* What has_live_process() has passed after one more test.                 *)
LEMMA ScanAdvances ==
  ASSUME IInv, IdleScan
  PROVE  pc' \in Nat /\ Scanned(pc')
<1> DEFINE s == pc \div 2
<1>1. /\ ctl = "run" /\ current = IDLE /\ pc < NONE_LIVE /\ pc \in Nat /\ booting = NProcs
      /\ PROCS_MAX \in Nat \ {0} /\ NONE_LIVE = 2 * PROCS_MAX /\ WFI = 2 * PROCS_MAX + 1
  BY KernelAssumption DEF IdleScan, IdleRuns, NONE_LIVE, WFI, IInv, TypeOK, BootInv
<1>2. s \in Nat /\ s < PROCS_MAX /\ pc = 2 * s + (pc % 2) /\ pc % 2 \in 0 .. 1
  BY <1>1, DivFacts
<1>3. \A u \in Users : u < s => pstate[u] = "EXITED"
  BY <1>1 DEF IInv, ScanInv, Scanned
<1>4. \A u \in Users : pid[u] = u + 1 /\ pstate[u] \in {"SLEEPING", "EXITED"}
  BY <1>1, StackFacts DEF IInv, TypeOK, TableInv, IdleInv, Booting, Users
<1>5. (2 * (s + 1)) \div 2 = s + 1 /\ (2 * s + 1) \div 2 = s
  BY <1>2
<1>6. \A u \in Users : u \in Nat
  BY StackFacts
<1>7. CASE pc' = WFI
  BY <1>1, <1>7 DEF Scanned
<1>8. CASE pc' = 2 * (s + 1) /\ (s \in Users => pstate[s] = "EXITED")
  <2>1. ASSUME NEW u \in Users, u < s + 1 PROVE pstate[u] = "EXITED"
    <3>1. u < s \/ u = s
      BY <1>2, <1>6, <2>1
    <3> QED BY <3>1, <1>3, <1>8
  <2> QED BY <1>2, <1>5, <1>8, <2>1 DEF Scanned
<1>9. CASE pc' = 2 * s + 1
  BY <1>2, <1>3, <1>5, <1>9 DEF Scanned
<1>10. \/ pc' = WFI
       \/ pc' = 2 * (s + 1) /\ (s \in Users => pstate[s] = "EXITED")
       \/ pc' = 2 * s + 1
  <2>1. CASE pid[s] <= 0
    <3>1. s \notin Users
      BY <1>4, <1>2, <2>1
    <3> QED BY <2>1, <3>1 DEF IdleScan
  <2>2. CASE ~ (pid[s] <= 0) /\ pc % 2 = 0
    BY <1>2, <2>2 DEF IdleScan
  <2>3. CASE ~ (pid[s] <= 0) /\ pc % 2 = 1
    <3>1. pc' = WFI \/ (pc' = 2 * (s + 1) /\ pstate[s] # "SLEEPING")
      BY <1>2, <2>3 DEF IdleScan, FoundLive
    <3> QED BY <1>4, <3>1
  <2> QED BY <1>2, <2>1, <2>2, <2>3
<1> QED BY <1>7, <1>8, <1>9, <1>10

(* A test of has_live_process() keeps the invariant.                       *)
LEMMA IdleScanInv == IInv /\ IdleScan => IInv'
<1> SUFFICES ASSUME IInv, IdleScan PROVE IInv'
  OBVIOUS
<1> USE DEF UnchangedInIdle, procVars
<1>1. TypeOK'
  BY ScanAdvances DEF IInv, TypeOK, IdleScan
<1> QED BY <1>1, ScanAdvances, QuietStep DEF IdleScan

(* wfi keeps the invariant: the scan starts again from the first slot.     *)
LEMMA IdleWfiInv == IInv /\ IdleWfi => IInv'
<1> SUFFICES ASSUME IInv, IdleWfi PROVE IInv'
  OBVIOUS
<1> USE DEF UnchangedInIdle, procVars
<1>1. STALLED \in Nat /\ ~ (STALLED <= NONE_LIVE) /\ pc' \in {0, STALLED}
  BY KernelAssumption DEF IdleWfi, STALLED, NONE_LIVE
<1>2. TypeOK'
  BY <1>1 DEF IInv, TypeOK, IdleWfi
<1>3. Scanned(pc')
  BY <1>1, ScannedNothing DEF Scanned
<1> QED BY <1>2, <1>3, QuietStep DEF IdleWfi

(* shutdown() is called with every slot passed.                            *)
LEMMA IdleShutdownInv == IInv /\ IdleShutdown => IInv'
<1> SUFFICES ASSUME IInv, IdleShutdown PROVE IInv'
  OBVIOUS
<1> USE DEF UnchangedInIdle, procVars, IdleShutdown, IdleRuns
<1>1. ctl' \in {"off", "panic"} /\ ctl = "run" /\ current = IDLE /\ pc = NONE_LIVE
  OBVIOUS
<1>2. TypeOK'
  BY <1>1 DEF IInv, TypeOK, Labels
<1>3. \A s \in Users : pstate[s] = "EXITED"
  <2>1. Scanned(NONE_LIVE) /\ NONE_LIVE \in Nat /\ NONE_LIVE \div 2 = PROCS_MAX
    BY <1>1, KernelAssumption DEF IInv, ScanInv, NONE_LIVE
  <2>2. \A s \in Users : s < PROCS_MAX
    BY KernelAssumption DEF Users
  <2> QED BY <2>1, <2>2 DEF Scanned
<1>4. TableInv' /\ BootInv'
  BY <1>1 DEF IInv, TableInv, BootInv, Booting, Slots, NProcs, KStacks
<1>5. HartInv'
  BY <1>1 DEF IInv, HartInv, Kern
<1>6. SavedInv'
  BY <1>1 DEF IInv, SavedInv, Live, Saved, NotStarted, Fresh, InTrap, Booting,
         OwnStack, OwnStatus, Slots
<1>7. IdleInv' /\ ScanInv'
  BY <1>1, <1>3 DEF IInv, IdleInv, ScanInv, Scanned, Booting, Users, NProcs
<1> QED BY <1>2, <1>4, <1>5, <1>6, <1>7 DEF IInv
-----------------------------------------------------------------------------
(* The invariant, and the properties that follow from it.                  *)

(* Every step of the kernel keeps the invariant.                           *)
LEMMA KernelStepInv == IInv /\ KernelStep => IInv'
<1> SUFFICES ASSUME IInv, KernelStep PROVE IInv'
  OBVIOUS
<1>1. CASE BootStep
  BY <1>1, KernelMainInv, InitTimerInv, CreateProcessInv, LoadProcessInv, BootYieldInv,
     EnterIdleLoopInv DEF BootStep
<1>2. CASE SyscallStep
  BY <1>2, SyscallInv
<1>3. CASE TrapReturn \/ UserEntry
  BY <1>3, TrapReturnInv, UserEntryInv
<1>4. CASE BookTick \/ WakeAndYield
  BY <1>4, BookTickInv, WakeAndYieldInv
<1>5. CASE TimerRefused \/ FatalTrap \/ PageFault
  BY <1>5, RefusalInv, PageFaultInv
<1> QED BY <1>1, <1>2, <1>3, <1>4, <1>5 DEF KernelStep

(* Every step of the machine keeps the invariant.                          *)
LEMMA NextInv == IInv /\ [Next]_vars => IInv'
<1> SUFFICES ASSUME IInv, [Next]_vars PROVE IInv'
  OBVIOUS
<1>1. CASE KernelStep
  BY <1>1, KernelStepInv
<1>2. CASE TimerTrap
  BY <1>2, TimerTrapInv
<1>3. CASE UserStep
  BY <1>3, UserStepInv
<1>4. CASE \E c \in Exceptions : UserTrap(c)
  BY <1>4, UserTrapInv
<1>5. CASE IdleStep
  BY <1>5, IdleScanInv, IdleShutdownInv, IdleWfiInv DEF IdleStep
<1>6. CASE KeyPressed
  BY <1>6, KeyPressedInv
<1>7. CASE Advance
  BY <1>7, AdvanceInv
<1>8. CASE StayHalted \/ UNCHANGED vars
  BY <1>8, StutterInv DEF StayHalted
<1> QED BY <1>1, <1>2, <1>3, <1>4, <1>5, <1>6, <1>7, <1>8 DEF Next, Step

(* The inductive invariant holds in every state the machine reaches.       *)
THEOREM Invariance == Spec => []IInv
  BY InitInv, NextInv, PTL DEF Spec

(* The fields of the process table, the CSRs, the registers and the saved  *)
(* frames always hold values of the kinds the code gives them.             *)
THEOREM TypeCorrect == Spec => []TypeOK
<1>1. IInv => TypeOK
  BY DEF IInv
<1> QED BY <1>1, Invariance, PTL

(* Whatever process yield() and the traps have brought to run, the hart is *)
(* set up for it and for nothing else, and its trap stack is empty.        *)
THEOREM HartIsOwned == Spec => []HartBelongsToCurrent
<1>1. IInv => HartBelongsToCurrent
  <2> SUFFICES ASSUME IInv, ctl = "run"
               PROVE  /\ satp = current
                      /\ sscratch = current
                      /\ mode = IF current = IDLE THEN "S" ELSE "U"
                      /\ sp = IF current = IDLE THEN BOOT ELSE USTACK
                      /\ loaded[current] \/ current = IDLE
                      /\ ~ frame[sscratch].live
                      /\ ctx[sscratch] \in {"none", "idle_entry"}
    BY DEF HartBelongsToCurrent
  <2>1. /\ satp = current /\ sscratch = current
        /\ mode = IF current = IDLE THEN "S" ELSE "U"
        /\ sp = IF current = IDLE THEN BOOT ELSE USTACK
        /\ ~ frame[current].live /\ ctx[current] \in {"none", "idle_entry"}
    BY DEF IInv, HartInv, OwnStack
  <2>2. loaded[current] \/ current = IDLE
    <3>1. current \in Slots /\ pstate[current] = "RUNNABLE"
      BY DEF IInv, TypeOK, HartInv
    <3> QED BY <3>1 DEF IInv, TableInv
  <2> QED BY <2>1, <2>2
<1> QED BY <1>1, Invariance, PTL

(* Every live process that is not running can be continued from the stack  *)
(* and the trap frame it left, with its own privilege.                     *)
THEOREM SavedContexts == Spec => []SavedContextsIntact
<1>1. IInv => SavedContextsIntact
  BY DEF IInv, SavedInv, SavedContextsIntact, Live, Saved, NotStarted
<1> QED BY <1>1, Invariance, PTL

(* From the mask of kernel_main on, and from trap to sret, kernel code     *)
(* runs in S-mode with interrupts masked, whatever the firmware left.      *)
THEOREM KernelIsMasked == Spec => []KernelNotInterrupted
<1>1. IInv => KernelNotInterrupted
  <2> SUFFICES ASSUME IInv, ctl \notin {"kernel_main", "run", "off", "panic"}
               PROVE  mode = "S" /\ ~ sstatus.sie
    BY DEF KernelNotInterrupted
  <2>1. ctl \in Booting \cup Kern \cup {"user_entry", "idle_loop"}
    BY DEF IInv, TypeOK, HartInv, Labels, Booting, Kern
  <2> QED BY <2>1 DEF IInv, BootInv, HartInv
<1> QED BY <1>1, Invariance, PTL

(* Nothing runs for a process that has exited or sleeps.                   *)
THEOREM RunnableRuns == Spec => []OnlyTheRunnableRun
<1>1. IInv => OnlyTheRunnableRun
  BY DEF IInv, HartInv, OnlyTheRunnableRun
<1> QED BY <1>1, Invariance, PTL

(* The idle loop never runs while a user process is runnable.              *)
THEOREM IdleIsLastResort == Spec => []IdleOnlyWhenNothingIsReady
<1>1. IInv => IdleOnlyWhenNothingIsReady
  BY DEF IInv, IdleInv, IdleOnlyWhenNothingIsReady, Booting
<1> QED BY <1>1, Invariance, PTL

(* The machine is only switched off when every user process has exited,    *)
(* although has_live_process() scans the table with interrupts enabled.    *)
THEOREM OffIsFinal == Spec => []OffOnlyWhenAllExited
<1>1. IInv => OffOnlyWhenAllExited
  BY DEF IInv, ScanInv, OffOnlyWhenAllExited
<1> QED BY <1>1, Invariance, PTL

----------------------------------------------------------------------------
(* The refinement.  What a process is doing is read off its place in the   *)
(* kernel.  Every step of the hart moves one process at most, its current  *)
(* one, in the way VirtualCpus allows, and the place of the others stays   *)
(* what it was (OtherKept), through a switch by yield() too (YieldPlaces). *)
(* ViewInv adds to IInv what is needed beside it.                          *)

(* An exception is being handled only inside its handler.                  *)
CauseInv == scause \in Exceptions => ctl \in {"trap", "panic"}

(* A process that has been created starts with its own argument.           *)
ArgInv == \A s \in 1 .. booting : arg[s] = BootArgs[s] \/ (ctl = "load" /\ s = booting)

(* Before the first switch no process has been anywhere.                   *)
UnstartedInv ==
  ctl \in Booting => \A p \in Users : psp[p] = p /\ ctx[p] \in {"none", "user_entry"}

(* A process that has been woken inside sleep has slept its time.          *)
WokenInv ==
  \A p \in Users : pstate[p] = "RUNNABLE" /\ Place(p) = "sleep_ret" => wake_in[p] = 0

ViewInv == IInv /\ CauseInv /\ ArgInv /\ UnstartedInv /\ WokenInv
-----------------------------------------------------------------------------
(* Views: what VirtualCpus sees of a process.                              *)

SameView(p) == /\ RegPc(p)' = RegPc(p) /\ RegA0(p)' = RegA0(p)
               /\ Doing(p)' = Doing(p) /\ Left(p)' = Left(p)

(* Where a process that does not run is to be continued.                   *)
Waiting == {"user_entry", "ret", "getchar", "sleep_ret"}

(* The start arguments belong to the user processes.                       *)
LEMMA ProcsAreUsers == VC!Procs = Users
  BY KernelAssumption DEF VC!Procs, Users, NProcs

(* A handler that is not the idle process's belongs to a user process.     *)
LEMMA CurrentIsUser ==
  ASSUME IInv, ctl \notin Booting, ctl # "panic", current # IDLE
  PROVE  current \in Users
  BY DEF IInv, TypeOK, TableInv, BootInv, HartInv, Booting, Users

(* A process that is not running and has not exited has its context on its *)
(* own stack, at one of the places in Waiting once it has been created.    *)
LEMMA PlaceOfOther ==
  ASSUME ViewInv, ctl # "panic", NEW p \in Users, p # current, pstate[p] # "EXITED"
  PROVE  /\ psp[p] = p /\ Place(p) = ctx[p]
         /\ ctx[p] \in Waiting \cup {"none"}
         /\ ctl \notin Booting => Live(p) /\ Saved(p) /\ ctx[p] \in Waiting
<1>1. p \in Slots \ {IDLE}
  BY StackFacts
<1>2. CASE ctl \in Booting
  BY <1>2 DEF ViewInv, UnstartedInv, Place, Waiting
<1>3. CASE ctl \notin Booting
  <2>1. booting = NProcs
    BY <1>3 DEF ViewInv, IInv, BootInv, Booting
  <2>2. Live(p)
    BY <1>1, <2>1 DEF ViewInv, IInv, TypeOK, TableInv, Users, Live
  <2>3. Saved(p)
    BY <1>1, <1>3, <2>2 DEF ViewInv, IInv, SavedInv
  <2> QED BY <1>1, <2>2, <2>3 DEF Saved, NotStarted, Fresh, InTrap, Place, Waiting
<1> QED BY <1>2, <1>3

(* What a process is doing depends on where it is, outside of handlers.    *)
LEMMA DoingByPlace ==
  ASSUME NEW p, pstate'[p] = "EXITED" <=> pstate[p] = "EXITED",
         pstate[p] # "EXITED" => /\ Place(p)' = Place(p)
                                 /\ Place(p) \notin {"trap", "panic"}
  PROVE  Doing(p)' = Doing(p)
<1>1. CASE pstate[p] = "EXITED"
  BY <1>1 DEF Doing
<1>2. CASE pstate[p] # "EXITED"
  BY <1>2 DEF Doing
<1> QED BY <1>1, <1>2

(* A process whose frame, place and clock stay has the same view.          *)
LEMMA KeepsView ==
  ASSUME NEW p, ~ Running(p), ~ Running(p)',
         frame'[p] = frame[p], Doing(p)' = Doing(p),
         Doing(p) = "asleep" => wake_in'[p] = wake_in[p]
  PROVE  SameView(p)
  BY DEF SameView, RegPc, RegA0, Left, SavedPc, SavedA0

(* A step that stays on the current process and touches only its stack     *)
(* leaves the views of the other processes alone.                          *)
LEMMA OthersKept ==
  ASSUME ViewInv, ctl # "panic", UNCHANGED <<pstate, psp, current, wake_in>>,
         \A p \in Users \ {current} : frame'[p] = frame[p] /\ ctx'[p] = ctx[p]
  PROVE  \A p \in Users \ {current} : SameView(p)
<1> SUFFICES ASSUME NEW p \in Users \ {current} PROVE SameView(p)
  OBVIOUS
<1>1. pstate[p] # "EXITED" => Place(p)' = Place(p) /\ Place(p) \notin {"trap", "panic"}
  BY PlaceOfOther DEF Place, Waiting
<1>2. Doing(p)' = Doing(p)
  BY <1>1, DoingByPlace
<1>3. ~ Running(p) /\ ~ Running(p)'
  BY DEF Running
<1> QED BY <1>2, <1>3, KeepsView

(* The state of VirtualCpus when the view of one process changes.          *)
LEMMA OneView ==
  ASSUME NEW q \in Users, \A p \in Users \ {q} : SameView(p)
  PROVE  /\ Vpc' = [Vpc EXCEPT ![q] = RegPc(q)'] /\ Vpc[q] = RegPc(q)
         /\ Va0' = [Va0 EXCEPT ![q] = RegA0(q)'] /\ Va0[q] = RegA0(q)
         /\ Vst' = [Vst EXCEPT ![q] = Doing(q)'] /\ Vst[q] = Doing(q)
         /\ Vleft' = [Vleft EXCEPT ![q] = Left(q)'] /\ Vleft[q] = Left(q)
         /\ RegPc(q)' = RegPc(q) => Vpc' = Vpc
         /\ RegA0(q)' = RegA0(q) => Va0' = Va0
         /\ Doing(q)' = Doing(q) => Vst' = Vst
         /\ Left(q)' = Left(q) => Vleft' = Vleft
  BY DEF Vpc, Va0, Vst, Vleft, SameView, Users, NProcs

(* A step that nobody can see.                                             *)
LEMMA Invisible ==
  ASSUME \A p \in Users : SameView(p), rx' = rx, Turn' = Turn, Machine' = Machine
  PROVE  UNCHANGED VC!vars
  BY DEF VC!vars, Vpc, Va0, Vst, Vleft, SameView, Users, NProcs

(* A step of one process of VirtualCpus, while the machine is on.          *)
LEMMA ProcStepIsStep ==
  ASSUME NEW q \in Users, VC!ProcStep(q), Machine = "on"
  PROVE  VC!Next
  BY ProcsAreUsers DEF VC!Next
-----------------------------------------------------------------------------
(* The switch.                                                             *)

(* yield() leaves every other process where it was, the one it continues   *)
(* included, and its caller at the label k.                                *)
LEMMA YieldPlaces ==
  ASSUME ViewInv, NEW st, NEW k, MayYield(st, k), Yield(st, k), UnchangedByYield
  PROVE  /\ \A p \in Users \ {current} : pstate[p] # "EXITED" => Place(p)' = Place(p)
         /\ \A p \in Users : p = current => Place(p)' = k
         /\ ctl \notin {"run", "panic", "off"}
         /\ ctl' \in Waiting \cup {"idle_loop", "exit_ret"}
<1> DEFINE next == PickNext(st)
<1>1. TypeOK /\ next \in Slots /\ ctl # "panic" /\ ctl \notin {"run", "off"}
  BY PickNextFacts DEF ViewInv, IInv, MayYield, Kern
<1>2. CASE next = current
  <2>1. ctl' = k /\ UNCHANGED <<current, psp, ctx>>
    BY <1>2 DEF Yield
  <2> QED BY <2>1, <1>1, PlaceOfOther DEF Place, MayYield, Waiting
<1>3. CASE next # current
  <2> DEFINE k2 == psp[next]
  <2>1. /\ current' = next
        /\ psp' = [psp EXCEPT ![current] = sp]
        /\ ctx' = [ctx EXCEPT ![sp] = k, ![k2] = "none"]
        /\ ctl' = ctx[k2]
    BY <1>3 DEF Yield, SwitchContext
  <2>2. Saved(next)
    BY <1>3, NextIsSaved DEF ViewInv
  <2>3. sp \in KStacks /\ sp \in {current, BOOT} /\ (ctl = "boot_yield" <=> sp = BOOT)
    BY StackFacts DEF ViewInv, MayYield, IInv, TypeOK, BootInv, HartInv, Kern, Booting
  <2>4. k2 \in {next, BOOT} /\ k2 \in KStacks /\ k2 # sp
    <3>1. k2 \in {next, BOOT} /\ (k2 = BOOT => next = IDLE)
      BY <2>2, <1>1, StackFacts DEF Saved, NotStarted, Fresh, InTrap
    <3>2. ctl = "boot_yield" => next # IDLE
      BY <1>3, NextIsSaved DEF ViewInv
    <3> QED BY <1>1, <1>3, <2>3, <3>1, <3>2, StackFacts DEF TypeOK
  <2>5. ASSUME NEW p \in Users \ {current}, pstate[p] # "EXITED"
        PROVE  Place(p)' = Place(p)
    <3>1. psp[p] = p /\ Place(p) = ctx[p]
      BY <1>1, <2>5, PlaceOfOther
    <3>2. CASE p = next
      BY <2>1, <3>1, <3>2 DEF Place
    <3>3. CASE p # next
      <4>1. p # sp /\ p # k2 /\ p \in KStacks /\ p \in Slots
        BY <2>3, <2>4, <2>5, <3>3, StackFacts
      <4>2. psp'[p] = p /\ ctx'[p] = ctx[p]
        BY <1>1, <2>1, <2>5, <3>1, <4>1 DEF TypeOK
      <4> QED BY <2>1, <3>1, <3>3, <4>2 DEF Place
    <3> QED BY <3>2, <3>3
  <2>6. psp'[current] = sp /\ ctx'[sp] = k
    BY <1>1, <2>1, <2>3, <2>4 DEF TypeOK
  <2>7. \A p \in Users : p = current => Place(p)' = k
    BY <1>3, <2>1, <2>6 DEF Place
  <2>8. ctl' \in Waiting \cup {"idle_loop"}
    BY <2>1, <2>2 DEF Saved, NotStarted, Fresh, InTrap, Waiting
  <2> QED BY <1>1, <2>5, <2>7, <2>8
<1> QED BY <1>2, <1>3

(* What VirtualCpus sees of a yield(): nothing of the other processes, and *)
(* of its caller where it is going to continue, if it has not exited.      *)
LEMMA YieldViews ==
  ASSUME ViewInv, NEW st, NEW k, MayYield(st, k), Yield(st, k), UnchangedByYield,
         \A p \in Users \ {current} : /\ st[p] = "EXITED" => pstate[p] = "EXITED"
                                      /\ wake_in'[p] = wake_in[p]
  PROVE  /\ \A p \in Users \ {current} : SameView(p)
         /\ \A p \in Users : p = current => /\ RegPc(p)' = RegPc(p) /\ RegA0(p)' = RegA0(p)
                                            /\ Place(p)' = k /\ pstate'[p] = st[p]
         /\ UNCHANGED <<Turn, Machine>> /\ Machine = "on" /\ Turn = IDLE
<1>1. /\ \A p \in Users \ {current} : pstate[p] # "EXITED" => Place(p)' = Place(p)
      /\ \A p \in Users : p = current => Place(p)' = k
      /\ ctl \notin {"run", "panic", "off"} /\ ctl' \notin {"run", "panic", "off"}
  BY YieldPlaces DEF Waiting
<1>2. pstate' = st /\ frame' = frame
  BY DEF Yield, UnchangedByYield
<1>3. \A p \in Users : ~ Running(p) /\ ~ Running(p)'
  BY <1>1 DEF Running
<1>4. \A p \in Users : RegPc(p)' = RegPc(p) /\ RegA0(p)' = RegA0(p)
  BY <1>2, <1>3 DEF RegPc, RegA0, SavedPc, SavedA0
<1>5. ASSUME NEW p \in Users \ {current} PROVE SameView(p)
  <2>1. pstate'[p] = "EXITED" <=> pstate[p] = "EXITED"
    BY <1>2, StackFacts DEF MayYield
  <2>2. pstate[p] # "EXITED" => Place(p) \notin {"trap", "panic"}
    BY <1>1, PlaceOfOther DEF Waiting
  <2>3. Doing(p)' = Doing(p)
    BY <1>1, <2>1, <2>2, DoingByPlace
  <2> QED BY <1>2, <1>3, <2>3, KeepsView
<1>6. UNCHANGED <<Turn, Machine>> /\ Machine = "on" /\ Turn = IDLE
  BY <1>1 DEF Turn, Machine
<1> QED BY <1>1, <1>2, <1>4, <1>5, <1>6

(* A yield() after which the current process goes on as before is          *)
(* invisible.                                                              *)
LEMMA YieldInvisible ==
  ASSUME ViewInv, NEW st, NEW k, MayYield(st, k), Yield(st, k), UnchangedByYield,
         \A p \in Users : st[p] = "EXITED" => pstate[p] = "EXITED",
         \A p \in Users \ {current} : wake_in'[p] = wake_in[p],
         current \in Users => \/ k = "ret" /\ ctl = "irq"
                              \/ k = "getchar" /\ (ctl = "getchar" \/ InSyscall("getchar")),
         rx' = rx
  PROVE  UNCHANGED VC!vars
<1>1. /\ \A p \in Users \ {current} : SameView(p)
      /\ \A p \in Users : p = current => /\ RegPc(p)' = RegPc(p) /\ RegA0(p)' = RegA0(p)
                                         /\ Place(p)' = k /\ pstate'[p] = st[p]
      /\ UNCHANGED <<Turn, Machine>> /\ Machine = "on"
  BY YieldViews
<1>2. ASSUME NEW p \in Users, p = current PROVE SameView(p)
  <2>1. pstate[p] = "RUNNABLE" /\ pstate'[p] # "EXITED" /\ ctl # "panic"
    BY <1>1, <1>2 DEF ViewInv, IInv, HartInv, MayYield, Kern
  <2>2. Place(p) = ctl /\ Place(p)' = k
    BY <1>1, <1>2 DEF Place
  <2>3. Doing(p)' = IF k = "getchar" THEN "getchar" ELSE "user"
    BY <1>2, <2>1, <2>2 DEF Doing
  <2>4. Doing(p) = IF k = "getchar" THEN "getchar" ELSE "user"
    BY <1>2, <2>1, <2>2 DEF Doing, InSyscall, Exceptions, Syscalls
  <2> QED BY <1>1, <1>2, <2>3, <2>4 DEF SameView, Left
<1>3. \A p \in Users : SameView(p)
  BY <1>1, <1>2
<1> QED BY <1>1, <1>3, Invisible
-----------------------------------------------------------------------------
(* What each step of the kernel is in VirtualCpus.                         *)

(* The yield() at the end of boot is invisible.                            *)
LEMMA BootYieldStep == ViewInv /\ BootYield => UNCHANGED VC!vars
<1> SUFFICES ASSUME ViewInv, BootYield PROVE UNCHANGED VC!vars
  OBVIOUS
<1>1. MayYield(pstate, "idle_loop")
  BY BootMayYield DEF ViewInv
<1>2. current \notin Users
  BY StackFacts DEF BootYield, ViewInv, IInv, BootInv, Booting
<1> QED BY <1>1, <1>2, YieldInvisible DEF BootYield

(* The timer interrupt, the sleepers it wakes and the switch it makes are  *)
(* invisible: a woken process is still asleep until sleep() returns.       *)
LEMMA WakeAndYieldStep == ViewInv /\ WakeAndYield => UNCHANGED VC!vars
<1> SUFFICES ASSUME ViewInv, WakeAndYield PROVE UNCHANGED VC!vars
  OBVIOUS
<1>1. MayYield(WakeExpired, "ret")
  BY TickMayYield DEF ViewInv, WakeAndYield
<1>2. \A p \in Users : WakeExpired[p] = "EXITED" => pstate[p] = "EXITED"
  BY StackFacts DEF WakeExpired
<1> QED BY <1>1, <1>2, YieldInvisible DEF WakeAndYield

(* A system call that is answered: its process goes on behind it.          *)
LEMMA FinishIsAnswer ==
  ASSUME ViewInv, ctl \in Kern, NEW c \in Users, c = current,
         NEW r, FinishSyscall(r)
  PROVE  VC!Answer(c, r) /\ Machine = "on"
<1>1. /\ frame[c] \in Frame /\ frame \in [KStacks -> Frame] /\ sp = c /\ c \in KStacks
      /\ frame[c].live /\ pstate[c] = "RUNNABLE"
  BY StackFacts DEF ViewInv, IInv, TypeOK, HartInv, Kern
<1>2. frame' = [frame EXCEPT ![c] = [frame[c] EXCEPT !.a0 = r, !.pc = @ + 1]]
  BY <1>1 DEF FinishSyscall
<1>3. frame'[c] = [frame[c] EXCEPT !.a0 = r, !.pc = @ + 1]
  BY <1>1, <1>2
<1>4. frame'[c].pc = frame[c].pc + 1 /\ frame'[c].a0 = r /\ frame'[c].live
  BY <1>1, <1>3 DEF Frame
<1>5. /\ UNCHANGED <<pstate, psp, wake_in, current, ctx>>
      /\ \A p \in Users \ {current} : frame'[p] = frame[p]
      /\ ctl' = "ret" /\ scause' = "none" /\ ctl # "panic" /\ ctl # "run" /\ ctl # "off"
  BY <1>1, <1>2, StackFacts DEF FinishSyscall, procVars, Kern
<1>6. \A p \in Users \ {c} : SameView(p)
  BY <1>5, OthersKept
<1>7. RegPc(c) = frame[c].pc /\ RegPc(c)' = frame[c].pc + 1
  BY <1>1, <1>4, <1>5 DEF RegPc, Running, SavedPc
<1>8. RegA0(c)' = r
  BY <1>4, <1>5 DEF RegA0, Running, SavedA0
<1>9. Doing(c)' = "user" /\ Left(c)' = 0 /\ Left(c) = (IF ctl = "sleep_ret" THEN wake_in[c] ELSE 0)
  <2>1. Doing(c)' = "user"
    BY <1>1, <1>5 DEF Doing, Place
  <2>2. Doing(c) = "asleep" <=> ctl = "sleep_ret"
    BY <1>1, <1>5 DEF Doing, Place, Exceptions, Syscalls, Fatal
  <2> QED BY <2>1, <2>2 DEF Left
<1>10. Left(c)' = Left(c)
  BY <1>1, <1>9 DEF ViewInv, WokenInv, Place
<1>11. UNCHANGED <<Turn, Machine>> /\ Machine = "on"
  BY <1>5 DEF Turn, Machine
<1>12. /\ Vpc' = [Vpc EXCEPT ![c] = RegPc(c)'] /\ Vpc[c] = RegPc(c)
       /\ Va0' = [Va0 EXCEPT ![c] = RegA0(c)']
       /\ Vst' = [Vst EXCEPT ![c] = Doing(c)']
       /\ Vleft' = Vleft
  BY <1>6, <1>10, OneView
<1>13. Vpc' = [Vpc EXCEPT ![c] = @ + 1]
  BY <1>7, <1>12
<1> QED BY <1>8, <1>9, <1>11, <1>12, <1>13 DEF VC!Answer

(* What is being handled, for a process that is inside a handler.          *)
LEMMA DoingInTrap ==
  ASSUME ViewInv, ctl = "trap", NEW c \in Users, c = current
  PROVE  Doing(c) = IF scause \in Exceptions THEN scause ELSE "user"
  BY DEF ViewInv, IInv, HartInv, Doing, Place

(* putchar and getpid are answered.                                        *)
LEMMA QueryStep == ViewInv /\ (SysPutchar \/ SysGetpid) => VC!Next
<1> SUFFICES ASSUME ViewInv, SysPutchar \/ SysGetpid PROVE VC!Next
  OBVIOUS
<1>1. ctl = "trap" /\ scause \in {"putchar", "getpid"}
  BY DEF SysPutchar, SysGetpid, InSyscall
<1>2. PICK c \in Users : c = current
  BY <1>1, CurrentIsUser DEF ViewInv, IInv, HartInv, Booting
<1>3. Vst[c] = scause
  BY <1>1, <1>2, DoingInTrap DEF Vst, Exceptions, Syscalls
<1>4. ctl \in Kern
  BY <1>1 DEF Kern
<1>5. CASE SysPutchar
  BY <1>2, <1>3, <1>4, <1>5, FinishIsAnswer, ProcStepIsStep
     DEF SysPutchar, InSyscall, VC!Putchar, VC!ProcStep
<1>6. CASE SysGetpid
  <2>1. pid[current] = c + 1
    BY <1>1, <1>2, StackFacts DEF ViewInv, IInv, TableInv, BootInv, Booting, Users
  <2> QED BY <1>2, <1>3, <1>4, <1>6, <2>1, FinishIsAnswer, ProcStepIsStep
          DEF SysGetpid, InSyscall, VC!Getpid, VC!ProcStep
<1> QED BY <1>5, <1>6

(* The process that blocks in a handler is put to sleep and may yield.     *)
LEMMA BlockMayYield ==
  ASSUME ViewInv, ctl \in Kern, NEW c \in Users, c = current,
         NEW ms, NEW k \in {"getchar", "sleep_ret"}, BlockCurrent(ms, k)
  PROVE  LET st == [pstate EXCEPT ![c] = "SLEEPING"] IN
         /\ MayYield(st, k) /\ Yield(st, k) /\ UnchangedByYield
         /\ \A p \in Users : st[p] = "EXITED" => pstate[p] = "EXITED"
         /\ \A p \in Users \ {current} : wake_in'[p] = wake_in[p]
         /\ wake_in'[c] = ms /\ st[c] = "SLEEPING" /\ rx' = rx
<1>1. c # IDLE /\ c \in Slots /\ Users \subseteq Slots
  BY StackFacts
<1>2. MayYield([pstate EXCEPT ![c] = "SLEEPING"], k)
  BY <1>1, MayLeave DEF ViewInv
<1> QED BY <1>1, <1>2 DEF BlockCurrent, ViewInv, IInv, TypeOK

(* getchar takes the character, or goes on waiting for one.                *)
LEMMA GetcharStep == ViewInv /\ SysGetchar => [VC!Next]_VC!vars
<1> SUFFICES ASSUME ViewInv, SysGetchar PROVE [VC!Next]_VC!vars
  OBVIOUS
<1>1. ctl = "getchar" \/ InSyscall("getchar")
  BY DEF SysGetchar
<1>2. ctl \in Kern /\ ctl \notin Booting /\ ctl # "panic" /\ current # IDLE
  BY <1>1 DEF ViewInv, IInv, HartInv, InSyscall, Booting, Kern
<1>3. PICK c \in Users : c = current
  BY <1>2, CurrentIsUser DEF ViewInv
<1>4. CASE rx # NOCHAR /\ FinishSyscall(rx) /\ rx' = NOCHAR
  <2>1. pstate[c] = "RUNNABLE"
    BY <1>2, <1>3 DEF ViewInv, IInv, HartInv, Kern
  <2>2. Vst[c] = "getchar"
    BY <1>1, <1>3, <2>1 DEF Vst, Doing, Place, InSyscall, Exceptions, Syscalls
  <2> QED BY <1>2, <1>3, <1>4, <2>2, FinishIsAnswer, ProcStepIsStep
          DEF VC!Getchar, VC!ProcStep, VC!NOCHAR, NOCHAR
<1>5. CASE BlockCurrent(PollInterval, "getchar")
  <2>1. UNCHANGED VC!vars
    BY <1>1, <1>2, <1>3, <1>5, BlockMayYield, YieldInvisible
  <2> QED BY <2>1
<1> QED BY <1>4, <1>5 DEF SysGetchar

(* sleep returns at once, or the process is asleep for the time it asked.  *)
LEMMA SleepStep == ViewInv /\ SysSleep => VC!Next
<1> SUFFICES ASSUME ViewInv, SysSleep PROVE VC!Next
  OBVIOUS
<1> DEFINE ms == frame[sp].a0 % WORD
<1>1. ctl = "trap" /\ scause = "sleep" /\ ctl \in Kern
  BY DEF SysSleep, InSyscall, Kern
<1>2. PICK c \in Users : c = current
  BY <1>1, CurrentIsUser DEF ViewInv, IInv, HartInv, Booting
<1>3. Vst[c] = "sleep" /\ Doing(c) = "sleep"
  BY <1>1, <1>2, DoingInTrap DEF Vst, Exceptions, Syscalls
<1>4. sp = c /\ frame[c].live /\ frame[c].a0 \in Nat
  BY <1>1, <1>2, StackFacts, FrameFacts DEF ViewInv, IInv, TypeOK, HartInv, Kern
<1>5. Va0[c] = frame[sp].a0
  BY <1>1, <1>4 DEF Va0, RegA0, SavedA0, Running
<1>6. ms \in Nat /\ ms < WORD /\ MAX_SLEEP = WORD \div 2 - 1 /\ WORD \div 2 \in Nat
  <2>1. WORD \in Nat \ {0}
    BY KernelAssumption
  <2>2. ms \in 0 .. WORD - 1
    BY <1>4, <2>1, ModRange
  <2>3. WORD \div 2 \in Nat
    BY <2>1, DivFacts
  <2> QED BY <2>1, <2>2, <2>3 DEF MAX_SLEEP
<1>7. VC!Sleeps(Va0[c]) <=> ~ (ms = 0 \/ ms > MAX_SLEEP)
  <2> HIDE DEF ms
  <2>1. VC!Sleeps(Va0[c]) <=> ms > 0 /\ ms < WORD \div 2
    BY <1>5 DEF VC!Sleeps, VC!Time, ms
  <2> QED BY <1>6, <2>1
<1>8. CASE ms = 0 \/ ms > MAX_SLEEP
  <2>1. FinishSyscall(0) /\ rx' = rx
    BY <1>8 DEF SysSleep
  <2>2. VC!Answer(c, 0) /\ Machine = "on"
    BY <1>1, <1>2, <2>1, FinishIsAnswer
  <2>3. VC!Sleep(c)
    BY <1>3, <1>7, <1>8, <2>1, <2>2 DEF VC!Sleep
  <2> QED BY <2>2, <2>3, ProcStepIsStep DEF VC!ProcStep
<1>9. CASE ~ (ms = 0 \/ ms > MAX_SLEEP)
  <2> DEFINE st == [pstate EXCEPT ![c] = "SLEEPING"]
  <2>1. BlockCurrent(ms, "sleep_ret")
    BY <1>9 DEF SysSleep
  <2>2. /\ MayYield(st, "sleep_ret") /\ Yield(st, "sleep_ret") /\ UnchangedByYield
        /\ \A p \in Users : st[p] = "EXITED" => pstate[p] = "EXITED"
        /\ \A p \in Users \ {current} : wake_in'[p] = wake_in[p]
        /\ wake_in'[c] = ms /\ st[c] = "SLEEPING" /\ rx' = rx
    BY <1>1, <1>2, <2>1, BlockMayYield
  <2> HIDE DEF st, ms
  <2>3. /\ \A p \in Users \ {c} : SameView(p)
        /\ RegPc(c)' = RegPc(c) /\ RegA0(c)' = RegA0(c)
        /\ Place(c)' = "sleep_ret" /\ pstate'[c] = "SLEEPING"
        /\ UNCHANGED <<Turn, Machine>> /\ Machine = "on"
    BY <1>2, <2>2, YieldViews
  <2>4. Doing(c)' = "asleep" /\ Left(c)' = ms
    BY <2>2, <2>3 DEF Doing, Left
  <2>5. /\ Vst' = [Vst EXCEPT ![c] = "asleep"] /\ Vleft' = [Vleft EXCEPT ![c] = ms]
        /\ Vpc' = Vpc /\ Va0' = Va0
    BY <2>3, <2>4, OneView
  <2>6. ms = VC!Time(Va0[c])
    BY <1>5 DEF VC!Time, ms
  <2>7. VC!Sleep(c)
    BY <1>3, <1>7, <1>9, <2>2, <2>3, <2>5, <2>6 DEF VC!Sleep
  <2> QED BY <2>3, <2>7, ProcStepIsStep DEF VC!ProcStep
<1> QED BY <1>8, <1>9

(* sleep returns to a process whose time is over.                          *)
LEMMA SleepReturnStep == ViewInv /\ SleepReturn => VC!Next
<1> SUFFICES ASSUME ViewInv, SleepReturn PROVE VC!Next
  OBVIOUS
<1>1. ctl = "sleep_ret" /\ FinishSyscall(0) /\ rx' = rx /\ ctl \in Kern
  BY DEF SleepReturn, Kern
<1>2. PICK c \in Users : c = current
  BY <1>1, CurrentIsUser DEF ViewInv, IInv, HartInv, Booting
<1>3. pstate[c] = "RUNNABLE" /\ Place(c) = "sleep_ret"
  BY <1>1, <1>2 DEF ViewInv, IInv, HartInv, Place
<1>4. Vst[c] = "asleep" /\ Vleft[c] = 0
  BY <1>3 DEF Vst, Vleft, Doing, Left, ViewInv, WokenInv
<1> QED BY <1>1, <1>2, <1>4, FinishIsAnswer, ProcStepIsStep DEF VC!Wake, VC!ProcStep

(* exit ends the process.                                                  *)
LEMMA ExitStep == ViewInv /\ SysExit => VC!Next
<1> SUFFICES ASSUME ViewInv, SysExit PROVE VC!Next
  OBVIOUS
<1>1. ctl = "trap" /\ scause = "exit" /\ ctl \in Kern
  BY DEF SysExit, InSyscall, Kern
<1>2. PICK c \in Users : c = current
  BY <1>1, CurrentIsUser DEF ViewInv, IInv, HartInv, Booting
<1>3. Vst[c] = "exit" /\ Doing(c) = "exit"
  BY <1>1, <1>2, DoingInTrap DEF Vst, Exceptions, Syscalls
<1> DEFINE st == [pstate EXCEPT ![c] = "EXITED"]
<1>4. MayYield(st, "exit_ret")
  BY <1>1, <1>2, StackFacts, MayLeave DEF ViewInv
<1>5. /\ Yield(st, "exit_ret") /\ UnchangedByYield /\ UNCHANGED <<wake_in, rx>>
      /\ st[c] = "EXITED" /\ \A p \in Users \ {current} : st[p] = pstate[p]
  BY <1>2, StackFacts DEF SysExit, ViewInv, IInv, TypeOK
<1> HIDE DEF st
<1>6. /\ \A p \in Users \ {c} : SameView(p)
      /\ RegPc(c)' = RegPc(c) /\ RegA0(c)' = RegA0(c) /\ pstate'[c] = "EXITED"
      /\ UNCHANGED <<Turn, Machine>> /\ Machine = "on"
  BY <1>2, <1>4, <1>5, YieldViews
<1>7. Doing(c)' = "exited" /\ Left(c)' = 0 /\ Left(c) = 0
  BY <1>3, <1>6 DEF Doing, Left
<1>8. VC!Exit(c)
  BY <1>3, <1>5, <1>6, <1>7, OneView DEF VC!Exit
<1> QED BY <1>6, <1>8, ProcStepIsStep DEF VC!ProcStep
-----------------------------------------------------------------------------
(* Traps, their returns, and what runs between them.                       *)

(* A trap from user code moves the registers of its process into its trap  *)
(* frame; a trap from the idle loop is invisible.                          *)
LEMMA TrapViews ==
  ASSUME ViewInv, ctl = "run", NEW cause \in Exceptions \cup {"timer"}, NEW r, NEW epc,
         Trap(cause, r, epc)
  PROVE  /\ \A p \in Users \ {current} : SameView(p)
         /\ \A p \in Users : p = current =>
              /\ RegPc(p) = pc /\ RegPc(p)' = epc
              /\ RegA0(p) = a0 /\ RegA0(p)' = r
              /\ Doing(p)' = (IF cause = "timer" THEN "user" ELSE cause)
              /\ Doing(p) = "user" /\ Left(p) = 0 /\ Left(p)' = 0
         /\ Turn = current /\ Turn' = IDLE
         /\ Machine = "on" /\ Machine' = "on" /\ rx' = rx
<1>1. /\ sscratch = current /\ current \in KStacks
      /\ frame \in [KStacks -> Frame] /\ ctx \in [KStacks -> Labels \cup {"none"}]
      /\ pstate[current] = "RUNNABLE"
  BY StackFacts DEF ViewInv, IInv, TypeOK, HartInv
<1>2. /\ UNCHANGED <<pstate, psp, current, wake_in, rx>>
      /\ frame'[current].pc = epc /\ frame'[current].a0 = r /\ frame'[current].live
      /\ \A k \in KStacks \ {current} : frame'[k] = frame[k] /\ ctx'[k] = ctx[k]
      /\ ctl' = "trap" /\ scause' = cause
  BY <1>1 DEF Trap, procVars
<1>3. \A p \in Users \ {current} : SameView(p)
  BY <1>2, OthersKept, StackFacts
<1>4. ASSUME NEW p \in Users, p = current
      PROVE  /\ RegPc(p) = pc /\ RegPc(p)' = epc /\ RegA0(p) = a0 /\ RegA0(p)' = r
             /\ Doing(p)' = (IF cause = "timer" THEN "user" ELSE cause)
             /\ Doing(p) = "user" /\ Left(p) = 0 /\ Left(p)' = 0
  <2>1. cause \notin {"exited", "asleep"} /\ ("timer" \notin Exceptions)
    BY DEF Exceptions, Syscalls, Fatal
  <2>2. Doing(p)' = (IF cause = "timer" THEN "user" ELSE cause) /\ Doing(p) = "user"
    BY <1>1, <1>2, <1>4, <2>1 DEF Doing, Place
  <2>3. Left(p) = 0 /\ Left(p)' = 0
    BY <2>1, <2>2 DEF Left
  <2> QED BY <1>2, <1>4, <2>2, <2>3 DEF RegPc, RegA0, Running, SavedPc, SavedA0
<1> QED BY <1>2, <1>3, <1>4 DEF Turn, Machine

(* A timer interrupt takes the hart away between two instructions.         *)
LEMMA TimerTrapStep == ViewInv /\ TimerTrap => [VC!Next]_VC!vars
<1> SUFFICES ASSUME ViewInv, TimerTrap PROVE [VC!Next]_VC!vars
  OBVIOUS
<1> DEFINE epc == IF current = IDLE /\ pc = STALLED THEN 0 ELSE pc
<1>1. ctl = "run" /\ Trap("timer", a0, epc)
  BY DEF TimerTrap
<1>2. /\ \A p \in Users \ {current} : SameView(p)
      /\ \A p \in Users : p = current =>
           /\ RegPc(p) = pc /\ RegPc(p)' = epc /\ RegA0(p) = a0 /\ RegA0(p)' = a0
           /\ Doing(p)' = "user" /\ Doing(p) = "user" /\ Left(p) = 0 /\ Left(p)' = 0
      /\ Turn = current /\ Turn' = IDLE /\ Machine = "on" /\ Machine' = "on" /\ rx' = rx
  BY <1>1, TrapViews
<1>3. CASE current = IDLE
  <2>1. \A p \in Users : SameView(p)
    BY <1>2, <1>3, StackFacts
  <2> QED BY <1>2, <1>3, <2>1, Invisible
<1>4. CASE current # IDLE
  <2>1. PICK c \in Users : c = current
    BY <1>1, <1>4, CurrentIsUser DEF ViewInv, Booting
  <2>2. Vpc' = Vpc /\ Va0' = Va0 /\ Vst' = Vst /\ Vleft' = Vleft
    BY <1>2, <1>4, <2>1, OneView
  <2> QED BY <1>2, <2>1, <2>2, ProcStepIsStep
          DEF VC!ProcStep, VC!Preempt, VC!NOBODY, IDLE
<1> QED BY <1>3, <1>4

(* A system call or an exception of a user program begins.                 *)
LEMMA UserTrapStep == ASSUME NEW cause \in Exceptions, ViewInv, UserTrap(cause) PROVE VC!Next
<1>1. ctl = "run" /\ current # IDLE
  BY DEF UserTrap, UserRuns
<1>2. PICK c \in Users : c = current
  BY <1>1, CurrentIsUser DEF ViewInv, Booting
<1>3. PICK r \in (IF cause = "sleep" THEN SleepArgs ELSE {a0}) : Trap(cause, r, pc)
  BY DEF UserTrap
<1>4. cause # "timer" /\ cause \in VC!Requests \cup VC!Faults \cup VC!Fatal
  BY DEF Exceptions, Syscalls, Fatal, VC!Requests, VC!Queries, VC!Faults, VC!Fatal
<1>5. /\ \A p \in Users \ {c} : SameView(p)
      /\ RegPc(c)' = RegPc(c) /\ RegA0(c) = a0 /\ RegA0(c)' = r
      /\ Doing(c)' = cause /\ Left(c)' = Left(c)
      /\ Turn = c /\ Turn' = IDLE /\ Machine = "on" /\ Machine' = "on" /\ rx' = rx
  BY <1>1, <1>2, <1>3, <1>4, TrapViews
<1>6. /\ Vpc' = Vpc /\ Vleft' = Vleft /\ Vst' = [Vst EXCEPT ![c] = cause]
      /\ Va0' = [Va0 EXCEPT ![c] = r] /\ (cause # "sleep" => Va0' = Va0)
  BY <1>2, <1>3, <1>5, OneView
<1>7. VC!Enter(c, cause)
  BY <1>3, <1>5, <1>6 DEF VC!Enter, VC!NOBODY, IDLE
<1> QED BY <1>4, <1>5, <1>7, ProcStepIsStep DEF VC!ProcStep

(* An instruction of a user program.                                       *)
LEMMA UserStepStep == ViewInv /\ UserStep => VC!Next
<1> SUFFICES ASSUME ViewInv, UserStep PROVE VC!Next
  OBVIOUS
<1>1. /\ ctl = "run" /\ current # IDLE /\ pc' \in 0 .. LAST_PC
      /\ UNCHANGED <<pstate, psp, wake_in, current, ctl, a0, scause, frame, ctx, rx>>
  BY DEF UserStep, UserRuns, UserPc, procVars
<1>2. PICK c \in Users : c = current
  BY <1>1, CurrentIsUser DEF ViewInv, Booting
<1>3. \A p \in Users \ {c} : SameView(p)
  BY <1>1, <1>2, OthersKept
<1>4. RegPc(c)' = pc' /\ RegA0(c)' = RegA0(c) /\ Doing(c)' = Doing(c) /\ Left(c)' = Left(c)
  BY <1>1, <1>2 DEF RegPc, RegA0, Running, Doing, Place, Left
<1>5. Turn = c /\ Turn' = Turn /\ Machine = "on" /\ Machine' = Machine
  BY <1>1, <1>2 DEF Turn, Machine
<1>6. /\ Vpc' = [Vpc EXCEPT ![c] = pc']
      /\ Va0' = Va0 /\ Vst' = Vst /\ Vleft' = Vleft
  BY <1>3, <1>4, OneView
<1>7. VC!Execute(c)
  BY <1>1, <1>5, <1>6 DEF VC!Execute
<1> QED BY <1>5, <1>7, ProcStepIsStep DEF VC!ProcStep

(* The hart is given to a process with the registers it had.               *)
LEMMA GivesHart ==
  ASSUME ViewInv, ctl \in {"ret", "user_entry"}, ctl' = "run",
         UNCHANGED <<procVars, current, scause, ctx, rx>>,
         \A p \in Users \ {current} : frame'[p] = frame[p],
         \A p \in Users : p = current => pc' = SavedPc(p) /\ a0' = SavedA0(p)
  PROVE  [VC!Next]_VC!vars
<1> USE DEF procVars
<1>1. \A p \in Users \ {current} : SameView(p)
  BY OthersKept
<1>2. Machine = "on" /\ Machine' = "on" /\ Turn = IDLE /\ Turn' = current
  BY DEF Turn, Machine
<1>3. CASE current = IDLE
  <2>1. \A p \in Users : SameView(p)
    BY <1>1, <1>3, StackFacts
  <2> QED BY <1>2, <1>3, <2>1, Invisible
<1>4. CASE current # IDLE
  <2>1. PICK c \in Users : c = current
    BY <1>4, CurrentIsUser DEF ViewInv, Booting
  <2>2. RegPc(c)' = RegPc(c) /\ RegA0(c)' = RegA0(c)
    BY <2>1 DEF RegPc, RegA0, Running
  <2>3. pstate[c] = "RUNNABLE"
    BY <2>1 DEF ViewInv, IInv, HartInv
  <2>4. Doing(c) = "user" /\ Doing(c)' = "user"
    BY <2>1, <2>3 DEF Doing, Place
  <2>5. Left(c)' = Left(c)
    BY <2>4 DEF Left
  <2>6. Vpc' = Vpc /\ Va0' = Va0 /\ Vst' = Vst /\ Vleft' = Vleft /\ Vst[c] = "user"
    BY <1>1, <2>1, <2>2, <2>4, <2>5, OneView
  <2> QED BY <1>2, <2>1, <2>6, ProcStepIsStep
          DEF VC!ProcStep, VC!Dispatch, VC!NOBODY, IDLE
<1> QED BY <1>3, <1>4

(* The sret at the end of a handler.                                       *)
LEMMA TrapReturnStep == ViewInv /\ TrapReturn => [VC!Next]_VC!vars
<1> SUFFICES ASSUME ViewInv, TrapReturn PROVE [VC!Next]_VC!vars
  OBVIOUS
<1>1. ctl = "ret" /\ sp = current /\ frame[current].live
  BY DEF TrapReturn, ViewInv, IInv, HartInv, Kern
<1>2. pc' = frame[current].pc /\ a0' = frame[current].a0 /\ ctl' = "run"
  BY <1>1 DEF TrapReturn, Sret
<1>3. \A p \in Users \ {current} : frame'[p] = frame[p]
  BY <1>1, StackFacts DEF TrapReturn, ViewInv, IInv, TypeOK
<1> QED BY <1>1, <1>2, <1>3, GivesHart DEF TrapReturn, SavedPc, SavedA0

(* The sret of user_entry, with the start argument of the process.         *)
LEMMA UserEntryStep == ViewInv /\ UserEntry => [VC!Next]_VC!vars
<1> SUFFICES ASSUME ViewInv, UserEntry PROVE [VC!Next]_VC!vars
  OBVIOUS
<1>1. ctl = "user_entry" /\ current # IDLE /\ ~ frame[current].live
  BY DEF UserEntry, ViewInv, IInv, HartInv
<1>2. current \in Users /\ booting = NProcs
  BY <1>1, CurrentIsUser DEF ViewInv, IInv, BootInv, Booting
<1>3. arg[current] = BootArgs[current]
  BY <1>1, <1>2 DEF ViewInv, ArgInv, Users
<1>4. pc' = USER_BASE /\ a0' = BootArgs[current] /\ ctl' = "run"
  BY <1>3 DEF UserEntry, Sret
<1> QED BY <1>1, <1>4, GivesHart DEF UserEntry, SavedPc, SavedA0
-----------------------------------------------------------------------------
(* Boot, handlers that go on or panic, the idle loop and the environment.  *)

(* What VirtualCpus sees before the first switch.                          *)
AtStart ==
  /\ Vpc = [p \in Users |-> USER_BASE] /\ Va0 = [p \in Users |-> BootArgs[p]]
  /\ Vst = [p \in Users |-> "user"] /\ Vleft = [p \in Users |-> 0]
  /\ Turn = IDLE /\ Machine = "on"

(* Throughout boot every process has the state it starts with.             *)
LEMMA BootViews == ViewInv /\ ctl \in Booting => AtStart
<1> SUFFICES ASSUME ViewInv, ctl \in Booting PROVE AtStart
  OBVIOUS
<1>1. current = IDLE /\ \A k \in KStacks : ~ frame[k].live
  BY DEF ViewInv, IInv, BootInv
<1>2. ctl \notin {"run", "off", "panic"}
  BY DEF Booting
<1>3. ASSUME NEW p \in Users
      PROVE  /\ RegPc(p) = USER_BASE /\ RegA0(p) = BootArgs[p]
             /\ Doing(p) = "user" /\ Left(p) = 0
  <2>1. p # current /\ p \in KStacks /\ p \in Slots \ {IDLE}
    BY <1>1, StackFacts
  <2>2. pstate[p] # "EXITED"
    BY <2>1 DEF ViewInv, IInv, TypeOK, TableInv, BootInv
  <2>3. Place(p) \in {"none", "user_entry"}
    BY <2>1 DEF ViewInv, UnstartedInv, Place
  <2>4. Doing(p) = "user"
    BY <2>2, <2>3 DEF Doing
  <2> QED BY <1>1, <2>1, <2>4 DEF RegPc, RegA0, Left, Running, SavedPc, SavedA0
<1> QED BY <1>1, <1>2, <1>3 DEF AtStart, Vpc, Va0, Vst, Vleft, Turn, Machine

(* Boot is invisible, until the first switch.                              *)
LEMMA BootInvisible ==
  (ViewInv /\ ctl \in Booting) /\ (ViewInv /\ ctl \in Booting)' /\ rx' = rx
    => UNCHANGED VC!vars
<1>1. (ViewInv /\ ctl \in Booting)' => AtStart'
  BY BootViews, PTL
<1>2. AtStart /\ AtStart' /\ rx' = rx => UNCHANGED VC!vars
  BY DEF AtStart, VC!vars, Users, NProcs, USER_BASE, IDLE
<1> QED BY <1>1, <1>2, BootViews

(* A step of the boot context or of the idle loop is invisible.            *)
LEMMA IdleInvisible ==
  ASSUME ViewInv, current = IDLE, ctl \in {"idle_loop", "run"}, ctl' \in {"idle_loop", "run"},
         UNCHANGED <<procVars, current, frame, ctx, rx>>
  PROVE  UNCHANGED VC!vars
<1>1. \A p \in Users : SameView(p)
  BY OthersKept, StackFacts DEF procVars
<1>2. UNCHANGED <<Turn, Machine>>
  BY DEF Turn, Machine
<1> QED BY <1>1, <1>2, Invisible

(* Booking the next tick is invisible, as all of the interrupt is.         *)
LEMMA BookTickStep == ViewInv /\ BookTick => UNCHANGED VC!vars
<1> SUFFICES ASSUME ViewInv, BookTick PROVE UNCHANGED VC!vars
  OBVIOUS
<1>1. /\ ctl = "trap" /\ scause = "timer" /\ ctl' = "irq"
      /\ UNCHANGED <<pstate, psp, wake_in, current, frame, ctx, rx>>
  BY DEF BookTick, procVars
<1>2. \A p \in Users \ {current} : SameView(p)
  BY <1>1, OthersKept
<1>3. ASSUME NEW p \in Users, p = current PROVE SameView(p)
  <2>1. Doing(p)' = Doing(p)
    BY <1>1, <1>3 DEF Doing, Place, Exceptions, Syscalls, Fatal
  <2> QED BY <1>1, <2>1, KeepsView DEF Running
<1>4. \A p \in Users : SameView(p)
  BY <1>2, <1>3
<1> QED BY <1>1, <1>4, Invisible DEF Turn, Machine

(* A PANIC for one of the causes VirtualCpus allows.                       *)
LEMMA PanicStep ==
  ASSUME ViewInv, ctl \in {"trap", "init_timer"}, Panic,
         SbiMayFail \/ \E p \in Users : Doing(p) \in Fatal \cup {"fault"}
  PROVE  VC!Next
<1>1. /\ ctl \notin {"run", "off", "panic"} /\ ctl' = "panic"
      /\ UNCHANGED <<pstate, psp, wake_in, current, scause, frame, ctx, rx>>
  BY DEF Panic, procVars
<1>2. \A p \in Users \ {current} : SameView(p)
  BY <1>1, OthersKept
<1>3. ASSUME NEW p \in Users, p = current PROVE SameView(p)
  <2>1. ctl = "trap"
    BY <1>3, StackFacts DEF ViewInv, IInv, BootInv, Booting
  <2>2. Doing(p)' = Doing(p)
    BY <1>1, <1>3, <2>1 DEF Doing, Place
  <2> QED BY <1>1, <2>2, KeepsView DEF Running
<1>4. UNCHANGED <<Vpc, Va0, Vst, Vleft>>
  BY <1>2, <1>3 DEF Vpc, Va0, Vst, Vleft, SameView, Users, NProcs
<1>5. Turn = IDLE /\ Turn' = IDLE /\ Machine = "on" /\ Machine' = "failed"
  BY <1>1 DEF Turn, Machine
<1>6. SbiMayFail \/ \E p \in VC!Procs : Vst[p] \in VC!Fatal \cup VC!Faults
  BY ProcsAreUsers DEF Vst, Fatal, VC!Fatal, VC!Faults
<1>7. VC!Fail
  BY <1>1, <1>4, <1>5, <1>6 DEF VC!Fail, VC!NOBODY, IDLE
<1> QED BY <1>5, <1>7 DEF VC!Next

(* The firmware refuses a timer call.                                      *)
LEMMA TimerRefusedStep == ViewInv /\ TimerRefused => VC!Next
  BY PanicStep DEF TimerRefused

(* A user program does what the kernel does not serve.                     *)
LEMMA FatalTrapStep == ViewInv /\ FatalTrap => VC!Next
<1> SUFFICES ASSUME ViewInv, FatalTrap PROVE VC!Next
  OBVIOUS
<1>1. ctl = "trap" /\ scause \in Fatal /\ scause \in Exceptions /\ scause # "timer"
  BY DEF FatalTrap, Fatal, Exceptions
<1>2. PICK c \in Users : c = current
  BY <1>1, CurrentIsUser DEF ViewInv, IInv, HartInv, Booting
<1>3. Doing(c) = scause
  BY <1>1, <1>2, DoingInTrap
<1> QED BY <1>1, <1>3, PanicStep DEF FatalTrap

(* A page fault is served and the access retried, or memory is exhausted.  *)
LEMMA PageFaultStep == ViewInv /\ PageFault => VC!Next
<1> SUFFICES ASSUME ViewInv, PageFault PROVE VC!Next
  OBVIOUS
<1>1. ctl = "trap" /\ scause = "fault" /\ "fault" \in Exceptions
  BY DEF PageFault, InSyscall, Exceptions
<1>2. PICK c \in Users : c = current
  BY <1>1, CurrentIsUser DEF ViewInv, IInv, HartInv, Booting
<1>3. Doing(c) = "fault"
  BY <1>1, <1>2, DoingInTrap
<1>4. CASE Panic
  BY <1>1, <1>3, <1>4, PanicStep
<1>5. CASE ~ Panic
  <2>1. /\ ctl' = "ret" /\ scause' = "none"
        /\ UNCHANGED <<pstate, psp, wake_in, current, frame, ctx, rx>>
    BY <1>5 DEF PageFault, procVars
  <2>2. \A p \in Users \ {c} : SameView(p)
    BY <1>1, <1>2, <2>1, OthersKept
  <2>3. pstate[c] = "RUNNABLE"
    BY <1>1, <1>2 DEF ViewInv, IInv, HartInv
  <2>4. Doing(c)' = "user"
    BY <1>2, <2>1, <2>3 DEF Doing, Place
  <2>5. RegPc(c)' = RegPc(c) /\ RegA0(c)' = RegA0(c) /\ Left(c)' = Left(c)
    BY <1>1, <1>3, <2>1, <2>4 DEF RegPc, RegA0, Left, Running, SavedPc, SavedA0
  <2>6. Turn' = Turn /\ Machine' = Machine /\ Machine = "on"
    BY <1>1, <2>1 DEF Turn, Machine
  <2>7. VC!Retry(c)
    BY <1>3, <2>1, <2>2, <2>4, <2>5, <2>6, OneView DEF VC!Retry, VC!Faults
  <2> QED BY <2>6, <2>7, ProcStepIsStep DEF VC!ProcStep
<1> QED BY <1>4, <1>5

(* The power goes off when all have exited, or the firmware refuses it.    *)
LEMMA IdleShutdownStep == ViewInv /\ IInv' /\ IdleShutdown => VC!Next
<1> SUFFICES ASSUME ViewInv, IInv', IdleShutdown PROVE VC!Next
  OBVIOUS
<1>1. /\ ctl = "run" /\ current = IDLE
      /\ ctl' = "off" \/ (SbiMayFail /\ ctl' = "panic")
      /\ UNCHANGED <<pstate, psp, wake_in, current, scause, frame, ctx, rx>>
  BY DEF IdleShutdown, IdleRuns, UnchangedInIdle, procVars
<1>2. \A p \in Users : SameView(p)
  BY <1>1, OthersKept, StackFacts
<1>3. UNCHANGED <<Vpc, Va0, Vst, Vleft>>
  BY <1>2 DEF Vpc, Va0, Vst, Vleft, SameView, Users, NProcs
<1>4. Turn = IDLE /\ Turn' = IDLE /\ Machine = "on"
  BY <1>1 DEF Turn, Machine
<1>5. CASE ctl' = "off"
  <2>1. \A p \in Users : pstate'[p] = "EXITED"
    BY <1>5 DEF IInv, ScanInv, Users, NProcs
  <2>2. \A p \in VC!Procs : Vst[p] = "exited"
    BY <1>1, <2>1, ProcsAreUsers DEF Vst, Doing
  <2>3. VC!PowerOff
    BY <1>1, <1>3, <1>4, <1>5, <2>2 DEF VC!PowerOff, Machine
  <2> QED BY <1>4, <2>3 DEF VC!Next
<1>6. CASE SbiMayFail /\ ctl' = "panic"
  <2>1. VC!Fail
    BY <1>1, <1>3, <1>4, <1>6 DEF VC!Fail, VC!NOBODY, IDLE, Machine
  <2> QED BY <1>4, <2>1 DEF VC!Next
<1> QED BY <1>1, <1>5, <1>6

(* Time passes for those who sleep.                                        *)
LEMMA AdvanceStep == ViewInv /\ Advance => VC!Next
<1> SUFFICES ASSUME ViewInv, Advance PROVE VC!Next
  OBVIOUS
<1>1. /\ ctl \notin {"off", "panic"}
      /\ wake_in' = [s \in Slots |-> Less(wake_in[s])]
      /\ UNCHANGED <<pstate, psp, current, ctl, pc, a0, scause, frame, ctx, rx>>
  BY DEF Advance, Halted, hartVars
<1>2. ASSUME NEW p \in Users
      PROVE  /\ RegPc(p)' = RegPc(p) /\ RegA0(p)' = RegA0(p) /\ Doing(p)' = Doing(p)
             /\ Left(p)' = IF Left(p) > 0 THEN Left(p) - 1 ELSE 0
  <2>1. wake_in'[p] = Less(wake_in[p])
    BY <1>1, StackFacts
  <2>2. Doing(p)' = Doing(p)
    BY <1>1 DEF Doing, Place
  <2> QED BY <1>1, <2>1, <2>2 DEF RegPc, RegA0, Running, SavedPc, SavedA0, Left, Less
<1>3. /\ Vleft' = [p \in Users |-> IF Vleft[p] > 0 THEN Vleft[p] - 1 ELSE 0]
      /\ UNCHANGED <<Vpc, Va0, Vst>>
  BY <1>2 DEF Vpc, Va0, Vst, Vleft, Users, NProcs
<1>4. Machine = "on" /\ UNCHANGED <<Turn, Machine>>
  BY <1>1 DEF Turn, Machine
<1>5. VC!TimePasses
  BY <1>1, <1>3, <1>4, ProcsAreUsers DEF VC!TimePasses
<1> QED BY <1>4, <1>5 DEF VC!Next

(* A key is pressed.                                                       *)
LEMMA KeyPressedStep == ViewInv /\ KeyPressed => VC!Next
<1> SUFFICES ASSUME ViewInv, KeyPressed PROVE VC!Next
  OBVIOUS
<1>1. /\ ctl \notin {"off", "panic"} /\ rx = NOCHAR /\ rx' \in Chars
      /\ UNCHANGED <<pstate, psp, wake_in, current, ctl, pc, a0, scause, frame, ctx>>
  BY DEF KeyPressed, Halted, hartVars, procVars
<1>2. UNCHANGED <<Vpc, Va0, Vst, Vleft, Turn, Machine>> /\ Machine = "on"
  BY <1>1 DEF Vpc, Va0, Vst, Vleft, RegPc, RegA0, Doing, Left, Place, Running, SavedPc,
              SavedA0, Turn, Machine, Users, NProcs
<1>3. VC!Key
  BY <1>1, <1>2 DEF VC!Key, VC!NOCHAR, NOCHAR
<1> QED BY <1>2, <1>3 DEF VC!Next
-----------------------------------------------------------------------------
(* ViewInv is an invariant.                                                *)

(* Only a trap brings an exception to handle, and handling it clears it.   *)
LEMMA CauseStep == ViewInv /\ [Next]_vars => CauseInv'
<1> SUFFICES ASSUME ViewInv, [Next]_vars PROVE CauseInv'
  OBVIOUS
<1> USE DEF ViewInv, CauseInv
<1>1. CASE BootStep
  BY <1>1, FirstFreeFacts
     DEF BootStep, KernelMain, InitTimer, CreateProcess, LoadProcess, BootYield, EnterIdleLoop
<1>2. CASE SyscallStep
  BY <1>2 DEF SyscallStep, SysPutchar, SysGetpid, SysGetchar, SysSleep, SleepReturn, SysExit,
              FinishSyscall, BlockCurrent, Exceptions, Syscalls, Fatal
<1>3. CASE TrapReturn \/ UserEntry \/ BookTick \/ WakeAndYield
  BY <1>3 DEF TrapReturn, UserEntry, BookTick, WakeAndYield, Exceptions, Syscalls, Fatal
<1>4. CASE TimerRefused \/ FatalTrap \/ PageFault
  BY <1>4 DEF TimerRefused, FatalTrap, PageFault, Panic, Exceptions, Syscalls, Fatal
<1>5. CASE TimerTrap \/ \E c \in Exceptions : UserTrap(c)
  BY <1>5 DEF TimerTrap, UserTrap, Trap
<1>6. CASE UserStep \/ IdleStep
  BY <1>6 DEF UserStep, UserRuns, IdleStep, IdleScan, IdleWfi, IdleShutdown, IdleRuns,
              UnchangedInIdle
<1>7. CASE KeyPressed \/ Advance \/ StayHalted \/ UNCHANGED vars
  BY <1>7 DEF KeyPressed, Advance, StayHalted, vars
<1> QED BY <1>1, <1>2, <1>3, <1>4, <1>5, <1>6, <1>7 DEF Next, Step, KernelStep

(* The argument of a process is set before the next one is created, and    *)
(* stays.                                                                  *)
LEMMA ArgStep == ViewInv /\ [Next]_vars => ArgInv'
<1> SUFFICES ASSUME ViewInv, [Next]_vars PROVE ArgInv'
  OBVIOUS
<1>1. CASE CreateProcess
  <2>1. /\ ctl = "create" /\ ctl' = "load" /\ booting' = booting + 1
        /\ arg' = [arg EXCEPT ![booting + 1] = 0]
        /\ booting \in 0 .. NProcs /\ booting \in Nat
    BY <1>1, FirstFreeFacts, StackFacts DEF CreateProcess, ViewInv, IInv, TableInv
  <2>2. \A s \in 1 .. booting : arg[s] = BootArgs[s]
    BY <2>1 DEF ViewInv, ArgInv
  <2>3. \A s \in 1 .. booting + 1 : s = booting + 1 \/ (s \in 1 .. booting /\ arg'[s] = arg[s])
    BY <2>1 DEF ViewInv, IInv, TypeOK
  <2> QED BY <2>1, <2>2, <2>3 DEF ArgInv
<1>2. CASE LoadProcess
  <2>1. arg' = [arg EXCEPT ![booting] = BootArgs[booting]] /\ booting' = booting
    BY <1>2 DEF LoadProcess
  <2>2. \A s \in 1 .. booting : s # booting => arg[s] = BootArgs[s]
    BY DEF ViewInv, ArgInv
  <2>3. booting \in Slots
    BY DEF ViewInv, IInv, TypeOK
  <2> QED BY <2>1, <2>2, <2>3 DEF ArgInv, ViewInv, IInv, TypeOK
<1>3. CASE UNCHANGED <<arg, booting>> /\ (ctl' = ctl \/ ctl # "load")
  BY <1>3 DEF ViewInv, ArgInv
<1>4. CASE KernelMain \/ InitTimer \/ BootYield \/ EnterIdleLoop
  BY <1>3, <1>4 DEF KernelMain, InitTimer, BootYield, EnterIdleLoop, UnchangedByYield, procVars
<1>5. CASE SyscallStep
  BY <1>3, <1>5 DEF SyscallStep, SysPutchar, SysGetpid, SysGetchar, SysSleep, SleepReturn,
                    SysExit, InSyscall, FinishSyscall, BlockCurrent, UnchangedByYield, procVars
<1>6. CASE TrapReturn \/ UserEntry \/ BookTick \/ WakeAndYield
  BY <1>3, <1>6 DEF TrapReturn, UserEntry, BookTick, WakeAndYield, UnchangedByYield, procVars
<1>7. CASE TimerRefused \/ FatalTrap \/ PageFault
  BY <1>3, <1>7 DEF TimerRefused, FatalTrap, PageFault, InSyscall, Panic, procVars
<1>8. CASE TimerTrap \/ \E c \in Exceptions : UserTrap(c)
  BY <1>3, <1>8 DEF TimerTrap, UserTrap, UserRuns, Trap, procVars
<1>9. CASE UserStep \/ IdleStep
  BY <1>3, <1>9 DEF UserStep, UserRuns, IdleStep, IdleScan, IdleWfi, IdleShutdown, IdleRuns,
                    UnchangedInIdle, procVars
<1>10. CASE KeyPressed \/ Advance \/ StayHalted \/ UNCHANGED vars
  BY <1>3, <1>10 DEF KeyPressed, Advance, StayHalted, vars, procVars
<1> QED BY <1>1, <1>2, <1>4, <1>5, <1>6, <1>7, <1>8, <1>9, <1>10
        DEF Next, Step, KernelStep, BootStep

(* Once boot is over it does not begin again.                              *)
LEMMA BootEnds ==
  ASSUME ViewInv, [Next]_vars, ctl' \in Booting
  PROVE  \/ KernelMain \/ InitTimer \/ CreateProcess \/ LoadProcess
         \/ ctl \in Booting /\ UNCHANGED <<psp, ctx, current>>
<1>1. \A st, k : MayYield(st, k) /\ Yield(st, k) /\ UnchangedByYield => FALSE
  BY YieldPlaces DEF Booting, Waiting
<1>2. ~ BootYield /\ ~ EnterIdleLoop
  <2>1. BootYield => MayYield(pstate, "idle_loop")
    BY BootMayYield DEF ViewInv
  <2> QED BY <1>1, <2>1 DEF BootYield, EnterIdleLoop, Booting
<1>3. ~ WakeAndYield
  BY <1>1, TickMayYield DEF WakeAndYield, ViewInv
<1>4. ~ SyscallStep
  <2>1. ASSUME NEW r, FinishSyscall(r) PROVE FALSE
    BY <2>1 DEF FinishSyscall, Booting
  <2>2. ASSUME NEW ms, NEW k \in {"getchar", "sleep_ret"}, BlockCurrent(ms, k),
               ctl \in Kern, current # IDLE
        PROVE  FALSE
    <3>1. current \in Users
      BY <2>2, CurrentIsUser DEF ViewInv, Kern, Booting
    <3> QED BY <1>1, <2>2, <3>1, BlockMayYield
  <2>3. (ctl = "getchar" \/ (ctl = "trap" /\ scause # "timer")) => ctl \in Kern /\ current # IDLE
    BY DEF ViewInv, IInv, HartInv, Kern
  <2>4. ~ SysExit
    BY <1>1, <2>3, MayLeave DEF SysExit, InSyscall, ViewInv
  <2> QED BY <2>1, <2>2, <2>3, <2>4
          DEF SyscallStep, SysPutchar, SysGetpid, SysGetchar, SysSleep, SleepReturn, InSyscall
<1>5. ~ (TrapReturn \/ UserEntry \/ BookTick)
  BY DEF TrapReturn, UserEntry, Sret, BookTick, Booting
<1>6. ~ (TimerRefused \/ FatalTrap \/ PageFault)
  BY DEF TimerRefused, FatalTrap, PageFault, Panic, Booting
<1>7. ~ TimerTrap /\ ~ \E c \in Exceptions : UserTrap(c)
  BY DEF TimerTrap, UserTrap, Trap, Booting
<1>8. ~ UserStep /\ ~ IdleStep
  BY DEF UserStep, UserRuns, IdleStep, IdleScan, IdleWfi, IdleShutdown, IdleRuns, Booting
<1>9. KeyPressed \/ Advance \/ StayHalted \/ UNCHANGED vars =>
        ctl \in Booting /\ UNCHANGED <<psp, ctx, current>>
  BY DEF KeyPressed, Advance, StayHalted, vars, procVars
<1> QED BY <1>2, <1>3, <1>4, <1>5, <1>6, <1>7, <1>8, <1>9
        DEF Next, Step, KernelStep, BootStep

(* No process goes anywhere during boot.                                   *)
LEMMA UnstartedStep == ViewInv /\ [Next]_vars => UnstartedInv'
<1> SUFFICES ASSUME ViewInv, [Next]_vars, ctl' \in Booting, NEW p \in Users
             PROVE  psp'[p] = p /\ ctx'[p] \in {"none", "user_entry"}
  BY DEF UnstartedInv, Users, NProcs
<1>1. p \in Slots \ {IDLE} /\ p \in KStacks
  BY StackFacts
<1>2. psp \in [Slots -> KStacks] /\ ctx \in [KStacks -> Labels \cup {"none"}]
  BY DEF ViewInv, IInv, TypeOK
<1>3. CASE CreateProcess
  <2>1. /\ ctl \in Booting
        /\ psp' = [psp EXCEPT ![booting + 1] = booting + 1]
        /\ ctx' = [ctx EXCEPT ![booting + 1] = "user_entry"]
    BY <1>3, FirstFreeFacts DEF CreateProcess, ViewInv, Booting
  <2> QED BY <1>1, <1>2, <2>1 DEF ViewInv, UnstartedInv
<1>4. CASE KernelMain
  BY <1>1, <1>2, <1>4 DEF KernelMain, ViewInv, UnstartedInv, Booting
<1>5. CASE InitTimer \/ LoadProcess \/ (ctl \in Booting /\ UNCHANGED <<psp, ctx, current>>)
  BY <1>5 DEF InitTimer, LoadProcess, procVars, ViewInv, UnstartedInv, Booting
<1> QED BY <1>3, <1>4, <1>5, BootEnds

(* A switch keeps WokenInv: who is woken inside sleep has slept his time,  *)
(* and the caller does not stay runnable inside sleep.                     *)
LEMMA YieldWoken ==
  ASSUME ViewInv, NEW st, NEW k, MayYield(st, k), Yield(st, k), UnchangedByYield,
         \A p \in Users : st[p] = "RUNNABLE" => pstate[p] = "RUNNABLE" \/ wake_in[p] = 0,
         \A p \in Users \ {current} : wake_in'[p] = wake_in[p],
         \A p \in Users : p = current => k # "sleep_ret" \/ st[p] # "RUNNABLE"
  PROVE  WokenInv'
<1>1. /\ \A p \in Users \ {current} : pstate[p] # "EXITED" => Place(p)' = Place(p)
      /\ \A p \in Users : p = current => Place(p)' = k
  BY YieldPlaces
<1>2. pstate' = st /\ \A p \in Users : pstate[p] = "EXITED" => st[p] = "EXITED"
  BY StackFacts DEF Yield, MayYield
<1>3. ASSUME NEW p \in Users, st[p] = "RUNNABLE", Place(p)' = "sleep_ret"
      PROVE  wake_in'[p] = 0
  <2>1. p # current /\ pstate[p] # "EXITED" /\ Place(p) = "sleep_ret"
    BY <1>1, <1>2, <1>3
  <2> QED BY <1>3, <2>1 DEF ViewInv, WokenInv
<1> QED BY <1>2, <1>3 DEF WokenInv, Users, NProcs

(* So does a step that does not switch.                                    *)
LEMMA QuietWoken ==
  ASSUME ViewInv, ctl # "panic", UNCHANGED <<pstate, psp, current>>,
         \A p \in Users \ {current} : ctx'[p] = ctx[p],
         ctl' # "sleep_ret" \/ ctl' = ctl,
         \A p \in Users : wake_in'[p] = wake_in[p] \/ wake_in'[p] = Less(wake_in[p])
  PROVE  WokenInv'
<1> SUFFICES ASSUME NEW p \in Users, pstate[p] = "RUNNABLE", Place(p)' = "sleep_ret"
             PROVE  wake_in'[p] = 0
  BY DEF WokenInv, Users, NProcs
<1>1. Place(p) = "sleep_ret"
  <2>1. CASE p = current
    BY <2>1 DEF Place
  <2>2. CASE p # current
    BY <2>2, PlaceOfOther DEF Place
  <2> QED BY <2>1, <2>2
<1> QED BY <1>1 DEF ViewInv, WokenInv, Less

(* A process that sleep() may return to has slept its time, after every    *)
(* step.                                                                   *)
LEMMA WokenStep == ViewInv /\ IInv' /\ UnstartedInv' /\ [Next]_vars => WokenInv'
<1> SUFFICES ASSUME ViewInv, IInv', UnstartedInv', [Next]_vars PROVE WokenInv'
  OBVIOUS
<1> USE DEF procVars
<1>1. CASE ctl' \in Booting
  <2>1. current' = IDLE
    BY <1>1 DEF IInv, BootInv
  <2>2. \A p \in Users : Place(p)' # "sleep_ret"
    BY <1>1, <2>1, StackFacts DEF UnstartedInv, Place, Users, NProcs
  <2> QED BY <2>2 DEF WokenInv, Users, NProcs
<1>2. CASE BootStep
  <2>1. CASE BootYield
    <3>1. MayYield(pstate, "idle_loop")
      BY <2>1, BootMayYield DEF ViewInv
    <3> QED BY <2>1, <3>1, YieldWoken DEF BootYield
  <2>2. CASE EnterIdleLoop
    BY <2>2, QuietWoken DEF EnterIdleLoop
  <2> QED BY <1>1, <1>2, <2>1, <2>2, FirstFreeFacts
          DEF BootStep, KernelMain, InitTimer, CreateProcess, LoadProcess, Booting, ViewInv
<1>3. ASSUME NEW r, FinishSyscall(r), ctl # "panic" PROVE WokenInv'
  BY <1>3, QuietWoken DEF FinishSyscall
<1>4. ASSUME NEW ms, NEW k \in {"getchar", "sleep_ret"}, BlockCurrent(ms, k),
             ctl \in Kern, current # IDLE
      PROVE  WokenInv'
  <2>1. PICK c \in Users : c = current
    BY <1>4, CurrentIsUser DEF ViewInv, Kern, Booting
  <2> DEFINE st == [pstate EXCEPT ![c] = "SLEEPING"]
  <2>2. /\ MayYield(st, k) /\ Yield(st, k) /\ UnchangedByYield
        /\ \A p \in Users \ {current} : wake_in'[p] = wake_in[p]
        /\ st[c] = "SLEEPING"
    BY <1>4, <2>1, BlockMayYield
  <2>3. \A p \in Users : st[p] = "RUNNABLE" => pstate[p] = "RUNNABLE"
    BY <2>1, StackFacts DEF ViewInv, IInv, TypeOK
  <2> HIDE DEF st
  <2> QED BY <2>1, <2>2, <2>3, YieldWoken
<1>5. CASE SyscallStep
  <2>1. (ctl = "getchar" \/ (ctl = "trap" /\ scause # "timer")) =>
           ctl \in Kern /\ current # IDLE /\ ctl # "panic"
    BY DEF ViewInv, IInv, HartInv, Kern
  <2>2. CASE SysExit
    <3>1. ctl \in Kern /\ current # IDLE
      BY <2>1, <2>2 DEF SysExit, InSyscall
    <3> DEFINE st == [pstate EXCEPT ![current] = "EXITED"]
    <3>2. MayYield(st, "exit_ret")
      BY <3>1, MayLeave DEF ViewInv
    <3>3. \A p \in Users : st[p] = "RUNNABLE" => pstate[p] = "RUNNABLE"
      BY StackFacts DEF ViewInv, IInv, TypeOK
    <3>4. Yield(st, "exit_ret") /\ UnchangedByYield /\ wake_in' = wake_in
      BY <2>2 DEF SysExit
    <3> HIDE DEF st
    <3> QED BY <3>2, <3>3, <3>4, YieldWoken
  <2> QED BY <1>3, <1>4, <1>5, <2>1, <2>2
          DEF SyscallStep, SysPutchar, SysGetpid, SysGetchar, SysSleep, SleepReturn, InSyscall
<1>6. CASE TrapReturn \/ UserEntry \/ BookTick
  BY <1>6, QuietWoken DEF TrapReturn, UserEntry, Sret, BookTick
<1>7. CASE WakeAndYield
  <2>1. MayYield(WakeExpired, "ret")
    BY <1>7, TickMayYield DEF ViewInv, WakeAndYield
  <2>2. \A p \in Users : WakeExpired[p] = "RUNNABLE" => pstate[p] = "RUNNABLE" \/ wake_in[p] = 0
    BY StackFacts DEF WakeExpired
  <2> QED BY <1>7, <2>1, <2>2, YieldWoken DEF WakeAndYield
<1>8. CASE TimerRefused \/ FatalTrap \/ PageFault
  BY <1>8, QuietWoken DEF TimerRefused, FatalTrap, PageFault, InSyscall, Panic
<1>9. ASSUME NEW cause, NEW r, NEW epc, ctl = "run", Trap(cause, r, epc) PROVE WokenInv'
  <2>1. sscratch = current /\ ctx \in [KStacks -> Labels \cup {"none"}]
    BY <1>9 DEF ViewInv, IInv, TypeOK, HartInv
  <2>2. \A p \in Users \ {current} : ctx'[p] = ctx[p]
    BY <1>9, <2>1, StackFacts DEF Trap
  <2> QED BY <1>9, <2>2, QuietWoken DEF Trap
<1>10. CASE TimerTrap \/ \E c \in Exceptions : UserTrap(c)
  BY <1>9, <1>10 DEF TimerTrap, UserTrap, UserRuns
<1>11. CASE UserStep \/ IdleStep
  BY <1>11, QuietWoken DEF UserStep, UserRuns, IdleStep, IdleScan, IdleWfi, IdleShutdown,
                           IdleRuns, UnchangedInIdle
<1>12. CASE KeyPressed \/ Advance
  BY <1>12, QuietWoken, StackFacts DEF KeyPressed, Advance, Halted
<1>13. CASE StayHalted \/ UNCHANGED vars
  BY <1>13 DEF StayHalted, vars, ViewInv, WokenInv, Place, Users, NProcs
<1> QED BY <1>2, <1>5, <1>6, <1>7, <1>8, <1>10, <1>11, <1>12, <1>13
        DEF Next, Step, KernelStep

(* ViewInv holds at the beginning.                                         *)
LEMMA ViewInvInit == Init => ViewInv
<1> SUFFICES ASSUME Init PROVE ViewInv
  OBVIOUS
<1>1. IInv
  BY InitInv
<1>2. CauseInv
  BY DEF Init, CauseInv, Exceptions, Syscalls, Fatal
<1>3. ArgInv
  BY DEF Init, ArgInv, IDLE
<1>4. UnstartedInv
  BY StackFacts DEF Init, UnstartedInv
<1>5. WokenInv
  BY StackFacts DEF Init, WokenInv
<1> QED BY <1>1, <1>2, <1>3, <1>4, <1>5 DEF ViewInv

(* Every step of the machine keeps ViewInv.                                *)
LEMMA ViewInvNext == ViewInv /\ [Next]_vars => ViewInv'
<1> SUFFICES ASSUME ViewInv, [Next]_vars PROVE ViewInv'
  OBVIOUS
<1>1. IInv'
  BY NextInv DEF ViewInv
<1>2. UnstartedInv'
  BY UnstartedStep
<1> QED BY <1>1, <1>2, CauseStep, ArgStep, WokenStep DEF ViewInv

(* The strengthened invariant holds in every state the machine reaches.    *)
THEOREM Views == Spec => []ViewInv
  BY ViewInvInit, ViewInvNext, PTL DEF Spec
-----------------------------------------------------------------------------
(* The refinement.                                                         *)

(* The machine after boot's first instructions is that of VirtualCpus.     *)
LEMMA RefinementInit == Init => VC!Init
<1> SUFFICES ASSUME Init PROVE VC!Init
  OBVIOUS
<1>1. AtStart
  BY ViewInvInit, BootViews DEF Init, Booting
<1>2. BootArgs = [p \in Users |-> BootArgs[p]]
  BY KernelAssumption DEF Users, NProcs
<1>3. rx = NOCHAR
  BY DEF Init
<1> QED BY <1>1, <1>2, <1>3, ProcsAreUsers
        DEF AtStart, VC!Init, VC!NOBODY, VC!NOCHAR, NOCHAR, IDLE, USER_BASE

(* Every step of the machine is a step of VirtualCpus, or invisible.       *)
LEMMA RefinementNext == ViewInv /\ ViewInv' /\ [Next]_vars => [VC!Next]_VC!vars
<1> SUFFICES ASSUME ViewInv, ViewInv', [Next]_vars PROVE [VC!Next]_VC!vars
  OBVIOUS
<1>1. CASE BootStep
  <2>1. CASE KernelMain \/ InitTimer \/ CreateProcess \/ LoadProcess
    <3>1. ctl \in Booting /\ ctl' \in Booting /\ rx' = rx
      BY <2>1, FirstFreeFacts
         DEF KernelMain, InitTimer, CreateProcess, LoadProcess, Booting, ViewInv
    <3> QED BY <3>1, BootInvisible
  <2>2. CASE BootYield
    BY <2>2, BootYieldStep
  <2>3. CASE EnterIdleLoop
    BY <2>3, IdleInvisible DEF EnterIdleLoop, ViewInv, IInv, HartInv
  <2> QED BY <1>1, <2>1, <2>2, <2>3 DEF BootStep
<1>2. CASE SyscallStep
  BY <1>2, QueryStep, GetcharStep, SleepStep, SleepReturnStep, ExitStep DEF SyscallStep
<1>3. CASE TrapReturn \/ UserEntry \/ BookTick \/ WakeAndYield
  BY <1>3, TrapReturnStep, UserEntryStep, BookTickStep, WakeAndYieldStep
<1>4. CASE TimerRefused \/ FatalTrap \/ PageFault
  BY <1>4, TimerRefusedStep, FatalTrapStep, PageFaultStep
<1>5. CASE TimerTrap \/ \E c \in Exceptions : UserTrap(c)
  BY <1>5, TimerTrapStep, UserTrapStep
<1>6. CASE UserStep
  BY <1>6, UserStepStep
<1>7. CASE IdleStep
  <2>1. CASE IdleScan \/ IdleWfi
    BY <2>1, IdleInvisible DEF IdleScan, IdleWfi, IdleRuns, UnchangedInIdle
  <2> QED BY <1>7, <2>1, IdleShutdownStep DEF IdleStep, ViewInv
<1>8. CASE KeyPressed \/ Advance
  BY <1>8, KeyPressedStep, AdvanceStep
<1>9. CASE StayHalted \/ UNCHANGED vars
  BY <1>9 DEF StayHalted, vars, hartVars, procVars, VC!vars, Vpc, Va0, Vst, Vleft,
              RegPc, RegA0, Doing, Left, Place, Running, SavedPc, SavedA0, Turn, Machine,
              Users, NProcs
<1> QED BY <1>1, <1>2, <1>3, <1>4, <1>5, <1>6, <1>7, <1>8, <1>9 DEF Next, Step, KernelStep

(* The kernel gives every user program the CPU of its own that VirtualCpus *)
(* describes: through preemption, blocking, waking and the idle loop, for  *)
(* every number of processes and whatever the programs do.                 *)
THEOREM KernelRefines == Spec => ImplementsVirtualCpus
<1>1. Init => VC!Init
  BY RefinementInit
<1>2. ViewInv /\ ViewInv' /\ [Next]_vars => [VC!Next]_VC!vars
  BY RefinementNext
<1> QED BY <1>1, <1>2, Views, PTL DEF Spec, ImplementsVirtualCpus, VC!Spec
=============================================================================
