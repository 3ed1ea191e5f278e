-------------------------- MODULE KernelRefinement --------------------------
(* The kernel implements VirtualCpus: how the CPU of each process is read  *)
(* off the hart, the process table and the kernel stacks.                  *)
EXTENDS Kernel

(* The registers of p are in the hart while p runs, in the trap frame on   *)
(* its kernel stack while it does not, and not made yet before it starts.  *)
Running(p) == ctl = "run" /\ current = p

SavedPc(p) == IF frame[p].live THEN frame[p].pc ELSE USER_BASE
SavedA0(p) == IF frame[p].live THEN frame[p].a0 ELSE BootArgs[p]

(* What p is doing: read off the place in the kernel it is in.             *)
Place(p) == IF current = p THEN ctl ELSE ctx[psp[p]]
Doing(p) ==
  IF pstate[p] = "EXITED" THEN "exited"
  ELSE IF Place(p) \in {"trap", "panic"} /\ scause \in Exceptions THEN scause
  ELSE IF Place(p) = "getchar" THEN "getchar"
  ELSE IF Place(p) = "sleep_ret" THEN "asleep"
  ELSE "user"

RegPc(p) == IF Running(p) THEN pc ELSE SavedPc(p)
RegA0(p) == IF Running(p) THEN a0 ELSE SavedA0(p)
Left(p)  == IF Doing(p) = "asleep" THEN wake_in[p] ELSE 0

(* The state of VirtualCpus.                                               *)
Vpc     == [p \in Users |-> RegPc(p)]
Va0     == [p \in Users |-> RegA0(p)]
Vst     == [p \in Users |-> Doing(p)]
Vleft   == [p \in Users |-> Left(p)]
Turn    == IF ctl = "run" THEN current ELSE IDLE
Machine == IF ctl = "off" THEN "off" ELSE IF ctl = "panic" THEN "failed" ELSE "on"

VC == INSTANCE VirtualCpus WITH
        Args <- BootArgs, MayFail <- SbiMayFail, vpc <- Vpc, va0 <- Va0, vst <- Vst,
        vleft <- Vleft, vrx <- rx, turn <- Turn, machine <- Machine

(* Preemption, blocking, waking and the idle loop are invisible to a user  *)
(* program: through all of them its registers, its sleeps, its input and   *)
(* its exit are those of a machine of its own (handle_trap, yield and the  *)
(* system calls of kernel.c).                                              *)
ImplementsVirtualCpus == VC!Spec
=============================================================================
