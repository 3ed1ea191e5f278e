---------------------------- MODULE MCKernelTimed ----------------------------
(* Values of the constants of KernelTimed for TLC.                         *)
EXTENDS KernelTimed

MCBootArgs == <<0, 1>>
MCThreeArgs == <<0, 1, 0>>
=============================================================================
