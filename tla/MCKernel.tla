------------------------------ MODULE MCKernel ------------------------------
(* Values of the constants of Kernel for TLC.                              *)
EXTENDS KernelRefinement

(* create_user_processes makes a printer (0) and a console (1).            *)
MCBootArgs == <<0, 1>>
=============================================================================
