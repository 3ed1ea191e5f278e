----------------------------- MODULE MCConsole -----------------------------
(* Values of the constants of Console for TLC.                             *)
EXTENDS Console

(* create_user_processes makes a printer (0) and a console (1).            *)
MCArg == <<0, 1>>

(* Words of two letters; pid is the beginning of exit, and help and hello  *)
(* begin in the same way, as the real words do.                            *)
MCHelp  == <<97, 126>>
MCHello == <<97, 97>>
MCPid   == <<126>>
MCExit  == <<126, 97>>
=============================================================================
