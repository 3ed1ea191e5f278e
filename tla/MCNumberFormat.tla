--------------------------- MODULE MCNumberFormat ---------------------------
(* Values of the constants of NumberFormat for TLC.                        *)
EXTENDS NumberFormat

MCWeight == [i \in 0..DIGITS |-> 16^i]
=============================================================================
