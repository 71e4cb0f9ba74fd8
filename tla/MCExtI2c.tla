------------------------------ MODULE MCExtI2c ------------------------------
(* The whole of the board's transfer is small enough to be checked as it is. *)
EXTENDS ExtI2c
=============================================================================
