------------------------------ MODULE MCRelay ------------------------------
(***************************************************************************)
(* Relay with the values of the code: thresholds 5 and 10, rand() % 100.   *)
(***************************************************************************)
EXTENDS Relay

AllDraws == 0 .. 99
=============================================================================
