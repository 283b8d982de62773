------------------------------ MODULE MCTimers ------------------------------
(***************************************************************************)
(* Instances of Timers for TLC: two timers fetched by one round, of two    *)
(* residents.                                                              *)
(***************************************************************************)
EXTENDS Timers

CONSTANTS t1, t2, anna, bert, nobody
=============================================================================
