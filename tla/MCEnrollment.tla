---------------------------- MODULE MCEnrollment ----------------------------
(***************************************************************************)
(* Instances of Enrollment for TLC: two candidates, and spoken turns of    *)
(* which two may be captured at once.                                      *)
(***************************************************************************)
EXTENDS Enrollment

CONSTANTS anna, bert, c1, c2, c3, nobody
=============================================================================
