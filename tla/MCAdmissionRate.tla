--------------------------- MODULE MCAdmissionRate ---------------------------
(***************************************************************************)
(* A small worker for TLC: a rate that does not divide evenly by the ticks *)
(* of a minute, a capacity below the largest grant, and an active count    *)
(* that may also exceed the capacity.                                      *)
(***************************************************************************)
EXTENDS AdmissionRate

MCActiveCounts == 0..(TotalActiveUsers + 1)
=============================================================================
