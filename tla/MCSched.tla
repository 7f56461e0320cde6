------------------------------ MODULE MCSched ------------------------------
(* Sched for TLC, with the inductive invariant of the proofs: the instances *)
(* are in the MCSched*.cfg files.                                          *)
EXTENDS SchedProofs
=============================================================================
