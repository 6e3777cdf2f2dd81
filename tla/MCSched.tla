------------------------------- MODULE MCSched -------------------------------
(* Small instances of the scheduler for TLC. *)
EXTENDS SchedProps

CONSTANT l1
=============================================================================
