------------------------------ MODULE MCChip ------------------------------
(* Instances of Chip for TLC. *)
EXTENDS Chip
=============================================================================
