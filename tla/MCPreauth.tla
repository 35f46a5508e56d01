----------------------------- MODULE MCPreauth -----------------------------
(* Instances of Preauth for TLC. *)
EXTENDS Preauth
=============================================================================
