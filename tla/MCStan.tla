------------------------------- MODULE MCStan -------------------------------
(* Instances of Stan for TLC. *)
EXTENDS Stan
=============================================================================
