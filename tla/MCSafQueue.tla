----------------------------- MODULE MCSafQueue -----------------------------
(* Instances of SafQueue for TLC. *)
EXTENDS SafQueue, TLC

CONSTANTS a1, a2, x

\* a1 and a2 are interchangeable: neither is invalid or malformed
Symmetric == Permutations({a1, a2})
=============================================================================
