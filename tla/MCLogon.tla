------------------------------- MODULE MCLogon -------------------------------
(* Instances of Logon for TLC. *)
EXTENDS Logon

\* every source of files, both orders of the states, a live terminal and one in
\* test, with and without a preloaded CPAT that cannot be read
Terminals ==
    {[mode |-> "switch", live |-> TRUE, filesFirst |-> TRUE, unreadable |-> FALSE],
     [mode |-> "switch", live |-> FALSE, filesFirst |-> FALSE, unreadable |-> TRUE],
     [mode |-> "then", live |-> FALSE, filesFirst |-> TRUE, unreadable |-> FALSE],
     [mode |-> "only", live |-> TRUE, filesFirst |-> FALSE, unreadable |-> FALSE]}
=============================================================================
