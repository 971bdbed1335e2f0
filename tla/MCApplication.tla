---------------------------- MODULE MCApplication ----------------------------
(* Values of the constants of StatusPage for TLC.                            *)
EXTENDS StatusPage

\* Two statements: a write before, and one after, a write that fails.
TwoStatements == [r \in Requests |-> 2]

=============================================================================
