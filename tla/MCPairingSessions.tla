--------------------------- MODULE MCPairingSessions ---------------------------
(***************************************************************************)
(* Instances of PairingSessions for TLC.                                   *)
(***************************************************************************)
EXTENDS PairingSessions, TLC

\* No action or property tells one controller, or one connection, from another.
Symmetry == Permutations(Controllers) \cup Permutations(Conns)

=============================================================================
