---------------------------- MODULE MCHAPConnection ----------------------------
(***************************************************************************)
(* Instances of HAPConnection for TLC.                                     *)
(***************************************************************************)
EXTENDS HAPConnection, TLC

\* No action or property tells one event, or one value, from another.
Symmetry == Permutations(Events) \cup Permutations(Values)

=============================================================================
