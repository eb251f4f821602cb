----------------------------- MODULE MCNrptRules -----------------------------
(* Process identifiers are interchangeable, and so are interfaces and      *)
(* namespaces.                                                             *)
EXTENDS NrptRules, TLC

Symmetry == Permutations(Pids) \cup Permutations(Interfaces) \cup Permutations(Namespaces)
=============================================================================
