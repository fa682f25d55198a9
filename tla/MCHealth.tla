------------------------------ MODULE MCHealth ------------------------------
(***************************************************************************)
(* Health for TLC: countries and nodes are interchangeable.                *)
(***************************************************************************)
EXTENDS Health, TLC

Symmetry == Permutations(Country) \cup Permutations(Node)
=============================================================================
