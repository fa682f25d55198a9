--------------------------- MODULE MCRuntimeState ---------------------------
(***************************************************************************)
(* RuntimeState for TLC: countries and choices are interchangeable.        *)
(***************************************************************************)
EXTENDS RuntimeState, TLC

Symmetry == Permutations(Country) \cup Permutations(Choice)
=============================================================================
