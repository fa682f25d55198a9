----------------------------- MODULE MCManager -----------------------------
(***************************************************************************)
(* The instance manager for TLC.  Configured countries, other countries,   *)
(* nodes and ports are each interchangeable.                               *)
(***************************************************************************)
EXTENDS ManagerProps, TLC

Symmetry ==
    UNION {Permutations(S) : S \in {Configured, Country \ Configured, Node, Port}}
=============================================================================
