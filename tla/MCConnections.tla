--------------------------- MODULE MCConnections ---------------------------
(* Connections for TLC; connection goroutines are interchangeable. *)
EXTENDS Connections, TLC

Symmetry == Permutations(Conn)
=============================================================================
