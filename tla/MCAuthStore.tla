---------------------------- MODULE MCAuthStore ----------------------------
EXTENDS AuthStore, TLC

Symmetry == Permutations(Password) \cup Permutations(Token)
=============================================================================
