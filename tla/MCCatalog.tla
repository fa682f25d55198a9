----------------------------- MODULE MCCatalog -----------------------------
EXTENDS Catalog, TLC

CONSTANTS n1, n2, c1, c2

\* The directory knows both nodes, one has moved and gained weight, or nothing
\* usable is left.
DocumentSet ==
    {[n \in {n1, n2} |-> [country |-> IF n = n1 THEN c1 ELSE c2, weight |-> 1]],
     [n \in {n1, n2} |-> [country |-> c1, weight |-> IF n = n1 THEN 1 ELSE 2]],
     [n \in {} |-> None]}

WantedSet == {<<c2, c1>>}
Symmetry == Permutations(Caller)
LatencySet == {1, 2, -2}
=============================================================================
