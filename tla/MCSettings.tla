----------------------------- MODULE MCSettings -----------------------------
EXTENDS Settings, TLC

CONSTANTS k1, a1, u1, p1

\* The defaults: without an upstream proxy and with one, both with the auth_token of
\* older versions, and with one that is valid only if it is overridden.
Defaults == [limit |-> 10, minutes |-> 0, port |-> 20000, key |-> None, upstream |-> NoUpstream,
             token |-> TRUE]

InitialSet ==
    {Defaults,
     [Defaults EXCEPT !.upstream = [address |-> a1, username |-> u1, password |-> p1]],
     [Defaults EXCEPT !.upstream = [address |-> a1, username |-> u1, password |-> None], !.token = FALSE]}

\* Valid and invalid requests of every kind that can be refused, with two valid ones
\* of the kinds whose settings are read again before they are applied.
RequestSet ==
    {[kind |-> "runtime", limit |-> 32, minutes |-> 1440], [kind |-> "runtime", limit |-> 33, minutes |-> 0],
     [kind |-> "client", port |-> 20000, key |-> k1], [kind |-> "client", port |-> 19500, key |-> None],
     [kind |-> "client", port |-> 30000, key |-> "clear"],
     [kind |-> "upstream", address |-> a1, username |-> u1, password |-> p1, clear |-> FALSE],
     [kind |-> "upstream", address |-> a1, username |-> None, password |-> None, clear |-> FALSE],
     [kind |-> "upstream", address |-> None, username |-> u1, password |-> p1, clear |-> FALSE],
     [kind |-> "legacy"]}

Symmetry == Permutations(Handler)
=============================================================================
