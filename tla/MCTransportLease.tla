-------------------------- MODULE MCTransportLease --------------------------
EXTENDS TransportLease, TLC

C(s, e, t, g) == [start |-> s, end |-> e, ttl |-> t, gen |-> g]

\* The port range moves, the life time changes, and a token changes nothing
\* but the generation.
ChangingConfigs == {C(1, 2, 2, "g1"), C(2, 3, 2, "g2"), C(1, 2, 1, "g3"), C(1, 2, 2, "g4")}

Symmetry == Permutations(Agents) \cup Permutations(Ids)
=============================================================================
