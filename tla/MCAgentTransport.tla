------------------------- MODULE MCAgentTransport --------------------------
EXTENDS AgentTransport, TLC

C(s, e, t, g, m) == [start |-> s, end |-> e, ttl |-> t, gen |-> g, managed |-> m]

\* A token change makes another generation; the third is legacy mode.
ThreeConfigs == {C(1, 2, 3, "g1", TRUE), C(1, 2, 3, "g2", TRUE), C(1, 2, 3, "g0", FALSE)}
=============================================================================
