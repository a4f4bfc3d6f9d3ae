---------------------------- MODULE MCAgentLocal ----------------------------
(***************************************************************************)
(* An instance of AgentLocal for TLC: two agents on one model root.        *)
(***************************************************************************)
EXTENDS AgentLocal

W(m, x) == [model |-> m, art |-> x]

\* Two versions of a model, and another model with the artifact of the first.
TwoVersions == {W("m", "x"), W("m", "y"), W("n", "x")}
=============================================================================
