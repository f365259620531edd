-------------------------- MODULE AgentSummaryMC --------------------------
(* Small instances of AgentSummary for TLC. *)
EXTENDS AgentSummary

CONSTANTS v1, v2, v3, a1, a2

ThreeVups == {v1, v2, v3}
TwoAgents == {a1, a2}

\* Two clients share a host.
TwoTogether == [v \in Vups |-> IF v = v3 THEN a2 ELSE a1]
=============================================================================
