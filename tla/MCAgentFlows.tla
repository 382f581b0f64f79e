----------------------------- MODULE MCAgentFlows -----------------------------
(* Two flows, sent in batches of one.                                      *)
EXTENDS AgentFlows

MCKey == {"f", "g"}
=============================================================================
