---------------------------- MODULE MCAgentGraph ----------------------------
(* Values for checking AgentGraph with TLC: the priority list of           *)
(* config/models.yaml.                                                     *)
EXTENDS AgentGraphClaims, AgentGraphInv

MCPriority == <<"query_rewrite", "re_retrieve", "regenerate">>

=============================================================================
