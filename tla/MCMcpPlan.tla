------------------------------ MODULE MCMcpPlan ------------------------------
(* Instances of McpPlan for TLC.                                           *)
EXTENDS McpPlan
=============================================================================
