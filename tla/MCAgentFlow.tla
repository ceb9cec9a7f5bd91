---------------------------- MODULE MCAgentFlow ----------------------------
(* Instances of AgentFlow for TLC.                                         *)
EXTENDS AgentFlow
=============================================================================
