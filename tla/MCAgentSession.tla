-------------------------- MODULE MCAgentSession --------------------------
(* Instances of AgentSession for TLC.                                      *)
EXTENDS AgentSession, TLC

\* Calls are interchangeable: no safety property names one of them.
Symmetry == Permutations(Senders) \cup Permutations(Joiners)
=============================================================================
