----------------------------- MODULE MCAgentRuntime -----------------------------
(* Instances of AgentRuntime for TLC.                                        *)
EXTENDS AgentRuntime
===============================================================================
