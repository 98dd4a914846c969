------------------------- MODULE MCAgentCredentials --------------------------
(* A small instance of AgentCredentials for TLC. *)
EXTENDS AgentCredentials, TLC

(* Machines and workers are interchangeable. *)
Symmetry == Permutations(Machine) \cup Permutations(Worker)
===============================================================================
