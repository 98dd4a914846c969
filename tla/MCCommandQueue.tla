--------------------------- MODULE MCCommandQueue ----------------------------
(* A small instance of CommandQueue for TLC. *)
EXTENDS CommandQueue, TLC

(* Agents and workers are interchangeable (not used with liveness). *)
Symmetry == Permutations(Agent) \cup Permutations(Worker)
===============================================================================
