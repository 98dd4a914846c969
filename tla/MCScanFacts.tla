------------------------------- MODULE MCScanFacts -------------------------------
(* Instances of ScanFacts for TLC. *)
EXTENDS ScanFacts, TLC

CONSTANTS A, B

up(m) == [mac |-> m, usable |-> TRUE]
down(m) == [mac |-> m, usable |-> FALSE]

(* No interface, none with a MAC, one; two with a MAC each, or the same;    *)
(* and a MAC that comes back behind another one.                            *)
Lists == {<<>>, <<up(NoMac)>>, <<up(NoMac), down(A)>>, <<up(A), up(B)>>, <<down(B), up(A)>>,
          <<up(A), up(A)>>, <<down(A), up(A), up(B)>>, <<up(B), down(A), up(B)>>}

(* Neither workers nor machines are told apart. *)
Symmetry == Permutations(Worker) \cup Permutations(Machine)
===============================================================================
