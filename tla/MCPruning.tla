------------------------------ MODULE MCPruning ------------------------------
(* A chain of nine blocks with a pruning sample at every second one. Side block 11 is in the   *)
(* anticone of sample 2, and 12 in that of sample 6.                                           *)
EXTENDS Pruning

MCFork == [b \in Blocks |-> CASE b = 11 -> 1 [] b = 12 -> 5 [] OTHER -> b]
MCMerge == [b \in Blocks |-> CASE b = 11 -> 3 [] b = 12 -> 7 [] OTHER -> b]
=============================================================================
