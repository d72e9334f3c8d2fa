--------------------------- MODULE MCTrusteeSigner ---------------------------
(* Two correct trustees and a faulty one over a block tree with a reorganisation:              *)
(*   "g"(0) - "a"(3)                                                                           *)
(*        \ - "d"(4) - "e"(8)        sinks in the order g, a, e                                *)
(* At interval 3 and depth 1 a signer that attested "a" meets the conflicting "d" after the    *)
(* reorganisation to "e", while "e" is a full interval past both.                              *)
EXTENDS TrusteeSigner, TLC

MCBlocks == {"g", "a", "d", "e"}
MCDaa == [b \in MCBlocks |-> CASE b = "g" -> 0 [] b = "a" -> 3 [] b = "d" -> 4 [] b = "e" -> 8]
MCWeight == [b \in MCBlocks |-> CASE b = "g" -> 0 [] b = "a" -> 2 [] b = "d" -> 0 [] b = "e" -> 3]
MCChain == [b \in MCBlocks |->
    CASE b = "g" -> {"g"} [] b = "a" -> {"g", "a"} [] b = "d" -> {"g", "d"} [] b = "e" -> {"g", "d", "e"}]

(* The correct trustees are interchangeable. *)
Symmetry == Permutations(Honest)

(* A single chain "g"(0) - "a"(3), for the liveness run. *)
SmallBlocks == {"g", "a"}
SmallDaa == [b \in SmallBlocks |-> CASE b = "g" -> 0 [] b = "a" -> 3]
SmallChain == [b \in SmallBlocks |-> {c \in SmallBlocks : SmallDaa[c] <= SmallDaa[b]}]
=============================================================================
