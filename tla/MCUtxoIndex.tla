---------------------------- MODULE MCUtxoIndex -----------------------------
(* Three outpoints of two addresses, and two sets of parents that the      *)
(* virtual may have.  Between them the first outpoint goes or comes, the   *)
(* second changes its DAA score and the third, of the address of the       *)
(* first, stays.  `p' is also a pruning point to sync from.                *)
EXTENDS UtxoIndex

MCOutpoints == 1..3
MCOwner == <<1, 2, 1>>
MCAmount == <<1, 2, 4>>
MCUtxoOf == [a |-> <<1, 1, 1>>, p |-> <<0, 2, 1>>]
MCParents == DOMAIN MCUtxoOf
MCPruningPoints == {"p"}
=============================================================================
