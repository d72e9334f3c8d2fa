----------------------------- MODULE MCHeaderDag -----------------------------
(***************************************************************************)
(* An instance of HeaderDag.  The first headers build a chain, with a fork  *)
(* at block 2 that block 5 may merge or leave; from then on every header    *)
(* extends one of the last two or one of the Low blocks, or merges two of   *)
(* the last Reach, or a Low block with the last.  Low blocks have to be     *)
(* reindexed behind the root; the last headers race, reorganise, are pruned *)
(* under, and build on and merge what is being removed.                     *)
(***************************************************************************)
EXTENDS HeaderDag

CONSTANTS Fixed, Reach, Low

MCHash == [b \in 0..14 |-> (7 * b) % 15]
MCWork == [b \in 0..14 |-> 1 + (b % 2)]
MCParentSets == [n \in 2..MaxHeaders |->
    CASE n \in {2, 3} -> {{n - 1}}
      [] n = 4 -> {{2}, {3}}
      [] n = 5 -> {{4}, {3, 4}}
      [] n \in 6..Fixed -> {{n - 1}}
      [] OTHER -> {{b} : b \in Low} \cup {{b, n - 1} : b \in Low} \cup {{n - 1}, {n - 2}} \cup kSubset(2, n - Reach .. n - 1)]
===============================================================================
