---------------------------- MODULE MCFinalityAnchor ----------------------------
(***************************************************************************)
(* Two branches from the root, a, b, c and x, y, z; e merges y on the      *)
(* first and makes a final, and w merges both and is UTXO disqualified.    *)
(* Each branch carries an anchor and evidence against trustee 1, and peers *)
(* send an anchor of either branch.                                        *)
(***************************************************************************)
EXTENDS FinalityAnchor

MCBlocks == {"r", "a", "b", "c", "e", "x", "y", "z", "w"}
MCParents == [r |-> {}, a |-> {"r"}, b |-> {"a"}, c |-> {"b"}, e |-> {"c", "y"},
              x |-> {"r"}, y |-> {"x"}, z |-> {"y"}, w |-> {"b", "y"}]
MCHash == [r |-> 0, a |-> 1, x |-> 2, b |-> 3, y |-> 4, c |-> 5, z |-> 6, e |-> 7, w |-> 8]

Anchor(b, s, T) == [block |-> b, score |-> s, signers |-> T]

MCGossip == {Anchor("b", 2, {1, 2}), Anchor("y", 2, {2, 3})}
MCMined == [b \in MCBlocks |->
              CASE b = "b" -> <<Anchor("r", 1, {2, 3}), [trustee |-> 1]>>
                [] b = "c" -> <<Anchor("a", 1, {1, 2}), Anchor("a", 1, {2, 3})>>
                [] b = "y" -> <<Anchor("x", 1, {2, 3})>>
                [] b = "z" -> <<[trustee |-> 1]>>
                [] OTHER -> <<>>]
================================================================================
