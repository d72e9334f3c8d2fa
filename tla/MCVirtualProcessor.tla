--------------------------- MODULE MCVirtualProcessor ---------------------------
(***************************************************************************)
(* Seven blocks: r <- a, b; c merges a and b on a's chain and f extends c; *)
(* d extends b and e merges a and d on d's chain.  The heavier e takes the *)
(* sink from c and a, unless f came first and made a final; a chain that   *)
(* turns out to be disqualified gives it back.                             *)
(***************************************************************************)
EXTENDS VirtualProcessor

MCBlocks == {"r", "a", "b", "c", "d", "e", "f"}

MCParents ==
    [x \in MCBlocks |-> CASE x = "r" -> {}
                          [] x = "a" -> {"r"}
                          [] x = "b" -> {"r"}
                          [] x = "c" -> {"a", "b"}
                          [] x = "d" -> {"b"}
                          [] x = "e" -> {"a", "d"}
                          [] x = "f" -> {"c"}]

MCHash == [x \in MCBlocks |-> CASE x = "r" -> 0 [] x = "a" -> 3 [] x = "b" -> 2
                                [] x = "c" -> 4 [] x = "d" -> 1 [] x = "e" -> 6
                                [] x = "f" -> 5]

utxo == <<"x", "0">>
note == <<"n", "0">>
minted == <<"mint", "0">>

MCRootCoins == {[key |-> utxo, score |-> 0, value |-> 5], [key |-> note, score |-> 0, value |-> 3]}

(* The root's note is locked: key p before score 3, refund key q after. *)
MCNote == (note :> [pk |-> "p", until |-> 3, refund |-> "q"])
              @@ (minted :> [pk |-> "p", until |-> 99, refund |-> "p"])

pay    == [spends |-> {utxo}, makes |-> (<<"pay", "0">> :> 4), anchor |-> 0, signer |-> "p"]
mint   == [spends |-> {utxo}, makes |-> (minted :> 3), anchor |-> 0, signer |-> "p"]
redeem == [spends |-> {note}, makes |-> (<<"redeem", "0">> :> 2), anchor |-> 1, signer |-> "p"]
(* Consumes the minted serial, in the block of its own mint or of another one. *)
cash   == [spends |-> {minted}, makes |-> (<<"cash", "0">> :> 2), anchor |-> 3, signer |-> "p"]
claim  == [spends |-> {<<"b", "r">>}, makes |-> (<<"claim", "0">> :> 1), anchor |-> 0, signer |-> "p"]

MCOffers ==
    [x \in MCBlocks |-> CASE x = "r" -> {{}}
                          [] x = "a" -> {{pay}, {mint, cash}}
                          [] x = "b" -> {{mint}, {pay, redeem}}
                          [] x = "c" -> {{}, {mint}}
                          [] x = "d" -> {{redeem}, {}}
                          [] x = "e" -> {{claim}}
                          [] x = "f" -> {{}}]

MCFaults ==
    [x \in MCBlocks |-> CASE x = "b" -> {"coinbase"}
                          [] x = "d" -> {"commit"}
                          [] OTHER -> {}]
================================================================================
