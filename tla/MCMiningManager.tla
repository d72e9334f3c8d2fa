--------------------------- MODULE MCMiningManager ---------------------------
(* C spends an output of P, and b. Q conflicts with P over a, with C over b and with D over a   *)
(* serial. P, C and D fit together, and are one more than fit in the pool.                     *)
EXTENDS MiningManager

CONSTANTS P, Q, C, D, a, b, d, p0, s, w1, w2

MCInputs == (P :> {a}) @@ (Q :> {a, b}) @@ (C :> {p0, b}) @@ (D :> {d})
MCCreator == (a :> None) @@ (b :> None) @@ (d :> None) @@ (p0 :> P)
MCConsumed == (P :> {}) @@ (Q :> {s}) @@ (C :> {}) @@ (D :> {s})
MCFeerate == (P :> 0) @@ (Q :> 2) @@ (C :> 1) @@ (D :> 1)

P2P == [high |-> FALSE, orphan |-> TRUE, rbf |-> "allowed"]
RPC == [high |-> TRUE, orphan |-> TRUE, rbf |-> "forbidden"]
Replace == [high |-> TRUE, orphan |-> FALSE, rbf |-> "mandatory"]
MCModes == {P2P, RPC, Replace}

MCBodies == {<<P, D>>, <<Q>>, <<C>>}

Symmetry == Permutations(Workers)
=============================================================================
