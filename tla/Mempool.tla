------------------------------- MODULE Mempool -------------------------------
(* The mempool as a value and its methods as operators on that value: the transaction pool,    *)
(* the orphan pool, the cache of accepted transactions and the indexes over them.              *)
(* A method of the code runs under the manager's write lock, so it is one operator here; the   *)
(* module MiningManager says which methods share a critical section.                           *)
EXTENDS FiniteSets, Integers, SequencesExt

CONSTANTS
    Txs,          \* the transactions that are ever submitted or mined, well-formed and standard
    Outpoints,    \* the outputs they spend or create
    Serials,      \* note-pool serials
    Inputs,       \* [Txs -> SUBSET Outpoints]
    Creator,      \* [Outpoints -> Txs \cup {None}]: None for an output older than the model
    Consumed,     \* [Txs -> SUBSET Serials]: the serials of a note-pool operation
    Feerate,      \* [Txs -> Nat]
    BelowFloor,   \* SUBSET Txs: fees below the relay floor
    AcceptOwn,    \* config.accept_own_below_floor
    MaxTxs,       \* config.maximum_transaction_count
    MaxOrphans,   \* config.maximum_orphan_transaction_count
    None

ASSUME MempoolAssumption ==
    /\ IsFiniteSet(Txs) /\ None \notin Txs
    /\ Inputs \in [Txs -> SUBSET Outpoints]
    /\ Creator \in [Outpoints -> Txs \cup {None}]
    /\ Consumed \in [Txs -> SUBSET Serials]
    /\ Feerate \in [Txs -> Nat]
    /\ BelowFloor \subseteq Txs /\ AcceptOwn \in BOOLEAN
    /\ MaxTxs \in Nat \ {0} /\ MaxOrphans \in Nat \ {0}

Outputs(t) == {o \in Outpoints : Creator[o] = t}

(* all_transactions, parent_transactions, priorities, outpoint_owner_id and serial_owner_id of *)
(* the transaction pool; all_orphans with the entries filled in so far and the priorities; the *)
(* accepted cache; withheld_from_relay. chained_transactions and ready_transactions, and the   *)
(* indexes of the orphan pool, are functions of these (Chained, Ready, OrphanOf).              *)
EmptyMempool ==
    [pool |-> {}, parents |-> [t \in Txs |-> {}], high |-> {},
     owner |-> [o \in Outpoints |-> None], serialOwner |-> [s \in Serials |-> None],
     orphans |-> {}, have |-> [t \in Txs |-> {}], highOrphans |-> {},
     accepted |-> {}, withheld |-> {}]

------------------------------------------------------------------------------
(* The Pool trait and its two implementations. *)

ParentsIn(S, t) == {Creator[o] : o \in Inputs[t]} \cap S

Chained(m, t) == {c \in m.pool : t \in m.parents[c]}

ChainedOrphans(m, t) == {c \in m.orphans : t \in ParentsIn(Txs, c)}

(* get_redeemer_ids_in_pool: what the edges reach from t, nothing when t is not in the pool. *)
Redeemers(edges, S, t) ==
    LET reach[n \in 0 .. Cardinality(Txs)] ==
            IF n = 0 THEN IF t \in S THEN edges[t] ELSE {}
            ELSE reach[n - 1] \cup UNION {edges[c] : c \in reach[n - 1]}
    IN  reach[Cardinality(Txs)]

RedeemersInPool(m, t) == Redeemers([c \in Txs |-> Chained(m, c)], m.pool, t)
RedeemersInOrphans(m, t) == Redeemers([c \in Txs |-> ChainedOrphans(m, c)], m.orphans, t)

(* Transactions with no registered parent in the pool: the frontier templates are built from. *)
Ready(m) == {t \in m.pool : m.parents[t] = {}}

AddToPool(m, t, high) ==
    [m EXCEPT !.pool = @ \cup {t},
              !.parents[t] = ParentsIn(m.pool, t),
              !.high = IF high THEN @ \cup {t} ELSE @,
              !.owner = [o \in Outpoints |-> IF o \in Inputs[t] THEN t ELSE @[o]],
              !.serialOwner = [s \in Serials |-> IF s \in Consumed[t] THEN t ELSE @[s]]]

(* The owner entries of the removed inputs go, whoever they name. *)
RemoveFromPool(m, gone) ==
    [m EXCEPT !.pool = @ \ gone,
              !.parents = [t \in Txs |-> IF t \in gone THEN {} ELSE @[t] \ gone],
              !.high = @ \ gone,
              !.owner = [o \in Outpoints |-> IF \E t \in gone : o \in Inputs[t] THEN None ELSE @[o]],
              !.serialOwner = [s \in Serials |-> IF \E t \in gone : s \in Consumed[t] THEN None ELSE @[s]]]

RemoveOrphans(m, gone) ==
    [m EXCEPT !.orphans = @ \ gone, !.highOrphans = @ \ gone,
              !.have = [t \in Txs |-> IF t \in gone THEN {} ELSE @[t]]]

(* The orphans listed under the spent outpoint: at most one, see check_orphan_double_spend. *)
OrphanOf(m, o) == {c \in m.orphans : o \in Inputs[c]}

(* try_add_orphan: every outcome, one per low-priority orphan a full pool may evict; the pool  *)
(* is unchanged when a check fails or only high-priority orphans are left.                     *)
TryAddOrphan(m, t, high, have) ==
    LET add(n) == [n EXCEPT !.orphans = @ \cup {t}, !.have[t] = have,
                            !.highOrphans = IF high THEN @ \cup {t} ELSE @]
        low == m.orphans \ m.highOrphans
    IN  IF t \in m.orphans \/ (\E o \in Inputs[t] : OrphanOf(m, o) # {}) THEN {m}
        ELSE IF Cardinality(m.orphans) < MaxOrphans THEN {add(m)}
        ELSE IF low = {} THEN {m}
        ELSE {add(RemoveOrphans(m, {victim})) : victim \in low}

(* update_orphans_after_transaction_removed. With remove_redeemers the orphan pool is asked    *)
(* for the redeemers of a transaction it does not hold; otherwise the entries built from the   *)
(* removed outputs are cleared.                                                                *)
UpdateOrphans(m, gone, redeemers) ==
    IF redeemers THEN RemoveOrphans(m, UNION {RedeemersInOrphans(m, t) : t \in gone})
    ELSE [m EXCEPT !.have = [c \in Txs |-> @[c] \ UNION {Outputs(t) : t \in gone}]]

------------------------------------------------------------------------------
(* Mempool::remove_transaction. The variant forgets the index of spent outpoints. *)
RemoveTransactionLeaky(m, t, redeemers) ==
    LET gone == {t} \cup (IF redeemers THEN RedeemersInPool(m, t) ELSE {})
    IN  IF t \in m.orphans THEN RemoveOrphans(m, {t} \cup RedeemersInOrphans(m, t))
        ELSE IF t \notin m.pool THEN m
        ELSE [UpdateOrphans(RemoveFromPool(m, gone), gone, redeemers) EXCEPT !.owner = m.owner]

RemoveTransaction(m, t, redeemers) ==
    LET m1 == [m EXCEPT !.withheld = @ \ {t}]
        gone == {t} \cup (IF redeemers THEN RedeemersInPool(m, t) ELSE {})
    IN  IF t \in m.orphans THEN RemoveOrphans(m1, {t} \cup RedeemersInOrphans(m1, t))
        ELSE IF t \notin m.pool THEN m1
        ELSE UpdateOrphans(RemoveFromPool(m1, gone), gone, redeemers)

RemoveAll(m, S, redeemers) ==
    FoldLeft(LAMBDA n, t : RemoveTransaction(n, t, redeemers), m, SetToSeq(S))

(* Replace by fee. The policies: "forbidden", "allowed", "mandatory". *)
DoubleSpends(m, t) == {m.owner[o] : o \in Inputs[t]} \ {None, t}

SerialConflict(m, t) == {m.serialOwner[s] : s \in Consumed[t]} \ {None, t} # {}

RbfConstraint(m, t, rbf) ==
    CASE rbf = "forbidden" -> DoubleSpends(m, t) = {}
      [] rbf = "allowed" -> TRUE
      [] rbf = "mandatory" -> Cardinality(DoubleSpends(m, t)) = 1

(* The feerate the consensus validation must beat, -1 for none. *)
FeerateThreshold(m, t) ==
    LET over == {Feerate[d] : d \in DoubleSpends(m, t)}
    IN  IF over = {} THEN -1 ELSE CHOOSE f \in over : \A g \in over : g <= f

RbfAccepts(m, t, rbf) ==
    /\ RbfConstraint(m, t, rbf)
    /\ \A d \in DoubleSpends(m, t) : d \in m.pool /\ Feerate[t] > Feerate[d]

ExecuteReplaceByFee(m, t) == RemoveAll(m, DoubleSpends(m, t), TRUE)

(* limit_transaction_count, with transactions of one size: the one transaction to evict is the *)
(* low-priority ready one of the lowest feerate that is no ancestor of t, provided t pays at   *)
(* least as much. The set of acceptable victims (ties) is empty when the pool is full. The     *)
(* variant overlooks the priority.                                                             *)
EvictableAny(m, t) ==
    LET free == {x \in Ready(m) : ParentsIn(Txs, t) \cap ({x} \cup RedeemersInPool(m, x)) = {}}
    IN  {x \in free : Feerate[x] <= Feerate[t] /\ \A y \in free : Feerate[x] <= Feerate[y]}

Evictable(m, t) ==
    LET free == {x \in Ready(m) \ m.high :
                    ParentsIn(Txs, t) \cap ({x} \cup RedeemersInPool(m, x)) = {}}
    IN  {x \in free : Feerate[x] <= Feerate[t] /\ \A y \in free : Feerate[x] <= Feerate[y]}

(* The two ways to make room: the pool has a free slot, or one eviction frees one. *)
Rooms(m, t) ==
    IF Cardinality(m.pool) < MaxTxs THEN {m}
    ELSE {RemoveTransaction(m, x, TRUE) : x \in Evictable(m, t)}

------------------------------------------------------------------------------
(* pre_validate_and_populate_transaction, under the read lock. *)
PreValidates(m, t, rbf) ==
    /\ t \notin m.accepted
    /\ t \notin m.pool
    /\ RbfConstraint(m, t, rbf)
    /\ ~SerialConflict(m, t)

PopulatedFromPool(m, t) == {o \in Inputs[t] : Creator[o] \in m.pool}

(* The tail of post_validate_and_insert_transaction, for a transaction the consensus found     *)
(* valid with all its entries: the outcomes [mp, in], "in" telling whether t entered the pool. *)
(* A below-floor transaction of the node itself is withheld, and enters as low priority; it    *)
(* stays listed as withheld when one of the later checks refuses it.                           *)
InsertValid(m, t, high, rbf) ==
    LET withheld == high /\ AcceptOwn /\ t \in BelowFloor
        m1 == IF withheld THEN [m EXCEPT !.withheld = @ \cup {t}] ELSE m
        rooms == Rooms(ExecuteReplaceByFee(m1, t), t)
    IN  IF t \in BelowFloor /\ ~withheld THEN {[mp |-> m, in |-> FALSE]}
        ELSE IF SerialConflict(m1, t) \/ ~RbfAccepts(m1, t, rbf) THEN {[mp |-> m1, in |-> FALSE]}
        ELSE IF rooms = {} THEN {[mp |-> ExecuteReplaceByFee(m1, t), in |-> FALSE]}
        ELSE {[mp |-> AddToPool(n, t, high /\ ~withheld), in |-> TRUE] : n \in rooms}

(* post_validate_and_insert_transaction: acceptance and duplicates are checked again, then the *)
(* validation result decides. The variant trusts the checks made under the read lock.          *)
PostValidateUnchecked(m, t, high, orphan, rbf, have, result) ==
    IF t \in m.pool \/ result = "err" THEN {[mp |-> m, in |-> FALSE]}
    ELSE IF result = "ok" THEN InsertValid(m, t, high, rbf)
    ELSE IF ~orphan \/ ~RbfConstraint(m, t, rbf) THEN {[mp |-> m, in |-> FALSE]}
    ELSE {[mp |-> n, in |-> FALSE] : n \in TryAddOrphan(m, t, high, have)}

PostValidate(m, t, high, orphan, rbf, have, result) ==
    IF t \in m.accepted \/ t \in m.pool \/ result = "err" THEN {[mp |-> m, in |-> FALSE]}
    ELSE IF result = "ok" THEN InsertValid(m, t, high, rbf)
    ELSE IF ~orphan \/ ~RbfConstraint(m, t, rbf) THEN {[mp |-> m, in |-> FALSE]}
    ELSE {[mp |-> n, in |-> FALSE] : n \in TryAddOrphan(m, t, high, have)}

(* get_unorphaned_transactions_after_accepted_transaction: the outputs of t fill entries of    *)
(* orphans that lack them. An orphan completed this way leaves the orphan pool, and is         *)
(* returned unless it was accepted meanwhile or its policy refuses it.                         *)
OrphanPolicy(high) == IF high THEN "forbidden" ELSE "allowed"

Unorphaned(m, t) ==
    LET fills == [c \in Txs |-> IF c \in m.orphans THEN (Inputs[c] \cap Outputs(t)) \ m.have[c] ELSE {}]
        done == {c \in m.orphans : fills[c] # {} /\ Inputs[c] \subseteq m.have[c] \cup fills[c]}
        filled == [m EXCEPT !.have = [c \in Txs |-> @[c] \cup fills[c]]]
        kept == {c \in done : c \notin m.accepted /\ RbfConstraint(m, c, OrphanPolicy(c \in m.highOrphans))}
    IN  [mp |-> RemoveOrphans(filled, done),
         out |-> {[tx |-> c, high |-> c \in m.highOrphans] : c \in kept}]

(* handle_new_block_transactions, for one transaction of the block. A transaction still known  *)
(* as an orphan is not removed here, so that its redeemers stay.                               *)
HandleBlockTx(m, t) ==
    LET m1 == IF t \in m.orphans THEN m ELSE RemoveTransaction(m, t, FALSE)
        m2 == RemoveAll(m1, {m1.owner[o] : o \in Inputs[t]} \ {None}, TRUE)
        m3 == RemoveAll(m2, {m2.serialOwner[s] : s \in Consumed[t]} \ {None}, TRUE)
        m4 == [RemoveOrphans(m3, {t}) EXCEPT !.accepted = @ \cup {t}]
    IN  Unorphaned(m4, t)

HandleBlock(m, body) ==
    FoldLeft(LAMBDA acc, t : LET u == HandleBlockTx(acc.mp, t) IN [mp |-> u.mp, out |-> acc.out \cup u.out],
             [mp |-> m, out |-> {}], body)

=============================================================================
