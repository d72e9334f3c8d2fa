---------------------------- MODULE MiningManager ----------------------------
(* The mining manager: transaction submission in three phases (read lock, no lock, write       *)
(* lock), the loop that inserts unorphaned transactions, the handling of new blocks, expiry,   *)
(* revalidation, and block templates with their cache. Each call is a task; a step of a task  *)
(* is one critical section of the mempool lock or one read of the consensus, so the steps of   *)
(* different calls interleave as the threads of the node do.                                   *)
EXTENDS Mempool

CONSTANTS
    Workers,        \* the threads that serve calls
    Modes,          \* the ways to submit: [high, orphan, rbf]
    Bodies,         \* the block bodies that may be mined: sequences of transactions
    MaxBlocks,      \* bound on mined blocks
    MaxSubmits,     \* bound on submissions
    BlockCap,       \* transactions that fit in a template
    MaxAttempts     \* config.maximum_build_block_template_attempts

ASSUME ManagerAssumption ==
    /\ \A body \in Bodies : \A i \in DOMAIN body : body[i] \in Txs
    /\ MaxBlocks \in Nat /\ MaxSubmits \in Nat
    /\ BlockCap \in Nat \ {0} /\ MaxAttempts \in Nat \ {0}

VARIABLES
    mp,         \* the mempool
    virt,       \* the virtual state: [id, acc], acc the accepted transactions
    mined,      \* the transactions of all blocks so far
    unhandled,  \* the bodies virtual has processed and handle_new_block_transactions has not
    task,       \* [Workers -> record]: what each thread is doing
    cache,      \* the cached template, or None
    submits,    \* submissions so far
    blocks,     \* blocks so far
    twin        \* history: whether a known orphan was ever added to the pool

vars == <<mp, virt, mined, unhandled, task, cache, submits, blocks, twin>>
env == <<virt, mined, unhandled, submits, blocks, twin>>

Idle == [pc |-> "idle"]

------------------------------------------------------------------------------
(* The consensus as the manager sees it. *)

Conflict(t, u) == t # u /\ (Inputs[t] \cap Inputs[u] # {} \/ Consumed[t] \cap Consumed[u] # {})

Consistent(acc) ==
    /\ \A t \in acc : ParentsIn(Txs, t) \subseteq acc
    /\ \A t, u \in acc : ~Conflict(t, u)

Utxo(acc) ==
    {o \in Outpoints : Creator[o] \in acc \cup {None} /\ \A t \in acc : o \notin Inputs[t]}

LiveSerials(acc) == {s \in Serials : \A t \in acc : s \notin Consumed[t]}

(* validate_mempool_transaction: entries already filled in are preferred, the others come from *)
(* virtual; then the note-pool operation and the feerate threshold are checked.                *)
Populated(have, t) == have \cup (Inputs[t] \cap Utxo(virt.acc))

Verdict(have, t, threshold) ==
    IF Populated(have, t) # Inputs[t] THEN "missing"
    ELSE IF ~(Consumed[t] \subseteq LiveSerials(virt.acc)) \/ Feerate[t] <= threshold THEN "err"
    ELSE "ok"

(* A template transaction is checked against virtual alone: no entry comes from the mempool. *)
SpendableAt(acc, t) == Inputs[t] \subseteq Utxo(acc)
ValidAt(acc, t) == SpendableAt(acc, t) /\ Consumed[t] \subseteq LiveSerials(acc)

(* A block is added and virtual resolved: any consistent set of mined transactions may be the  *)
(* accepted one, reorganisations included. Blocks of an initial download are never handed to   *)
(* the mempool.                                                                                *)
NewBlock(body, acc, relayed) ==
    /\ blocks < MaxBlocks
    /\ acc \subseteq mined \cup Range(body) /\ Consistent(acc)
    /\ blocks' = blocks + 1
    /\ mined' = mined \cup Range(body)
    /\ virt' = [id |-> virt.id + 1, acc |-> acc]
    /\ unhandled' = IF relayed THEN unhandled \cup {body} ELSE unhandled
    /\ UNCHANGED <<mp, task, cache, submits, twin>>

------------------------------------------------------------------------------
(* validate_and_insert_transaction. *)

(* Nothing here looks at the orphan pool: a known orphan may be submitted again, and so may a *)
(* transaction that another thread is validating.                                              *)
PreValidate(w, t, mode) ==
    /\ task[w] = Idle
    /\ submits < MaxSubmits
    /\ PreValidates(mp, t, mode.rbf)
    /\ submits' = submits + 1
    /\ task' = [task EXCEPT ![w] =
           [pc |-> "validate", tx |-> t, mode |-> mode, have |-> PopulatedFromPool(mp, t),
            threshold |-> IF mode.rbf = "forbidden" THEN -1 ELSE FeerateThreshold(mp, t)]]
    /\ UNCHANGED <<mp, virt, mined, unhandled, blocks, cache, twin>>

ValidateInConsensus(w) ==
    LET k == task[w]
    IN  /\ k.pc = "validate"
        /\ task' = [task EXCEPT ![w] =
               [pc |-> "post", tx |-> k.tx, mode |-> k.mode, have |-> Populated(k.have, k.tx),
                result |-> Verdict(k.have, k.tx, k.threshold)]]
        /\ UNCHANGED <<mp, env, cache>>

(* The next thing a thread does with the transactions an insertion or a block unorphaned. *)
ThenUnorphan(out) == IF out = {} THEN Idle ELSE [pc |-> "unorphan", in |-> out]

(* The write lock: the insertion and the search for orphans it completes. *)
PostAndInsert(w) ==
    LET k == task[w]
    IN  /\ k.pc = "post"
        /\ \E res \in PostValidate(mp, k.tx, k.mode.high, k.mode.orphan, k.mode.rbf, k.have, k.result) :
               LET u == IF res.in THEN Unorphaned(res.mp, k.tx) ELSE [mp |-> res.mp, out |-> {}]
               IN  /\ mp' = u.mp /\ task' = [task EXCEPT ![w] = ThenUnorphan(u.out)]
                   /\ twin' = (twin \/ (res.in /\ k.tx \in mp.orphans))
        /\ UNCHANGED <<virt, mined, unhandled, submits, blocks, cache>>

(* validate_and_insert_unorphaned_transactions: a round validates without the lock, inserts    *)
(* all under one write lock and collects what these insertions unorphan.                       *)
ValidateUnorphaned(w) ==
    LET k == task[w]
    IN  /\ k.pc = "unorphan"
        /\ task' = [task EXCEPT ![w] =
               [pc |-> "reinsert",
                in |-> {[tx |-> i.tx, high |-> i.high, result |-> Verdict(Inputs[i.tx], i.tx, -1)] : i \in k.in}]]
        /\ UNCHANGED <<mp, env, cache>>

(* The outcomes of the loop body for one transaction, after the outcome "acc". *)
Reinsert(acc, i) ==
    {LET u == IF res.in THEN Unorphaned(res.mp, i.tx) ELSE [mp |-> res.mp, out |-> {}]
     IN  [mp |-> u.mp, out |-> acc.out \cup u.out, twin |-> acc.twin \/ (res.in /\ i.tx \in acc.mp.orphans)] :
        res \in PostValidate(acc.mp, i.tx, i.high, FALSE, OrphanPolicy(i.high), Inputs[i.tx], i.result)}

InsertUnorphaned(w) ==
    /\ task[w].pc = "reinsert"
    /\ \E order \in SetToSeqs(task[w].in) :
       \E all \in FoldLeft(LAMBDA S, i : UNION {Reinsert(acc, i) : acc \in S}, 
                        {[mp |-> mp, out |-> {}, twin |-> twin]}, order) :
           mp' = all.mp /\ twin' = all.twin /\ task' = [task EXCEPT ![w] = ThenUnorphan(all.out)]
    /\ UNCHANGED <<virt, mined, unhandled, submits, blocks, cache>>

HandleNewBlock(w, body) ==
    LET u == HandleBlock(mp, body)
    IN  /\ task[w] = Idle
        /\ body \in unhandled
        /\ unhandled' = unhandled \ {body}
        /\ mp' = u.mp
        /\ task' = [task EXCEPT ![w] = ThenUnorphan(u.out)]
        /\ UNCHANGED <<virt, mined, submits, blocks, cache, twin>>

------------------------------------------------------------------------------
(* expire_low_priority_transactions: a write lock each for the orphans, the accepted cache and *)
(* the collection of expired transactions, which are removed under later locks. How old is too *)
(* old is left open.                                                                           *)
ExpireOrphans(w, old) ==
    /\ task[w] = Idle
    /\ old # {} /\ old \subseteq mp.orphans \ mp.highOrphans
    /\ mp' = RemoveOrphans(mp, old)
    /\ UNCHANGED <<task, env, cache>>

ExpireAccepted(w, old) ==
    /\ task[w] = Idle
    /\ old # {} /\ old \subseteq mp.accepted
    /\ mp' = [mp EXCEPT !.accepted = @ \ old]
    /\ UNCHANGED <<task, env, cache>>

CollectExpired(w, old) ==
    /\ task[w] = Idle
    /\ old # {} /\ old \subseteq mp.pool \ mp.high
    /\ task' = [task EXCEPT ![w] = [pc |-> "expire", in |-> old]]
    /\ UNCHANGED <<mp, env, cache>>

RemoveExpired(w) ==
    /\ task[w].pc = "expire"
    /\ mp' = RemoveAll(mp, task[w].in, TRUE)
    /\ task' = [task EXCEPT ![w] = Idle]
    /\ UNCHANGED <<env, cache>>

(* revalidate_high_priority_transactions: what the pool alone does not populate is looked up   *)
(* in the consensus; a transaction with a missing outpoint is removed without its redeemers.   *)
CollectHigh(w) ==
    LET unsure == {t \in mp.high \ mp.accepted : PopulatedFromPool(mp, t) # Inputs[t]}
    IN  /\ task[w] = Idle
        /\ unsure # {}
        /\ task' = [task EXCEPT ![w] =
               [pc |-> "lookup", in |-> {[tx |-> t, have |-> PopulatedFromPool(mp, t)] : t \in unsure}]]
        /\ UNCHANGED <<mp, env, cache>>

LookUpHigh(w) ==
    /\ task[w].pc = "lookup"
    /\ task' = [task EXCEPT ![w] =
           [pc |-> "revalidate", in |-> {i.tx : i \in {j \in task[w].in : Populated(j.have, j.tx) # Inputs[j.tx]}}]]
    /\ UNCHANGED <<mp, env, cache>>

Revalidate(w) ==
    /\ task[w].pc = "revalidate"
    /\ mp' = RemoveAll(mp, task[w].in, FALSE)
    /\ task' = [task EXCEPT ![w] = Idle]
    /\ UNCHANGED <<env, cache>>

------------------------------------------------------------------------------
(* get_block_template. The virtual state id is read before the cache lock is taken; the lock   *)
(* is held until the template is built or a cached one is found.                               *)

CacheLocked == \E w \in Workers : task[w].pc \in {"select", "build", "drop"}

GetBlockTemplate(w) ==
    /\ task[w] = Idle
    /\ task' = [task EXCEPT ![w] = [pc |-> "lock", since |-> virt.id]]
    /\ UNCHANGED <<mp, env, cache>>

(* A cached template of another virtual state is cleared; one of this state is returned unless *)
(* its lifetime is over. The variant compares nothing.                                         *)
UseCacheAnyState(w) ==
    LET k == task[w]
    IN  /\ k.pc = "lock" /\ ~CacheLocked
        /\ \/ /\ cache # None
              /\ task' = [task EXCEPT ![w] = [pc |-> "return", tmpl |-> cache, since |-> k.since]]
              /\ UNCHANGED cache
           \/ /\ cache' = None
              /\ task' = [task EXCEPT ![w] = [pc |-> "select", since |-> k.since, attempts |-> 1]]
        /\ UNCHANGED <<mp, env>>

UseCache(w) ==
    LET k == task[w]
        kept == IF cache # None /\ cache.id = k.since THEN cache ELSE None
    IN  /\ k.pc = "lock" /\ ~CacheLocked
        /\ \/ /\ kept # None
              /\ task' = [task EXCEPT ![w] = [pc |-> "return", tmpl |-> kept, since |-> k.since]]
              /\ UNCHANGED cache
           \/ /\ cache' = kept
              /\ task' = [task EXCEPT ![w] = [pc |-> "select", since |-> k.since, attempts |-> 1]]
        /\ UNCHANGED <<mp, env>>

(* build_selector: a snapshot of the frontier, under the read lock of the mempool. *)
Select(w) ==
    LET k == task[w]
    IN  /\ k.pc = "select"
        /\ task' = [task EXCEPT ![w] =
               [pc |-> "build", since |-> k.since, attempts |-> k.attempts, snap |-> Ready(mp)]]
        /\ UNCHANGED <<mp, env, cache>>

(* What the selection rounds end with: the transactions taken and those the consensus refused. *)
(* Everything is offered when it fits in a block; otherwise the rounds stop once the block is  *)
(* full or the candidates are used up.                                                         *)
Selection(snap, taken, refused) ==
    LET valid == {t \in snap : ValidAt(virt.acc, t)}
    IN  /\ taken \subseteq valid /\ refused \subseteq snap \ valid
        /\ \/ taken = valid /\ refused = snap \ valid
           \/ Cardinality(snap) > BlockCap /\ Cardinality(taken) = BlockCap
        /\ Cardinality(taken) <= BlockCap

(* is_successful of the selectors: at least 80% full or less than 20% refused. *)
Successful(snap, taken, refused) ==
    \/ Cardinality(snap) <= BlockCap
    \/ refused = {}
    \/ Cardinality(taken) * 10 > BlockCap * 8
    \/ Cardinality(refused) * 10 < Cardinality(snap) * 2

Build(w, taken, refused) ==
    LET k == task[w]
        tmpl == [id |-> virt.id, acc |-> virt.acc, txs |-> taken]
    IN  /\ k.pc = "build"
        /\ Selection(k.snap, taken, refused)
        /\ IF Successful(k.snap, taken, refused) \/ k.attempts >= MaxAttempts
           THEN /\ cache' = tmpl
                /\ task' = [task EXCEPT ![w] = [pc |-> "return", tmpl |-> tmpl, since |-> k.since]]
           ELSE /\ task' = [task EXCEPT ![w] =
                       [pc |-> "drop", since |-> k.since, attempts |-> k.attempts,
                        missing |-> {t \in refused : ~SpendableAt(virt.acc, t)},
                        invalid |-> {t \in refused : SpendableAt(virt.acc, t)}]]
                /\ UNCHANGED cache
        /\ UNCHANGED <<mp, env>>

(* InvalidTransactionsInNewBlock: redeemers stay when only outpoints were missing. *)
DropInvalid(w) ==
    LET k == task[w]
    IN  /\ k.pc = "drop"
        /\ mp' = RemoveAll(RemoveAll(mp, k.missing, FALSE), k.invalid, TRUE)
        /\ task' = [task EXCEPT ![w] = [pc |-> "select", since |-> k.since, attempts |-> k.attempts + 1]]
        /\ UNCHANGED <<env, cache>>

ReturnTemplate(w) ==
    /\ task[w].pc = "return"
    /\ task' = [task EXCEPT ![w] = Idle]
    /\ UNCHANGED <<mp, env, cache>>

------------------------------------------------------------------------------
Init ==
    /\ mp = EmptyMempool
    /\ virt = [id |-> 0, acc |-> {}]
    /\ mined = {} /\ unhandled = {}
    /\ task = [w \in Workers |-> Idle]
    /\ cache = None
    /\ submits = 0 /\ blocks = 0 /\ twin = FALSE

Submission(w) == (\E t \in Txs, mode \in Modes : PreValidate(w, t, mode)) \/ ValidateInConsensus(w) \/ PostAndInsert(w)

Unorphaning(w) == ValidateUnorphaned(w) \/ InsertUnorphaned(w)

Expiry(w) ==
    \/ \E old \in SUBSET mp.orphans : ExpireOrphans(w, old)
    \/ \E old \in SUBSET mp.accepted : ExpireAccepted(w, old)
    \/ \E old \in SUBSET mp.pool : CollectExpired(w, old)
    \/ RemoveExpired(w)

Revalidation(w) == CollectHigh(w) \/ LookUpHigh(w) \/ Revalidate(w)

Template(w) ==
    \/ GetBlockTemplate(w) \/ UseCache(w) \/ Select(w) \/ DropInvalid(w) \/ ReturnTemplate(w)
    \/ task[w].pc = "build" /\ \E taken, refused \in SUBSET task[w].snap : Build(w, taken, refused)

Next ==
    \/ \E body \in Bodies, relayed \in BOOLEAN : \E acc \in SUBSET (mined \cup Range(body)) : NewBlock(body, acc, relayed)
    \/ \E w \in Workers :
           \/ Submission(w) \/ Unorphaning(w) \/ Expiry(w) \/ Revalidation(w) \/ Template(w)
           \/ \E body \in unhandled : HandleNewBlock(w, body)

Spec == Init /\ [][Next]_vars

------------------------------------------------------------------------------
(* No two transactions of the pool spend the same outpoint, whatever the locks let happen      *)
(* between the checks of a submission and its insertion (execute_replace_by_fee).              *)
NoDoubleSpend == \A t, u \in mp.pool : t # u => Inputs[t] \cap Inputs[u] = {}

(* The outpoint and serial indexes name exactly the pool transactions, no two of which consume *)
(* the same outpoint or serial; no transaction is in both pools; and neither pool exceeds its  *)
(* limit, as the assertion before the insertion demands. A known orphan that was submitted     *)
(* again and inserted ends all of this: nothing takes it out of the orphan pool.               *)
PoolConsistent == ~twin =>
    /\ \A t, u \in mp.pool : ~Conflict(t, u)
    /\ \A o \in Outpoints : {t \in mp.pool : o \in Inputs[t]} = {mp.owner[o]} \ {None}
    /\ \A s \in Serials : {t \in mp.pool : s \in Consumed[t]} = {mp.serialOwner[s]} \ {None}
    /\ mp.pool \cap mp.orphans = {}
    /\ Cardinality(mp.pool) <= MaxTxs /\ Cardinality(mp.orphans) <= MaxOrphans

(* A transaction of a handled block is never in the pool again while the accepted cache        *)
(* remembers it, even when it was validated before the block came and inserted after it,       *)
(* unless it was in both pools: a block takes such a transaction out of one of them only.      *)
AcceptedNotInPool == ~twin => mp.accepted \cap (mp.pool \cup mp.orphans) = {}

(* A template returned to a miner names a virtual state at least as recent as the one at the   *)
(* start of the call, whichever thread built it (BlockTemplateCache::lock).                    *)
TemplateFresh == \A w \in Workers : task[w].pc = "return" => task[w].tmpl.id >= task[w].since

(* What a thread found invalid or expired and is about to remove, by its id. *)
Condemned(w) ==
    CASE task[w].pc \in {"revalidate", "expire"} -> task[w].in
      [] task[w].pc = "drop" -> task[w].missing \cup task[w].invalid
      [] OTHER -> {}

(* A transaction of the node's own (high priority) leaves the pool only when it was mined, when *)
(* a conflicting one was mined or replaces it, with an ancestor, or because a thread found it  *)
(* invalid, or collected it as expired before it left and came back as the node's own: never   *)
(* to make room, and never through the removal of transactions it does not depend on.          *)
OwnKept ==
    [][\A t \in mp.high \ mp'.pool :
          \/ \E u \in mp'.accepted \cup mp'.pool : u = t \/ Conflict(t, u)
          \/ \E u \in mp.pool \ mp'.pool : t \in RedeemersInPool(mp, u)
          \/ \E w \in Workers : t \in Condemned(w)]_vars
=============================================================================
