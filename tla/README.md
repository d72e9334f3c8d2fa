# Verification of Marigold

Marigold is a proof-of-work block DAG node derived from rusty-kaspa. Besides its
transparent UTXO ledger it keeps a note pool, and trustee signers attest blocks
with finality anchors. This directory holds TLA+ models of the parts where
ordering, reorganisation, concurrency and restarts decide whether the node is
correct, the TLC runs that check them, and TLAPS proofs of what holds for every
instance. `PROJECT.json` maps each definition to the source lines it models.

## Inventory

What the system is made of, and what is hard about each part. "Model" names the
modules here; parts without one are discussed under *Not modelled* and *Plan*.

| Part | State | Operations | What is hard | Model |
|---|---|---|---|---|
| Dependency manager (`consensus/src/pipeline/deps_manager.rs`) | pending hashes, task groups, dependents, idle signal | register, try_begin, end, wait_for_idle | threads racing on a hash and its parents, lost or doubled tasks, shutdown | BlockPipeline |
| Header and body processors | channels, statuses, header and body stores | worker, queue_block, process, commit, exit | status read and written in separate steps, the same block in both stages | BlockPipeline |
| Virtual processor | statuses, diffs, acceptance data, virtual state, UTXO set, note pool | resolve, sink search, reorg walk, verify, commit | reorgs over several chains with one accumulated diff, verdicts stored for ever, finality, restart in the middle | VirtualProcessor, BlockDag |
| UTXO and pool diffs | `add`, `remove` collections | compose, reverse, apply, view | cancellation rules, unwrapped errors | StateDiff |
| Note pool rules, coinbase, transaction checks | live notes, rewards | mint, transfer, redeem, maturity, freshness, locks | value moving between two ledgers, replay at a later score | VirtualProcessor |
| Finality anchors in consensus | latest, latest_full, pending, deny list | guard, collect, promote, commit, gossip apply | gossip racing with a resolve, evidence per fork, staleness, restart | FinalityAnchor |
| Trustee signer | state file, cursor, partials, submitted score | tick, sign and share, drain, submit | crash between signing, writing and sharing; reorgs of the node | TrusteeSigner |
| Pruning processor | pruning point, pruning UTXO set, retention checkpoint | advance, move, prune, recover | separate batches, crashes between them, an IBD that moves the pruning point under the worker | Pruning |
| Mempool and mining manager | pool, orphans, accepted cache, template cache | insert, replace, evict, unorphan, new block, expire, revalidate, template | validation without a lock, stale templates, blocks handled late | Mempool, MiningManager |
| IBD and P2P flows | staging consensus, syncer view | negotiate, headers, proof, catch-up, bodies, SMT, pool and UTXO set, anchor check | awaits between check and use, failure and resumption half-way | Pruning (catch-up and state syncs) |
| Consensus sessions, notifications, connection and address managers | session lock, subscriptions, peers | swap, broadcast, retry, ban | lock order, changes racing with broadcasts | swap in UtxoIndex, else planned |
| UTXO index and paged queries | utxos by script, supply, tips | update, resync, start, reset, page | key-by-key writes, crashes, pages read across updates | UtxoIndex, UtxoView |
| Wallet note vault and note account | notes, keys, reservations | reserve, submit, confirm, rotate | lost confirmations, restart | planned |
| Header DAG: GHOSTDAG, reachability, relations | interval tree, future covering sets, merge set data, relations, selected tip | add, reindex, move the root, colour, commit, delete | intervals that run out, deletions between insertions, data cut off by a pruning | Reachability, GhostDag, HeaderDag |
| Windows, difficulty | per-block data | pure arithmetic | boundaries | not planned |
| Cryptography, scripts, RPC, database, bridge, tools | | | | not planned, or last |

The parts meet as follows. A block enters through `validate_and_insert_block`,
passes the header, body and virtual stages over unbounded channels, and is
answered by the stage that finishes with it. The virtual stage chooses the sink,
verifies the blocks of its chain with the diff algebra, and commits the virtual
state. Anchor transactions accepted on the chain, and anchors gossiped by peers,
move a ratchet that the next sink search obeys. Trustee signers poll a node,
sign chain blocks at a cadence, gather each other's partial signatures and
submit anchors as transactions.

Each virtual commit also tells the pruning worker how far the sink is, and sends
the UTXO difference to the index. The mining manager validates transactions
against virtual, builds templates from it, and is handed the transactions of
relayed blocks after virtual has processed them. An IBD that catches up writes a
new pruning point under the pruning worker and has the index resynced.

## Modules

| Module | Models |
|---|---|
| `StateDiff` | `UtxoDiff` and `PoolDiff`: `with_diff_in_place`, reversal, views, batch application |
| `BlockDag` | selected parent, chain, mergeset and its order, blocks at a depth, the candidate heap, virtual parents, bounded merge |
| `VirtualProcessor` | `resolve_virtual` and all it calls, body commit, restart; extends the two above |
| `FinalityAnchor` | the same resolve loop seen by the anchors: guard, search, collect, promote, commit, with gossip and restart between any two steps; extends `BlockDag` |
| `TrusteeSigner` | several signers, their nodes, the partials in flight, the state files |
| `BlockPipeline` | dependency managers, workers and pool threads of the header and body stages, virtual stage as consumer, exit |
| `Mempool` | the mempool as a value and its methods as operators on it: transaction pool, orphan pool, accepted cache, indexes, replacement, eviction, block handling |
| `MiningManager` | the calls of the mining manager as tasks whose steps are the critical sections; the template cache; extends `Mempool` |
| `UtxoView` | what the UTXO index promises its readers (abstract) |
| `UtxoIndex` | the index write by write, the consensus that feeds it, crashes, and a client that walks pages; implements `UtxoView` |
| `Pruning` | the pruning worker, the virtual processor that wakes it and the IBD that catches up, batch by batch |
| `Reachability` | the interval tree and future covering sets as a value, with queries, insertion, reindexing, moves of the reindex root and deletion as operators on it |
| `GhostDag` | selected parent, merge set and K-cluster colouring of a new block; extends `Reachability` |
| `HeaderDag` | headers committed, and pruned block by block between commits; extends `GhostDag` |
| `StateDiffProofs`, `TrusteeSignerProofs`, `BlockPipelineProofs`, `PipelineOrderProofs`, `UtxoIndexProofs`, `UtxoWalkProofs`, `PruningProofs` | the theorems |
| `MC*` | the instances TLC checks |

`Bug_` operators, and the ones a comment calls a variant, are broken forms of the
operator that follows them. Each property fails when the matching variant takes its place.

### StateDiff
A collection is the set of its entries. Entries are compared by key and score, a
pool note having score 0, which makes the two Rust types one algebra.
`DiffError` is the `Err` that the virtual path unwraps.

### BlockDag
The DAG above a root, which is genesis or the pruning point of a synced node.
All blocks have the same work and every mergeset is blue, so blue work, blue
score and DAA score are the size of the past. `Hash` breaks ties.

### VirtualProcessor
`known`, `body`, `status`, `diffs`, `accepted` and `virt` are the stores, `r` is
the running resolve. A step is what another thread or a crash can tell apart: a
body commit, the start of a resolve, a refused candidate, the walk down to the
split point, one block of the walk up (inherit, skip, apply stored, verify),
the end of the walk, the commit batch. The UTXO set and pool move together in
one write batch, so one collection of coins stands for both. A header commits
to the collection itself instead of to its hash. A transaction names what it
spends, what it makes, its freshness anchor and who signed it. A block producer
may overpay in the coinbase or commit to the wrong state.

### FinalityAnchor
`latest`, `full`, `pending` and `deny` are the four items of the anchor store.
`r.read` is the latest anchor as `collect_finality_anchor_updates` read it,
`r.seen` as the guard read it. `Collect`, `PromotePending` and `CommitVirtual`
are separate steps because the store lock is dropped between them. A gossiped
anchor first loads the virtual state (`GossipArrives`) and then works under the
write lock in one step. Which blocks are UTXO disqualified is a constant.
A block's payloads take effect when it is added to the chain. They stand for
the anchor transactions that chain block accepts.

### TrusteeSigner
One loop per signer with the labels `drain`, `target`, `share`, `submit`. The
node of each signer moves on its own between two RPCs, along any sinks of
increasing weight. Partials to peers arrive in any order, or never (a message
may stay in flight for ever), and are lost with the memory of a crashed peer. A
faulty trustee may have signed anything, and its partials can appear whenever
an anchor is assembled. `Faults` says whether writes of the state file may fail
or be torn. The trustee keys are pinned, so a partial is what its signer signed.

### BlockPipeline
`queue`, `deps`, `jobs` and `taken` are the task groups, their dependents, the
jobs in the pool and the tasks taken by a thread, for each stage. The mutex of
the manager makes register, try_begin and end one step each; reading a status,
validating and writing it are another. `world` fixes which blocks are valid.
The panics of the code are recorded in `faults`.

### Mempool and MiningManager
`mp` is the mempool: its maps are sets and functions over the transactions, and
what the code derives (chained and ready transactions, the orphan indexes) is
derived here. Transactions have one size, so that the size limit and the count
limit are one. A method of `Mempool` is an operator from a mempool to the set of
mempools it may leave; several when an orphan or a low-fee transaction is evicted.

`task[w]` is what a thread is doing. A submission is `PreValidate` (read lock),
`ValidateInConsensus` (no lock) and `PostAndInsert` (write lock, with the search
for orphans it completes); a batch is several of these side by side. The rounds
of the unorphaning loop, the handling of a block, expiry and revalidation are cut
at their locks in the same way. `virt` is any consistent set of mined
transactions, so every new block may reorganise, and `unhandled` holds the blocks
that virtual has processed and the mempool has not. A template reads the virtual
id, locks the cache, takes the frontier, and builds against the virtual state of
that moment. `ResubmitOrphans` says whether RPC may submit a transaction that is
an orphan or in flight; the relay flow never does, as it asks
`has_transaction` first.

### UtxoIndex and UtxoView
`hist` is the sequence of UTXO sets virtual has had, `queue` the differences sent
and not yet received. A step is one write of the index database: an entry removed
or added, the supply, the tips, each of the three deletions of `delete_all`, each
chunk of a resync. The readers hold the lock of the index, so `ReadPage` takes
place between two updates. `walk.always` are the entries that were in the index
during the whole walk so far.

`UtxoView` is a position in `hist` that moves forward one set at a time, or is
lost and comes back at the newest. The refinement maps an index that is down or
rebuilding to "lost", a running update to the set before it, and everything else
to the stored entries. `QuietReset` says that consensus is replaced only when no
difference is in flight. A first sync is such a case: the old consensus has no
virtual change to announce while the headers of the new one are downloaded.

### Pruning
The selected chain is `0 .. Height`. `Fork` and `Merge` place a side block: the
chain block it grows from and the one that merges it. `data[b]` is how much of a
block is stored: nothing, its header, its body, or body and state. `pp`, `root`,
`checkpoint`, `position`, `stable` and `missing` are the persisted items; `utxos`
and `pool` are the chain blocks whose diffs the pruning UTXO set and pool state
contain. The worker's steps are its batches: the pruning point, one chain block of
the move, one deleted block, the checkpoint. The IBD's steps are the batch of the
catch-up and, for each piece of state, its clearing, its import and its flag. A
failed assertion of the worker ends the process, as the panic hook does.
`PromptWorker` says that a move does not outlast a whole IBD of the UTXO set.

### Reachability, GhostDag and HeaderDag
The reachability store is one record `r`: parent, interval, height, children and
future covering set of each block, and the reindex root. Each function of
`processes/reachability` is an operator from a store to a store. `r.ok` turns
false where the code returns an error that its callers unwrap, where an unsigned
difference would be negative, and where an interval is built that violates the
assertions of `Interval::new`. Those are debug assertions; the model counts them
because nothing else would stop such an interval in a release build. The reclaim
functions and the ones that offset siblings exist twice in the code, for the
interval before and after a block; here the side is a parameter. The shares of
`split_exponential` are exact where the code uses floating point.

`HeaderDag` has the stores of the header processor, and in `past`, `chain` and
`blue` what the headers themselves say, which no pruning deletes: these are the
reference for the properties. A commit is one step, as it holds the reachability
store from staging to write. `StartPruning` moves the pruning point and computes
what is kept: pruning point and anticone, the blocks of their GHOSTDAG data and
windows (`Window` chain blocks or any more), and up to `MaxLevels` blocks for the
proof. `PruneNext` is one block of the traversal; headers are committed between
two of them, as the pruning lock is yielded there. In this module virtual merges
every tip above the pruning point, the retention root is the pruning point, and
the reindex root is always above the pruning point, as the real pruning depth is
far above reindex depth and slack.

Parents of a header are in the future of the pruning point or in its kept
anticone, and at least one is in that future. The code demands only the last.
Headers that merge blocks which a pruning is removing are left out. `NeverPanics`
depends on that at the depths of the instance, and nothing is claimed for such
headers here; whether the depths of the real networks exclude them has not been
examined.

## Runs

| Run | Instance | Shows |
|---|---|---|
| `virtual_chain` | 7 blocks, two forks that merge each other, conflicting payments, mint, redeem, a lapsing lock, two faulty producers, 1 restart | stored state equals recomputation from the root, verdicts do not depend on the path, no panic, supply conserved, replays complete, nothing accepted twice, heaviest qualified sink, finality kept, every body settled |
| `signer` | 2 correct and 1 faulty trustee, a tree with a reorg inside one interval, unlimited crashes | no equivocation, file covers what was shared, conflicting anchors expose a faulty trustee |
| `signer_live` | 2 trustees, one chain, file faults on | a quorum held by a running signer is submitted |
| `signer_unwritten` | as `signer`, writes may fail | violated: see *Findings* |
| `pipeline` | 4 blocks, 4 tasks (one block twice), exit at any time, 3 worlds of verdicts and task kinds | no panic, one token per hash, in-order blocks never missing parents, statuses advance, clean shutdown, every call returns |
| `anchor` | 9 blocks, two branches with anchors and evidence on both, gossip for both, 1 restart | the search is complete, the ratchet holds verified anchors, evidence binds per chain, the ratchet falls only to one race, fresh anchored history is kept |
| `anchor_sink` | as `anchor` | violated: see *Findings* |
| `mempool` | 4 transactions (a parent, its double spend, a child, a note-pool conflict), 2 threads, 3 submissions, 1 block, pool of 2, orphan pool of 1, templates of 1 transaction and 2 attempts | indexes and pools consistent, accepted transactions stay out, templates fresh and valid |
| `mempool_resubmit` | as `mempool`, RPC resubmits orphans | violated: see *Findings* |
| `utxoindex` | 3 outpoints of 2 addresses, 4 UTXO sets, 4 commits, 2 crashes, 1 reset, chunks and pages of 2 | synced means equal, the index implements `UtxoView`, walks are complete, the index catches up |
| `pruning` | a chain of 9 and 2 side blocks, finality and pruning depth 2, 2 catch-ups, 1 failed IBD, 2 crashes | the UTXO set can always be moved on, nothing needed is deleted, recovery completes |
| `header_dag` | 12 headers, K = 1, forks, merges and low blocks behind the reindex root, reindex depth 2, slack 1, 1 pruning | queries answer as the headers say, no assertion fails, the stored order is the one reloaded, blue pasts are K-clusters |

Bounds. Seven blocks allow a reorg to a heavier fork, back to the first one when
the fork is disqualified, and a fork refused because its rival became final.
Finality depth 3 (5 in the anchor runs) puts the boundary inside the instance.
Maturity 1, freshness window 1 and a lock lapsing at score 3 make transactions
valid in a block and not in a child. One restart at any step covers each single
window. A second would start from a state the first leaves. The signer's
interval 3 and depth 1 put the two branches less than an interval apart. Three
trustees with quorum 2 are the smallest set in which quorums must intersect; the
code has five and three. Deadlock is not checked where the system may rest: when
all blocks have arrived, or after an exit. The correct trustees are symmetric, and
so are the threads of the mempool.

The mempool's limits are all reached: a pool of two has to evict for a third, an
orphan pool of one evicts at random, and a template of one transaction leaves some
behind. One block is enough for a submission, an unorphaning round or a template
to be overtaken at each of its locks. The outpoints of the index are more than a
chunk and more than a page, so that resyncs and walks are interrupted half-way. A
chain of nine has four pruning samples: the pruning point moves twice by itself
with a catch-up in between, and a crash during the recovery of a crash is covered.

In `header_dag` the first eight headers are nearly fixed, so that the reindex root
has left genesis, and the other four are free. With depth 2 and slack 1 intervals run
out at once: they are reclaimed before and after a chain block, at the reindex root
and from reserves on the way, the root advances and changes branch, and blocks with
none, one and many children are deleted while headers still arrive. Not reached:
several siblings before the chosen child when the root advances, and a second split
of the root itself. At K = 1 the limit of a candidate's peers never decides alone.

Fairness. The virtual thread and the pipeline threads keep running while they
have work (weak fairness of the whole stage: operating-system threads that
block only on their own channel or lock). `VirtualProcessor` writes out when the
thread has work instead of leaving it to ENABLED. A signer's loop is weakly fair
as a task of the runtime. Submission is strongly fair: the node does not refuse
the same ready anchor for ever, which `try_submit` assumes by retrying each turn.
The threads of the index and of a page reader, the pruning worker, the virtual
thread that wakes it, and the IBD with its resumption (which the node retries with
the next peer) are weakly fair; failures of an IBD and crashes are bounded.
Nothing is assumed of crashes, the network, block arrival or gossip.

## Findings

1. `write_state` logs a failed write and the partial is shared anyway, against
   the comment that persisting first makes equivocation impossible
   (`trustee-signer/src/lib.rs:94`, run `signer_unwritten`). A torn file, which
   reads as never having signed, has the same effect.
2. A gossiped anchor on the chain of a body tip outside the finality point's
   future is enforced, and the next sink search runs out of candidates
   (`processor.rs:1411`, run `anchor_sink`).
3. An orphan that RPC submits again, after consensus has its parent and before the
   mempool has handled that block, is accepted and stays an orphan too.
   `remove_transaction` then finds the orphan and returns, so that replacing the
   transaction leaves it in the pool: a double spend, which
   `replace_by_fee.rs:80` rules out (`remove_transaction.rs:19`, run
   `mempool_resubmit`).

Two more disagreements have no run of their own. `tlc -config
MCFinalityAnchorRatchet.cfg MCFinalityAnchor` reproduces the first:
`commit_virtual_state` writes a new latest anchor chosen against a score read
under a lock dropped since (`virtual_processor/processor.rs:529`), and a gossiped
anchor stored in between is overwritten by an older one, against the contract of
`set_latest_batch` that the ratchet never moves backward.

`tlc -config MCPruningPool.cfg MCPruning` reproduces the second. `intrusive_pruning_point_store_writes`
(`consensus/src/consensus/mod.rs:508`) lowers the UTXO-set and SMT flags together
with the batch, and not the pool flag. An IBD that fails before it clears the pool
state is resumed with the flag still up, skips `sync_new_pool_state`, imports the
UTXO set and ends with the pool state of the old pruning point. The comments say
that `utxoset_position` "remains a single truth for both"
(`pruning_processor/processor.rs:269`) and that these flags must fall with the
batch "in case the node crashes suddenly before syncing starts" (`mod.rs:506`).

For 2 and for the ratchet the `anchor` run states what does hold:
`SearchIsComplete` and `RatchetFallsOnlyToALostRace`. For 3 the `mempool` run shows
that there is no double spend as long as nobody resubmits an orphan.

Two properties need an assumption on timing that no lock of the code enforces.
Without `QuietReset`, a difference of the replaced consensus is applied to the
index of the new one, and TLC refutes `SyncedMeansEqual`. Without `PromptWorker`, a
move of the pruning UTXO set that stays between two chain blocks while an IBD clears
and imports the whole set goes on with its old diffs, and TLC refutes
`MoveRecoverable`. The code makes both unlikely, not impossible.

## Proofs

All are checked by TLAPS for every value of the constants that satisfies the
named assumptions of the modules.

**StateDiffProofs** has no assumption. `Fits(C, d)` says that `d` leads from the
collection `C` to another. For diffs that fit: application gives a collection
(`ApplyIsCollection`), the reversed diff leads back (`ReversalRestores`),
composition never errs (`ComposableNeverErrs`) and equals applying one after the
other (`CompositionIsSequential`). Together they are why the walk down and up of
a reorg is sound and its unwraps safe.

**TrusteeSignerProofs** assumes a finite trustee set with two quorums
intersecting, a positive interval, and distinct scores along a chain
(`SignerAssumption`, `ChainAssumption`). `SignerTypes` includes file faults; the
others assume whole writes (`Faults = {}`). `NoEquivocation` is not inductive:
it says nothing of the state file a restart reads. The invariant adds that
memory and file agree while a signer is up, that the file's score is the score of
its block, and that everything shared is either the file's block or a whole
interval below it. A new signing is an interval above the file, so it conflicts
with nothing shared. `PersistedFirst` reads off that invariant, and
`Accountability` adds that anchors are made of shared or faulty signatures.

**BlockPipelineProofs** proves `TypeOK`, `NoPanic`, `OneToken`, `Advances` and
`ExitIsLast` for any DAG, tasks and worlds. The inductive invariant joins type,
one token per hash and no panic with three facts. Tasks of a group have the
group's hash (`Grouped`). A block with a task in the body stage has a stored
status (`Headed`). A status that a thread is about to overwrite is still the one
it read: its own stage has no second thread on the hash, and the other stage
writes only over other statuses (`Current`). For
the shutdown `Closing` adds that an exit message is last in its channel, that a
worker which stopped receiving has an empty channel, and that one that was woken
has nothing pending. So the single `if` in `wait_for_idle` suffices: nobody can
register between the wake-up and the exit.

**PipelineOrderProofs** proves `InOrderNeverMissing` on top of that invariant. The
property speaks of answers, long after the statuses were read, so the invariant
`Order` follows each task through the four places it can be in: the channel and
the groups of the header processor, then of the body processor (`OnePlace`). What a
task needs stays ahead of it (`Ahead`): channels are first in, first out, a group is
joined only after the needed tasks were received, and `try_begin` takes a task only
when no parent is pending, so those tasks have left the processor. A task that has
left was refused or its block has the status which that processor gives (`Outcome`).
So a parent found missing was refused each time it had been sent (`Deserving`), and
stays so because a caller is told once.

**UtxoIndexProofs** assumes finitely many outpoints and `QuietReset`. It proves
`SyncedMeansEqual` and that the index implements `UtxoView`, initial states and
every step. What the readers rely on is the tips, so the invariant says what tips
mean at each write: while the index is idle the queue holds the consecutive
numbers from the tips' position to the newest set; during an update the entries
are the old set with a part of the difference applied; during a resync the tips
are gone until the scan has copied a whole set.

**UtxoWalkProofs** proves `WalkComplete`: a client that follows the cursor has
seen every entry that was there throughout. The invariant is that everything at or
below the cursor that was always there has been seen, and it needs the cursor's
key order only, so it holds whatever the updates in between do.

**PruningProofs** proves `MoveRecoverable` and `PruneKeeps` for any chain, side
blocks and depths, assuming `PromptWorker`. `MoveRecoverable` is far from inductive.
`KeptSet` keeps the position at or below the pruning point and that at or below
virtual, with diffs above the position; `InStep` lets the position lag only in
the middle of a move or before a restarted worker has recovered; `Sinks` says that
queued sinks are at or below virtual, which stays at the pruning point during a
catch-up; `Flags` says that a raised UTXO flag means that the IBD has nothing left
to sync.

Only model-checked: liveness (`Settles`, `QuorumSubmitted`, `EveryCallReturns`,
`CatchesUp`, `RecoveryCompletes`), which TLAPS cannot reach; the supply sums
of the index; all of `Mempool`, `MiningManager`, `VirtualProcessor`, `FinalityAnchor` and `HeaderDag`, whose folds over mergesets and
orphans, recursive chains and interval trees would need induction over data.

## Not modelled

Inside modelled parts: red blocks in the virtual state (all mergesets of `BlockDag`
are blue; `GhostDag` has the colouring), non-DAA mergeset rewards,
sequence commitments and lanes, the header pruning-point and parent-level
checks, mergeset size and candidate limits, the blue-work filter of candidates
(an optimisation of the bounded merge), `diff_from`, script and signature
execution, mass, sequence locks, block templates, the anchor alert. The validity
of headers and bodies is an input of the pipeline model. The anchor guard is in
`FinalityAnchor` only: without pinned trustees it is inactive, which is what
`VirtualProcessor` models. After a restart nothing resolves virtual until the
next body arrives. That is how the code behaves and the variable `missed` keeps
track of it.

Mempool: mass and fee arithmetic (a feerate rank stands for it), script and
standardness checks, the rate limiter of revalidation, the frontier's sampling
weights (any transaction of the frontier may be drawn), feerate estimation.

UTXO index: the unpaged queries, torn writes below the database's batches, and
update errors, which the indexes processor only logs.

Pruning: the content of headers proofs, archival nodes, the staging consensus of a
proof IBD. Relations and reachability of deleted headers are in `HeaderDag`.
`get_and_verify_path` and the batch it leads to are one step. Virtual makes no
progress in the transitional state. After a catch-up the prune happens at the next
move of the pruning point or at a restart, as in the code.

Header DAG: difficulty and timestamps, the finality point, the merge set size limit,
relations of levels above 0, the header-only chain segment that a pruning may keep,
archival nodes, trusted headers imported by an IBD. Statuses are in `BlockPipeline`.

Whole parts: cryptography, arithmetic of difficulty and windows, RPC
translation, transport, database engine, user interfaces and tools. They are
taken as ideal, or have no protocol state of their own.

## Plan

Done, in this order: diff algebra, virtual processor, trustee signer, block
pipeline, finality anchors, mempool and mining manager, UTXO index, pruning and
catch-up, header DAG; the proofs of diffs, signer, pipeline, index and pruning.

Next, most important first:

1. Wallet note vault and note account: reservation, submission, confirmation,
   restart; no note spent twice by the wallet, none forgotten.
2. Gossip flow and IBD anchor check composed with `FinalityAnchor` over two nodes.
3. Headers that merge blocks a pruning is removing, in `HeaderDag`.
4. The staging consensus of a proof IBD; consensus sessions; notifications,
   connection and address managers.

Theorems to add: `LatestIsVerified`, `EvidenceBinds` and the ratchet bound of
`FinalityAnchor`; the mempool's conflict freedom.
