------------------------------- MODULE Pruning -------------------------------
(***************************************************************************)
(* The pruning point of a node: the pruning processor that moves it up the *)
(* selected chain, advances the UTXO set and note-pool state kept for it   *)
(* and deletes what lies below (pipeline/pruning_processor/processor.rs),  *)
(* and the catch-up of an IBD that replaces it over the network            *)
(* (flows/src/ibd/flow.rs, consensus/mod.rs).                              *)
(*                                                                         *)
(* The selected chain is 0 .. Height, a block standing for its blue score. *)
(* A side block forks off the chain block Fork[b] and is merged by the     *)
(* chain block Merge[b]. A UTXO set or a pool state is the set of chain    *)
(* blocks whose diffs it contains: that of block b is 0 .. b. The database *)
(* writes a batch at once; the process may die between two batches.        *)
(***************************************************************************)
EXTENDS Integers, FiniteSets

CONSTANTS
    Height,         \* the sink of the network
    Finality,       \* finality_depth: the distance of two pruning samples
    Depth,          \* pruning_depth
    Window,         \* how far below a pruning point its proof and windows reach
    Side,           \* the blocks off the selected chain
    Fork, Merge,    \* the chain blocks around a block, itself for a chain block
    PromptWorker,   \* no catch-up both starts and ends between two steps of a move
    MaxCatchUps, MaxFailures, MaxCrashes

Chain == 0 .. Height
Blocks == Chain \cup Side

ASSUME PruningAssumption ==
    /\ Height \in Nat /\ Finality \in Nat \ {0} /\ Depth \in Nat \ {0} /\ Window \in Nat
    /\ Side \subseteq Nat /\ Side \cap Chain = {}
    /\ Fork \in [Blocks -> Chain] /\ Merge \in [Blocks -> Chain]
    /\ \A b \in Chain : Fork[b] = b /\ Merge[b] = b
    /\ \A b \in Side : Fork[b] < Merge[b]
    /\ PromptWorker \in BOOLEAN
    /\ MaxCatchUps \in Nat /\ MaxFailures \in Nat /\ MaxCrashes \in Nat

VARIABLES
    pp,             \* pruning_point
    root,           \* retention_period_root
    checkpoint,     \* retention_checkpoint
    position,       \* utxoset_position
    utxos, pool,    \* the UTXO set and the note-pool state of the pruning point
    stable,         \* which of the utxoset, smt and pool stable flags are up
    missing,        \* body_missing_anticone is not empty
    data,           \* data[b]: what is stored of b
    virt,           \* the sink of the virtual state
    virtualPool,    \* virtual's note-pool state
    message,        \* the pruning channel: the sink of the last message, or Empty
    recovered,      \* the flag of the pruning worker
    exiting,        \* is_consensus_exiting
    pc, job,        \* where the pruning worker is, with its local variables
    todo, phase,    \* what the running IBD still has to sync, and how far the first of it is
    faults          \* catch-ups, failures and crashes so far

meta == <<position, utxos, pool, stable, missing>>
ibd == <<todo, phase>>
worker == <<recovered, exiting, pc, job>>
vars == <<pp, root, checkpoint, meta, data, virt, virtualPool, message, worker, ibd, faults>>

Empty == -1
Nothing == 0        \* nothing, or no more than what a relation of a kept block needs
HeaderOnly == 1
Body == 2
UtxoState == 3      \* body, UTXO diff and pool diff

Samples == {b \in Chain : b % Finality = 0}
Transitional == missing \/ stable # {"utxo", "smt", "pool"}
DeepEnough(p) == virt >= p + Depth              \* confirm_pruning_depth_below_virtual
Future(b) == {c \in Blocks : b <= Fork[c]}      \* b included
Anticone(b) == {c \in Blocks : c = b \/ (Fork[c] < b /\ b < Merge[c])}

(* The roots advance_retention_period_root may return: it depends on the retention period. *)
RetentionRoots(p) == {r \in Samples : root <= r /\ r <= p}

(* next_pruning_points: the last of the pruning points above `current` that `sink` sees. *)
NextPruningPoint(sink, current) ==
    {p \in Samples : /\ p + Depth <= sink /\ current < p
                     /\ \A q \in Samples : q + Depth <= sink => q <= p}

NoJob == [sink |-> 0, next |-> 0, pp |-> 0, root |-> 0, prune |-> FALSE, recover |-> FALSE, del |-> {}]
-----------------------------------------------------------------------------
(* The virtual processor. *)

(* resolve_virtual accepts the next chain block, whose mergeset has its bodies; its header    *)
(* commits to the pool state, so that a node with another state disqualifies it.              *)
ResolveVirtual ==
    /\ ~Transitional /\ virt < Height
    /\ virtualPool = 0 .. virt
    /\ virt' = virt + 1
    /\ virtualPool' = 0 .. virt'
    /\ data' = [b \in Blocks |-> CASE b = virt' -> UtxoState
                                   [] b # virt' /\ Merge[b] = virt' /\ data[b] < Body -> Body
                                   [] OTHER -> data[b]]
    /\ message' = virt'
    /\ UNCHANGED <<pp, root, checkpoint, meta, worker, ibd, faults>>

(* resolve_virtual on a block that leaves the sink where it is. *)
NotifyVirtual ==
    /\ ~Transitional
    /\ message' = virt
    /\ UNCHANGED <<pp, root, checkpoint, meta, data, virt, virtualPool, worker, ibd, faults>>
-----------------------------------------------------------------------------
(* The pruning worker. *)

Forget ==
    /\ pc' = "idle" /\ recovered' = FALSE /\ exiting' = FALSE /\ job' = NoJob
    /\ message' = Empty
    /\ todo' = {} /\ phase' = 0

Return == pc' = "idle" /\ job' = NoJob /\ UNCHANGED recovered

Bug_NoRecovery ==
    /\ pc = "idle" /\ message # Empty
    /\ message' = Empty
    /\ recovered' = TRUE /\ pc' = "advance" /\ job' = [NoJob EXCEPT !.sink = message]
    /\ UNCHANGED <<pp, root, checkpoint, meta, data, virt, virtualPool, exiting, ibd, faults>>

(* recover_pruning_workflows_if_needed, up to the move; or straight to the next pruning point. *)
Receive ==
    /\ pc = "idle" /\ message # Empty
    /\ message' = Empty
    /\ \/ /\ recovered
          /\ pc' = "advance" /\ job' = [NoJob EXCEPT !.sink = message]
       \/ /\ ~recovered /\ position = pp
          /\ pc' = "check"
          /\ job' = [NoJob EXCEPT !.sink = message, !.pp = pp, !.root = root,
                                  !.prune = (checkpoint # root), !.recover = TRUE]
       \/ /\ ~recovered /\ position # pp /\ DeepEnough(pp)
          /\ pc' = "move"
          /\ job' = [NoJob EXCEPT !.sink = message, !.next = position + 1, !.pp = pp, !.root = root,
                                  !.prune = (checkpoint # root), !.recover = TRUE]
       \/ /\ ~recovered /\ position # pp /\ ~DeepEnough(pp)
          /\ UNCHANGED <<pc, job>>
    /\ UNCHANGED <<pp, root, checkpoint, meta, data, virt, virtualPool, recovered, exiting, ibd, faults>>

(* advance_pruning_point_if_possible, up to the move: it starts from the old pruning point. *)
AdvancePruningPoint ==
    /\ pc = "advance"
    /\ \/ /\ NextPruningPoint(job.sink, pp) = {}
          /\ Return /\ UNCHANGED <<pp, root>>
       \/ \E p \in NextPruningPoint(job.sink, pp) :
             /\ pp' = p
             /\ root' \in RetentionRoots(p)
             /\ pc' = IF DeepEnough(p) THEN "move" ELSE "idle"
             /\ job' = [NoJob EXCEPT !.next = pp + 1, !.pp = p, !.root = root', !.prune = TRUE]
             /\ UNCHANGED recovered
    /\ UNCHANGED <<checkpoint, meta, data, virt, virtualPool, message, exiting, ibd, faults>>

Bug_PositionFirst ==
    /\ pc = "move" /\ job.next <= job.pp
    /\ \/ (exiting \/ Transitional) /\ Return /\ UNCHANGED <<position, utxos, pool>>
       \/ /\ ~exiting /\ ~Transitional
          /\ utxos' = utxos \cup {job.next}
          /\ pool' = pool \cup {job.next}
          /\ position' = job.pp
          /\ job' = [job EXCEPT !.next = @ + 1]
          /\ UNCHANGED <<pc, recovered>>
    /\ UNCHANGED <<pp, root, checkpoint, stable, missing, data, virt, virtualPool, message, exiting, ibd, faults>>

(* advance_pruning_utxoset, one chain block: the diffs and the position in one batch. *)
MoveOne ==
    /\ pc = "move" /\ job.next <= job.pp
    /\ \/ (exiting \/ Transitional) /\ Return /\ UNCHANGED <<position, utxos, pool>>
       \/ /\ ~exiting /\ ~Transitional
          /\ utxos' = utxos \cup {job.next}
          /\ pool' = pool \cup {job.next}
          /\ position' = job.next
          /\ job' = [job EXCEPT !.next = @ + 1]
          /\ UNCHANGED <<pc, recovered>>
    /\ UNCHANGED <<pp, root, checkpoint, stable, missing, data, virt, virtualPool, message, exiting, ibd, faults>>

Moved ==
    /\ pc = "move" /\ job.next > job.pp
    /\ pc' = IF job.recover THEN "check" ELSE "prepare"
    /\ UNCHANGED <<pp, root, checkpoint, meta, data, virt, virtualPool, message, recovered, exiting, job, ibd, faults>>

(* The rest of recover_pruning_workflows_if_needed: whether there is a pruning to complete. *)
CheckRecovery ==
    /\ pc = "check"
    /\ \/ (~DeepEnough(job.pp) \/ Transitional) /\ Return
       \/ /\ DeepEnough(job.pp) /\ ~Transitional /\ job.prune
          /\ pc' = "prepare" /\ UNCHANGED <<job, recovered>>
       \/ /\ DeepEnough(job.pp) /\ ~Transitional /\ ~job.prune
          /\ pc' = "advance" /\ recovered' = TRUE /\ UNCHANGED job
    /\ UNCHANGED <<pp, root, checkpoint, meta, data, virt, virtualPool, message, exiting, ibd, faults>>

(* prune, up to the lock: the proof and the anticone are those of the stored pruning point, and
   an assertion compares it with the one to prune for. *)
PreparePrune ==
    /\ pc = "prepare"
    /\ \/ /\ pp = job.pp
          /\ pc' = "start" /\ UNCHANGED <<recovered, exiting, job, message, ibd>>
       \/ pp # job.pp /\ Forget
    /\ UNCHANGED <<pp, root, checkpoint, meta, data, virt, virtualPool, faults>>

Bug_PruneBelowPoint(p, r) == Blocks \ (Future(p) \cup Anticone(p))

(* The blocks the traversal deletes from: the anti-future of the retention root, except the
   pruning point and its anticone, which keep_blocks holds. *)
ToDelete(p, r) == Blocks \ (Future(r) \cup Anticone(p))

(* keep_relations and keep_headers: the blocks of the proof and the windows, and the past
   pruning points, keep their headers. *)
KeepsHeader(p) == {b \in Blocks : b \in Anticone(p) \/ p - Window <= Fork[b]}
                     \cup {b \in Samples : b < p}

(* prune takes the lock when no session holds it and prunes the selected chain, which a catch-up
   has replaced by its own pruning point. *)
StartPrune ==
    /\ pc = "start" /\ todo = {}
    /\ \/ /\ pp = job.pp \/ job.root # job.pp
          /\ pc' = "sweep"
          /\ job' = [job EXCEPT !.del = {b \in ToDelete(job.pp, job.root) : data[b] # Nothing}]
          /\ UNCHANGED <<recovered, exiting, message, ibd>>
       \/ pp # job.pp /\ job.root = job.pp /\ Forget
    /\ UNCHANGED <<pp, root, checkpoint, meta, data, virt, virtualPool, faults>>

(* One block of the traversal, from the bottom up. *)
DeleteOne ==
    /\ pc = "sweep" /\ todo = {}
    /\ \E b \in job.del :
          /\ \A c \in job.del : Fork[b] <= Fork[c]
          /\ data' = [data EXCEPT ![b] = IF b \in KeepsHeader(job.pp) THEN HeaderOnly ELSE Nothing]
          /\ job' = [job EXCEPT !.del = @ \ {b}]
    /\ UNCHANGED <<pp, root, checkpoint, meta, virt, virtualPool, message, recovered, exiting, pc, ibd, faults>>

(* What follows prune: a recovery goes on to the next pruning point. *)
Pruned ==
    \/ job.recover /\ pc' = "advance" /\ recovered' = TRUE /\ UNCHANGED job
    \/ ~job.recover /\ Return

(* The retention checkpoint comes last. *)
SetCheckpoint ==
    /\ pc = "sweep" /\ job.del = {}
    /\ checkpoint' = job.root
    /\ Pruned
    /\ UNCHANGED <<pp, root, meta, data, virt, virtualPool, message, exiting, ibd, faults>>

(* The traversal notices the exit signal and gives up; its caller does not tell. *)
InterruptPrune ==
    /\ pc = "sweep" /\ todo = {} /\ exiting
    /\ Pruned
    /\ UNCHANGED <<pp, root, checkpoint, meta, data, virt, virtualPool, message, exiting, ibd, faults>>
-----------------------------------------------------------------------------
(* The IBD. *)

Tasks == {"bodies", "smt", "pool", "utxo"}
Before(k) == CASE k = "bodies" -> {} [] k = "smt" -> {"bodies"} [] k = "pool" -> {"bodies", "smt"}
               [] k = "utxo" -> {"bodies", "smt", "pool"}
Turn(k) == k \in todo /\ Before(k) \cap todo = {}
Count(fault) == faults' = [faults EXCEPT ![fault] = @ + 1]

(* ibd with a syncer whose pruning point is ahead: pruning_point_catchup syncs the headers and
   writes the new pruning point in one batch (intrusive_pruning_point_store_writes). *)
CatchUp ==
    /\ todo = {} /\ faults.catchups < MaxCatchUps
    /\ \E p \in Samples :
          /\ pp < p /\ p + Depth <= Height
          /\ Transitional \/ data[p] < Body
          /\ pp' = p
          /\ root' \in RetentionRoots(p)
          /\ virt' = p
    /\ data' = [b \in Blocks |-> IF Fork[b] >= pp /\ data[b] = Nothing THEN HeaderOnly ELSE data[b]]
    /\ stable' = stable \ {"utxo", "smt"}
    /\ missing' = TRUE
    /\ todo' = Tasks /\ phase' = 0
    /\ Count("catchups")
    /\ UNCHANGED <<checkpoint, position, utxos, pool, virtualPool, message, worker>>

(* ibd with a syncer at the same pruning point: what an earlier IBD left undone. *)
Resume ==
    /\ todo = {} /\ Transitional
    /\ todo' = {k \in Tasks : k \notin stable \cup IF missing THEN {} ELSE {"bodies"}}
    /\ phase' = 0
    /\ UNCHANGED <<pp, root, checkpoint, meta, data, virt, virtualPool, message, worker, faults>>

Done(k) == todo' = todo \ {k} /\ phase' = 0
Goto(n) == phase' = n /\ UNCHANGED todo

(* sync_missing_trusted_bodies. *)
SyncBodies ==
    /\ Turn("bodies")
    /\ data' = [b \in Blocks |-> IF b \in Anticone(pp) /\ data[b] < Body THEN Body ELSE data[b]]
    /\ missing' = FALSE
    /\ Done("bodies")
    /\ UNCHANGED <<pp, root, checkpoint, position, utxos, pool, stable, virt, virtualPool, message, worker, faults>>

(* sync_new_smt_state: clear, then import and raise the flag. *)
SyncSmt ==
    /\ Turn("smt")
    /\ \/ phase = 0 /\ stable' = stable \ {"smt"} /\ Goto(1)
       \/ phase = 1 /\ stable' = stable \cup {"smt"} /\ Done("smt")
    /\ UNCHANGED <<pp, root, checkpoint, position, utxos, pool, missing, data, virt, virtualPool, message, worker, faults>>

(* sync_new_pool_state: clear, then import to the pruning stores and to virtual, and raise the
   flag. *)
SyncPool ==
    /\ Turn("pool")
    /\ \/ /\ phase = 0
          /\ stable' = stable \ {"pool"} /\ pool' = {}
          /\ Goto(1) /\ UNCHANGED virtualPool
       \/ /\ phase = 1
          /\ stable' = stable \cup {"pool"}
          /\ pool' = 0 .. pp /\ virtualPool' = 0 .. pp
          /\ Done("pool")
    /\ UNCHANGED <<pp, root, checkpoint, position, utxos, missing, data, virt, message, worker, faults>>

(* sync_new_utxo_set: clear; import, which moves the position before virtual is rebuilt; raise
   the flag. *)
SyncUtxoSet ==
    /\ Turn("utxo")
    /\ \/ /\ phase = 0
          /\ stable' = stable \ {"utxo"} /\ utxos' = {}
          /\ Goto(1) /\ UNCHANGED <<position, virt>>
       \/ /\ phase = 1
          /\ utxos' = 0 .. pp /\ position' = pp
          /\ Goto(2) /\ UNCHANGED <<stable, virt>>
       \/ /\ phase = 2
          /\ PromptWorker => pc # "move"
          /\ virt' = pp /\ stable' = stable \cup {"utxo"}
          /\ Done("utxo") /\ UNCHANGED <<utxos, position>>
    /\ UNCHANGED <<pp, root, checkpoint, pool, missing, data, virtualPool, message, worker, faults>>

(* The peer goes away, or what it sent is refused: the session ends. *)
Fail ==
    /\ todo # {} /\ faults.failures < MaxFailures
    /\ todo' = {} /\ phase' = 0
    /\ Count("failures")
    /\ UNCHANGED <<pp, root, checkpoint, meta, data, virt, virtualPool, message, worker>>
-----------------------------------------------------------------------------
(* signal_exit: the threads that look at the flag wind up what they are doing. *)
SignalExit ==
    /\ ~exiting /\ faults.crashes < MaxCrashes
    /\ exiting' = TRUE
    /\ Count("crashes")
    /\ UNCHANGED <<pp, root, checkpoint, meta, data, virt, virtualPool, message, recovered, pc, job, ibd>>

(* The process that was told to exit has ended, and starts again. *)
Restart ==
    /\ exiting
    /\ Forget
    /\ UNCHANGED <<pp, root, checkpoint, meta, data, virt, virtualPool, faults>>

(* The process dies, between any two batches, and starts again. *)
Crash ==
    /\ faults.crashes < MaxCrashes
    /\ Forget
    /\ Count("crashes")
    /\ UNCHANGED <<pp, root, checkpoint, meta, data, virt, virtualPool>>

Init ==
    /\ pp = 0 /\ root = 0 /\ checkpoint = 0 /\ position = 0
    /\ utxos = {0} /\ pool = {0} /\ virtualPool = {0}
    /\ stable = {"utxo", "smt", "pool"} /\ missing = FALSE
    /\ data = [b \in Blocks |-> IF b = 0 THEN UtxoState ELSE Nothing]
    /\ virt = 0
    /\ message = Empty /\ recovered = FALSE /\ exiting = FALSE /\ pc = "idle" /\ job = NoJob
    /\ todo = {} /\ phase = 0
    /\ faults = [catchups |-> 0, failures |-> 0, crashes |-> 0]

Work == \/ Receive \/ AdvancePruningPoint \/ MoveOne \/ Moved \/ CheckRecovery
        \/ PreparePrune \/ StartPrune \/ DeleteOne \/ SetCheckpoint \/ InterruptPrune
Sync == SyncBodies \/ SyncSmt \/ SyncPool \/ SyncUtxoSet

Next == ResolveVirtual \/ NotifyVirtual \/ Work \/ CatchUp \/ Resume \/ Sync \/ Fail
           \/ SignalExit \/ Restart \/ Crash

Spec == Init /\ [][Next]_vars

(* Blocks keep coming, the worker thread runs, a transitional node starts an IBD at once and a
   running IBD goes on, and a process that was told to exit does. *)
FairSpec == Spec /\ WF_vars(NotifyVirtual) /\ WF_vars(Work) /\ WF_vars(Resume) /\ WF_vars(Sync)
                 /\ WF_vars(Restart)
-----------------------------------------------------------------------------
(* A node whose pruning UTXO set is stable can finish the move it is in, whenever it died: the
   set is the state of its recorded position, and every chain block from there to the pruning
   point still has the diffs the move takes ("chain blocks have utxo state"). A stable UTXO set
   also means a stable SMT state, which the resumption of an IBD relies on. *)
MoveRecoverable ==
    "utxo" \in stable =>
        /\ utxos = 0 .. position /\ position <= pp
        /\ \A b \in position + 1 .. pp : data[b] = UtxoState
        /\ "smt" \in stable

(* Pruning never takes data from a block at or above the retention root or from the pruning point
   and its anticone, nor the header of a block of the proof or of a past pruning point, whichever
   pruning point the deletion was started for. *)
PruneKeeps ==
    [][\A b \in Blocks :
          data'[b] < data[b] =>
              /\ b \notin Future(root') \cup Anticone(pp')
              /\ b \in KeepsHeader(pp') => data'[b] = HeaderOnly]_vars

(* A node leaves the transitional state and brings its UTXO set to the pruning point, and a
   restarted worker finishes the interrupted pruning once virtual is deep enough. *)
RecoveryCompletes ==
    []<>(~Transitional /\ position = pp /\ (recovered \/ ~DeepEnough(pp)))

(* utxoset_position "remains a single truth for both": outside the transitional state the pool
   state is that of the position too, and virtual's is that of the sink. *)
PoolFollows == ~Transitional => pool = 0 .. position /\ virtualPool = 0 .. virt
=============================================================================
