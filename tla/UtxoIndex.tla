----------------------------- MODULE UtxoIndex ------------------------------
(***************************************************************************)
(* The UTXO index: a database of its own, by address, that follows the     *)
(* virtual UTXO set of consensus (indexes/utxoindex) from the differences  *)
(* consensus announces (indexes/processor), and serves it to RPC clients   *)
(* page by page (rpc/service).                                             *)
(*                                                                         *)
(* Consensus and the index keep two databases, and the index writes its    *)
(* own key by key, without a batch: a crash may fall between any two of    *)
(* those writes, and it loses the announcements still in the channel.  All *)
(* that tells a restart whether the index can be trusted is the stored set *)
(* of tips, compared with the parents of the virtual block.                *)
(*                                                                         *)
(* hist is a sequence of lines.  In one line every virtual state follows   *)
(* from the one before it by an announced difference; a new line starts    *)
(* where consensus changes the virtual state without announcing anything:  *)
(* another consensus takes over, the pruning point jumps, a UTXO set is    *)
(* imported.  The last state of the last line is the present one.  The     *)
(* parents determine the UTXO set that the virtual processor commits, but  *)
(* the virtual may come back to earlier parents, and a pruning point is    *)
(* the virtual's parent before as well as after its set was imported.  A   *)
(* commit that leaves the parents as they are announces an empty           *)
(* difference and is no new state.                                         *)
(*                                                                         *)
(* Outpoints are numbered in the order of their database keys.  A UTXO set *)
(* maps an outpoint to the DAA score of its entry, 0 for no entry: a reorg *)
(* may keep an outpoint and change its score.                              *)
(***************************************************************************)
EXTENDS Naturals, Integers, Sequences, FiniteSetsExt

CONSTANTS Outpoints,     \* a set of positive integers
          Owner,         \* the position of an outpoint's address in a request
          Amount,
          Parents,       \* the sets of parents the virtual may have
          UtxoOf,        \* the UTXO set they determine
          PruningPoints, \* those that are a single block to sync from
          ChunkSize,     \* RESYNC_CHUNK_SIZE
          PageLimit,     \* MAX_UTXOS_PER_PAGE, the cap on what a request may ask for
          LastAddress,   \* the number of addresses in a request
          MaxLines, MaxLength, MaxCrashes

ASSUME IndexAssumption ==
  /\ Outpoints \subseteq Nat \ {0} /\ IsFiniteSet(Outpoints)
  /\ LastAddress \in Nat \ {0}
  /\ Owner \in [Outpoints -> 1..LastAddress]
  /\ Amount \in [Outpoints -> Nat]
  /\ UtxoOf \in [Parents -> [Outpoints -> Nat]]
  /\ PruningPoints \subseteq Parents
  /\ ChunkSize \in Nat \ {0} /\ PageLimit \in Nat \ {0}
  /\ MaxLines \in Nat /\ MaxLength \in Nat /\ MaxCrashes \in Nat

VARIABLES hist,      \* the virtual states committed so far, by lines
          queue,     \* announced differences not yet received: the states they lead to
          ibd,       \* how far the import of a pruning point is (see below)
          old,       \* the line of a consensus that was told to stop, 0 for none
          utxos,     \* database of the index: the entries,
          supply,    \*   the circulating supply (0 when absent)
          tips,      \*   and the tips (Nowhere when absent)
          monotonic, \* monotonic_circulating_supply, in memory
          pc,        \* where the holder of the index's write lock is
          job,       \* its local variables
          walk,      \* a client's walk over the pages
          crashes,
          ghost      \* history: how the index came to hold what it holds

consensus == <<hist, queue, ibd, old>>
store == <<utxos, supply, tips>>
vars == <<hist, queue, ibd, old, utxos, supply, tips, monotonic, pc, job, walk,
          crashes, ghost>>

NoEntry == [o \in Outpoints |-> 0]
Present(U) == {o \in Outpoints : U[o] # 0}
Total(U) == MapThenSumSet(LAMBDA o : Amount[o], Present(U))

(* What a copy of U in key order holds when it was cut off after k.        *)
UpTo(U, k) == [o \in Outpoints |-> IF o <= k THEN U[o] ELSE 0]

UtxoSets == {UtxoOf[p] : p \in Parents}
            \cup {UpTo(UtxoOf[p], k) : p \in Parents, k \in {0} \cup Outpoints}
States == [parents : Parents, utxos : UtxoSets]

(* A state is named by its line and its place in it.                       *)
Nowhere == [line |-> 0, n |-> 0]
Committed(p) == p.line \in DOMAIN hist /\ p.n \in DOMAIN hist[p.line]
At(p) == hist[p.line][p.n]
Newest(l) == [line |-> l, n |-> Len(hist[l])]
Virtual == Newest(Len(hist))

(* The first n elements of S in key order are the elements of B.           *)
IsFirst(n, S, B) ==
  /\ B \subseteq S
  /\ \A o \in B, p \in S : p < o => p \in B
  /\ Cardinality(B) <= n
  /\ B = S \/ Cardinality(B) = n

(* c is the last element of B, and the old cursor when there is none.      *)
IsCursor(c, B, last) ==
  IF B = {} THEN c = last ELSE c \in B /\ \A o \in B : o <= c

(* UtxoDiff between a state and the one before it in its line.             *)
Before(p) == [line |-> p.line, n |-> p.n - 1]
Changed(p) == {o \in Outpoints : At(p).utxos[o] # At(Before(p)).utxos[o]}
Removed(p) == Changed(p) \cap Present(At(Before(p)).utxos)
Added(p) == Changed(p) \cap Present(At(p).utxos)

NoJob == [n |-> Nowhere, rem |-> {}, add |-> {}, cursor |-> 0, total |-> 0]
NoWalk == [at |-> "off", addr |-> 1, after |-> 0, room |-> 1,
           seen |-> {}, count |-> 0, always |-> {}]

Updating == pc \in {"update", "updateTips"}
Resyncing == pc \in {"deleteTips", "deleteSupply", "deleteUtxos", "scan",
                     "insertSupply", "resyncTips"}

-----------------------------------------------------------------------------
(* Consensus.  ibd is "none" on a node that has its UTXO set; "replaced"    *)
(* when a consensus synced from a proof has taken over and the reset       *)
(* handlers have yet to return; "transit" when the virtual's parent is a   *)
(* pruning point whose UTXO set is missing (the stable flag is down);      *)
(* "imported" when the set is there and the flag still down; "stable" when *)
(* the flag is up and the handlers have yet to return.                     *)

(* A new state of a line and the announcement of the difference to it.     *)
Commit(l, p) ==
  /\ Len(hist[l]) < MaxLength
  /\ At(Newest(l)).parents # p
  /\ hist' = [hist EXCEPT ![l] = Append(@, [parents |-> p, utxos |-> UtxoOf[p]])]
  /\ queue' = Append(queue, [line |-> l, n |-> Len(hist[l]) + 1])

(* A state that consensus sets without announcing it.                      *)
StartLine(p, U) ==
  /\ Len(hist) < MaxLines
  /\ hist' = Append(hist, <<[parents |-> p, utxos |-> U]>>)

(* The virtual processor commits a new virtual state and then sends the    *)
(* difference to the channel.  Blocks are processed once the services are  *)
(* built, so not during the resync at boot, and not in a transitional      *)
(* state; they are while the handlers of the import run.                   *)
CommitVirtual(p) ==
  /\ pc # "down" /\ ibd \in {"none", "stable"}
  /\ Resyncing => ibd = "stable"
  /\ Commit(Len(hist), p)
  /\ UNCHANGED <<ibd, old, store, monotonic, pc, job, walk, crashes, ghost>>

(* The virtual processor of the replaced consensus works on until it sees  *)
(* the exit signal, and announces to the same channel.                     *)
LateCommit(p) ==
  /\ pc # "down" /\ old # 0
  /\ Commit(old, p)
  /\ UNCHANGED <<ibd, old, store, monotonic, pc, job, walk, crashes, ghost>>

(* StagingConsensus::commit makes another consensus the active one, with   *)
(* the proof's pruning point as the virtual's only parent and an empty     *)
(* UTXO set, tells the old one to stop and calls the reset handlers.       *)
ReplaceConsensus(p) ==
  /\ pc # "down" /\ ~Resyncing /\ ibd \in {"none", "transit"}
  /\ StartLine(p, NoEntry)
  /\ ibd' = "replaced" /\ old' = Len(hist)
  /\ UNCHANGED <<queue, store, monotonic, pc, job, walk, crashes, ghost>>

(* intrusive_pruning_point_update: the pruning point that the node catches *)
(* up to becomes the virtual's only parent.  The UTXO set stays, the flag  *)
(* goes down, and no handler is called.                                    *)
CatchUp(p) ==
  /\ pc # "down" /\ ~Resyncing /\ ibd \in {"none", "transit"}
  /\ StartLine(p, At(Virtual).utxos)
  /\ ibd' = "transit"
  /\ UNCHANGED <<queue, old, store, monotonic, pc, job, walk, crashes, ghost>>

(* import_pruning_point_utxo_set: the virtual's parents stay, its UTXO set *)
(* is replaced.  When a transaction of the pruning point is found invalid, *)
(* the flow ends here, and the next one downloads the set again.           *)
Import ==
  /\ pc # "down" /\ ~Resyncing /\ ibd = "transit"
  /\ StartLine(At(Virtual).parents, UtxoOf[At(Virtual).parents])
  /\ ibd' \in {"imported", "transit"}
  /\ UNCHANGED <<queue, old, store, monotonic, pc, job, walk, crashes, ghost>>

(* set_pruning_utxoset_stable                                              *)
SetStable ==
  /\ pc # "down" /\ ibd = "imported"
  /\ ibd' = "stable"
  /\ UNCHANGED <<hist, queue, old, store, monotonic, pc, job, walk, crashes, ghost>>

(* handle_consensus_reset takes the write lock and resyncs.                *)
HandleConsensusReset ==
  /\ pc = "idle" /\ ibd \in {"replaced", "stable"}
  /\ pc' = "deleteTips"
  /\ ghost' = [ghost EXCEPT !.floor = Virtual]
  /\ UNCHANGED <<consensus, store, monotonic, job, walk, crashes>>

(* The process dies: memory, channel and connections are gone.  The copy   *)
(* into the virtual UTXO set is no batch: it may be cut off anywhere.      *)
Crash ==
  /\ pc # "down" /\ crashes < MaxCrashes
  /\ \/ UNCHANGED hist
     \/ /\ ibd = "transit" /\ ~Resyncing
        /\ \E k \in {0} \cup Outpoints :
             LET p == At(Virtual).parents IN StartLine(p, UpTo(UtxoOf[p], k))
  /\ pc' = "down" /\ queue' = <<>> /\ job' = NoJob /\ monotonic' = 0 /\ walk' = NoWalk
  /\ ibd' = IF ibd \in {"none", "stable"} THEN "none" ELSE "transit"
  /\ old' = 0
  /\ crashes' = crashes + 1
  /\ ghost' = [ghost EXCEPT !.floor = Newest(Len(hist))']
  /\ UNCHANGED store

-----------------------------------------------------------------------------
(* The index.                                                              *)

(* The stored tips are the virtual's parents.                              *)
IsSynced == tips # Nowhere /\ At(tips).parents = At(Virtual).parents

(* A variant of New: any stored tips are good.                             *)
NewTrusting ==
  /\ pc = "down"
  /\ IF tips # Nowhere
     THEN /\ pc' = "idle" /\ monotonic' = supply
          /\ ghost' = [ghost EXCEPT !.astray = @ \/ (IsSynced /\ tips # Virtual)]
     ELSE pc' = "deleteTips" /\ UNCHANGED <<monotonic, ghost>>
  /\ UNCHANGED <<consensus, store, job, walk, crashes>>

(* UtxoIndex::new.  Equal parents of different states set it astray.       *)
New ==
  /\ pc = "down"
  /\ IF IsSynced
     THEN /\ pc' = "idle" /\ monotonic' = supply
          /\ ghost' = [ghost EXCEPT !.astray = @ \/ tips # Virtual]
     ELSE pc' = "deleteTips" /\ UNCHANGED <<monotonic, ghost>>
  /\ UNCHANGED <<consensus, store, job, walk, crashes>>

(* A difference announced before the index was last rebuilt, or by another *)
(* line than the one it was rebuilt from, does not start from what the     *)
(* index holds.                                                            *)
Stale(p) == p.line # ghost.at.line \/ p.n <= ghost.at.n

(* A variant of ReceiveDiff: the tips are stored first.                    *)
ReceiveDiffTipsFirst ==
  /\ pc = "idle" /\ queue # <<>>
  /\ LET p == Head(queue)
     IN  /\ job' = [NoJob EXCEPT !.n = p, !.rem = Removed(p), !.add = Added(p)]
         /\ ghost' = [ghost EXCEPT !.astray = @ \/ Stale(p),
                                   !.floor = IF Stale(p) THEN Virtual ELSE @]
         /\ tips' = p
  /\ queue' = Tail(queue)
  /\ pc' = "update"
  /\ UNCHANGED <<hist, ibd, old, utxos, supply, monotonic, walk, crashes>>

(* The collecting task receives a difference and calls update under the    *)
(* write lock.                                                             *)
ReceiveDiff ==
  /\ pc = "idle" /\ queue # <<>>
  /\ LET p == Head(queue)
     IN  /\ job' = [NoJob EXCEPT !.n = p, !.rem = Removed(p), !.add = Added(p)]
         /\ ghost' = [ghost EXCEPT !.astray = @ \/ Stale(p),
                                   !.floor = IF Stale(p) THEN Virtual ELSE @]
  /\ queue' = Tail(queue)
  /\ pc' = "update"
  /\ UNCHANGED <<hist, ibd, old, store, monotonic, walk, crashes>>

(* update_utxo_state: all the removals, one key at a time, and then the    *)
(* additions.                                                              *)
RemoveEntry(o) ==
  /\ pc = "update" /\ o \in job.rem
  /\ utxos' = [utxos EXCEPT ![o] = 0]
  /\ job' = [job EXCEPT !.rem = @ \ {o}]
  /\ UNCHANGED <<consensus, supply, tips, monotonic, pc, walk, crashes, ghost>>

(* A variant of AddEntry: additions do not wait for the removals.          *)
AddEntryAnyTime(o) ==
  /\ pc = "update" /\ o \in job.add
  /\ utxos' = [utxos EXCEPT ![o] = At(job.n).utxos[o]]
  /\ job' = [job EXCEPT !.add = @ \ {o}]
  /\ UNCHANGED <<consensus, supply, tips, monotonic, pc, walk, crashes, ghost>>

AddEntry(o) ==
  /\ pc = "update" /\ job.rem = {} /\ o \in job.add
  /\ utxos' = [utxos EXCEPT ![o] = At(job.n).utxos[o]]
  /\ job' = [job EXCEPT !.add = @ \ {o}]
  /\ UNCHANGED <<consensus, supply, tips, monotonic, pc, walk, crashes, ghost>>

(* update_circulating_supply, saturating at zero, and the running maximum. *)
UpdateSupply ==
  /\ pc = "update" /\ job.rem = {} /\ job.add = {}
  /\ LET delta == Total(At(job.n).utxos) - Total(At(Before(job.n)).utxos)
         updated == IF supply + delta < 0 THEN 0 ELSE supply + delta
     IN  /\ supply' = updated
         /\ monotonic' = IF updated > monotonic THEN updated ELSE monotonic
  /\ pc' = "updateTips"
  /\ UNCHANGED <<consensus, utxos, tips, job, walk, crashes, ghost>>

(* The last write of an update; the lock is released after it, and what a  *)
(* walking client may have missed is what the update took away.            *)
UpdateTips ==
  /\ pc = "updateTips"
  /\ tips' = job.n
  /\ pc' = "idle" /\ job' = NoJob
  /\ walk' = [walk EXCEPT !.always = @ \cap Present(utxos)]
  /\ UNCHANGED <<consensus, utxos, supply, monotonic, crashes, ghost>>

(* resync: delete_all removes the tips, the supply and the entries, in     *)
(* this order.                                                             *)
DeleteTips ==
  /\ pc = "deleteTips"
  /\ tips' = Nowhere /\ pc' = "deleteSupply"
  /\ ghost' = [ghost EXCEPT !.astray = FALSE]
  /\ UNCHANGED <<consensus, utxos, supply, monotonic, job, walk, crashes>>

DeleteSupply ==
  /\ pc = "deleteSupply"
  /\ supply' = 0 /\ pc' = "deleteUtxos"
  /\ UNCHANGED <<consensus, utxos, tips, monotonic, job, walk, crashes, ghost>>

(* The tips to be stored at the end are read before the first batch.       *)
DeleteUtxos ==
  /\ pc = "deleteUtxos"
  /\ utxos' = NoEntry
  /\ job' = [NoJob EXCEPT !.n = Virtual]
  /\ ghost' = [ghost EXCEPT !.at = Virtual]
  /\ pc' = "scan"
  /\ UNCHANGED <<consensus, supply, tips, monotonic, walk, crashes>>

(* One turn of the loop: the next chunk of the virtual UTXO set after the  *)
(* cursor is added to the index.  A short or empty chunk is the last.      *)
ScanChunk ==
  /\ pc = "scan"
  /\ LET U == At(Virtual).utxos
         rest == {o \in Present(U) : o > job.cursor}
     IN \E chunk \in SUBSET rest, cursor \in rest \cup {job.cursor} :
          /\ IsFirst(ChunkSize, rest, chunk)
          /\ IsCursor(cursor, chunk, job.cursor)
          /\ utxos' = [o \in Outpoints |-> IF o \in chunk THEN U[o] ELSE utxos[o]]
          /\ job' = [job EXCEPT !.cursor = cursor,
                                !.total = @ + MapThenSumSet(LAMBDA o : Amount[o], chunk)]
          /\ pc' = IF Cardinality(chunk) < ChunkSize THEN "insertSupply" ELSE "scan"
  /\ ghost' = [ghost EXCEPT !.upto = Virtual.n]
  /\ UNCHANGED <<consensus, supply, tips, monotonic, walk, crashes>>

InsertSupply ==
  /\ pc = "insertSupply"
  /\ supply' = job.total /\ monotonic' = job.total
  /\ pc' = "resyncTips"
  /\ UNCHANGED <<consensus, utxos, tips, job, walk, crashes, ghost>>

(* After the last write the handler returns to the flow that called it.    *)
ResyncTips ==
  /\ pc = "resyncTips"
  /\ tips' = job.n
  /\ pc' = "idle" /\ job' = NoJob
  /\ ibd' = CASE ibd = "replaced" -> "transit" [] ibd = "stable" -> "none" [] OTHER -> ibd
  /\ walk' = [walk EXCEPT !.always = @ \cap Present(utxos)]
  /\ UNCHANGED <<hist, queue, old, utxos, supply, monotonic, crashes, ghost>>

-----------------------------------------------------------------------------
(* A client that walks the entries of its addresses.                       *)

StartWalk ==
  /\ pc = "idle" /\ walk.at = "off"
  /\ \E limit \in 1..PageLimit :
       walk' = [NoWalk EXCEPT !.at = "read", !.room = limit, !.always = Present(utxos)]
  /\ UNCHANGED <<consensus, store, monotonic, pc, job, crashes, ghost>>

(* A variant of IsPage: the first entry after a seek is always skipped.    *)
IsPageSkipFirst(addr, after, limit, page) ==
  LET bucket == {o \in Present(utxos) : Owner[o] = addr /\ o >= after}
      skipped == IF after = 0 THEN {} ELSE {o \in bucket : \A p \in bucket : o <= p}
  IN  IsFirst(limit, bucket \ skipped, page)

(* get_utxos_page_from_script_public_key: seek from the cursor for one     *)
(* entry more than the limit, drop the cursor if it is still there, and    *)
(* stop at the limit.                                                      *)
IsPage(addr, after, limit, page) ==
  LET bucket == {o \in Present(utxos) : Owner[o] = addr /\ o >= after}
  IN  \E sought \in SUBSET bucket :
        /\ IsFirst(limit + 1, bucket, sought)
        /\ IsFirst(limit, sought \ {after}, page)

(* What the client and the call know after one address: a full page ends   *)
(* the call, and the client calls again with the cursor it was given (and  *)
(* the limit it likes), or is done when there is none.                     *)
AfterPage(page, taken, cursor, limit) ==
  LET more == Cardinality(page) > walk.room
      full == Cardinality(taken) = walk.room
      last == walk.addr = LastAddress
  IN  [walk EXCEPT !.seen = @ \cup taken,
                   !.count = @ + Cardinality(taken),
                   !.at = IF last /\ ~(full /\ more) THEN "done" ELSE @,
                   !.addr = IF full \/ last THEN @ ELSE @ + 1,
                   !.after = IF full THEN cursor ELSE 0,
                   !.room = IF full THEN limit ELSE @ - Cardinality(taken)]

(* One turn of the loop of get_utxos_by_addresses_call over the addresses, *)
(* under the read lock: the lock is given up between two addresses as well *)
(* as between two calls.                                                   *)
ReadPage ==
  /\ pc = "idle" /\ walk.at = "read"
  /\ \E page \in SUBSET {o \in Outpoints : Owner[o] = walk.addr} :
       /\ IsPage(walk.addr, walk.after, walk.room + 1, page)
       /\ \E taken \in SUBSET page, cursor \in page \cup {0}, limit \in 1..PageLimit :
            /\ IsFirst(walk.room, page, taken)
            /\ IsCursor(cursor, taken, 0)
            /\ walk' = AfterPage(page, taken, cursor, limit)
  /\ UNCHANGED <<consensus, store, monotonic, pc, job, crashes, ghost>>

-----------------------------------------------------------------------------
Init ==
  /\ \E p \in Parents : hist = <<<<[parents |-> p, utxos |-> UtxoOf[p]]>>>>
  /\ queue = <<>> /\ ibd = "none" /\ old = 0
  /\ utxos = NoEntry /\ supply = 0 /\ tips = Nowhere
  /\ monotonic = 0 /\ pc = "down" /\ job = NoJob /\ walk = NoWalk
  /\ crashes = 0
  /\ ghost = [at |-> Nowhere, upto |-> 0, astray |-> FALSE, floor |-> Virtual]

Consensus == (\E p \in Parents : CommitVirtual(p) \/ LateCommit(p))
             \/ (\E p \in PruningPoints : ReplaceConsensus(p) \/ CatchUp(p))
             \/ Import \/ SetStable

Update == ReceiveDiff \/ (\E o \in Outpoints : RemoveEntry(o) \/ AddEntry(o))
          \/ UpdateSupply \/ UpdateTips

Resync == HandleConsensusReset \/ DeleteTips \/ DeleteSupply \/ DeleteUtxos
          \/ ScanChunk \/ InsertSupply \/ ResyncTips

Client == StartWalk \/ ReadPage

Next == Consensus \/ Crash \/ New \/ Update \/ Resync \/ Client

(* The collecting task and the holder of the lock keep running, a flow     *)
(* that has imported a UTXO set goes on to raise the flag, and a stopped   *)
(* node is started again.                                                  *)
Fairness == /\ WF_vars(New) /\ WF_vars(Update \/ Resync) /\ WF_vars(ReadPage)
            /\ WF_vars(SetStable)

Spec == Init /\ [][Next]_vars
FairSpec == Spec /\ Fairness

-----------------------------------------------------------------------------
(* The sums (supply, monotonic and job.total) have no part in this.        *)
TypeOK ==
  /\ hist \in Seq(Seq(States)) /\ hist # <<>>
  /\ \A l \in DOMAIN hist : hist[l] # <<>>
  /\ queue \in Seq([line : Nat, n : Nat])
  /\ \A i \in DOMAIN queue : Committed(queue[i]) /\ queue[i].n > 1
  /\ ibd \in {"none", "replaced", "transit", "imported", "stable"}
  /\ old \in 0..Len(hist) - 1
  /\ utxos \in [Outpoints -> Nat]
  /\ tips \in [line : Nat, n : Nat] /\ (tips = Nowhere \/ Committed(tips))
  /\ pc \in {"down", "idle", "update", "updateTips", "deleteTips", "deleteSupply",
             "deleteUtxos", "scan", "insertSupply", "resyncTips"}
  /\ job = [n |-> job.n, rem |-> job.rem, add |-> job.add,
            cursor |-> job.cursor, total |-> job.total]
  /\ job.n \in [line : Nat, n : Nat] /\ job.cursor \in Nat
  /\ job.rem \subseteq Outpoints /\ job.add \subseteq Outpoints
  /\ ghost \in [at : [line : Nat, n : Nat], upto : Nat, astray : BOOLEAN,
                 floor : [line : Nat, n : Nat]]

(* Stored tips that were stored for the present virtual state vouch for    *)
(* the entries: in every state a crash may leave behind as well as in the  *)
(* ones a reader sees, the entries are then the virtual UTXO set, even if  *)
(* the virtual moved while a resync was reading it.  It takes one of two   *)
(* events to set an index astray, until it is next rebuilt: a difference   *)
(* that was announced before the index was rebuilt, or by a consensus that *)
(* was replaced, reaches it after that (note 2 of resync); or a restart    *)
(* takes it for the state of another moment with the same parents.         *)
SyncedMeansEqual == ~ghost.astray /\ tips = Virtual => utxos = At(Virtual).utxos

(* What is_synced is documented to tell while consensus processes nothing, *)
(* as when UtxoIndex::new asks: that the index holds the virtual UTXO set, *)
(* on a node that has one.                                                 *)
RestartTrust ==
  pc = "down" /\ ibd = "none" /\ IsSynced => utxos = At(Virtual).utxos

(* A client that has walked all the pages got every entry that its         *)
(* addresses had during the whole walk, and no entry twice, whatever was   *)
(* spent, created or rebuilt between two pages and between two addresses.  *)
WalkComplete ==
  walk.at = "done" => walk.always \subseteq walk.seen /\ Cardinality(walk.seen) = walk.count

(* What a reader can rely on: the whole set at `tips' when no writer holds *)
(* the lock, the set before the update while one is running; nothing while *)
(* the node is down, the index is being rebuilt or is astray, or until it  *)
(* has caught up with the commits that fell into the reading of a resync.  *)
Unreliable == pc = "down" \/ Resyncing \/ ghost.astray \/ tips.n < ghost.upto
served == IF Unreliable THEN Nowhere ELSE tips
visible == IF Unreliable THEN <<>>
           ELSE IF Updating THEN At(tips).utxos ELSE utxos

Promise == INSTANCE UtxoView WITH at <- served, view <- visible, floor <- ghost.floor

(* The index implements UtxoView: readers see committed UTXO sets whole,   *)
(* in order and without a gap, and after a crash, a rebuild or a stray     *)
(* difference none that is older than what was then the newest.            *)
ImplementsView == Promise!Spec

(* Once consensus stops moving, an index that is not astray ends up at its *)
(* UTXO set, also after crashes in the middle of updates and resyncs and   *)
(* after lost announcements; and its supply at the sum, unless the virtual *)
(* moved while a resync was reading it.  A node that waits for the UTXO    *)
(* set of its pruning point has nothing to catch up with.                  *)
CatchesUp ==
  <>[](\/ ghost.astray
       \/ ibd = "transit"
       \/ /\ pc = "idle" /\ tips = Virtual /\ utxos = At(Virtual).utxos
          /\ ghost.upto = ghost.at.n => supply = Total(At(Virtual).utxos))
=============================================================================
