---------------------------- MODULE VirtualProcessor ----------------------------
(***************************************************************************)
(* The virtual state processor: which block is the sink, which blocks are  *)
(* UTXO valid, and the UTXO set and note pool as of the virtual block.     *)
(*                                                                         *)
(* The UTXO set and the note pool always move together (one accumulated    *)
(* diff each, one write batch for both), so the model keeps one collection *)
(* of coins: UTXO entries and notes, told apart by their key.  A header    *)
(* commits to a collection by multiset hash and by Merkle root; the model  *)
(* keeps the collection itself.                                            *)
(*                                                                         *)
(* A transaction is a record: the keys it spends, the keys it makes with   *)
(* their amounts, and for a pool operation the freshness anchor and the    *)
(* key that signed it.                                                     *)
(***************************************************************************)
EXTENDS BlockDag, StateDiff, FiniteSetsExt, Integers, TLC

CONSTANTS
    RootCoins,      \* the UTXO set and note pool as of the root
    Offers,         \* Offers[b]: the transaction sets block b may carry
    Note,           \* Note[sn]: key, lock score and refund key of a serial
    Faults,         \* Faults[b]: what the producer of b may get wrong
    Subsidy, CoinbaseMaturity, FreshnessWindow, MaxCrashes

Serials == DOMAIN Note

IsCoinbase(k) == k[1] \in Blocks

VARIABLES
    known,      \* blocks whose body is committed
    body,       \* transactions, coinbase outputs and commitment of a known block
    status,     \* statuses_store
    diffs,      \* utxo_diffs_store and notepool_diffs_store
    accepted,   \* acceptance_data_store
    virt,       \* virtual_stores: parents, coins, diff from the sink, fees, acceptance
                \* (and fp, a history field: the finality point of the search behind it)
    pending,    \* the processor's channel holds a message
    missed,     \* a restart dropped messages since the last resolve began
    r,          \* the running resolve_virtual, if any
    crashes

vars == <<known, body, status, diffs, accepted, virt, pending, missed, r, crashes>>

disk == <<known, body, status, diffs, accepted, virt>>

------------------------------------------------------------------------------
(* Transaction validation in UTXO and pool context. *)

Amount(C) == FoldSet(LAMBDA c, sum : c.value + sum, 0, C)

Made(t, K) == FoldSet(LAMBDA k, sum : t.makes[k] + sum, 0, DOMAIN t.makes \intersect K)

Spent(t, view) == {c \in view : c.key \in t.spends}

SpendingKey(sn, pov) == IF pov >= Note[sn].until THEN Note[sn].refund ELSE Note[sn].pk

(* Freshness and signatures: skipped when a selected parent is replayed. *)
ScriptsValid(t, pov) ==
    t.spends \intersect Serials # {} =>
        /\ 0 <= pov - t.anchor /\ pov - t.anchor <= FreshnessWindow
        /\ \A sn \in t.spends \intersect Serials : SpendingKey(sn, pov) = t.signer

TxValid(t, view, pov, full) ==
    LET notes == {c \in Spent(t, view) : c.key \in Serials}
    IN  /\ t.spends \subseteq Keys(view)
        /\ Keys(view) \intersect DOMAIN t.makes \intersect Serials = {}
        /\ \A c \in Spent(t, view) : IsCoinbase(c.key) => c.score + CoinbaseMaturity <= pov
        /\ notes # {} => Amount(notes) >= Made(t, Serials)
        /\ Amount(Spent(t, view)) >= Made(t, DOMAIN t.makes)
        /\ full => ScriptsValid(t, pov)

Fee(t, view) == Amount(Spent(t, view)) - Made(t, DOMAIN t.makes)

TxDiff(t, view, pov) ==
    [add    |-> {[key |-> k, score |-> IF k \in Serials THEN 0 ELSE pov, value |-> t.makes[k]] :
                    k \in DOMAIN t.makes},
     remove |-> Spent(t, view)]

(* Block body validation: no double spend, no double serial, no chained transactions. A serial  *)
(* may be made and consumed in one block.                                                       *)
Independent(T) ==
    \A t, u \in T : t # u => /\ t.spends \intersect u.spends = {}
                             /\ t.spends \intersect DOMAIN u.makes \subseteq Serials

------------------------------------------------------------------------------
(* calculate_utxo_state: the mergeset of P applied on top of the state of  *)
(* its selected parent, at the point of view of DAA score pov.             *)

(* Bug variants used to show that the properties can fail carry a Bug_ prefix. *)
Bug_StaleView(base, diff) == base
ComposedView(base, diff) == Apply(base, diff)

(* The selected parent's transactions were verified with its own scores:   *)
(* its replay skips signatures and freshness.                              *)
Bug_FullReplay(m, sp) == TRUE
FullChecks(m, sp) == m # sp

MergeBlock(st, m, sp, base, pov) ==
    LET view  == ComposedView(base, st.diff)
        valid == {t \in body[m].txs : TxValid(t, view, pov, FullChecks(m, sp))}
        d     == [add    |-> UNION {TxDiff(t, view, pov).add : t \in valid},
                  remove |-> UNION {TxDiff(t, view, pov).remove : t \in valid}]
    IN  [diff     |-> WithDiff(st.diff, d),
         fees     |-> st.fees @@ (m :> FoldSet(LAMBDA t, sum : Fee(t, view) + sum, 0, valid)),
         accepted |-> st.accepted \union {[tx |-> t, from |-> m] : t \in valid},
         err      |-> st.err \/ DiffError(st.diff, d)]

CoinbaseDiff(sp, pov) ==
    [add |-> {[key |-> o.key, score |-> pov, value |-> o.value] : o \in body[sp].coinbase},
     remove |-> {}]

CalculateUtxoState(P, base, pov) ==
    LET sp == SelectedParent(P)
    IN  FoldLeft(LAMBDA st, m : MergeBlock(st, m, sp, base, pov),
                 [diff |-> CoinbaseDiff(sp, pov), fees |-> <<>>, accepted |-> {}, err |-> FALSE],
                 MergeOrder(P))

ExpectedCoinbase(b, fees) ==
    {[key |-> <<b, m>>, value |-> Subsidy + fees[m]] : m \in {m \in DOMAIN fees : Subsidy + fees[m] > 0}}

(* The UTXO part continues the selected parent's stored multiset; the pool  *)
(* part is recomputed from the composed pool view.                          *)
Commitment(b, base, d) ==
    {c \in Apply(body[SelectedParent(Parents[b])].commit, d) : c.key \notin Serials}
        \union {c \in Apply(base, d) : c.key \in Serials}

Bug_AmountsUnchecked(b, fees) == Keys(body[b].coinbase) = Keys(ExpectedCoinbase(b, fees))
VerifyCoinbase(b, fees) == body[b].coinbase = ExpectedCoinbase(b, fees)

VerifyExpectedUtxoState(b, base, x) ==
    /\ Commitment(b, base, x.diff) = body[b].commit
    /\ VerifyCoinbase(b, x.fees)
    /\ \A t \in body[b].txs : TxValid(t, Apply(base, x.diff), Score(b), TRUE)

------------------------------------------------------------------------------
NoBody == [txs |-> {}, coinbase |-> {}, commit |-> {}]

Idle == [pc |-> "idle", heap |-> {}, cand |-> Root, fp |-> Root, acc |-> NoDiff, point |-> Root,
         path |-> <<>>, err |-> FALSE]

(* A node at rest on the root: genesis, or a pruning point just imported. *)
Init ==
    /\ known = {Root}
    /\ body = [b \in Blocks |-> [NoBody EXCEPT !.commit = IF b = Root THEN RootCoins ELSE {}]]
    /\ status = [b \in Blocks |-> IF b = Root THEN "valid" ELSE "none"]
    /\ diffs = [b \in Blocks |-> NoDiff]
    /\ accepted = [b \in Blocks |-> {}]
    /\ virt = [parents |-> {Root}, coins |-> RootCoins, diff |-> NoDiff, fees |-> 0, accepted |-> {},
               fp |-> Root]
    /\ pending = FALSE
    /\ missed = FALSE
    /\ r = Idle
    /\ crashes = 0

Sink(v) == SelectedParent(v.parents)

FinalityPoint(v) == BlockAtDepth(v.parents, FinalityDepth)

(* The processor's channel is unbounded: a message sent while a resolve is *)
(* running is taken by the next one.                                       *)
Bug_DroppedWhileBusy == pending' = (r.pc = "idle")
SendToVirtual == pending' = TRUE

(***************************************************************************)
(* The body of b is committed and the virtual processor is told.  Its      *)
(* producer computed the header from the committed past; a faulty producer *)
(* overpays in the coinbase or commits to the state before the mergeset.   *)
(***************************************************************************)
CommitBody(b) ==
    LET before == body[SelectedParent(Parents[b])].commit
        x      == CalculateUtxoState(Parents[b], before, Score(b))
        honest == ExpectedCoinbase(b, x.fees)
    IN  /\ b \notin known
        /\ Parents[b] \subseteq known
        /\ \E T \in Offers[b], fault \in Faults[b] \union {"none"} :
              /\ Independent(T)
              /\ body' = [body EXCEPT ![b] =
                    [txs      |-> T,
                     coinbase |-> IF fault = "coinbase" THEN {[o EXCEPT !.value = @ + 1] : o \in honest}
                                                        ELSE honest,
                     commit   |-> IF fault = "commit" THEN before ELSE Apply(before, x.diff)]]
        /\ known' = known \union {b}
        /\ status' = [status EXCEPT ![b] = "pending"]
        /\ SendToVirtual
        /\ UNCHANGED <<diffs, accepted, virt, missed, r, crashes>>

(* The accumulated diff starts out leading from virtual back to its sink. *)
Bug_NotReversed(v) == v.diff
BackToSink(v) == Reversed(v.diff)

(* resolve_virtual up to the sink search. *)
ResolveStart ==
    LET fp == FinalityPoint(virt)
    IN  /\ r.pc = "idle"
        /\ pending
        /\ pending' = FALSE
        /\ missed' = FALSE
        /\ r' = [Idle EXCEPT !.pc = "search", !.fp = fp,
                             !.heap = {t \in Tips(known) : IsDagAncestor(fp, t)},
                             !.acc = BackToSink(virt),
                             !.point = Sink(virt)]
        /\ UNCHANGED <<disk, crashes>>

Accumulate(acc, ds) ==
    FoldLeft(LAMBDA st, d : [d |-> WithDiff(st.d, d), err |-> st.err \/ DiffError(st.d, d)],
             [d |-> acc, err |-> FALSE], ds)

Bug_DagAncestor(c) == IsDagAncestor(r.fp, c)
RespectsFinality(c) == r.fp \in Chain[c]

(* sink_search_algorithm pops a candidate that violates finality or is     *)
(* already known to be disqualified.                                       *)
RefuseCandidate ==
    LET c == Heaviest(r.heap)
    IN  /\ r.pc = "search"
        /\ r.heap # {}
        /\ ~ RespectsFinality(c) \/ status[c] = "disqualified"
        /\ r' = [r EXCEPT !.heap = PushParents(@ \ {c}, r.fp, c)]
        /\ UNCHANGED <<disk, pending, missed, crashes>>

Bug_Forward(b) == diffs[b]
Undo(b) == Reversed(diffs[b])

(* calculate_utxo_state_relatively, the walk down to the split point. *)
WalkDown ==
    LET c    == Heaviest(r.heap)
        down == Descending(Chain[r.point] \ Chain[c])
        w    == Accumulate(r.acc, [i \in DOMAIN down |-> Undo(down[i])])
    IN  /\ r.pc = "search"
        /\ r.heap # {}
        /\ RespectsFinality(c)
        /\ status[c] # "disqualified"
        /\ r' = [r EXCEPT !.pc = "walk", !.heap = @ \ {c}, !.cand = c, !.acc = w.d,
                          !.point = Heaviest(Chain[@] \intersect Chain[c]),
                          !.path = Ascending(Chain[c] \ Chain[r.point]),
                          !.err = @ \/ w.err]
        /\ UNCHANGED <<disk, pending, missed, crashes>>

(* The next block of the walk up, the fields every case below advances. *)
Walking == r.pc = "walk" /\ r.path # <<>>
Current == Head(r.path)
OnPoint == SelectedParent(Parents[Current]) = r.point
Skip    == r' = [r EXCEPT !.path = Tail(@)]

(* The selected parent is disqualified: so is this block. *)
InheritDisqualified ==
    /\ Walking /\ ~ OnPoint
    /\ status' = [status EXCEPT ![Current] = "disqualified"]
    /\ Skip
    /\ UNCHANGED <<known, body, diffs, accepted, virt, pending, missed, crashes>>

(* Disqualified by an earlier walk. *)
SkipDisqualified ==
    /\ Walking /\ OnPoint /\ status[Current] = "disqualified"
    /\ Skip
    /\ UNCHANGED <<disk, pending, missed, crashes>>

(* Its diff is stored: apply it. *)
ApplyStored ==
    /\ Walking /\ OnPoint /\ status[Current] = "valid"
    /\ r' = [r EXCEPT !.path = Tail(@), !.point = Current, !.acc = WithDiff(@, diffs[Current]),
                      !.err = @ \/ DiffError(r.acc, diffs[Current])]
    /\ UNCHANGED <<disk, pending, missed, crashes>>

(* Not seen on a chain before: compute, verify, and commit or disqualify. *)
VerifyBlock ==
    LET b    == Current
        base == Apply(virt.coins, r.acc)
        x    == CalculateUtxoState(Parents[b], base, Score(b))
    IN  /\ Walking /\ OnPoint /\ status[b] = "pending"
        /\ \/ /\ VerifyExpectedUtxoState(b, base, x)
              /\ status' = [status EXCEPT ![b] = "valid"]
              /\ diffs' = [diffs EXCEPT ![b] = x.diff]
              /\ accepted' = [accepted EXCEPT ![b] = x.accepted]
              /\ r' = [r EXCEPT !.path = Tail(@), !.point = b, !.acc = WithDiff(@, x.diff),
                                !.err = @ \/ x.err \/ DiffError(r.acc, x.diff)]
           \/ /\ ~ VerifyExpectedUtxoState(b, base, x)
              /\ status' = [status EXCEPT ![b] = "disqualified"]
              /\ r' = [r EXCEPT !.path = Tail(@), !.err = @ \/ x.err]
              /\ UNCHANGED <<diffs, accepted>>
        /\ UNCHANGED <<known, body, virt, pending, missed, crashes>>

(* The walk reached the candidate's end: is the candidate itself valid? *)
WalkDone ==
    /\ r.pc = "walk"
    /\ r.path = <<>>
    /\ \/ /\ r.point = r.cand
          /\ r' = [r EXCEPT !.pc = "commit"]
       \/ /\ r.point # r.cand
          /\ r' = [r EXCEPT !.pc = "search", !.heap = PushParents(@, r.fp, r.cand)]
    /\ UNCHANGED <<disk, pending, missed, crashes>>

(* The stored set takes the whole accumulated diff, not virtual's own. *)
Bug_OwnDiffOnly(coins, acc, own) == Apply(coins, own)
WriteDiff(coins, acc, own) == Apply(coins, WithDiff(acc, own))

(* calculate_virtual_state and commit_virtual_state: one write batch. *)
CommitVirtual ==
    /\ r.pc = "commit"
    /\ \E P \in {BoundedMerge(Q) : Q \in VirtualParents(r.cand, r.heap)} :
          LET x == CalculateUtxoState(P, Apply(virt.coins, r.acc), Cardinality(PastOf(P)))
          IN  /\ virt' = [parents  |-> P,
                          coins    |-> WriteDiff(virt.coins, r.acc, x.diff),
                          diff     |-> x.diff,
                          fees     |-> FoldSet(LAMBDA m, sum : x.fees[m] + sum, 0, DOMAIN x.fees),
                          accepted |-> x.accepted,
                          fp       |-> r.fp]
              /\ r' = [Idle EXCEPT !.err = r.err \/ x.err \/ DiffError(r.acc, x.diff)
                                           \/ SelectedParent(P) # r.cand]
    /\ UNCHANGED <<known, body, status, diffs, accepted, pending, missed, crashes>>

(* The process dies: the channel and the running resolve are gone, the     *)
(* stores are as the last write batch left them.  Nothing resolves virtual *)
(* again until the next body is committed.                                 *)
Crash ==
    /\ crashes < MaxCrashes
    /\ crashes' = crashes + 1
    /\ missed' = (missed \/ pending \/ r.pc # "idle")
    /\ pending' = FALSE
    /\ r' = Idle
    /\ UNCHANGED disk

Resolver ==
    \/ ResolveStart \/ RefuseCandidate \/ WalkDown \/ InheritDisqualified
    \/ SkipDisqualified \/ ApplyStored \/ VerifyBlock \/ WalkDone \/ CommitVirtual

Next == Resolver \/ Crash \/ \E b \in Blocks : CommitBody(b)

Spec == Init /\ [][Next]_vars

(* The processor has a message to take or a resolve to finish. *)
Busy == pending \/ r.pc # "idle"

(* The processor is a thread of its own: while busy it keeps taking steps. *)
(* This is WF_vars(Resolver) with ENABLED Resolver written out as Busy.    *)
FairSpec == Spec /\ ([]<>(~ Busy) \/ []<><<Resolver>>_vars)
------------------------------------------------------------------------------
(***************************************************************************)
(* Properties.  The reference is the committed past: what the header of a  *)
(* block's selected parent commits to, with the block's mergeset applied.  *)
(***************************************************************************)

(* No unwrap, expect or assert on the virtual-state path fires: every diff *)
(* composes, the heap of sink candidates never runs dry, and the virtual   *)
(* block's GHOSTDAG selected parent is the sink the search found.          *)
NoPanic == ~ r.err /\ (r.pc = "search" => r.heap # {})

Before(b) == body[SelectedParent(Parents[b])].commit

Recomputed(b) == CalculateUtxoState(Parents[b], Before(b), Score(b))

Qualified(b) ==
    \A c \in Chain[b] \ {Root} : VerifyExpectedUtxoState(c, Before(c), Recomputed(c))

(* A verdict does not depend on the path the node took to it: whatever     *)
(* order bodies arrive in, whichever reorgs and restarts come between, a   *)
(* block is UTXO valid only if its whole selected chain checks against the *)
(* committed past, and is disqualified only if it does not.                *)
VerdictsPathIndependent ==
    \A b \in known : /\ status[b] = "valid" => Qualified(b)
                     /\ status[b] = "disqualified" => ~ Qualified(b)

(* The stored virtual UTXO set and note pool are exactly what the sink's   *)
(* header commits to plus virtual's own mergeset: no coin is left behind   *)
(* or resurrected by the reversed and re-applied diffs of a reorg.         *)
VirtualIsRecomputable ==
    LET sink == Sink(virt)
        x    == CalculateUtxoState(virt.parents, body[sink].commit, Cardinality(PastOf(virt.parents)))
    IN  /\ status[sink] = "valid"
        /\ virt.diff = x.diff
        /\ virt.coins = Apply(body[sink].commit, x.diff)

(* During a resolve the accumulated diff always leads from the stored      *)
(* virtual state to the state of the diff point, also past disqualified    *)
(* blocks.                                                                 *)
DiffPointTracked ==
    r.pc # "idle" => Apply(virt.coins, r.acc) = body[r.point].commit

(* Transparent coins and pool notes together, plus the fees of virtual's   *)
(* mergeset that its child's coinbase will pay, are the root's supply plus *)
(* one subsidy for every block the sink's chain has merged: mint, transfer,*)
(* redeem, fees and reorgs neither create nor destroy value.               *)
SupplyConserved ==
    Amount(virt.coins) + virt.fees = Amount(RootCoins) + Subsidy * Score(Sink(virt))

(* A chain block accepts every transaction of its selected parent: the     *)
(* replay of an already verified block drops none, although freshness and  *)
(* note locks may have run out at the child's DAA score.                   *)
ReplayComplete ==
    /\ \A b \in known \ {Root} : status[b] = "valid" =>
          LET sp == SelectedParent(Parents[b])
          IN  \A t \in body[sp].txs : [tx |-> t, from |-> sp] \in accepted[b]
    /\ \A t \in body[Sink(virt)].txs : [tx |-> t, from |-> Sink(virt)] \in virt.accepted

(* Along the selected chain and in virtual's mergeset a transaction is     *)
(* accepted at most once, and of two that spend the same outpoint or       *)
(* serial at most one, in whichever blocks they were included.             *)
AcceptedOnce ==
    LET all == virt.accepted \union UNION {accepted[b] : b \in Chain[Sink(virt)]}
    IN  \A x, y \in all : x # y => x.tx.spends \intersect y.tx.spends = {}

Optimal == \A b \in known :
    Qualified(b) /\ Heavier(b, Sink(virt)) => virt.fp \notin Chain[b]

(* At rest the sink is the heaviest UTXO-valid block that respects the     *)
(* finality point, unless a restart dropped the message about a newer body.*)
SinkIsHeaviest == r.pc = "idle" /\ ~ pending /\ ~ missed => Optimal

(* No reorg goes below the finality point of the virtual state it replaces.*)
FinalityKept == [][FinalityPoint(virt) \in Chain[Sink(virt')]]_virt

(* Every committed body is taken into account: the processor comes to rest *)
(* with the heaviest valid sink, or a restart lost the wake-up call.       *)
Settles == <>[](r.pc = "idle" /\ ~ pending /\ (missed \/ Optimal))
================================================================================
