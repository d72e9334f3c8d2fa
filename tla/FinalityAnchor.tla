----------------------------- MODULE FinalityAnchor -----------------------------
(***************************************************************************)
(* The finality anchors of a node: the ratchet, the pending anchor and the *)
(* deny list, written by the virtual processor and by the gossip flow, and *)
(* the fork choice they override.                                          *)
(*                                                                         *)
(* An anchor is [block, score, signers]; a signature is its signer.  The   *)
(* UTXO validation of VirtualProcessor is reduced to the set Disqualified. *)
(***************************************************************************)
EXTENDS BlockDag, Integers

CONSTANTS
    Disqualified,           \* blocks that fail UTXO validation
    Quorum,                 \* ANCHOR_QUORUM
    AnchorDepth, Interval,  \* FinalityAnchorParams
    Gossip,                 \* the anchors peers may send
    Mined,                  \* Mined[b]: anchor payloads accepted by chain block b
    MaxCrashes

VARIABLES
    known,      \* blocks whose body is committed
    virt,       \* the virtual parents
    latest,     \* the ratchet
    full,       \* latest_full, the anchor served to peers
    pending,    \* the anchor held for a block that is not verifiable yet
    deny,       \* the deny list: [trustee, block]
    wake,       \* the virtual processor's channel holds a message
    r,          \* the running resolve_virtual (history fields: held, the
                \* blocks committed when it read the tips, and seen, the
                \* ratchet its guard was judged by)
    g,          \* the running apply_external_finality_anchor
    crashes

vars == <<known, virt, latest, full, pending, deny, wake, r, g, crashes>>

store == <<latest, full, pending, deny>>

NoAnchor == [block |-> Root, score |-> -1, signers |-> {}]
NoUpdate == [latest |-> NoAnchor, deny |-> {}, clear |-> FALSE]
Idle == [pc |-> "idle", heap |-> {}, fp |-> Root, guard |-> NoAnchor, sink |-> Root,
         held |-> {}, seen |-> NoAnchor, read |-> NoAnchor, update |-> NoUpdate]
Quiet == [pc |-> "idle", anchor |-> NoAnchor, sink |-> Root]

Init ==
    /\ known = {Root}
    /\ virt = {Root}
    /\ latest = NoAnchor
    /\ full = NoAnchor
    /\ pending = NoAnchor
    /\ deny = {}
    /\ wake = FALSE
    /\ r = Idle
    /\ g = Quiet
    /\ crashes = 0

Sink(P) == SelectedParent(P)
SatSub(a, b) == IF a > b THEN a - b ELSE 0

CommitBody(b) ==
    /\ b \notin known
    /\ Parents[b] \subseteq known
    /\ known' = known \union {b}
    /\ wake' = TRUE
    /\ UNCHANGED <<virt, store, r, g, crashes>>

------------------------------------------------------------------------------
StalenessBound == AnchorDepth + 3 * Interval

(* The score an anchor is aged by: that of the sink's own header. *)
Bug_VirtualScore(P) == Cardinality(PastOf(P))
Clock(P) == Score(Sink(P))

Fresh(a, P) == a # NoAnchor /\ SatSub(Clock(P), a.score) <= StalenessBound

(* finality_anchor_guard *)
AnchorGuard == IF Fresh(latest, virt) THEN latest ELSE NoAnchor

BodyTips == Tips(known)

(* resolve_virtual up to the sink search: the body tips are read under one *)
(* lock ...                                                                *)
ResolveStart ==
    LET fp == BlockAtDepth(virt, FinalityDepth)
    IN  /\ r.pc = "idle"
        /\ wake
        /\ wake' = FALSE
        /\ r' = [Idle EXCEPT !.pc = "guard", !.fp = fp, !.held = known,
                             !.heap = {t \in BodyTips : IsDagAncestor(fp, t)}]
        /\ UNCHANGED <<known, virt, store, g, crashes>>

(* ... and the ratchet under another, after that one is dropped: bodies    *)
(* and anchors may arrive in between.                                      *)
ReadGuard ==
    /\ r.pc = "guard"
    /\ r' = [r EXCEPT !.pc = "search", !.guard = AnchorGuard, !.seen = latest]
    /\ UNCHANGED <<known, virt, store, wake, g, crashes>>

Admissible(c) ==
    /\ r.guard = NoAnchor \/ r.guard.block \in Chain[c]
    /\ r.fp \in Chain[c]
    /\ Chain[c] \intersect Disqualified = {}

RefuseCandidate ==
    LET c == Heaviest(r.heap)
    IN  /\ r.pc = "search"
        /\ r.heap # {}
        /\ ~ Admissible(c)
        /\ r' = [r EXCEPT !.heap = PushParents(@ \ {c}, r.fp, c)]
        /\ UNCHANGED <<known, virt, store, wake, g, crashes>>

AcceptCandidate ==
    LET c == Heaviest(r.heap)
    IN  /\ r.pc = "search"
        /\ r.heap # {}
        /\ Admissible(c)
        /\ r' = [r EXCEPT !.pc = "collect", !.heap = @ \ {c}, !.sink = c]
        /\ UNCHANGED <<known, virt, store, wake, g, crashes>>

(* heap.pop().expect("valid sink must exist"): the virtual processor is    *)
(* gone until the node is restarted.                                       *)
HeapExhausted ==
    /\ r.pc = "search"
    /\ r.heap = {}
    /\ r' = [r EXCEPT !.pc = "panicked"]
    /\ UNCHANGED <<known, virt, store, wake, g, crashes>>

------------------------------------------------------------------------------
(* collect_finality_anchor_updates *)

VerifyAnchor(a) == Cardinality(a.signers) >= Quorum

DeniedOn(t, b) == \E e \in deny : e.trustee = t /\ e.block \in Chain[b]

Bug_DeniedAnywhere(st, t, b) == \E e \in deny \union st.deny : e.trustee = t
Denied(st, t, b) == DeniedOn(t, b) \/ \E e \in st.deny : e.trustee = t

Verifiable(a, b) == a.block \in known /\ Score(a.block) = a.score /\ a.block \in Chain[b]

ApplyEvidence(st, p, b) ==
    IF Denied(st, p.trustee, b) THEN st
    ELSE [st EXCEPT !.deny = @ \union {[trustee |-> p.trustee, block |-> b]}]

Bug_ClaimedScore(st, p, b) ==
    IF /\ VerifyAnchor(p)
       /\ SatSub(Score(b), p.score) >= AnchorDepth
       /\ p.block \in Chain[b]
       /\ Cardinality({t \in p.signers : ~ Denied(st, t, b)}) >= Quorum
       /\ p.score > st.best
      THEN [st EXCEPT !.best = p.score, !.latest = p]
      ELSE st

Bug_AnyScore(st, p, b) ==
    IF /\ VerifyAnchor(p)
       /\ SatSub(Score(b), p.score) >= AnchorDepth
       /\ Verifiable(p, b)
       /\ Cardinality({t \in p.signers : ~ Denied(st, t, b)}) >= Quorum
      THEN [st EXCEPT !.best = p.score, !.latest = p]
      ELSE st

ApplyAnchor(st, p, b) ==
    IF /\ VerifyAnchor(p)
       /\ SatSub(Score(b), p.score) >= AnchorDepth
       /\ Verifiable(p, b)
       /\ Cardinality({t \in p.signers : ~ Denied(st, t, b)}) >= Quorum
       /\ p.score > st.best
      THEN [st EXCEPT !.best = p.score, !.latest = p]
      ELSE st

ApplyPayloads(st, b) ==
    FoldLeft(LAMBDA s, p : IF "trustee" \in DOMAIN p THEN ApplyEvidence(s, p, b)
                                                     ELSE ApplyAnchor(s, p, b),
             st, Mined[b])

Added == Chain[r.sink] \ Chain[Sink(virt)]

(* The scan of the added chain, after one read of the ratchet and of the   *)
(* deny list whose lock is dropped at once.                                *)
Collect ==
    LET st == FoldLeft(ApplyPayloads, [best |-> latest.score, latest |-> NoAnchor, deny |-> {}],
                       Ascending(Added))
    IN  /\ r.pc = "collect"
        /\ r' = [r EXCEPT !.pc = "promote", !.read = latest,
                          !.update = [latest |-> st.latest, deny |-> st.deny, clear |-> FALSE]]
        /\ UNCHANGED <<known, virt, store, wake, g, crashes>>

OnATip(b) == \E t \in BodyTips : b \in Chain[t]

LocallyVerifiable(a) == a.block \in known /\ Score(a.block) = a.score /\ OnATip(a.block)

BestRead == IF r.update.latest # NoAnchor THEN r.update.latest.score ELSE r.read.score

(* The pending anchor is read again, under a lock of its own. *)
PromotePending ==
    /\ r.pc = "promote"
    /\ r' = [r EXCEPT !.pc = "commit", !.update =
               IF pending = NoAnchor \/ Added = {} THEN @
               ELSE IF BestRead >= pending.score THEN [@ EXCEPT !.clear = TRUE]
               ELSE IF LocallyVerifiable(pending) THEN [@ EXCEPT !.latest = pending, !.clear = TRUE]
               ELSE @]
    /\ UNCHANGED <<known, virt, store, wake, g, crashes>>

(* commit_virtual_state: virtual and anchor state in one batch. *)
CommitVirtual ==
    LET new == r.update.latest
    IN  /\ r.pc = "commit"
        /\ \E P \in VirtualParents(r.sink, r.heap) : virt' = BoundedMerge(P)
        /\ deny' = deny \union r.update.deny
        /\ latest' = IF new # NoAnchor THEN new ELSE latest
        /\ full' = IF new # NoAnchor THEN new ELSE full
        /\ pending' = IF r.update.clear THEN NoAnchor ELSE pending
        /\ r' = Idle
        /\ UNCHANGED <<known, wake, g, crashes>>

------------------------------------------------------------------------------
(* apply_external_finality_anchor: the virtual state is loaded first, the  *)
(* rest happens under the store's write lock.                              *)
GossipArrives(a) ==
    /\ g.pc = "idle"
    /\ VerifyAnchor(a)
    /\ g' = [pc |-> "apply", anchor |-> a, sink |-> Sink(virt)]
    /\ UNCHANGED <<known, virt, store, wake, r, crashes>>

Countable(a, sink) == Cardinality({t \in a.signers : ~ DeniedOn(t, sink)}) >= Quorum

Advances(a) == Countable(a, g.sink) /\ a.score > latest.score

GossipIgnored ==
    LET a == g.anchor
    IN  /\ g.pc = "apply"
        /\ \/ ~ Advances(a)
           \/ ~ LocallyVerifiable(a) /\ a.score <= pending.score
        /\ g' = Quiet
        /\ UNCHANGED <<known, virt, store, wake, r, crashes>>

GossipRatchet ==
    LET a == g.anchor
    IN  /\ g.pc = "apply"
        /\ Advances(a)
        /\ LocallyVerifiable(a)
        /\ latest' = a
        /\ full' = a
        /\ g' = Quiet
        /\ UNCHANGED <<known, virt, pending, deny, wake, r, crashes>>

GossipPending ==
    LET a == g.anchor
    IN  /\ g.pc = "apply"
        /\ Advances(a)
        /\ ~ LocallyVerifiable(a)
        /\ a.score > pending.score
        /\ pending' = a
        /\ g' = Quiet
        /\ UNCHANGED <<known, virt, latest, full, deny, wake, r, crashes>>

(* The process dies: what runs is lost, what is stored is not. *)
Restart ==
    /\ crashes < MaxCrashes
    /\ crashes' = crashes + 1
    /\ r' = Idle
    /\ g' = Quiet
    /\ wake' = FALSE
    /\ UNCHANGED <<known, virt>>

Crash == Restart /\ UNCHANGED store

(* set_latest_direct is two writes: the process dies between them. *)
CrashInRatchet ==
    /\ g.pc = "apply"
    /\ Advances(g.anchor)
    /\ LocallyVerifiable(g.anchor)
    /\ latest' = g.anchor
    /\ UNCHANGED <<full, pending, deny>>
    /\ Restart

Resolver ==
    \/ ResolveStart \/ ReadGuard \/ RefuseCandidate \/ AcceptCandidate \/ HeapExhausted
    \/ Collect \/ PromotePending \/ CommitVirtual

Next ==
    \/ \E b \in Blocks : CommitBody(b)
    \/ Resolver
    \/ \E a \in Gossip : GossipArrives(a)
    \/ GossipIgnored \/ GossipRatchet \/ GossipPending
    \/ Crash \/ CrashInRatchet

Spec == Init /\ [][Next]_vars

------------------------------------------------------------------------------
(* The ratchet never moves backward, as the contract of set_latest_batch   *)
(* has it.                                                                 *)
Ratchet == [][latest'.score >= latest.score]_vars

(* What the code does guarantee: the ratchet moves backward only when a    *)
(* virtual commit writes an update it computed before a gossiped anchor    *)
(* overtook it, and then still to an anchor above the one it had read.     *)
RatchetFallsOnlyToALostRace ==
    [][latest'.score < latest.score =>
         r.pc = "commit" /\ r.read.score < latest'.score /\ r.read.score < latest.score]_vars

(* The sink search always finds a sink, as the comments on the guard and   *)
(* on is_chain_ancestor_of_any_body_tip say it must.                       *)
SinkExists == r.pc # "panicked"

(* What the code does guarantee: the search is complete.  It fails only    *)
(* when an anchor is enforced, and only when no block committed by the     *)
(* time the tips were read has a valid chain through both the finality     *)
(* point and that anchor.  (One committed after that, and ratcheted before *)
(* the guard is read, is not looked for.)                                  *)
SearchIsComplete ==
    r.pc = "panicked" => r.guard # NoAnchor /\ \A c \in r.held : ~ Admissible(c)

(* The ratchet and the served anchor are always a quorum's anchors of a    *)
(* block this node has, at that block's real score.                        *)
LatestIsVerified ==
    \A a \in {latest, full} \ {NoAnchor} :
      VerifyAnchor(a) /\ a.block \in known /\ a.score = Score(a.block)

(* Whatever reorganizations and crashes came before, evidence accepted on  *)
(* the current chain disqualifies its trustee on that chain.               *)
EvidenceBinds ==
    \A b \in Chain[Sink(virt)], p \in UNION {Range(Mined[c]) : c \in Blocks} :
      p \in Range(Mined[b]) /\ "trustee" \in DOMAIN p => DeniedOn(p.trustee, Sink(virt))

(* The chain is not reorganized below the ratchet while it is fresh by the *)
(* sink's own score, unless the ratchet moved after the guard was read. It *)
(* makes no difference how much a refused branch adds to virtual's         *)
(* mergeset.                                                               *)
AnchoredHistoryKept ==
    [][virt' # virt /\ latest # NoAnchor /\ latest.block \in Chain[Sink(virt)]
         /\ SatSub(Score(Sink(virt)), latest.score) <= StalenessBound
         => latest.block \in Chain[Sink(virt')] \/ r.seen # latest]_vars
================================================================================
