---------------------------- MODULE TrusteeSigner ----------------------------
(***************************************************************************)
(* The trustee signers (trustee-signer/src/lib.rs): one process per        *)
(* trustee, each polling a node of its own, attesting one selected-chain   *)
(* block per cadence interval, exchanging the partial signatures and       *)
(* submitting an anchor transaction once a quorum of them is held.         *)
(*                                                                         *)
(* The attested score of a block is its DAA score; signatures are          *)
(* deterministic, so an attestation is the pair of its signer and block.   *)
(***************************************************************************)
EXTENDS Integers, FiniteSets

CONSTANTS
    Trustees,   \* the pinned trustee set
    Faulty,     \* the trustees whose key signs without the rules of this program
    Quorum,     \* ANCHOR_QUORUM
    Depth,      \* SignerConfig::depth
    Interval,   \* SignerConfig::interval
    Blocks,     \* the blocks the nodes may know
    Genesis,    \* the block every selected chain starts with
    Daa,        \* Daa[b]: header DAA score
    Weight,     \* Weight[b]: blue work, the order in which sinks advance
    Chain,      \* Chain[b]: the selected chain from Genesis to b
    MaxMerge,   \* the most blocks virtual merges on top of the sink
    PageSize,   \* chain blocks one get_virtual_chain_from_block reply holds
    Faults,     \* file faults: subset of {"write_fails", "torn_write"}
    NoBlock     \* None, where an Option<Hash> or the default hash stands

ASSUME SignerAssumption ==
    /\ IsFiniteSet(Trustees) /\ Faulty \subseteq Trustees
    /\ Quorum \in Nat /\ 2 * Quorum > Cardinality(Trustees)
    /\ Depth \in Nat /\ Interval \in Nat \ {0}
    /\ MaxMerge \in Nat \ {0} /\ PageSize \in Nat \ {0}
    /\ Faults \subseteq {"write_fails", "torn_write"}

ASSUME ChainAssumption ==
    /\ Genesis \in Blocks /\ IsFiniteSet(Blocks) /\ NoBlock \notin Blocks
    /\ Daa \in [Blocks -> Nat] /\ Daa[Genesis] = 0
    /\ Weight \in [Blocks -> Nat]
    /\ Chain \in [Blocks -> SUBSET Blocks]
    /\ \A b \in Blocks :
          /\ Genesis \in Chain[b] /\ b \in Chain[b]
          /\ \A c, d \in Chain[b] : c # d => Daa[c] # Daa[d]

Honest == Trustees \ Faulty

VARIABLES
    sink,       \* sink[t]: the sink of the node that t polls
    pc,         \* pc[t]: where t is in its loop ("down" when not running)
    poll,       \* poll[t]: the dag info tick has read: bound and sink
    disk,       \* disk[t]: the state file
    last,       \* last[t]: last_signed
    cursor,     \* cursor[t]: chain_cursor
    partials,   \* partials[t]: the attestations of correct trustees that t holds
    submitted,  \* submitted[t]: last_submitted_score
    net,        \* partials in flight, each with its addressee
    shared,     \* every attestation a correct trustee ever released
    anchors     \* every anchor accepted by submit_transaction

memVars == <<poll, last, cursor, partials, submitted>>
vars == <<sink, pc, poll, disk, last, cursor, partials, submitted, net, shared, anchors>>

Attestation == [by : Honest, block : Blocks]
LastSigned == [score : Nat, block : Blocks \cup {NoBlock}]
NoState == [score |-> 0, block |-> NoBlock]     \* LastSigned::default()
NoPoll == [bound |-> 0, sink |-> Genesis]

Init ==
    /\ sink = [t \in Honest |-> Genesis]
    /\ pc = [t \in Honest |-> "down"]
    /\ poll = [t \in Honest |-> NoPoll]
    /\ disk = [t \in Honest |-> NoState]
    /\ last = [t \in Honest |-> NoState]
    /\ cursor = [t \in Honest |-> NoBlock]
    /\ partials = [t \in Honest |-> {}]
    /\ submitted = [t \in Honest |-> 0]
    /\ net = {} /\ shared = {} /\ anchors = {}

Goto(t, label) == pc' = [pc EXCEPT ![t] = label]

(* tick returns; its local variables go out of scope. *)
EndTick(t, label) ==
    /\ Goto(t, label)
    /\ poll' = [poll EXCEPT ![t] = NoPoll]

(* The blocks of S with the highest score: one at most when S lies on a chain. *)
Highest(S) == {b \in S : \A c \in S : Daa[c] <= Daa[b]}

(* The first PageSize blocks of `added`, in chain order. *)
Page(added) == {b \in added : Cardinality({c \in added : Daa[c] < Daa[b]}) < PageSize}
-----------------------------------------------------------------------------
(* The node behind t processes blocks: its sink moves to a heavier block. *)
NodeAdvances(t) ==
    /\ \E b \in Blocks : Weight[b] > Weight[sink[t]] /\ sink' = [sink EXCEPT ![t] = b]
    /\ UNCHANGED <<pc, disk, net, shared, anchors, memVars>>

(* TrusteeSigner::new: a fresh instance starts from the state file. *)
Start(t) ==
    /\ pc[t] = "down"
    /\ last' = [last EXCEPT ![t] = disk[t]]
    /\ Goto(t, "drain")
    /\ UNCHANGED <<sink, poll, disk, cursor, partials, submitted, net, shared, anchors>>

(* A process that dies loses everything but its state file. *)
LoseMemory(t) ==
    /\ Goto(t, "down")
    /\ poll' = [poll EXCEPT ![t] = NoPoll]
    /\ last' = [last EXCEPT ![t] = NoState]
    /\ cursor' = [cursor EXCEPT ![t] = NoBlock]
    /\ partials' = [partials EXCEPT ![t] = {}]
    /\ submitted' = [submitted EXCEPT ![t] = 0]

Crash(t) ==
    /\ pc[t] # "down"
    /\ LoseMemory(t)
    /\ UNCHANGED <<sink, disk, net, shared, anchors>>

(* drain_incoming: record_partial on a received attestation. *)
Drain(t) ==
    /\ pc[t] = "drain"
    /\ \E m \in net :
          /\ m.to = t
          /\ net' = net \ {m}
          /\ partials' = [partials EXCEPT ![t] = @ \cup {m.att}]
    /\ UNCHANGED <<sink, pc, poll, disk, last, cursor, submitted, shared, anchors>>

Snap(score) == (score \div Interval) * Interval
SatSub(a, b) == IF a >= b THEN a - b ELSE 0
Eligible(t, score) == score >= last[t].score + Interval

(* tick, up to the cadence check. *)
Poll(t) ==
    /\ pc[t] = "drain"
    /\ \E merged \in 1..MaxMerge :
          LET bound == Snap(SatSub(Daa[sink[t]] + merged, Depth)) IN
          IF Eligible(t, bound)
          THEN Goto(t, "target") /\ poll' = [poll EXCEPT ![t] = [bound |-> bound, sink |-> sink[t]]]
          ELSE EndTick(t, "submit")
    /\ UNCHANGED <<sink, disk, last, cursor, partials, submitted, net, shared, anchors>>

(* Some RPC of tick fails: the tick ends without signing. *)
TickError(t) ==
    /\ pc[t] \in {"drain", "target"}
    /\ EndTick(t, "submit")
    /\ UNCHANGED <<sink, disk, last, cursor, partials, submitted, net, shared, anchors>>

(* The candidate of tick, if any: the first block at or below the bound, walking back from the
   polled sink when there is no cursor, else walking back the page that the node returns. *)
Targets(t) ==
    LET added == Chain[sink[t]] \ Chain[cursor[t]]
        scanned == IF cursor[t] = NoBlock THEN Chain[poll[t].sink] ELSE Page(added)
    IN  Highest({b \in scanned : Daa[b] <= poll[t].bound})

Bug_NoInterval(t, b) == b # last[t].block
MaySign(t, b) == Eligible(t, Daa[b]) /\ b # last[t].block

(* tick finds nothing to sign. *)
NoTarget(t) ==
    /\ pc[t] = "target"
    /\ \A b \in Targets(t) : ~ MaySign(t, b)
    /\ EndTick(t, "submit")
    /\ UNCHANGED <<sink, disk, last, cursor, partials, submitted, net, shared, anchors>>

(* get_virtual_chain_from_block fails: the cursor is dropped. *)
CursorLost(t) ==
    /\ pc[t] = "target" /\ cursor[t] # NoBlock
    /\ cursor' = [cursor EXCEPT ![t] = NoBlock]
    /\ EndTick(t, "submit")
    /\ UNCHANGED <<sink, disk, last, partials, submitted, net, shared, anchors>>

Bug_NotPersisted(t) ==
    /\ pc[t] = "target"
    /\ \E b \in Targets(t) :
          /\ MaySign(t, b)
          /\ cursor' = [cursor EXCEPT ![t] = b]
          /\ last' = [last EXCEPT ![t] = [score |-> Daa[b], block |-> b]]
    /\ EndTick(t, "share")
    /\ UNCHANGED <<sink, disk, partials, submitted, net, shared, anchors>>

(* tick signs: the cursor and last_signed move in memory, then write_state. A failed write is
   only logged. *)
Sign(t) ==
    /\ pc[t] = "target"
    /\ \E b \in Targets(t) :
          /\ MaySign(t, b)
          /\ cursor' = [cursor EXCEPT ![t] = b]
          /\ last' = [last EXCEPT ![t] = [score |-> Daa[b], block |-> b]]
    /\ \/ disk' = [disk EXCEPT ![t] = last'[t]]
       \/ "write_fails" \in Faults /\ UNCHANGED disk
    /\ EndTick(t, "share")
    /\ UNCHANGED <<sink, partials, submitted, net, shared, anchors>>

(* The process dies inside std::fs::write, after the truncation and before the bytes are out;
   read_state parses nothing from the file it leaves. *)
TornWrite(t) ==
    /\ "torn_write" \in Faults
    /\ pc[t] = "target" /\ \E b \in Targets(t) : MaySign(t, b)
    /\ disk' = [disk EXCEPT ![t] = NoState]
    /\ LoseMemory(t)
    /\ UNCHANGED <<sink, net, shared, anchors>>

(* The rest of sign_and_share: record the own partial, send it to every peer. *)
Share(t) ==
    /\ pc[t] = "share"
    /\ LET att == [by |-> t, block |-> last[t].block] IN
       /\ partials' = [partials EXCEPT ![t] = @ \cup {att}]
       /\ shared' = shared \cup {att}
       /\ net' = net \cup {[to |-> p, att |-> att] : p \in Honest \ {t}}
    /\ Goto(t, "submit")
    /\ UNCHANGED <<sink, poll, disk, last, cursor, submitted, anchors>>

Signers(held, b) == {a.by : a \in {p \in held : p.block = b}}

Bug_QuorumLessOne(t, held) ==
    {b \in Blocks : Daa[b] > submitted[t] /\ Cardinality(Signers(held, b)) >= Quorum - 1}

(* The pairs try_submit may assemble from the held partials: a quorum of signatures, and a
   score above the last submitted one. *)
Ready(t, held) ==
    {b \in Blocks : Daa[b] > submitted[t] /\ Cardinality(Signers(held, b)) >= Quorum}

Bug_ClearsOnly(t) ==
    /\ pc[t] = "submit"
    /\ \E b \in Ready(t, partials[t]) :
          partials' = [partials EXCEPT ![t] = {p \in @ : Daa[p.block] > Daa[b]}]
    /\ Goto(t, "drain")
    /\ UNCHANGED <<sink, poll, disk, last, cursor, submitted, net, shared, anchors>>

(* try_submit has something, and the node accepts it or already holds it. A faulty key may have
   sent t a signature over any block by now: `forged` are the ones t holds. *)
Submit(t) ==
    /\ pc[t] = "submit"
    /\ \E forged \in SUBSET [by : Faulty, block : Blocks] :
          LET held == partials[t] \cup forged IN
          \E b \in Ready(t, held) :
             /\ \A c \in Ready(t, held) : Daa[c] <= Daa[b]
             /\ anchors' = anchors \cup {[block |-> b, signers |-> Signers(held, b)]}
             /\ submitted' = [submitted EXCEPT ![t] = Daa[b]]
             /\ partials' = [partials EXCEPT ![t] = {p \in @ : Daa[p.block] > Daa[b]}]
    /\ Goto(t, "drain")
    /\ UNCHANGED <<sink, poll, disk, last, cursor, net, shared>>

(* try_submit has nothing to submit, or the node refuses it. *)
SubmitNothing(t) ==
    /\ pc[t] = "submit"
    /\ Goto(t, "drain")
    /\ UNCHANGED <<sink, disk, net, shared, anchors, memVars>>

Step(t) ==
    \/ Drain(t) \/ Poll(t) \/ TickError(t) \/ NoTarget(t) \/ CursorLost(t)
    \/ Sign(t) \/ Share(t) \/ Submit(t) \/ SubmitNothing(t)

Next ==
    \E t \in Honest : NodeAdvances(t) \/ Start(t) \/ Crash(t) \/ TornWrite(t) \/ Step(t)

Spec == Init /\ [][Next]_vars

(* The loop of a running signer keeps turning, and the node does not refuse a ready anchor
   every time it is offered. *)
LoopTurns(t) == Poll(t) \/ TickError(t) \/ NoTarget(t) \/ Sign(t) \/ Share(t) \/ SubmitNothing(t)
FairSpec == Spec /\ \A t \in Honest : WF_vars(LoopTurns(t)) /\ SF_vars(Submit(t))
-----------------------------------------------------------------------------
Labels == {"down", "drain", "target", "share", "submit"}

(* Every variable has its type; a signer about to share has a block to share. *)
TypeOK ==
    /\ sink \in [Honest -> Blocks]
    /\ pc \in [Honest -> Labels]
    /\ poll \in [Honest -> [bound : Int, sink : Blocks]]
    /\ disk \in [Honest -> LastSigned] /\ last \in [Honest -> LastSigned]
    /\ \A t \in Honest : pc[t] = "share" => last[t].block \in Blocks
    /\ cursor \in [Honest -> Blocks \cup {NoBlock}]
    /\ partials \in [Honest -> SUBSET Attestation]
    /\ submitted \in [Honest -> Nat]
    /\ net \subseteq [to : Honest, att : Attestation]
    /\ shared \subseteq Attestation
    /\ anchors \subseteq [block : Blocks, signers : SUBSET Trustees]

(* verify_equivocation_evidence: two blocks attested less than an interval apart. *)
Conflict(b, c) == b # c /\ Daa[b] - Daa[c] < Interval /\ Daa[c] - Daa[b] < Interval

(* The equivocation-safety invariant of the signer: no two attestations a correct trustee ever
   released can be put together as equivocation evidence, whatever its node's reorganisations
   and its own crashes. *)
NoEquivocation ==
    \A a1, a2 \in shared :
        a1.by = a2.by => ~ Conflict(a1.block, a2.block)

(* Persist first: every attestation a correct trustee released is covered by its state file, so
   that a restart cannot fall behind it. *)
PersistFirst ==
    \A a \in shared : Daa[a.block] <= disk[a.by].score

(* Two conflicting anchors are never the work of correct trustees alone: some faulty trustee
   attested both blocks, which is the evidence the deny-list disqualifies it with. *)
Accountable ==
    \A a1, a2 \in anchors :
        Conflict(a1.block, a2.block) =>
            a1.signers \cap a2.signers \cap Faulty # {}

(* A quorum that a running signer holds is submitted, or superseded by a higher one, unless the
   signer goes down (its partials are in memory only). *)
QuorumSubmitted ==
    \A t \in Honest, b \in Blocks :
        b \in Ready(t, partials[t]) ~> submitted[t] >= Daa[b] \/ pc[t] = "down"
=============================================================================
