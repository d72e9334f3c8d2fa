------------------------- MODULE TrusteeSignerProofs -------------------------
(***************************************************************************)
(* Proofs about TrusteeSigner for every trustee set, quorum, cadence and   *)
(* block tree, when the state file is written whole or not at all.         *)
(***************************************************************************)
EXTENDS TrusteeSigner, FiniteSetTheorems, TLAPS

(* The memory of a running signer agrees with its file, which names a block and its score. *)
FileInv ==
    \A t \in Honest :
        /\ pc[t] # "down" => last[t] = disk[t]
        /\ disk[t] = NoState \/ (disk[t].block \in Blocks /\ disk[t].score = Daa[disk[t].block])
        /\ pc[t] = "share" => disk[t].block \in Blocks

(* Whatever a signer released is the block its file names, or a full interval below it. *)
CoveredInv ==
    \A a \in shared :
        a.block = disk[a.by].block \/ Daa[a.block] + Interval <= disk[a.by].score

(* What is held or in flight from correct trustees was released by them. *)
HeldInv ==
    /\ \A t \in Honest : partials[t] \subseteq shared
    /\ \A m \in net : m.att \in shared

(* An anchor carries a quorum, and its correct signers released their attestations. *)
AnchorInv ==
    \A a \in anchors :
        /\ Cardinality(a.signers) >= Quorum
        /\ \A t \in a.signers \cap Honest : [by |-> t, block |-> a.block] \in shared

SignInv == TypeOK /\ FileInv /\ CoveredInv /\ NoEquivocation
IInv == SignInv /\ HeldInv /\ AnchorInv
-----------------------------------------------------------------------------
(* Two quorums of trustees have a member in common: twice ANCHOR_QUORUM exceeds the trustees. *)
LEMMA QuorumsIntersect ==
    ASSUME NEW S \in SUBSET Trustees, NEW T \in SUBSET Trustees,
           Cardinality(S) >= Quorum, Cardinality(T) >= Quorum
    PROVE  S \cap T # {}
<1>1. IsFiniteSet(S) /\ IsFiniteSet(T) /\ IsFiniteSet(S \cup T) /\ Cardinality(S \cup T) <= Cardinality(Trustees)
  BY SignerAssumption, FS_Subset
<1>2. Cardinality(S) \in Nat /\ Cardinality(T) \in Nat /\ Cardinality(Trustees) \in Nat
  BY <1>1, SignerAssumption, FS_CardinalityType
<1>3. Cardinality(S \cup T) = Cardinality(S) + Cardinality(T) - Cardinality(S \cap T)
  BY <1>1, FS_Union
<1>4. S \cap T = {} => Cardinality(S \cap T) = 0
  BY FS_EmptySet
<1>5. QED
  BY <1>1, <1>2, <1>3, <1>4, SignerAssumption

(* The candidate of a tick is a known block. *)
LEMMA TargetsAreBlocks ==
    ASSUME TypeOK, NEW t \in Honest PROVE Targets(t) \subseteq Blocks
BY ChainAssumption DEF Targets, Highest, Page, TypeOK

(* Every step of a signer keeps the types. *)
LEMMA TypeStep == TypeOK /\ [Next]_vars => TypeOK'
<1> SUFFICES ASSUME TypeOK, [Next]_vars PROVE TypeOK'
  OBVIOUS
<1> USE ChainAssumption, SignerAssumption
<1>a. NoState \in LastSigned /\ NoPoll \in [bound : Int, sink : Blocks]
  BY DEF NoState, NoPoll, LastSigned
<1> DEFINE ShareOK == \A u \in Honest : pc[u] = "share" => last[u].block \in Blocks
<1>b. ASSUME NEW t \in Honest, NEW label \in Labels \ {"share"}, pc' = [pc EXCEPT ![t] = label], UNCHANGED last
      PROVE  pc' \in [Honest -> Labels] /\ ShareOK'
  BY <1>b DEF TypeOK
<1> HIDE DEF ShareOK
<1>1. ASSUME NEW t \in Honest, NodeAdvances(t) PROVE TypeOK'
  BY <1>1 DEF NodeAdvances, TypeOK, memVars
<1>2. ASSUME NEW t \in Honest, Start(t) PROVE TypeOK'
  BY <1>2 DEF Start, Goto, TypeOK, Labels
<1>3. ASSUME NEW t \in Honest, Crash(t) PROVE TypeOK'
  BY <1>3, <1>a DEF Crash, LoseMemory, Goto, TypeOK, Labels
<1>4. ASSUME NEW t \in Honest, TornWrite(t) PROVE TypeOK'
  BY <1>4, <1>a DEF TornWrite, LoseMemory, Goto, TypeOK, Labels
<1>5. ASSUME NEW t \in Honest, Drain(t) PROVE TypeOK'
  BY <1>5 DEF Drain, TypeOK
<1>6. ASSUME NEW t \in Honest, Poll(t) PROVE TypeOK'
  <2>1. PICK merged \in 1..MaxMerge :
           LET bound == Snap(SatSub(Daa[sink[t]] + merged, Depth)) IN
           IF Eligible(t, bound)
           THEN Goto(t, "target") /\ poll' = [poll EXCEPT ![t] = [bound |-> bound, sink |-> sink[t]]]
           ELSE EndTick(t, "submit")
    BY <1>6 DEF Poll
  <2> DEFINE bound == Snap(SatSub(Daa[sink[t]] + merged, Depth))
  <2>2. bound \in Int
    BY DEF Snap, SatSub, TypeOK
  <2>3. poll' \in [Honest -> [bound : Int, sink : Blocks]]
    <3> HIDE DEF bound
    <3> QED BY <2>1, <2>2, <1>a DEF bound, EndTick, TypeOK
  <2>4. \E label \in {"target", "submit"} : pc' = [pc EXCEPT ![t] = label]
    BY <2>1 DEF Goto, EndTick
  <2>5. pc' \in [Honest -> Labels] /\ ShareOK'
    BY <1>6, <1>b, <2>4 DEF Poll, Labels
  <2>6. QED BY <1>6, <2>3, <2>5 DEF Poll, TypeOK, ShareOK
<1>7. ASSUME NEW t \in Honest, TickError(t) \/ NoTarget(t) \/ CursorLost(t) \/ SubmitNothing(t) PROVE TypeOK'
  <2>1. \E label \in {"drain", "submit"} : pc' = [pc EXCEPT ![t] = label]
    BY <1>7 DEF TickError, NoTarget, CursorLost, SubmitNothing, EndTick, Goto
  <2>2. UNCHANGED <<sink, disk, last, partials, submitted, net, shared, anchors>>
    BY <1>7 DEF TickError, NoTarget, CursorLost, SubmitNothing, memVars
  <2>3. pc' \in [Honest -> Labels] /\ ShareOK'
    BY <1>b, <2>1, <2>2 DEF Labels
  <2>4. cursor' \in [Honest -> Blocks \cup {NoBlock}] /\ poll' \in [Honest -> [bound : Int, sink : Blocks]]
    <3>1. poll' = [poll EXCEPT ![t] = NoPoll] \/ poll' = poll
      BY <1>7 DEF TickError, NoTarget, CursorLost, SubmitNothing, EndTick, memVars
    <3>2. cursor' = [cursor EXCEPT ![t] = NoBlock] \/ cursor' = cursor
      BY <1>7 DEF TickError, NoTarget, CursorLost, SubmitNothing, memVars
    <3>3. poll' \in [Honest -> [bound : Int, sink : Blocks]]
      BY <3>1, <1>a DEF TypeOK
    <3>4. cursor' \in [Honest -> Blocks \cup {NoBlock}]
      BY <3>2 DEF TypeOK
    <3> QED BY <3>3, <3>4
  <2>5. QED BY <2>2, <2>3, <2>4 DEF TypeOK, ShareOK
<1>8. ASSUME NEW t \in Honest, Sign(t) PROVE TypeOK'
  <2>1. PICK b \in Targets(t) : /\ cursor' = [cursor EXCEPT ![t] = b]
                               /\ last' = [last EXCEPT ![t] = [score |-> Daa[b], block |-> b]]
    BY <1>8 DEF Sign
  <2>2. b \in Blocks /\ [score |-> Daa[b], block |-> b] \in LastSigned
    BY TargetsAreBlocks DEF LastSigned
  <2>3. pc' = [pc EXCEPT ![t] = "share"] /\ poll' = [poll EXCEPT ![t] = NoPoll]
        /\ UNCHANGED <<sink, partials, submitted, net, shared, anchors>>
    BY <1>8 DEF Sign, EndTick, Goto
  <2>4. last' \in [Honest -> LastSigned] /\ cursor' \in [Honest -> Blocks \cup {NoBlock}]
    BY <2>1, <2>2 DEF TypeOK
  <2>5. disk' \in [Honest -> LastSigned]
    BY <1>8, <2>4 DEF Sign, TypeOK
  <2>6. pc' \in [Honest -> Labels] /\ poll' \in [Honest -> [bound : Int, sink : Blocks]]
    BY <2>3, <1>a DEF TypeOK, Labels
  <2>7. ShareOK'
    BY <2>1, <2>2, <2>3 DEF TypeOK, ShareOK
  <2>8. QED BY <2>3, <2>4, <2>5, <2>6, <2>7 DEF TypeOK, ShareOK
<1>9. ASSUME NEW t \in Honest, Share(t) PROVE TypeOK'
  BY <1>9 DEF Share, Goto, TypeOK, Labels, Attestation
<1>10. ASSUME NEW t \in Honest, Submit(t) PROVE TypeOK'
  BY <1>10 DEF Submit, Ready, Signers, Goto, TypeOK, Labels, Attestation, Honest
<1>11. CASE UNCHANGED vars
  BY <1>11 DEF vars, TypeOK
<1> QED
  BY <1>1, <1>2, <1>3, <1>4, <1>5, <1>6, <1>7, <1>8, <1>9, <1>10, <1>11 DEF Next, Step

(* Type correctness of the signers, file faults included. *)
THEOREM SignerTypes == Spec => []TypeOK
<1>1. Init => TypeOK
  BY ChainAssumption DEF Init, TypeOK, Labels, LastSigned, NoState, NoPoll
<1> QED
  BY <1>1, TypeStep, PTL DEF Spec
-----------------------------------------------------------------------------
(* The steps that leave the file, the memory of it and the released attestations alone. *)
LEMMA QuietStep ==
    ASSUME SignInv, TypeOK', UNCHANGED <<disk, last, shared>>,
           \A u \in Honest : pc'[u] \in {pc[u], "down", "submit", "target"} \/ (pc'[u] = "drain" /\ pc[u] # "down"),
           \A u \in Honest : pc[u] = "down" => pc'[u] = "down"
    PROVE  SignInv'
BY DEF SignInv, FileInv, CoveredInv, NoEquivocation, Conflict

(* No step releases conflicting attestations when every write of the file succeeds. *)
LEMMA SignStep ==
    ASSUME Faults = {}, SignInv, [Next]_vars PROVE SignInv'
<1> USE ChainAssumption, SignerAssumption
<1> TypeOK /\ TypeOK'
  BY TypeStep DEF SignInv
<1>1. ASSUME NEW t \in Honest, NodeAdvances(t) PROVE SignInv'
  BY <1>1, QuietStep DEF NodeAdvances, memVars
<1>2. ASSUME NEW t \in Honest, Start(t) PROVE SignInv'
  BY <1>2 DEF Start, Goto, SignInv, FileInv, CoveredInv, NoEquivocation, Conflict, TypeOK
<1>3. ASSUME NEW t \in Honest, Crash(t) PROVE SignInv'
  BY <1>3 DEF Crash, LoseMemory, Goto, SignInv, FileInv, CoveredInv, NoEquivocation, Conflict, TypeOK
<1>4. ASSUME NEW t \in Honest, TornWrite(t) PROVE SignInv'
  BY <1>4 DEF TornWrite
<1>5. ASSUME NEW t \in Honest, Drain(t) PROVE SignInv'
  BY <1>5, QuietStep DEF Drain
<1>6. ASSUME NEW t \in Honest, Poll(t) PROVE SignInv'
  <2>1. \E label \in {"target", "submit"} : pc' = [pc EXCEPT ![t] = label]
    BY <1>6 DEF Poll, Goto, EndTick
  <2>2. QED BY <1>6, <2>1, QuietStep DEF Poll, TypeOK
<1>7. ASSUME NEW t \in Honest, TickError(t) \/ NoTarget(t) \/ CursorLost(t) \/ SubmitNothing(t) \/ Submit(t)
      PROVE SignInv'
  <2>1. \E label \in {"drain", "submit"} : pc[t] # "down" /\ pc' = [pc EXCEPT ![t] = label]
    BY <1>7 DEF TickError, NoTarget, CursorLost, SubmitNothing, Submit, EndTick, Goto
  <2>2. UNCHANGED <<disk, last, shared>>
    BY <1>7 DEF TickError, NoTarget, CursorLost, SubmitNothing, Submit, memVars
  <2>3. QED BY <2>1, <2>2, QuietStep DEF TypeOK
<1>8. ASSUME NEW t \in Honest, Sign(t) PROVE SignInv'
  <2>1. PICK b \in Targets(t) : MaySign(t, b) /\ last' = [last EXCEPT ![t] = [score |-> Daa[b], block |-> b]]
    BY <1>8 DEF Sign
  <2>2. b \in Blocks /\ last[t] = disk[t] /\ disk[t].score \in Nat /\ Daa[b] >= disk[t].score + Interval
    BY <1>8, <2>1, TargetsAreBlocks DEF Sign, SignInv, FileInv, MaySign, Eligible, TypeOK, LastSigned
  <2>3. disk' = [disk EXCEPT ![t] = [score |-> Daa[b], block |-> b]] /\ pc' = [pc EXCEPT ![t] = "share"]
        /\ UNCHANGED shared
    BY <1>8, <2>1 DEF Sign, EndTick, Goto, TypeOK
  <2>4. FileInv'
    BY <2>1, <2>2, <2>3 DEF SignInv, FileInv, TypeOK
  <2>5. CoveredInv'
    <3> SUFFICES ASSUME NEW a \in shared
                 PROVE  a.block = disk'[a.by].block \/ Daa[a.block] + Interval <= disk'[a.by].score
      BY <2>3 DEF CoveredInv
    <3>1. a.by \in Honest /\ a.block \in Blocks /\ Daa[a.block] \in Nat /\ disk[a.by].score \in Nat
      BY DEF TypeOK, Attestation, LastSigned
    <3>2. a.block = disk[a.by].block \/ Daa[a.block] + Interval <= disk[a.by].score
      BY DEF SignInv, CoveredInv
    <3>3. a.block = disk[a.by].block => disk[a.by].score = Daa[a.block]
      BY <3>1 DEF SignInv, FileInv, NoState
    <3>4. CASE a.by = t
      BY <2>2, <2>3, <3>1, <3>2, <3>3, <3>4 DEF TypeOK
    <3>5. CASE a.by # t
      BY <2>3, <3>1, <3>2, <3>5 DEF TypeOK
    <3> QED BY <3>4, <3>5
  <2>6. NoEquivocation'
    BY <2>3 DEF SignInv, NoEquivocation, Conflict
  <2>7. QED BY <2>4, <2>5, <2>6 DEF SignInv
<1>9. ASSUME NEW t \in Honest, Share(t) PROVE SignInv'
  <2> DEFINE att == [by |-> t, block |-> last[t].block]
  <2>1. shared' = shared \cup {att} /\ last[t] = disk[t] /\ disk[t].block \in Blocks
        /\ UNCHANGED <<disk, last>> /\ pc' = [pc EXCEPT ![t] = "submit"] /\ pc[t] = "share"
    BY <1>9 DEF Share, Goto, SignInv, FileInv
  <2>2. FileInv'
    BY <2>1 DEF SignInv, FileInv, TypeOK
  <2>3. CoveredInv'
    BY <2>1 DEF SignInv, CoveredInv
  <2>4. ASSUME NEW a \in shared, a.by = t PROVE ~ Conflict(a.block, att.block) /\ ~ Conflict(att.block, a.block)
    <3>0. a.block \in Blocks /\ disk[t].score \in Nat
      BY DEF TypeOK, Attestation, LastSigned
    <3>1. Daa[a.block] \in Nat /\ Daa[disk[t].block] = disk[t].score
      BY <2>1, <3>0 DEF SignInv, FileInv, NoState
    <3>2. a.block = disk[t].block \/ Daa[a.block] + Interval <= disk[t].score
      BY <2>4 DEF SignInv, CoveredInv
    <3> QED BY <2>1, <3>0, <3>1, <3>2 DEF Conflict
  <2>5. NoEquivocation'
    BY <2>1, <2>4 DEF SignInv, NoEquivocation, Conflict
  <2>6. QED BY <2>2, <2>3, <2>5 DEF SignInv
<1>10. CASE UNCHANGED vars
  BY <1>10, QuietStep DEF vars
<1> QED
  BY <1>1, <1>2, <1>3, <1>4, <1>5, <1>6, <1>7, <1>8, <1>9, <1>10 DEF Next, Step

(* Held partials and anchors only carry released attestations of correct trustees. *)
LEMMA AnchorStep ==
    ASSUME TypeOK, HeldInv, AnchorInv, [Next]_vars PROVE HeldInv' /\ AnchorInv'
<1> USE ChainAssumption, SignerAssumption
<1>q. ASSUME UNCHANGED <<net, shared, anchors>>, \A t \in Honest : partials'[t] \subseteq partials[t]
      PROVE  HeldInv' /\ AnchorInv'
  BY <1>q DEF HeldInv, AnchorInv
<1>1. ASSUME NEW t \in Honest, NodeAdvances(t) \/ TickError(t) \/ NoTarget(t) \/ SubmitNothing(t)
      PROVE  HeldInv' /\ AnchorInv'
  BY <1>1, <1>q DEF NodeAdvances, TickError, NoTarget, SubmitNothing, memVars
<1>2. ASSUME NEW t \in Honest, Start(t) \/ Poll(t) \/ CursorLost(t) \/ Sign(t) PROVE HeldInv' /\ AnchorInv'
  BY <1>2, <1>q DEF Start, Poll, CursorLost, Sign
<1>3. ASSUME NEW t \in Honest, Crash(t) \/ TornWrite(t) PROVE HeldInv' /\ AnchorInv'
  <2>1. partials' = [partials EXCEPT ![t] = {}] /\ UNCHANGED <<net, shared, anchors>>
    BY <1>3 DEF Crash, TornWrite, LoseMemory
  <2> QED BY <2>1, <1>q DEF TypeOK
<1>4. ASSUME NEW t \in Honest, Drain(t) PROVE HeldInv' /\ AnchorInv'
  <2>1. PICK m \in net : net' = net \ {m} /\ partials' = [partials EXCEPT ![t] = @ \cup {m.att}]
    BY <1>4 DEF Drain
  <2>2. UNCHANGED <<shared, anchors>>
    BY <1>4 DEF Drain
  <2> QED BY <2>1, <2>2 DEF HeldInv, AnchorInv, TypeOK
<1>5. ASSUME NEW t \in Honest, Share(t) PROVE HeldInv' /\ AnchorInv'
  <2> DEFINE att == [by |-> t, block |-> last[t].block]
  <2>1. /\ partials' = [partials EXCEPT ![t] = @ \cup {att}]
        /\ shared' = shared \cup {att}
        /\ net' = net \cup {[to |-> p, att |-> att] : p \in Honest \ {t}}
        /\ UNCHANGED anchors
    BY <1>5 DEF Share
  <2>2. HeldInv'
    BY <2>1 DEF HeldInv, TypeOK
  <2>3. AnchorInv'
    BY <2>1 DEF AnchorInv
  <2> QED BY <2>2, <2>3
<1>6. ASSUME NEW t \in Honest, Submit(t) PROVE HeldInv' /\ AnchorInv'
  <2>1. PICK forged \in SUBSET [by : Faulty, block : Blocks] :
           \E b \in Ready(t, partials[t] \cup forged) :
             /\ anchors' = anchors \cup {[block |-> b, signers |-> Signers(partials[t] \cup forged, b)]}
             /\ partials' = [partials EXCEPT ![t] = {p \in @ : Daa[p.block] > Daa[b]}]
    BY <1>6 DEF Submit
  <2> DEFINE held == partials[t] \cup forged
  <2>2. PICK b \in Ready(t, held) :
             /\ anchors' = anchors \cup {[block |-> b, signers |-> Signers(held, b)]}
             /\ partials' = [partials EXCEPT ![t] = {p \in @ : Daa[p.block] > Daa[b]}]
    BY <2>1
  <2>3. UNCHANGED <<net, shared>>
    BY <1>6 DEF Submit
  <2>4. Cardinality(Signers(held, b)) >= Quorum
    BY DEF Ready
  <2>5. ASSUME NEW u \in Signers(held, b) \cap Honest PROVE [by |-> u, block |-> b] \in shared
    <3>1. PICK p \in held : p.block = b /\ p.by = u
      BY DEF Signers
    <3>2. p \in partials[t]
      BY <3>1 DEF Honest
    <3>3. p = [by |-> u, block |-> b]
      BY <3>1, <3>2 DEF TypeOK, Attestation
    <3> QED BY <3>2, <3>3 DEF HeldInv
  <2>6. AnchorInv'
    <3> SUFFICES ASSUME NEW a \in anchors'
                 PROVE  Cardinality(a.signers) >= Quorum /\ \A u \in a.signers \cap Honest : [by |-> u, block |-> a.block] \in shared
      BY <2>3 DEF AnchorInv
    <3>1. CASE a \in anchors
      BY <3>1 DEF AnchorInv
    <3>2. CASE a = [block |-> b, signers |-> Signers(held, b)]
      <4> HIDE DEF held
      <4> QED BY <3>2, <2>4, <2>5
    <3> QED BY <2>2, <3>1, <3>2
  <2>7. HeldInv'
    <3> HIDE DEF held
    <3> QED BY <2>2, <2>3 DEF HeldInv, TypeOK
  <2> QED BY <2>6, <2>7
<1>7. CASE UNCHANGED vars
  BY <1>7, <1>q DEF vars
<1> QED
  BY <1>1, <1>2, <1>3, <1>4, <1>5, <1>6, <1>7 DEF Next, Step
-----------------------------------------------------------------------------
(* The inductive invariant holds in every reachable state. *)
LEMMA Invariance == ASSUME Faults = {} PROVE Spec => []IInv
<1>1. Init => IInv
  <2> SUFFICES ASSUME Init PROVE IInv
    OBVIOUS
  <2>1. TypeOK
    BY ChainAssumption DEF Init, TypeOK, Labels, LastSigned, NoState, NoPoll
  <2> QED
    BY <2>1 DEF Init, IInv, SignInv, FileInv, CoveredInv, NoEquivocation, HeldInv, AnchorInv
<1>2. IInv /\ [Next]_vars => IInv'
  BY SignStep, AnchorStep DEF IInv, SignInv
<1> QED
  BY <1>1, <1>2, PTL DEF Spec

(* Equivocation safety: with a state file that is written whole, no correct trustee ever releases
   two attestations that verify_equivocation_evidence would accept, for any block tree,
   reorganisations, crashes and restarts. *)
THEOREM EquivocationSafety == ASSUME Faults = {} PROVE Spec => []NoEquivocation
BY Invariance, PTL DEF IInv, SignInv

(* sign_and_share persists before it shares: the file covers everything that was released. *)
THEOREM PersistedFirst == ASSUME Faults = {} PROVE Spec => []PersistFirst
<1>1. IInv => PersistFirst
  <2> SUFFICES ASSUME IInv, NEW a \in shared PROVE Daa[a.block] <= disk[a.by].score
    BY DEF PersistFirst
  <2>1. a.by \in Honest /\ a.block \in Blocks /\ disk[a.by].score \in Nat
    BY DEF IInv, SignInv, TypeOK, Attestation, LastSigned
  <2>2. a.block = disk[a.by].block => disk[a.by].score = Daa[a.block]
    BY <2>1, ChainAssumption DEF IInv, SignInv, FileInv, NoState
  <2>3. a.block = disk[a.by].block \/ Daa[a.block] + Interval <= disk[a.by].score
    BY DEF IInv, SignInv, CoveredInv
  <2> QED BY <2>1, <2>2, <2>3, ChainAssumption, SignerAssumption
<1> QED BY <1>1, Invariance, PTL

(* Accountability: two conflicting anchors have a faulty trustee in both signer sets. *)
THEOREM Accountability == ASSUME Faults = {} PROVE Spec => []Accountable
<1>1. IInv => Accountable
  <2> SUFFICES ASSUME IInv, NEW a1 \in anchors, NEW a2 \in anchors, Conflict(a1.block, a2.block)
               PROVE  a1.signers \cap a2.signers \cap Faulty # {}
    BY DEF Accountable
  <2>1. a1.signers \subseteq Trustees /\ a2.signers \subseteq Trustees
    BY DEF IInv, SignInv, TypeOK
  <2>2. PICK t \in Trustees : t \in a1.signers /\ t \in a2.signers
    BY <2>1, QuorumsIntersect DEF IInv, AnchorInv
  <2>3. t \notin Honest
    <3> SUFFICES ASSUME t \in Honest PROVE FALSE
      OBVIOUS
    <3>1. [by |-> t, block |-> a1.block] \in shared /\ [by |-> t, block |-> a2.block] \in shared
      BY <2>2 DEF IInv, AnchorInv
    <3> QED BY <3>1 DEF IInv, SignInv, NoEquivocation
  <2> QED BY <2>2, <2>3 DEF Honest
<1> QED BY <1>1, Invariance, PTL
=============================================================================
