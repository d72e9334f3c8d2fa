--------------------------- MODULE UtxoWalkProofs ---------------------------
(***************************************************************************)
(* Proof that a client's walk over the pages of the UTXO index misses no   *)
(* entry that was there all the time and is given none twice, for every    *)
(* number of addresses and every page limit, and whatever the index does   *)
(* between two reads.                                                      *)
(***************************************************************************)
EXTENDS UtxoIndex, FiniteSetTheorems, TLAPS

(* The outpoints that a walk has left behind.                              *)
Passed(o) == Owner[o] < walk.addr \/ (Owner[o] = walk.addr /\ o <= walk.after)

WalkShape ==
  /\ walk = [at |-> walk.at, addr |-> walk.addr, after |-> walk.after, room |-> walk.room,
             seen |-> walk.seen, count |-> walk.count, always |-> walk.always]
  /\ walk.at \in {"off", "read", "done"}
  /\ walk.addr \in 1..LastAddress /\ walk.after \in Nat /\ walk.room \in Nat \ {0}
  /\ walk.seen \subseteq Outpoints /\ walk.always \subseteq Outpoints
  /\ walk.count = Cardinality(walk.seen)

(* When no writer holds the lock, what was always there still is.          *)
StillThere ==
  /\ pc = "down" => walk.always = {}
  /\ pc = "idle" => walk.always \subseteq Present(utxos)

WalkProgress ==
  /\ walk.at = "read" => /\ \A o \in walk.seen : Passed(o)
                         /\ \A o \in walk.always : Passed(o) => o \in walk.seen
  /\ walk.at = "done" => walk.always \subseteq walk.seen

WInv == WalkShape /\ StillThere /\ WalkProgress

-----------------------------------------------------------------------------
LEMMA SubsetsFinite ==
  ASSUME NEW S \in SUBSET Outpoints
  PROVE  IsFiniteSet(S) /\ Cardinality(S) \in Nat
  BY FS_Subset, FS_CardinalityType, IndexAssumption

(* A page has only entries of its address beyond the cursor.               *)
LEMMA PageBeyond ==
  ASSUME NEW addr, NEW after \in Nat, NEW limit \in Nat, NEW page \in SUBSET Outpoints,
         IsPage(addr, after, limit, page)
  PROVE  \A o \in page : o \in Present(utxos) /\ Owner[o] = addr /\ o > after
  BY IndexAssumption DEF IsPage, IsFirst, Present

(* What is taken of a page has no hole in it, also when the entry of the   *)
(* cursor is gone.                                                         *)
LEMMA PageDense ==
  ASSUME NEW addr, NEW after \in Nat, NEW limit \in Nat, NEW page \in SUBSET Outpoints,
         NEW room \in Nat, NEW taken \in SUBSET page,
         IsPage(addr, after, limit, page), IsFirst(room, page, taken),
         NEW o \in Present(utxos), Owner[o] = addr, o > after,
         NEW p \in taken, o <= p
  PROVE  o \in taken
  <1> DEFINE bucket == {q \in Present(utxos) : Owner[q] = addr /\ q >= after}
  <1>1. PICK sought \in SUBSET bucket :
          IsFirst(limit + 1, bucket, sought) /\ IsFirst(limit, sought \ {after}, page)
    BY DEF IsPage
  <1>2. o \in bucket /\ o \in Nat /\ p \in Nat /\ p \in sought /\ o # after
    BY <1>1, IndexAssumption DEF Present, IsFirst
  <1>3. o \in sought
    BY <1>1, <1>2 DEF IsFirst
  <1>4. o \in page
    BY <1>1, <1>2, <1>3 DEF IsFirst
  <1>5. QED
    BY <1>2, <1>4 DEF IsFirst

(* A page that is not longer than what was asked for is all there is.      *)
LEMMA PageWhole ==
  ASSUME NEW addr, NEW after \in Nat, NEW page \in SUBSET Outpoints,
         NEW room \in Nat, NEW taken \in SUBSET page,
         IsPage(addr, after, room + 1, page), IsFirst(room, page, taken),
         Cardinality(page) <= room \/ Cardinality(taken) # room,
         NEW o \in Present(utxos), Owner[o] = addr, o > after
  PROVE  o \in taken
  <1> DEFINE bucket == {q \in Present(utxos) : Owner[q] = addr /\ q >= after}
  <1>1. PICK sought \in SUBSET bucket :
          IsFirst((room + 1) + 1, bucket, sought) /\ IsFirst(room + 1, sought \ {after}, page)
    BY DEF IsPage
  <1>2. sought \in SUBSET Outpoints /\ taken \in SUBSET Outpoints /\ o \in bucket /\ o # after
    BY <1>1, IndexAssumption DEF Present
  <1>3. /\ IsFiniteSet(page) /\ Cardinality(page) \in Nat
        /\ IsFiniteSet(sought) /\ Cardinality(sought) \in Nat
        /\ Cardinality(taken) \in Nat
    BY <1>2, SubsetsFinite
  <1>4. taken = page
    <2>1. CASE Cardinality(taken) # room
      BY <2>1 DEF IsFirst
    <2>2. CASE Cardinality(taken) = room /\ Cardinality(page) <= room
      <3>1. Cardinality(taken) <= Cardinality(page) /\ (Cardinality(page) = Cardinality(taken) => page = taken)
        BY <1>3, FS_Subset
      <3>2. QED
        BY <3>1, <2>2, <1>3
    <2>3. QED
      BY <2>1, <2>2
  <1>5. Cardinality(page) <= room
    BY <1>4, <1>3 DEF IsFirst
  <1>6. page = sought \ {after}
    BY <1>1, <1>3, <1>5 DEF IsFirst
  <1>7. Cardinality(sought) <= room + 1
    <2>1. Cardinality(page) = IF after \in sought THEN Cardinality(sought) - 1 ELSE Cardinality(sought)
      BY <1>3, <1>6, FS_RemoveElement
    <2>2. QED
      BY <2>1, <1>3, <1>5
  <1>8. sought = bucket
    BY <1>1, <1>3, <1>7 DEF IsFirst
  <1>9. QED
    BY <1>2, <1>4, <1>6, <1>8

-----------------------------------------------------------------------------
LEMMA NoWalkOK == ASSUME walk' = NoWalk PROVE WalkShape' /\ WalkProgress' /\ walk'.always = {}
  <1>1. /\ walk'.at = "off" /\ walk'.addr = 1 /\ walk'.after = 0 /\ walk'.room = 1
        /\ walk'.seen = {} /\ walk'.count = 0 /\ walk'.always = {}
        /\ walk' = [at |-> walk'.at, addr |-> walk'.addr, after |-> walk'.after,
                    room |-> walk'.room, seen |-> walk'.seen, count |-> walk'.count,
                    always |-> walk'.always]
    BY DEF NoWalk
  <1>2. Cardinality({}) = 0
    BY FS_EmptySet
  <1>3. QED
    BY <1>1, <1>2, IndexAssumption DEF WalkShape, WalkProgress

LEMMA InitWInv == Init => WInv
  <1> SUFFICES ASSUME Init PROVE WInv
    OBVIOUS
  <1>1. /\ walk.at = "off" /\ walk.addr = 1 /\ walk.after = 0 /\ walk.room = 1
        /\ walk.seen = {} /\ walk.count = 0 /\ walk.always = {}
        /\ walk = [at |-> walk.at, addr |-> walk.addr, after |-> walk.after, room |-> walk.room,
                   seen |-> walk.seen, count |-> walk.count, always |-> walk.always]
    BY DEF Init, NoWalk
  <1>2. Cardinality({}) = 0
    BY FS_EmptySet
  <1>3. QED
    BY <1>1, <1>2, IndexAssumption DEF WInv, WalkShape, StillThere, WalkProgress

(* A writer that ends its work forgets what it took away.                  *)
LEMMA WriterKeeps ==
  ASSUME WInv, pc' = "idle", UNCHANGED utxos,
         walk' = [walk EXCEPT !.always = @ \cap Present(utxos)]
  PROVE  WInv'
  <1>1. /\ walk'.at = walk.at /\ walk'.addr = walk.addr /\ walk'.after = walk.after
        /\ walk'.room = walk.room /\ walk'.seen = walk.seen /\ walk'.count = walk.count
        /\ walk'.always = walk.always \cap Present(utxos)
        /\ walk' = [at |-> walk'.at, addr |-> walk'.addr, after |-> walk'.after,
                    room |-> walk'.room, seen |-> walk'.seen, count |-> walk'.count,
                    always |-> walk'.always]
    BY DEF WInv, WalkShape
  <1>2. WalkShape'
    BY <1>1 DEF WInv, WalkShape
  <1>3. StillThere'
    BY <1>1 DEF StillThere, Present
  <1>4. WalkProgress'
    BY <1>1 DEF WInv, WalkProgress, Passed
  <1>5. QED
    BY <1>2, <1>3, <1>4 DEF WInv

(* Any other step of the index leaves the walk alone, and does not make    *)
(* the index readable with other entries.                                  *)
LEMMA OtherKeeps ==
  ASSUME WInv, UNCHANGED walk, pc' # "down" \/ pc = "down",
         pc' = "idle" => pc \in {"idle", "down"} /\ UNCHANGED utxos
  PROVE  WInv'
  <1>1. WalkShape' /\ WalkProgress'
    BY DEF WInv, WalkShape, WalkProgress, Passed
  <1>2. StillThere'
    BY DEF WInv, StillThere, Present
  <1>3. QED
    BY <1>1, <1>2 DEF WInv

LEMMA StartWalkKeeps == ASSUME WInv, StartWalk PROVE WInv'
  <1>1. PICK limit \in 1..PageLimit :
          walk' = [NoWalk EXCEPT !.at = "read", !.room = limit, !.always = Present(utxos)]
    BY DEF StartWalk
  <1>2. UNCHANGED <<utxos, pc>> /\ pc = "idle"
    BY DEF StartWalk, store
  <1>3. /\ walk'.at = "read" /\ walk'.addr = 1 /\ walk'.after = 0 /\ walk'.room = limit
        /\ walk'.seen = {} /\ walk'.count = 0 /\ walk'.always = Present(utxos)
        /\ walk' = [at |-> walk'.at, addr |-> walk'.addr, after |-> walk'.after,
                    room |-> walk'.room, seen |-> walk'.seen, count |-> walk'.count,
                    always |-> walk'.always]
    BY <1>1 DEF NoWalk
  <1>4. Cardinality({}) = 0 /\ limit \in Nat \ {0}
    BY FS_EmptySet, IndexAssumption
  <1>5. WalkShape'
    BY <1>3, <1>4, IndexAssumption DEF WalkShape, Present
  <1>6. StillThere'
    BY <1>2, <1>3 DEF StillThere, Present
  <1>7. \A o \in Outpoints : o \in Nat \ {0} /\ Owner[o] \in Nat /\ Owner[o] >= 1
    BY IndexAssumption
  <1>8. WalkProgress'
    BY <1>3, <1>7 DEF WalkProgress, Passed, Present
  <1>9. QED
    BY <1>5, <1>6, <1>8 DEF WInv

LEMMA ReadPageKeeps == ASSUME WInv, ReadPage PROVE WInv'
  <1>1. PICK page \in SUBSET {o \in Outpoints : Owner[o] = walk.addr} :
          /\ IsPage(walk.addr, walk.after, walk.room + 1, page)
          /\ \E taken \in SUBSET page, cursor \in page \cup {0}, limit \in 1..PageLimit :
               /\ IsFirst(walk.room, page, taken)
               /\ IsCursor(cursor, taken, 0)
               /\ walk' = AfterPage(page, taken, cursor, limit)
    BY DEF ReadPage
  <1>2. PICK taken \in SUBSET page, cursor \in page \cup {0}, limit \in 1..PageLimit :
          /\ IsFirst(walk.room, page, taken)
          /\ IsCursor(cursor, taken, 0)
          /\ walk' = AfterPage(page, taken, cursor, limit)
    BY <1>1
  <1>3. UNCHANGED <<utxos, pc>> /\ pc = "idle" /\ walk.at = "read"
    BY DEF ReadPage, store
  <1> DEFINE size == Cardinality(taken)
             full == size = walk.room
             last == walk.addr = LastAddress
             more == Cardinality(page) > walk.room
  <1>4. /\ walk'.seen = walk.seen \cup taken
        /\ walk'.count = walk.count + size
        /\ walk'.at = (IF last /\ ~(full /\ more) THEN "done" ELSE walk.at)
        /\ walk'.addr = (IF full \/ last THEN walk.addr ELSE walk.addr + 1)
        /\ walk'.after = (IF full THEN cursor ELSE 0)
        /\ walk'.room = (IF full THEN limit ELSE walk.room - size)
        /\ walk'.always = walk.always
        /\ walk' = [at |-> walk'.at, addr |-> walk'.addr, after |-> walk'.after,
                    room |-> walk'.room, seen |-> walk'.seen, count |-> walk'.count,
                    always |-> walk'.always]
    BY <1>2 DEF AfterPage, WInv, WalkShape
  <1>5. /\ walk.addr \in 1..LastAddress /\ walk.after \in Nat /\ walk.room \in Nat \ {0}
        /\ walk.seen \subseteq Outpoints /\ walk.always \subseteq Outpoints
        /\ walk.count = Cardinality(walk.seen) /\ walk.always \subseteq Present(utxos)
        /\ \A o \in walk.seen : Passed(o)
        /\ \A o \in walk.always : Passed(o) => o \in walk.seen
    BY <1>3 DEF WInv, WalkShape, StillThere, WalkProgress
  <1>6. page \in SUBSET Outpoints /\ taken \in SUBSET Outpoints /\ cursor \in Nat
    BY <1>1, <1>2, IndexAssumption
  <1>7. /\ IsFiniteSet(taken) /\ size \in Nat /\ IsFiniteSet(walk.seen) /\ Cardinality(walk.seen) \in Nat
        /\ Cardinality(page) \in Nat /\ LastAddress \in Nat /\ limit \in Nat \ {0}
        /\ \A o \in Outpoints : o \in Nat \ {0} /\ Owner[o] \in 1..LastAddress
    <2>1. /\ IsFiniteSet(taken) /\ size \in Nat /\ IsFiniteSet(walk.seen) /\ Cardinality(walk.seen) \in Nat
          /\ Cardinality(page) \in Nat
      BY <1>5, <1>6, SubsetsFinite
    <2>2. LastAddress \in Nat /\ limit \in Nat \ {0}
      BY IndexAssumption
    <2>3. \A o \in Outpoints : o \in Nat \ {0} /\ Owner[o] \in 1..LastAddress
      BY IndexAssumption
    <2>4. QED
      BY <2>1, <2>2, <2>3
  <1>8. \A o \in page : o \in Present(utxos) /\ Owner[o] = walk.addr /\ o > walk.after
    <2>1. walk.room + 1 \in Nat /\ walk.after \in Nat /\ page \in SUBSET Outpoints
      BY <1>5, <1>6
    <2>2. IsPage(walk.addr, walk.after, walk.room + 1, page)
      BY <1>1
    <2>3. QED
      BY <2>1, <2>2, PageBeyond
  <1>9. size <= walk.room
    BY <1>2 DEF IsFirst
  <1>10. walk.seen \cap taken = {}
    <2> SUFFICES ASSUME NEW o \in walk.seen, o \in taken PROVE FALSE
      OBVIOUS
    <2>1. Passed(o) /\ o \in Nat /\ Owner[o] \in Nat
      BY <1>5, <1>7
    <2>2. Owner[o] = walk.addr /\ o > walk.after
      BY <1>8
    <2>3. QED
      BY <2>1, <2>2, <1>5 DEF Passed
  <1>11. Cardinality(walk'.seen) = walk'.count
    <2>1. Cardinality(walk.seen \cup taken) = Cardinality(walk.seen) + size - Cardinality(walk.seen \cap taken)
      BY <1>7, FS_Union
    <2>2. Cardinality(walk.seen \cap taken) = 0
      BY <1>10, FS_EmptySet
    <2>3. QED
      BY <2>1, <2>2, <1>4, <1>5, <1>7
  <1>12. WalkShape'
    <2>1. walk'.at \in {"off", "read", "done"} /\ walk'.after \in Nat /\ walk'.addr \in 1..LastAddress
      BY <1>3, <1>4, <1>5, <1>6, <1>7
    <2>2. walk'.room \in Nat \ {0}
      BY <1>4, <1>5, <1>7, <1>9
    <2>3. walk'.seen \subseteq Outpoints /\ walk'.always \subseteq Outpoints
      BY <1>4, <1>5, <1>6
    <2>4. QED
      BY <2>1, <2>2, <2>3, <1>4, <1>11 DEF WalkShape
  <1>13. StillThere'
    BY <1>3, <1>4, <1>5 DEF StillThere, Present
  <1>14. ASSUME full
         PROVE  cursor \in taken /\ cursor > walk.after /\ \A o \in taken : o <= cursor
    <2>1. taken # {}
      BY <1>14, <1>5, FS_EmptySet
    <2>2. QED
      BY <2>1, <1>2, <1>8 DEF IsCursor
  <1>15. ASSUME ~full \/ ~more, NEW o \in walk.always, Owner[o] = walk.addr, o > walk.after
         PROVE  o \in taken
    <2>1. Cardinality(page) <= walk.room \/ size # walk.room
      BY <1>15, <1>5, <1>7
    <2>2. o \in Present(utxos)
      BY <1>5
    <2>3. QED
      BY <2>1, <2>2, <1>1, <1>2, <1>5, <1>6, <1>15, PageWhole
  <1>16. ASSUME full, NEW o \in walk.always, Owner[o] = walk.addr, o > walk.after, o <= cursor
         PROVE  o \in taken
    <2>1. walk.room + 1 \in Nat /\ o \in Present(utxos) /\ cursor \in taken
      BY <1>5, <1>14, <1>16
    <2>2. QED
      BY <2>1, <1>1, <1>2, <1>5, <1>6, <1>16, PageDense
  <1>17. WalkProgress'
    <2>1. CASE last /\ ~(full /\ more)
      <3>1. \A o \in walk.always : o \in walk.seen \cup taken
        <4> SUFFICES ASSUME NEW o \in walk.always PROVE o \in walk.seen \cup taken
          OBVIOUS
        <4>1. o \in Nat /\ Owner[o] \in Nat /\ (Owner[o] < walk.addr \/ Owner[o] = walk.addr)
          BY <2>1, <1>5, <1>7
        <4>2. QED
          BY <4>1, <2>1, <1>5, <1>15 DEF Passed
      <3>2. walk'.at = "done"
        BY <2>1, <1>4
      <3>3. QED
        BY <3>1, <3>2, <1>4 DEF WalkProgress
    <2>2. CASE full /\ ~(last /\ ~more)
      <3>1. walk'.at = "read" /\ walk'.addr = walk.addr /\ walk'.after = cursor
        BY <2>2, <1>3, <1>4
      <3>2. ASSUME NEW o \in walk.seen \cup taken
            PROVE  Owner[o] < walk.addr \/ (Owner[o] = walk.addr /\ o <= cursor)
        <4>1. o \in Nat
          BY <1>5, <1>6, <1>7
        <4>2. CASE o \in taken
          BY <4>2, <2>2, <1>8, <1>14
        <4>3. CASE o \in walk.seen
          BY <4>1, <4>3, <2>2, <1>5, <1>6, <1>14 DEF Passed
        <4>4. QED
          BY <4>2, <4>3
      <3>3. ASSUME NEW o \in walk.always, Owner[o] < walk.addr \/ (Owner[o] = walk.addr /\ o <= cursor)
            PROVE  o \in walk.seen \cup taken
        <4>1. o \in Nat
          BY <1>5, <1>7
        <4>2. CASE Passed(o)
          BY <4>2, <1>5
        <4>3. CASE ~Passed(o)
          BY <4>1, <4>3, <3>3, <2>2, <1>5, <1>16 DEF Passed
        <4>4. QED
          BY <4>2, <4>3
      <3>4. QED
        BY <3>1, <3>2, <3>3, <1>4 DEF WalkProgress, Passed
    <2>3. CASE ~full /\ ~last
      <3>1. walk'.at = "read" /\ walk'.addr = walk.addr + 1 /\ walk'.after = 0
        BY <2>3, <1>3, <1>4
      <3>2. ASSUME NEW o \in walk.seen \cup taken PROVE Owner[o] < walk.addr + 1
        <4>1. Owner[o] \in Nat /\ walk.addr \in Nat
          <5>1. o \in Outpoints
            BY <1>5, <1>6
          <5>2. QED
            BY <5>1, <1>5, <1>7
        <4>2. CASE o \in taken
          BY <4>1, <4>2, <1>8
        <4>3. CASE o \in walk.seen
          <5>1. Passed(o)
            BY <4>3, <1>5
          <5>2. QED
            BY <5>1, <4>1 DEF Passed
        <4>4. QED
          BY <4>2, <4>3
      <3>3. ASSUME NEW o \in walk.always, Owner[o] < walk.addr + 1 PROVE o \in walk.seen \cup taken
        <4>1. o \in Nat /\ Owner[o] \in Nat
          BY <1>5, <1>7
        <4>2. QED
          BY <4>1, <3>3, <2>3, <1>5, <1>15 DEF Passed
      <3>4. \A o \in Outpoints : ~(o <= 0)
        BY <1>7
      <3>5. QED
        BY <3>1, <3>2, <3>3, <3>4, <1>4, <1>5, <1>6 DEF WalkProgress, Passed
    <2>4. QED
      BY <2>1, <2>2, <2>3
  <1>18. QED
    BY <1>12, <1>13, <1>17 DEF WInv

LEMMA NextKeepsWInv == ASSUME WInv, [Next]_vars PROVE WInv'
  <1>1. CASE Consensus \/ UNCHANGED vars
    BY <1>1, OtherKeeps DEF Consensus, CommitVirtual, LateCommit, ReplaceConsensus, CatchUp, Import,
       SetStable, store, vars
  <1>2. CASE Crash
    <2>1. walk' = NoWalk /\ pc' = "down"
      BY <1>2 DEF Crash
    <2>2. QED
      BY <2>1, NoWalkOK DEF WInv, StillThere
  <1>3. CASE New
    BY <1>3, OtherKeeps DEF New, store
  <1>4. CASE Update
    <2>1. CASE UpdateTips
      BY <2>1, WriterKeeps DEF UpdateTips
    <2>2. CASE ReceiveDiff \/ UpdateSupply
      BY <2>2, OtherKeeps DEF ReceiveDiff, UpdateSupply
    <2>3. ASSUME NEW o \in Outpoints, RemoveEntry(o) \/ AddEntry(o) PROVE WInv'
      BY <2>3, OtherKeeps DEF RemoveEntry, AddEntry
    <2>4. QED
      BY <1>4, <2>1, <2>2, <2>3 DEF Update
  <1>5. CASE Resync
    <2>1. CASE ResyncTips
      BY <2>1, WriterKeeps DEF ResyncTips
    <2>2. CASE ScanChunk
      <3>1. UNCHANGED walk /\ pc' \in {"scan", "insertSupply"}
        BY <2>2 DEF ScanChunk
      <3>2. QED
        BY <3>1, OtherKeeps
    <2>3. CASE HandleConsensusReset \/ DeleteTips \/ DeleteSupply \/ DeleteUtxos \/ InsertSupply
      BY <2>3, OtherKeeps DEF HandleConsensusReset, DeleteTips, DeleteSupply, DeleteUtxos, InsertSupply
    <2>4. QED
      BY <1>5, <2>1, <2>2, <2>3 DEF Resync
  <1>6. CASE Client
    BY <1>6, StartWalkKeeps, ReadPageKeeps DEF Client
  <1>7. QED
    BY <1>1, <1>2, <1>3, <1>4, <1>5, <1>6 DEF Next

(* A finished walk over get_utxos_by_addresses pages has every entry that  *)
(* stayed in the index from its beginning to its end, and none twice, also *)
(* when the entry under the cursor was spent between two pages.            *)
THEOREM WalkCompleteHolds == Spec => []WalkComplete
  <1>1. WInv => WalkComplete
    BY DEF WInv, WalkShape, WalkProgress, WalkComplete
  <1>2. QED
    BY <1>1, InitWInv, NextKeepsWInv, PTL DEF Spec
=============================================================================
