-------------------------- MODULE UtxoIndexProofs ---------------------------
(***************************************************************************)
(* Proofs about the UTXO index, for every set of outpoints, every chunk    *)
(* size and any number of commits, imports, replaced consensuses and       *)
(* crashes: stored tips never vouch for a database that differs from the   *)
(* virtual UTXO set unless the index was set astray, and what readers can  *)
(* rely on is what UtxoView promises.  The argument is that of a redo log: *)
(* a rebuilt index holds, key by key, an entry of some state between the   *)
(* one whose parents it read and the one it was scanning last, and the     *)
(* channel still holds all the differences in between.                     *)
(***************************************************************************)
EXTENDS UtxoIndex, SequenceTheorems, TLAPS

Pos == [line : Nat, n : Nat]
NotBefore(p, q) == p.line > q.line \/ (p.line = q.line /\ p.n >= q.n)

(* The differences of one line are in the channel in the order in which    *)
(* they were announced.                                                    *)
QueueOrdered ==
  \A i, j \in DOMAIN queue :
    i < j /\ queue[i].line = queue[j].line => queue[i].n < queue[j].n

(* The channel holds all the differences of the line of p from p on, and   *)
(* besides those only stale ones.                                          *)
QueueFrom(p) ==
  /\ \A n \in p.n + 1 .. Len(hist[p.line]) :
       \E i \in DOMAIN queue : queue[i].line = p.line /\ queue[i].n = n
  /\ \A i \in DOMAIN queue :
       queue[i].line = p.line /\ queue[i].n > ghost.at.n => queue[i].n > p.n

(* The entries of the keys outside S are those of states from p to top of  *)
(* its line, not necessarily of the same one.                              *)
Holds(p, top, S) ==
  \A o \in Outpoints \ S :
    \E m \in p.n..top : utxos[o] = hist[p.line][m].utxos[o]

(* How far the entries of an index that is at p may be ahead of p.         *)
Top(p) == IF ghost.upto > p.n THEN ghost.upto ELSE p.n

(* p lies on the line the index was rebuilt from, and not before that.     *)
Follows(p) ==
  /\ p \in Pos /\ Committed(p)
  /\ p.line = ghost.at.line /\ ghost.at.n <= p.n
  /\ ghost.upto <= Len(hist[p.line])

IdleInv == pc = "idle" /\ ~ghost.astray =>
  /\ Follows(tips) /\ NotBefore(tips, ghost.floor)
  /\ QueueFrom(tips)
  /\ Holds(tips, Top(tips), {})

(* Halfway through an update the entries still to be removed or added may  *)
(* be anything.                                                            *)
UpdateInv == Updating =>
  /\ Committed(job.n) /\ job.n.n > 1
  /\ ~ghost.astray =>
       /\ Follows(tips) /\ NotBefore(tips, ghost.floor)
       /\ job.n.line = tips.line /\ job.n.n = tips.n + 1
       /\ QueueFrom(job.n)
       /\ pc = "update" => /\ job.rem \subseteq Removed(job.n)
                           /\ job.rem # {} => job.add = Added(job.n)
                           /\ Holds(job.n, Top(job.n), job.rem \cup job.add)
       /\ pc = "updateTips" => Holds(job.n, Top(job.n), {})

ResyncInv == Resyncing =>
  /\ pc # "deleteTips" => tips = Nowhere /\ ~ghost.astray
  /\ pc \in {"scan", "insertSupply", "resyncTips"} =>
       /\ job.n = ghost.at /\ Committed(job.n) /\ job.n.line = Len(hist)
       /\ NotBefore(job.n, ghost.floor)
       /\ QueueFrom(job.n)
  /\ pc = "scan" =>
       /\ Holds(job.n, Virtual.n, {o \in Outpoints : o > job.cursor})
       /\ \A o \in Outpoints : o > job.cursor => utxos[o] = 0
  /\ pc \in {"insertSupply", "resyncTips"} =>
       /\ ghost.upto \in job.n.n..Len(hist[job.n.line])
       /\ Holds(job.n, ghost.upto, {})

(* What a crash leaves behind.                                             *)
DownInv ==
  /\ pc = "down" => queue = <<>>
  /\ pc \in {"down", "deleteTips"} /\ ~ghost.astray /\ tips # Nowhere =>
       Follows(tips) /\ (tips = Virtual => utxos = At(Virtual).utxos)

(* The channel is in order, and the floor is no newer than the virtual.    *)
FlowInv ==
  /\ QueueOrdered
  /\ ghost.floor.line <= Len(hist) /\ NotBefore(Virtual, ghost.floor)

IInv == TypeOK /\ FlowInv /\ IdleInv /\ UpdateInv /\ ResyncInv /\ DownInv

-----------------------------------------------------------------------------
(* Positions and states.                                                   *)
LEMMA PosEqual ==
  ASSUME NEW p \in Pos, NEW q \in Pos, p.line = q.line, p.n = q.n
  PROVE  p = q
  BY DEF Pos

LEMMA BeforeTyped ==
  ASSUME NEW p \in Pos, p.n > 1
  PROVE  Before(p) \in Pos /\ Before(p).line = p.line /\ Before(p).n = p.n - 1
  <1>1. p.line \in Nat /\ p.n - 1 \in Nat
    BY DEF Pos
  <1>2. QED
    BY <1>1 DEF Before, Pos

LEMMA SetsTyped ==
  /\ UtxoSets \subseteq [Outpoints -> Nat]
  /\ \A p \in Parents : UtxoOf[p] \in UtxoSets /\ NoEntry \in UtxoSets
  /\ \A p \in Parents, k \in {0} \cup Outpoints : UpTo(UtxoOf[p], k) \in UtxoSets
  <1>1. ASSUME NEW p \in Parents PROVE UtxoOf[p] \in [Outpoints -> Nat]
    BY IndexAssumption
  <1>2. ASSUME NEW U \in [Outpoints -> Nat], NEW k PROVE UpTo(U, k) \in [Outpoints -> Nat]
    BY DEF UpTo
  <1>3. ASSUME NEW U \in [Outpoints -> Nat] PROVE UpTo(U, 0) = NoEntry
    <2>1. \A o \in Outpoints : ~(o <= 0)
      BY IndexAssumption
    <2>2. QED
      BY <2>1 DEF UpTo, NoEntry
  <1>4. UtxoSets \subseteq [Outpoints -> Nat]
    BY <1>1, <1>2 DEF UtxoSets
  <1>5. \A p \in Parents, k \in {0} \cup Outpoints : UpTo(UtxoOf[p], k) \in UtxoSets
    BY DEF UtxoSets
  <1>6. \A p \in Parents : UtxoOf[p] \in UtxoSets
    BY DEF UtxoSets
  <1>7. ASSUME NEW p \in Parents PROVE NoEntry \in UtxoSets
    <2>1. UpTo(UtxoOf[p], 0) \in UtxoSets
      BY <1>5
    <2>2. QED
      BY <2>1, <1>1, <1>3
  <1>8. QED
    BY <1>4, <1>5, <1>6, <1>7

(* The shape of the history.                                               *)
LEMMA HistTyped ==
  ASSUME TypeOK
  PROVE  /\ Len(hist) \in Nat \ {0} /\ DOMAIN hist = 1..Len(hist)
         /\ \A l \in 1..Len(hist) :
              /\ hist[l] \in Seq(States)
              /\ Len(hist[l]) \in Nat \ {0} /\ DOMAIN hist[l] = 1..Len(hist[l])
              /\ \A m \in 1..Len(hist[l]) : hist[l][m] \in States
         /\ Virtual \in Pos /\ Committed(Virtual)
         /\ Virtual.line = Len(hist) /\ Virtual.n = Len(hist[Len(hist)])
  <1>1. Len(hist) \in Nat \ {0} /\ DOMAIN hist = 1..Len(hist)
    BY DEF TypeOK
  <1>2. ASSUME NEW l \in 1..Len(hist)
        PROVE  /\ hist[l] \in Seq(States)
               /\ Len(hist[l]) \in Nat \ {0} /\ DOMAIN hist[l] = 1..Len(hist[l])
               /\ \A m \in 1..Len(hist[l]) : hist[l][m] \in States
    <2>1. hist[l] \in Seq(States) /\ hist[l] # <<>>
      BY <1>1 DEF TypeOK
    <2>2. QED
      BY <2>1
  <1>3. Virtual = [line |-> Len(hist), n |-> Len(hist[Len(hist)])]
    BY DEF Virtual, Newest
  <1>4. QED
    BY <1>1, <1>2, <1>3 DEF Committed, Pos

LEMMA StateTyped ==
  ASSUME TypeOK, NEW p, Committed(p)
  PROVE  At(p) \in States /\ At(p).utxos \in UtxoSets /\ At(p).utxos \in [Outpoints -> Nat]
         /\ At(p).parents \in Parents
  <1>1. hist[p.line][p.n] \in States
    BY HistTyped DEF Committed
  <1>2. QED
    BY <1>1, SetsTyped DEF At, States

(* What was committed stays where it is.                                   *)
Grown ==
  /\ DOMAIN hist' = 1..Len(hist') /\ Len(hist') \in Nat /\ Len(hist) <= Len(hist')
  /\ \A l \in 1..Len(hist) :
       /\ DOMAIN hist'[l] = 1..Len(hist'[l]) /\ Len(hist'[l]) \in Nat
       /\ Len(hist[l]) <= Len(hist'[l])
       /\ \A m \in 1..Len(hist[l]) : hist'[l][m] = hist[l][m]

LEMMA CommitGrows ==
  ASSUME TypeOK, NEW l \in 1..Len(hist), NEW p \in Parents, Commit(l, p)
  PROVE  /\ hist' \in Seq(Seq(States)) /\ Len(hist') = Len(hist) /\ Grown
         /\ \A k \in 1..Len(hist') : hist'[k] # <<>>
         /\ Len(hist'[l]) = Len(hist[l]) + 1
         /\ \A k \in 1..Len(hist) \ {l} : hist'[k] = hist[k]
         /\ [parents |-> p, utxos |-> UtxoOf[p]] \in States
         /\ hist' = [hist EXCEPT ![l] = Append(@, [parents |-> p, utxos |-> UtxoOf[p]])]
  <1> DEFINE s == [parents |-> p, utxos |-> UtxoOf[p]]
  <1>1. s \in States
    BY SetsTyped DEF States
  <1>2. /\ Len(hist) \in Nat \ {0} /\ hist \in Seq(Seq(States)) /\ DOMAIN hist = 1..Len(hist)
        /\ \A k \in 1..Len(hist) : hist[k] \in Seq(States) /\ Len(hist[k]) \in Nat \ {0}
    BY HistTyped DEF TypeOK
  <1>3. hist' = [hist EXCEPT ![l] = Append(hist[l], s)]
    BY DEF Commit
  <1> HIDE DEF s
  <1>4. Append(hist[l], s) \in Seq(States) /\ Len(Append(hist[l], s)) = Len(hist[l]) + 1
        /\ \A m \in 1..Len(hist[l]) : Append(hist[l], s)[m] = hist[l][m]
    BY <1>1, <1>2
  <1>5. PICK h \in Seq(Seq(States)), t \in Seq(States) : h = hist /\ t = Append(hist[l], s)
    BY <1>2, <1>4
  <1>6. /\ [h EXCEPT ![l] = t] \in Seq(Seq(States)) /\ Len([h EXCEPT ![l] = t]) = Len(h)
        /\ \A k \in 1..Len(h) : [h EXCEPT ![l] = t][k] = IF k = l THEN t ELSE h[k]
    BY <1>5, ExceptSeq
  <1>7. /\ hist' \in Seq(Seq(States)) /\ Len(hist') = Len(hist)
        /\ hist'[l] = Append(hist[l], s) /\ \A k \in 1..Len(hist) \ {l} : hist'[k] = hist[k]
    BY <1>3, <1>5, <1>6
  <1>8. \A k \in 1..Len(hist') : hist'[k] # <<>>
    <2> SUFFICES ASSUME NEW k \in 1..Len(hist') PROVE hist'[k] # <<>>
      OBVIOUS
    <2>1. CASE k = l
      <3>1. Len(hist'[k]) = Len(hist[l]) + 1 /\ Len(hist[l]) \in Nat
        BY <2>1, <1>2, <1>4, <1>7
      <3>2. QED
        BY <3>1
    <2>2. CASE k # l
      BY <2>2, <1>2, <1>7
    <2>3. QED
      BY <2>1, <2>2
  <1>9. Grown
    <2> SUFFICES ASSUME NEW k \in 1..Len(hist)
                 PROVE  /\ DOMAIN hist'[k] = 1..Len(hist'[k]) /\ Len(hist'[k]) \in Nat
                        /\ Len(hist[k]) <= Len(hist'[k])
                        /\ \A m \in 1..Len(hist[k]) : hist'[k][m] = hist[k][m]
      BY <1>2, <1>7 DEF Grown
    <2>1. CASE k = l
      <3>1. Len(hist'[k]) = Len(hist[k]) + 1 /\ Len(hist[k]) \in Nat
        BY <2>1, <1>2, <1>4, <1>7
      <3>2. ASSUME NEW m \in 1..Len(hist[k]) PROVE hist'[k][m] = hist[k][m]
        BY <2>1, <1>4, <1>7, Zenon
      <3>3. QED
        BY <3>1, <3>2, <1>7
    <2>2. CASE k # l
      BY <2>2, <1>2, <1>7
    <2>3. QED
      BY <2>1, <2>2
  <1>10. QED
    BY <1>1, <1>3, <1>4, <1>7, <1>8, <1>9 DEF s

LEMMA LineGrows ==
  ASSUME TypeOK, NEW p \in Parents, NEW U \in UtxoSets, StartLine(p, U)
  PROVE  /\ hist' \in Seq(Seq(States)) /\ Len(hist') = Len(hist) + 1 /\ Grown
         /\ \A l \in 1..Len(hist') : hist'[l] # <<>>
         /\ \A l \in 1..Len(hist) : hist'[l] = hist[l]
         /\ Len(hist'[Len(hist')]) = 1
         /\ [parents |-> p, utxos |-> U] \in States
  <1> DEFINE s == [parents |-> p, utxos |-> U]
  <1>1. s \in States /\ <<s>> \in Seq(States) /\ Len(<<s>>) = 1 /\ <<s>> # <<>>
    BY DEF States
  <1>2. /\ Len(hist) \in Nat \ {0} /\ hist \in Seq(Seq(States))
        /\ \A k \in 1..Len(hist) : hist[k] \in Seq(States) /\ Len(hist[k]) \in Nat \ {0}
    BY HistTyped DEF TypeOK
  <1>3. hist' = Append(hist, <<s>>)
    BY DEF StartLine
  <1> HIDE DEF s
  <1>4. /\ hist' \in Seq(Seq(States)) /\ Len(hist') = Len(hist) + 1
        /\ \A l \in 1..Len(hist) : hist'[l] = hist[l]
        /\ hist'[Len(hist) + 1] = <<s>>
    BY <1>1, <1>2, <1>3
  <1>5. \A l \in 1..Len(hist') : hist'[l] # <<>>
    <2> SUFFICES ASSUME NEW l \in 1..Len(hist') PROVE hist'[l] # <<>>
      OBVIOUS
    <2>1. CASE l \in 1..Len(hist)
      <3>1. Len(hist'[l]) # 0 /\ Len(<<>>) = 0
        BY <2>1, <1>2, <1>4
      <3>2. QED
        BY <3>1
    <2>2. CASE l = Len(hist) + 1
      BY <2>2, <1>1, <1>4
    <2>3. QED
      BY <2>1, <2>2, <1>2, <1>4
  <1>6. Grown
    BY <1>2, <1>4 DEF Grown
  <1>7. QED
    BY <1>1, <1>4, <1>5, <1>6 DEF s

-----------------------------------------------------------------------------
LEMMA InitIInv == Init => IInv
  <1> SUFFICES ASSUME Init PROVE IInv
    OBVIOUS
  <1>1. PICK p \in Parents : hist = <<<<[parents |-> p, utxos |-> UtxoOf[p]]>>>>
    BY DEF Init
  <1> DEFINE s == [parents |-> p, utxos |-> UtxoOf[p]]
  <1>2. s \in States
    BY SetsTyped DEF States
  <1>3. hist = <<<<s>>>>
    BY <1>1
  <1> HIDE DEF s
  <1>4. hist \in Seq(Seq(States)) /\ Len(hist) = 1 /\ hist[1] = <<s>> /\ Len(hist[1]) = 1
    BY <1>2, <1>3
  <1>5. hist # <<>> /\ \A l \in DOMAIN hist : hist[l] # <<>>
    BY <1>4
  <1>6. Virtual \in Pos /\ Virtual.line = 1 /\ Virtual.n = 1
    BY <1>4 DEF Virtual, Newest, Pos
  <1>7. TypeOK
    BY <1>4, <1>5, <1>6, IndexAssumption DEF Init, TypeOK, NoJob, NoEntry, Nowhere, Pos
  <1>8. QED
    BY <1>4, <1>6, <1>7 DEF Init, IInv, FlowInv, QueueOrdered, NotBefore, Pos,
       IdleInv, UpdateInv, ResyncInv, DownInv, Updating, Resyncing

-----------------------------------------------------------------------------
(* Steps of consensus.                                                     *)

(* Announcements come at the end of the channel, and every state that is   *)
(* added to a line is announced.                                           *)
Announced ==
  /\ \A i \in DOMAIN queue : i \in DOMAIN queue' /\ queue'[i] = queue[i]
  /\ \A l \in 1..Len(hist) : \A n \in Len(hist[l]) + 1 .. Len(hist'[l]) :
       \E i \in DOMAIN queue' : queue'[i].line = l /\ queue'[i].n = n
  /\ \A i \in DOMAIN queue' :
       i \notin DOMAIN queue =>
         \A l \in 1..Len(hist) : queue'[i].line = l => queue'[i].n > Len(hist[l])

LEMMA PositionKept ==
  ASSUME TypeOK, Grown, NEW p, Committed(p)
  PROVE  Committed(p)' /\ At(p)' = At(p)
  <1>1. p.line \in 1..Len(hist) /\ p.n \in 1..Len(hist[p.line]) /\ Len(hist) \in Nat
        /\ Len(hist[p.line]) \in Nat
    BY HistTyped DEF Committed
  <1>2. /\ DOMAIN hist' = 1..Len(hist') /\ Len(hist') \in Nat /\ Len(hist) <= Len(hist')
        /\ DOMAIN hist'[p.line] = 1..Len(hist'[p.line]) /\ Len(hist'[p.line]) \in Nat
        /\ Len(hist[p.line]) <= Len(hist'[p.line])
        /\ hist'[p.line][p.n] = hist[p.line][p.n]
    BY <1>1, Zenon DEF Grown
  <1>3. QED
    BY <1>1, <1>2 DEF Committed, At

LEMMA QueueKept ==
  ASSUME TypeOK, Grown, Announced, queue' \in Seq(Pos), UNCHANGED ghost,
         NEW p \in Pos, Committed(p), QueueFrom(p)
  PROVE  QueueFrom(p)'
  <1> DEFINE l == p.line
  <1>1. /\ l \in 1..Len(hist) /\ p.n \in 1..Len(hist[l]) /\ Len(hist[l]) \in Nat
        /\ Len(hist'[l]) \in Nat /\ Len(hist[l]) <= Len(hist'[l])
    BY HistTyped DEF Committed, Grown
  <1>2. ASSUME NEW n \in p.n + 1 .. Len(hist'[l])
        PROVE  \E i \in DOMAIN queue' : queue'[i].line = l /\ queue'[i].n = n
    <2>1. CASE n <= Len(hist[l])
      <3>1. n \in p.n + 1 .. Len(hist[l])
        BY <2>1, <1>1 DEF Pos
      <3>2. PICK i \in DOMAIN queue : queue[i].line = l /\ queue[i].n = n
        BY <3>1 DEF QueueFrom
      <3>3. QED
        BY <3>2 DEF Announced
    <2>2. CASE n > Len(hist[l])
      <3>1. n \in Len(hist[l]) + 1 .. Len(hist'[l])
        BY <2>2, <1>1 DEF Pos
      <3>2. QED
        BY <3>1, <1>1 DEF Announced
    <2>3. QED
      BY <2>1, <2>2, <1>1 DEF Pos
  <1>3. ASSUME NEW i \in DOMAIN queue', queue'[i].line = l, queue'[i].n > ghost.at.n
        PROVE  queue'[i].n > p.n
    <2>1. CASE i \in DOMAIN queue
      BY <2>1, <1>3 DEF Announced, QueueFrom
    <2>2. CASE i \notin DOMAIN queue
      <3>1. queue'[i].n > Len(hist[l])
        BY <2>2, <1>1, <1>3 DEF Announced
      <3>2. queue'[i] \in Pos
        OBVIOUS
      <3>3. QED
        BY <3>1, <3>2, <1>1 DEF Pos
    <2>3. QED
      BY <2>1, <2>2
  <1>4. QED
    BY <1>2, <1>3 DEF QueueFrom

LEMMA HoldsKept ==
  ASSUME TypeOK, Grown, UNCHANGED utxos, NEW p \in Pos, Committed(p),
         NEW top \in Nat, top <= Len(hist[p.line]), NEW S, Holds(p, top, S)
  PROVE  Holds(p, top, S)'
  <1>1. p.line \in 1..Len(hist) /\ Len(hist[p.line]) \in Nat /\ p.n \in Nat \ {0}
    BY HistTyped DEF Committed
  <1>2. ASSUME NEW m \in p.n..top PROVE hist'[p.line][m] = hist[p.line][m]
    <2>1. m \in 1..Len(hist[p.line])
      BY <1>1
    <2>2. QED
      BY <1>1, <2>1, Zenon DEF Grown
  <1>3. QED
    BY <1>2 DEF Holds

LEMMA FollowsKept ==
  ASSUME TypeOK, Grown, UNCHANGED ghost, NEW p, Follows(p)
  PROVE  Follows(p)'
  <1>1. p.line \in 1..Len(hist) /\ Len(hist[p.line]) \in Nat
    BY HistTyped DEF Follows, Committed
  <1>2. Len(hist'[p.line]) \in Nat /\ Len(hist[p.line]) <= Len(hist'[p.line])
    BY <1>1, Zenon DEF Grown
  <1>3. Committed(p)'
    BY PositionKept DEF Follows
  <1>4. ghost.upto \in Nat
    BY DEF TypeOK
  <1>5. ghost.upto <= Len(hist'[p.line])
    BY <1>1, <1>2, <1>4 DEF Follows
  <1>6. QED
    BY <1>3, <1>5 DEF Follows

(* A step of consensus that history and the channel survive, and that      *)
(* starts no line while the index is being rebuilt, keeps the invariant.   *)
LEMMA ConsensusKeeps ==
  ASSUME IInv, TypeOK', FlowInv', Grown, Announced, pc # "down",
         UNCHANGED <<utxos, tips, pc, job, ghost>>,
         Resyncing => Len(hist') = Len(hist)
  PROVE  IInv'
  <1>1. TypeOK /\ queue' \in Seq(Pos) /\ tips \in Pos /\ job.n \in Pos
        /\ ghost.upto \in Nat /\ ghost.at \in Pos
    BY DEF IInv, TypeOK, Pos
  <1>2a. PICK t \in Pos, j \in Pos, ut \in Nat : t = tips /\ j = job.n /\ ut = ghost.upto
    BY <1>1
  <1>2b. PICK rem, add, cursor, g :
           rem = job.rem /\ add = job.add /\ cursor = job.cursor /\ g = ghost
    OBVIOUS
  <1>2. /\ t = tips /\ j = job.n /\ ut = ghost.upto
        /\ rem = job.rem /\ add = job.add /\ cursor = job.cursor /\ g = ghost
    BY <1>2a, <1>2b
  <1>3. ASSUME NEW p \in Pos, Follows(p) PROVE Top(p) \in Nat /\ Top(p) <= Len(hist[p.line])
    <2>1. p.n \in 1..Len(hist[p.line]) /\ ghost.upto <= Len(hist[p.line])
      BY <1>1, <1>3, HistTyped DEF Follows, Committed
    <2>2. QED
      BY <2>1, <1>1 DEF Top, Pos
  <1>4. ASSUME NEW p \in Pos PROVE Top(p)' = Top(p)
    BY DEF Top
  <1>5. IdleInv'
    <2> SUFFICES ASSUME pc = "idle", ~ghost.astray
                 PROVE  Follows(t)' /\ NotBefore(t, g.floor) /\ QueueFrom(t)' /\ Holds(t, Top(t), {})'
      BY <1>2 DEF IdleInv
    <2>1. Follows(t) /\ NotBefore(t, g.floor) /\ QueueFrom(t) /\ Holds(t, Top(t), {})
      BY <1>2 DEF IInv, IdleInv
    <2>2. Follows(t)'
      BY <2>1, <1>1, FollowsKept
    <2>3. QueueFrom(t)'
      BY <2>1, <1>1, QueueKept DEF Follows
    <2>4. PICK top \in Nat : top = Top(t) /\ top <= Len(hist[t.line])
      BY <2>1, <1>3
    <2>5. Holds(t, top, {})'
      BY <2>1, <2>4, <1>1, HoldsKept DEF Follows
    <2>6. QED
      BY <2>1, <2>2, <2>3, <2>4, <2>5, <1>4
  <1>6. UpdateInv'
    <2> SUFFICES ASSUME Updating PROVE UpdateInv'
      BY DEF UpdateInv, Updating
    <2>1. Committed(j) /\ j.n > 1
      BY <1>2 DEF IInv, UpdateInv
    <2>2. Committed(j)'
      BY <2>1, <1>1, PositionKept
    <2>3. ASSUME ~ghost.astray
          PROVE  /\ Follows(t)' /\ NotBefore(t, g.floor)
                 /\ j.line = t.line /\ j.n = t.n + 1
                 /\ QueueFrom(j)'
                 /\ pc = "update" => /\ rem \subseteq Removed(j)'
                                     /\ rem # {} => add = Added(j)'
                                     /\ Holds(j, Top(j), rem \cup add)'
                 /\ pc = "updateTips" => Holds(j, Top(j), {})'
      <3>1. /\ Follows(t) /\ NotBefore(t, g.floor)
            /\ j.line = t.line /\ j.n = t.n + 1
            /\ QueueFrom(j)
            /\ pc = "update" => /\ rem \subseteq Removed(j)
                                /\ rem # {} => add = Added(j)
                                /\ Holds(j, Top(j), rem \cup add)
            /\ pc = "updateTips" => Holds(j, Top(j), {})
        BY <2>3, <1>2 DEF IInv, UpdateInv
      <3>2. Follows(j)
        BY <3>1, <2>1, <1>1 DEF Follows, Pos
      <3>3. Follows(t)' /\ QueueFrom(j)'
        BY <3>1, <2>1, <1>1, FollowsKept, QueueKept
      <3>4. PICK top \in Nat : top = Top(j) /\ top <= Len(hist[j.line])
        BY <3>2, <1>3
      <3>5. /\ pc = "update" => Holds(j, top, rem \cup add)'
            /\ pc = "updateTips" => Holds(j, top, {})'
        BY <3>1, <3>4, <2>1, <1>1, HoldsKept
      <3>6. Removed(j)' = Removed(j) /\ Added(j)' = Added(j)
        <4>1. PICK b \in Pos : b = Before(j)
          BY <2>1, BeforeTyped
        <4>2. Committed(b)
          <5>1. b.line = j.line /\ b.n = j.n - 1 /\ j.n \in Nat
            BY <4>1, <2>1, BeforeTyped DEF Pos
          <5>2. j.line \in 1..Len(hist) /\ j.n \in 1..Len(hist[j.line])
                /\ Len(hist[j.line]) \in Nat
            BY <2>1, <1>1, HistTyped DEF Committed
          <5>3. b.n \in 1..Len(hist[j.line])
            BY <5>1, <5>2, <2>1
          <5>4. QED
            BY <5>1, <5>2, <5>3, <1>1, HistTyped DEF Committed
        <4>3. At(j)' = At(j) /\ At(b)' = At(b)
          BY <4>2, <2>1, <1>1, PositionKept
        <4>4. QED
          BY <4>1, <4>3 DEF Removed, Added, Changed, Present
      <3>7. QED
        BY <3>1, <3>3, <3>4, <3>5, <3>6, <1>4
    <2>4. QED
      BY <2>1, <2>2, <2>3, <1>2 DEF UpdateInv
  <1>7. ResyncInv'
    <2> SUFFICES ASSUME Resyncing PROVE ResyncInv'
      BY DEF ResyncInv, Resyncing
    <2>1. Len(hist') = Len(hist)
      OBVIOUS
    <2>2. CASE pc \in {"deleteTips", "deleteSupply", "deleteUtxos"}
      BY <2>2 DEF IInv, ResyncInv
    <2>3. CASE pc \in {"scan", "insertSupply", "resyncTips"}
      <3>1. /\ tips = Nowhere /\ ~ghost.astray
            /\ j = g.at /\ Committed(j) /\ j.line = Len(hist)
            /\ NotBefore(j, g.floor) /\ QueueFrom(j)
        BY <2>3, <1>2 DEF IInv, ResyncInv
      <3>2. Committed(j)' /\ QueueFrom(j)'
        BY <3>1, <1>1, PositionKept, QueueKept
      <3>3. PICK top \in Nat : top = Len(hist[j.line])
        BY <3>1, <1>1, HistTyped DEF Committed
      <3>4. Len(hist'[j.line]) \in Nat /\ top <= Len(hist'[j.line])
        BY <3>1, <3>3, <1>1, HistTyped DEF Committed, Grown
      <3>5. ASSUME pc = "scan"
            PROVE  /\ Holds(j, Len(hist[j.line]), {o \in Outpoints : o > cursor})'
                   /\ \A o \in Outpoints : o > cursor => utxos[o] = 0
        <4>1. /\ Holds(j, top, {o \in Outpoints : o > cursor})
              /\ \A o \in Outpoints : o > cursor => utxos[o] = 0
          BY <3>1, <3>3, <3>5, <1>1, <1>2, HistTyped DEF IInv, ResyncInv
        <4>2. Holds(j, top, {o \in Outpoints : o > cursor})'
          BY <4>1, <3>1, <3>3, <1>1, HoldsKept
        <4>3. \A m \in j.n..top : m \in j.n..Len(hist'[j.line])
          BY <3>3, <3>4 DEF Pos
        <4>4. QED
          BY <4>1, <4>2, <4>3 DEF Holds
      <3>6. ASSUME pc \in {"insertSupply", "resyncTips"}
            PROVE  ut \in j.n..Len(hist'[j.line]) /\ Holds(j, ut, {})'
        <4>1. ut \in j.n..top /\ Holds(j, ut, {})
          BY <3>3, <3>6, <1>2 DEF IInv, ResyncInv
        <4>2. Holds(j, ut, {})'
          BY <4>1, <3>1, <3>3, <1>1, HoldsKept
        <4>3. QED
          BY <4>1, <4>2, <3>3, <3>4 DEF Pos
      <3>7. Virtual'.n = Len(hist'[j.line])
        BY <3>1, <2>1 DEF Virtual, Newest
      <3>8. QED
        BY <2>1, <2>3, <3>1, <3>2, <3>5, <3>6, <3>7, <1>2 DEF ResyncInv
    <2>4. QED
      BY <2>2, <2>3 DEF Resyncing
  <1>8. DownInv'
    <2> SUFFICES ASSUME pc = "deleteTips", ~ghost.astray, tips # Nowhere
                 PROVE  Follows(t)' /\ (t = Virtual' => utxos = At(t)'.utxos)
      BY <1>2 DEF DownInv
    <2>1. Follows(t) /\ (t = Virtual => utxos = At(t).utxos)
      BY <1>2 DEF IInv, DownInv
    <2>2. Follows(t)' /\ At(t)' = At(t)
      BY <2>1, <1>1, FollowsKept, PositionKept DEF Follows
    <2>3. t = Virtual' => t = Virtual
      <3>1. Len(hist') = Len(hist)
        BY DEF Resyncing
      <3>2. Virtual'.line = Len(hist) /\ Virtual'.n = Len(hist'[Len(hist)])
        BY <3>1 DEF Virtual, Newest
      <3>3. ASSUME t = Virtual' PROVE t.line = Virtual.line /\ t.n = Virtual.n
        <4>1. t.line = Len(hist) /\ t.n \in 1..Len(hist[Len(hist)]) /\ t.n = Len(hist'[Len(hist)])
          BY <3>2, <3>3, <2>1, <1>1, HistTyped DEF Follows, Committed
        <4>2. Len(hist) \in 1..Len(hist) /\ Len(hist[Len(hist)]) \in Nat
          BY <1>1, HistTyped
        <4>3. Len(hist[Len(hist)]) <= Len(hist'[Len(hist)]) /\ Len(hist'[Len(hist)]) \in Nat
          BY <4>2, Zenon DEF Grown
        <4>4. QED
          BY <4>1, <4>2, <4>3, <1>1, HistTyped
      <3>4. QED
        BY <3>3, <1>1, HistTyped, PosEqual
    <2>4. QED
      BY <2>1, <2>2, <2>3
  <1>9. QED
    BY <1>5, <1>6, <1>7, <1>8 DEF IInv

LEMMA CommitKeeps ==
  ASSUME IInv, NEW l \in 1..Len(hist), NEW p \in Parents, Commit(l, p), pc # "down",
         UNCHANGED <<ibd, old, utxos, tips, pc, job, ghost>>
  PROVE  IInv'
  <1>1. TypeOK /\ queue \in Seq(Pos)
    BY DEF IInv, TypeOK, Pos
  <1>2. /\ hist' \in Seq(Seq(States)) /\ Len(hist') = Len(hist) /\ Grown
        /\ \A k \in 1..Len(hist') : hist'[k] # <<>>
        /\ Len(hist'[l]) = Len(hist[l]) + 1
        /\ \A k \in 1..Len(hist) \ {l} : hist'[k] = hist[k]
    BY <1>1, CommitGrows
  <1>3. /\ Len(hist) \in Nat \ {0} /\ DOMAIN hist' = 1..Len(hist)
        /\ \A k \in 1..Len(hist) : Len(hist[k]) \in Nat \ {0} /\ DOMAIN hist[k] = 1..Len(hist[k])
        /\ \A k \in 1..Len(hist) : DOMAIN hist'[k] = 1..Len(hist'[k])
    BY <1>1, <1>2, HistTyped DEF Grown
  <1>4a. PICK d \in Pos : d.line = l /\ d.n = Len(hist[l]) + 1 /\ queue' = Append(queue, d)
    BY <1>3 DEF Commit, Pos
  <1>4. Committed(d)' /\ d.n > 1
    BY <1>2, <1>3, <1>4a DEF Committed
  <1>5. /\ queue' \in Seq(Pos) /\ Len(queue') = Len(queue) + 1 /\ Len(queue) \in Nat
        /\ \A i \in 1..Len(queue) : queue'[i] = queue[i]
        /\ queue'[Len(queue) + 1] = d
        /\ DOMAIN queue = 1..Len(queue) /\ DOMAIN queue' = 1..Len(queue) + 1
    BY <1>1, <1>4a
  <1>6. ASSUME NEW q, Committed(q) PROVE Committed(q)'
    BY <1>1, <1>2, <1>6, PositionKept
  <1>7. ASSUME NEW i \in DOMAIN queue' PROVE Committed(queue[i])' /\ queue'[i].n > 1
    <2>1. CASE i \in DOMAIN queue
      <3>1. Committed(queue[i]) /\ queue[i].n > 1
        BY <2>1, <1>1 DEF TypeOK
      <3>2. PICK q : q = queue[i]
        OBVIOUS
      <3>3. Committed(q)' /\ queue'[i] = q
        BY <2>1, <3>1, <3>2, <1>5, <1>6
      <3>4. QED
        BY <3>1, <3>2, <3>3 DEF Committed
    <2>2. CASE i = Len(queue) + 1
      <3>1. queue'[i] = d
        BY <2>2, <1>5
      <3>2. QED
        BY <3>1, <1>4 DEF Committed
    <2>3. QED
      BY <2>1, <2>2, <1>5
  <1>8. tips' \in Pos /\ (tips' = Nowhere \/ Committed(tips)')
    BY <1>1, <1>6 DEF TypeOK, Pos, Committed
  <1>9. TypeOK'
    <2>1. hist' # <<>> /\ \A k \in DOMAIN hist' : hist'[k] # <<>>
      BY <1>2, <1>3
    <2>2. old' \in 0..Len(hist') - 1
      BY <1>1, <1>2 DEF TypeOK
    <2>3. QED
      BY <1>1, <1>2, <1>5, <1>7, <1>8, <2>1, <2>2 DEF TypeOK, Pos
  <1>10. Announced
    <2>1. ASSUME NEW k \in 1..Len(hist), NEW n \in Len(hist[k]) + 1 .. Len(hist'[k])
          PROVE  \E i \in DOMAIN queue' : queue'[i].line = k /\ queue'[i].n = n
      <3>1. k = l /\ n = Len(hist[l]) + 1
        BY <1>2, <1>3
      <3>2. QED
        BY <3>1, <1>4a, <1>5
    <2>2. ASSUME NEW i \in DOMAIN queue', i \notin DOMAIN queue,
                 NEW k \in 1..Len(hist), queue'[i].line = k
          PROVE  queue'[i].n > Len(hist[k])
      <3>1. queue'[i] = d
        BY <2>2, <1>5
      <3>2. QED
        BY <3>1, <2>2, <1>3, <1>4a
    <2>3. QED
      BY <2>1, <2>2, <1>5 DEF Announced
  <1>11. FlowInv'
    <2>1. ASSUME NEW i \in DOMAIN queue', NEW j \in DOMAIN queue', i < j,
                 queue'[i].line = queue'[j].line
          PROVE  queue'[i].n < queue'[j].n
      <3>1. CASE j \in DOMAIN queue
        <4>1. i \in DOMAIN queue /\ queue'[i] = queue[i] /\ queue'[j] = queue[j]
          BY <3>1, <2>1, <1>5
        <4>2. QED
          BY <4>1, <3>1, <2>1 DEF IInv, FlowInv, QueueOrdered
      <3>2. CASE j = Len(queue) + 1
        <4>1. i \in DOMAIN queue /\ queue'[i] = queue[i] /\ queue'[j] = d
          BY <3>2, <2>1, <1>5
        <4>2. Committed(queue[i]) /\ queue[i].line = l
          BY <4>1, <2>1, <1>1, <1>4a DEF TypeOK
        <4>3. queue[i].n \in 1..Len(hist[l])
          BY <4>2, <1>3 DEF Committed
        <4>4. QED
          BY <4>1, <4>3, <1>3, <1>4a
      <3>3. QED
        BY <3>1, <3>2, <1>5
    <2>2. Virtual'.line = Len(hist) /\ Virtual'.n = Len(hist'[Len(hist)])
          /\ Virtual.line = Len(hist) /\ Virtual.n = Len(hist[Len(hist)])
      BY <1>2 DEF Virtual, Newest
    <2>3. Len(hist'[Len(hist)]) >= Len(hist[Len(hist)]) /\ Len(hist'[Len(hist)]) \in Nat
          /\ Len(hist[Len(hist)]) \in Nat
      BY <1>2, <1>3 DEF Grown
    <2>4. ghost.floor.line \in Nat /\ ghost.floor.n \in Nat
      BY <1>1 DEF TypeOK
    <2>5. QED
      BY <2>1, <2>2, <2>3, <2>4, <1>2, <1>3 DEF IInv, FlowInv, QueueOrdered, NotBefore
  <1>12. QED
    BY <1>2, <1>9, <1>10, <1>11, ConsensusKeeps

LEMMA LineKeeps ==
  ASSUME IInv, NEW p \in Parents, NEW U \in UtxoSets, StartLine(p, U), pc # "down", ~Resyncing,
         UNCHANGED <<queue, utxos, tips, pc, job, ghost>>,
         ibd' \in {"none", "replaced", "transit", "imported", "stable"},
         old' \in 0..Len(hist)
  PROVE  IInv'
  <1>1. TypeOK /\ queue \in Seq(Pos)
    BY DEF IInv, TypeOK, Pos
  <1>2. /\ hist' \in Seq(Seq(States)) /\ Len(hist') = Len(hist) + 1 /\ Grown
        /\ \A l \in 1..Len(hist') : hist'[l] # <<>>
        /\ \A l \in 1..Len(hist) : hist'[l] = hist[l]
    BY <1>1, LineGrows
  <1>3. Len(hist) \in Nat \ {0} /\ \A k \in 1..Len(hist) : Len(hist[k]) \in Nat \ {0}
    BY <1>1, HistTyped
  <1>4. ASSUME NEW q, Committed(q) PROVE Committed(q)'
    BY <1>1, <1>2, <1>4, PositionKept
  <1>5. ASSUME NEW i \in DOMAIN queue' PROVE Committed(queue[i])' /\ queue'[i].n > 1
    <2>1. Committed(queue[i]) /\ queue[i].n > 1
      BY <1>1 DEF TypeOK
    <2>2. PICK q : q = queue[i]
      OBVIOUS
    <2>3. Committed(q)' /\ queue'[i] = q
      BY <2>1, <2>2, <1>4
    <2>4. QED
      BY <2>1, <2>2, <2>3 DEF Committed
  <1>6. tips' \in Pos /\ (tips' = Nowhere \/ Committed(tips)')
    BY <1>1, <1>4 DEF TypeOK, Pos, Committed
  <1>7. TypeOK'
    <2>1. hist' # <<>> /\ \A k \in DOMAIN hist' : hist'[k] # <<>>
      BY <1>2, <1>3
    <2>2. old' \in 0..Len(hist') - 1
      BY <1>1, <1>2, <1>3
    <2>3. QED
      BY <1>1, <1>2, <1>5, <1>6, <2>1, <2>2 DEF TypeOK, Pos
  <1>8. Announced
    BY <1>1, <1>2, <1>3 DEF Announced
  <1>9. FlowInv'
    <2>1. Virtual'.line = Len(hist) + 1 /\ Len(hist') = Len(hist) + 1
      BY <1>2 DEF Virtual, Newest
    <2>2. ghost.floor.line \in Nat
      BY <1>1 DEF TypeOK
    <2>3. QED
      BY <2>1, <2>2, <1>3 DEF IInv, FlowInv, QueueOrdered, NotBefore
  <1>10. QED
    BY <1>2, <1>7, <1>8, <1>9, ConsensusKeeps

(* What IInv speaks of, besides ibd.                                       *)
indexVars == <<hist, queue, old, utxos, tips, pc, job, ghost>>

LEMMA StutterKeeps ==
  ASSUME IInv, UNCHANGED indexVars,
         ibd' \in {"none", "replaced", "transit", "imported", "stable"}
  PROVE  IInv'
  <1> USE DEF indexVars, IInv
  <1>1. TypeOK' /\ FlowInv'
    BY DEF TypeOK, FlowInv, QueueOrdered, Virtual, Newest, Committed
  <1>2. IdleInv'
    BY DEF IdleInv, Follows, Committed, QueueFrom, Holds, Top
  <1>3. UpdateInv'
    <2>1. /\ Removed(job.n)' = Removed(job.n) /\ Added(job.n)' = Added(job.n)
          /\ Committed(job.n)' = Committed(job.n)
      BY DEF Removed, Added, Changed, Present, At, Before, Committed
    <2>2. Follows(tips)' = Follows(tips) /\ QueueFrom(job.n)' = QueueFrom(job.n)
      BY DEF Follows, Committed, QueueFrom
    <2>3. /\ Holds(job.n, Top(job.n), job.rem \cup job.add)'
             = Holds(job.n, Top(job.n), job.rem \cup job.add)
          /\ Holds(job.n, Top(job.n), {})' = Holds(job.n, Top(job.n), {})
      BY DEF Holds, Top
    <2>4. QED
      BY <2>1, <2>2, <2>3 DEF UpdateInv, Updating
  <1>4. ResyncInv'
    BY DEF ResyncInv, Resyncing, Committed, QueueFrom, Holds, Virtual, Newest
  <1>5. DownInv'
    BY DEF DownInv, Follows, Committed, Virtual, Newest, At
  <1>6. QED
    BY <1>1, <1>2, <1>3, <1>4, <1>5

LEMMA ConsensusStepKeeps == ASSUME IInv, Consensus PROVE IInv'
  <1>1. TypeOK /\ Len(hist) \in Nat \ {0} /\ old \in 0..Len(hist) - 1 /\ Committed(Virtual)
    BY HistTyped DEF IInv, TypeOK
  <1>2. At(Virtual).parents \in Parents /\ At(Virtual).utxos \in UtxoSets
    BY <1>1, StateTyped
  <1>3. ASSUME NEW p \in Parents, CommitVirtual(p) PROVE IInv'
    BY <1>1, <1>3, CommitKeeps DEF CommitVirtual, store
  <1>4. ASSUME NEW p \in Parents, LateCommit(p) PROVE IInv'
    <2>1. PICK l \in 1..Len(hist) : l = old
      BY <1>1, <1>4 DEF LateCommit
    <2>2. QED
      BY <2>1, <1>4, CommitKeeps DEF LateCommit, store
  <1>5. ASSUME NEW p \in Parents, ReplaceConsensus(p) PROVE IInv'
    <2>1. NoEntry \in UtxoSets
      BY SetsTyped
    <2>2. QED
      BY <2>1, <1>1, <1>5, LineKeeps DEF ReplaceConsensus, store
  <1>6. ASSUME NEW p \in Parents, CatchUp(p) PROVE IInv'
    <2>1. PICK U \in UtxoSets : U = At(Virtual).utxos
      BY <1>2
    <2>2. QED
      BY <2>1, <1>1, <1>6, LineKeeps DEF CatchUp, store
  <1>7. ASSUME Import PROVE IInv'
    <2>1. PICK p \in Parents : p = At(Virtual).parents
      BY <1>2
    <2>2. UtxoOf[p] \in UtxoSets
      BY SetsTyped
    <2>3. QED
      BY <2>1, <2>2, <1>1, <1>7, LineKeeps DEF Import, store
  <1>8. ASSUME SetStable PROVE IInv'
    BY <1>8, StutterKeeps DEF SetStable, store, indexVars
  <1>9. QED
    BY <1>3, <1>4, <1>5, <1>6, <1>7, <1>8, IndexAssumption DEF Consensus

-----------------------------------------------------------------------------
(* Crashes and restarts.                                                   *)

(* Tips vouch for the entries wherever the index is.                       *)
LEMMA TipsVouch ==
  ASSUME IInv, ~ghost.astray, tips # Nowhere
  PROVE  Follows(tips) /\ (tips = Virtual => utxos = At(Virtual).utxos)
  <1>1. TypeOK /\ tips \in Pos /\ ghost.upto \in Nat
    BY DEF IInv, TypeOK, Pos
  <1>2. CASE pc = "idle"
    <2>1. Follows(tips) /\ Holds(tips, Top(tips), {})
      BY <1>2 DEF IInv, IdleInv
    <2>2. ASSUME tips = Virtual PROVE utxos = At(Virtual).utxos
      <3>1. Committed(tips) /\ ghost.upto <= tips.n /\ tips.n \in Nat
        BY <2>1, <2>2, <1>1, HistTyped DEF Follows
      <3>2. Top(tips) = tips.n
        BY <3>1, <1>1 DEF Top
      <3>3. ASSUME NEW o \in Outpoints PROVE utxos[o] = At(tips).utxos[o]
        BY <3>1, <3>2, <2>1 DEF Holds, At
      <3>4. utxos \in [Outpoints -> Nat] /\ At(tips).utxos \in [Outpoints -> Nat]
        BY <3>1, <1>1, StateTyped DEF TypeOK
      <3>5. QED
        BY <2>2, <3>3, <3>4
    <2>3. QED
      BY <2>1, <2>2
  <1>3. CASE Updating
    <2>1. Follows(tips) /\ Committed(job.n) /\ job.n.line = tips.line /\ job.n.n = tips.n + 1
      BY <1>3 DEF IInv, UpdateInv
    <2>2. tips.n + 1 \in 1..Len(hist[tips.line])
      BY <2>1, <1>1, HistTyped DEF Committed
    <2>3. tips # Virtual
      BY <2>2, <1>1, HistTyped DEF Pos
    <2>4. QED
      BY <2>1, <2>3
  <1>4. CASE Resyncing \/ pc = "down"
    BY <1>4 DEF IInv, ResyncInv, DownInv, Resyncing
  <1>5. QED
    BY <1>1, <1>2, <1>3, <1>4 DEF TypeOK, Updating, Resyncing

LEMMA CrashKeeps == ASSUME IInv, Crash PROVE IInv'
  <1>1. /\ pc' = "down" /\ queue' = <<>> /\ job' = NoJob /\ old' = 0
        /\ ibd' \in {"none", "transit"}
        /\ ghost' = [ghost EXCEPT !.floor = Newest(Len(hist))']
        /\ UNCHANGED <<utxos, tips>>
    BY DEF Crash, store
  <1>2. TypeOK /\ tips \in Pos /\ utxos \in [Outpoints -> Nat]
    BY DEF IInv, TypeOK, Pos
  <1>3. /\ hist' \in Seq(Seq(States)) /\ Grown
        /\ \A l \in 1..Len(hist') : hist'[l] # <<>>
        /\ hist' = hist \/ Len(hist') = Len(hist) + 1
    <2>1. CASE UNCHANGED hist
      <3>1. /\ Len(hist) \in Nat /\ DOMAIN hist = 1..Len(hist)
            /\ \A l \in 1..Len(hist) : DOMAIN hist[l] = 1..Len(hist[l]) /\ Len(hist[l]) \in Nat
        BY <1>2, HistTyped
      <3>2. Grown
        BY <2>1, <3>1 DEF Grown
      <3>3. QED
        BY <2>1, <3>1, <3>2, <1>2 DEF TypeOK
    <2>2. CASE ~UNCHANGED hist
      <3>1. PICK k \in {0} \cup Outpoints :
              StartLine(At(Virtual).parents, UpTo(UtxoOf[At(Virtual).parents], k))
        BY <2>2 DEF Crash
      <3>2. PICK p \in Parents : p = At(Virtual).parents
        BY <1>2, HistTyped, StateTyped
      <3>3. PICK U \in UtxoSets : U = UpTo(UtxoOf[p], k)
        BY SetsTyped
      <3>4. StartLine(p, U)
        BY <3>1, <3>2, <3>3
      <3>5. QED
        BY <3>4, <1>2, LineGrows
    <2>3. QED
      BY <2>1, <2>2
  <1>4. /\ Len(hist) \in Nat \ {0} /\ Len(hist') \in Nat \ {0} /\ DOMAIN hist' = 1..Len(hist')
        /\ hist'[Len(hist')] \in Seq(States) /\ Len(hist'[Len(hist')]) \in Nat
    <2>1. Len(hist) \in Nat \ {0} /\ DOMAIN hist' = 1..Len(hist') /\ Len(hist') \in Nat
          /\ Len(hist) <= Len(hist')
      BY <1>2, <1>3, HistTyped DEF Grown
    <2>2. Len(hist') \in 1..Len(hist')
      BY <2>1
    <2>3. hist'[Len(hist')] \in Seq(States)
      BY <2>2, <1>3
    <2>4. QED
      BY <2>1, <2>3
  <1>5. /\ Virtual' = [line |-> Len(hist'), n |-> Len(hist'[Len(hist')])]
        /\ Newest(Len(hist))' = Virtual' /\ Virtual' \in Pos
    BY <1>4 DEF Virtual, Newest, Pos
  <1>6. /\ ghost' = [ghost EXCEPT !.floor = Virtual']
        /\ ghost'.floor = Virtual' /\ ghost'.at = ghost.at /\ ghost'.upto = ghost.upto
        /\ ghost'.astray = ghost.astray
        /\ ghost' \in [at : [line : Nat, n : Nat], upto : Nat, astray : BOOLEAN,
                       floor : [line : Nat, n : Nat]]
    BY <1>1, <1>2, <1>5 DEF TypeOK, Pos
  <1>7. tips = Nowhere \/ Committed(tips)'
    <2>1. ASSUME tips # Nowhere PROVE Committed(tips)'
      <3>1. PICK t : t = tips
        OBVIOUS
      <3>2. Committed(t)'
        BY <2>1, <3>1, <1>2, <1>3, PositionKept DEF TypeOK
      <3>3. QED
        BY <3>1, <3>2, <1>1 DEF Committed
    <2>2. QED
      BY <2>1
  <1>8. TypeOK'
    <2>1. hist' # <<>> /\ \A l \in DOMAIN hist' : hist'[l] # <<>>
      <3>1. Len(hist') # 0 /\ Len(<<>>) = 0
        BY <1>4
      <3>2. QED
        BY <3>1, <1>3, <1>4
    <2>2. /\ job' = [n |-> job'.n, rem |-> job'.rem, add |-> job'.add,
                     cursor |-> job'.cursor, total |-> job'.total]
          /\ job'.n \in Pos /\ job'.cursor \in Nat /\ job'.rem = {} /\ job'.add = {}
      BY <1>1 DEF NoJob, Nowhere, Pos
    <2>4. old' \in 0..Len(hist') - 1 /\ queue' \in Seq(Pos) /\ DOMAIN queue' = {}
      BY <1>1, <1>4
    <2>3. QED
      BY <1>1, <1>2, <1>3, <1>4, <1>6, <1>7, <2>1, <2>2, <2>4 DEF TypeOK, Pos
  <1>9. FlowInv'
    BY <1>1, <1>4, <1>5, <1>6 DEF FlowInv, QueueOrdered, NotBefore
  <1>10. DownInv'
    <2> SUFFICES ASSUME ~ghost.astray, tips # Nowhere
                 PROVE  Follows(tips)' /\ (tips' = Virtual' => utxos' = At(Virtual)'.utxos)
      BY <1>1, <1>6 DEF DownInv
    <2>1. Follows(tips) /\ (tips = Virtual => utxos = At(Virtual).utxos)
      BY TipsVouch
    <2>2. Follows(tips)'
      <3>1. tips.line \in 1..Len(hist) /\ Len(hist[tips.line]) \in Nat
        BY <2>1, <1>2, HistTyped DEF Follows, Committed
      <3>2. Len(hist'[tips.line]) \in Nat /\ Len(hist[tips.line]) <= Len(hist'[tips.line])
        BY <3>1, <1>3, Zenon DEF Grown
      <3>3. ghost.upto \in Nat /\ ghost.upto <= Len(hist'[tips.line])
        <4>1. ghost.upto \in Nat
          BY <1>2 DEF TypeOK
        <4>2. ghost.upto <= Len(hist[tips.line])
          BY <2>1 DEF Follows
        <4>3. QED
          BY <4>1, <4>2, <3>1, <3>2
      <3>4. Committed(tips)' /\ tips' \in Pos
        BY <1>1, <1>2, <1>7
      <3>5. QED
        BY <3>3, <3>4, <2>1, <1>1, <1>6 DEF Follows
    <2>3. CASE hist' = hist
      BY <2>1, <2>2, <2>3, <1>1 DEF Virtual, Newest, At
    <2>4. CASE Len(hist') = Len(hist) + 1
      <3>1. tips.line <= Len(hist) /\ tips.line \in Nat
        BY <2>1, <1>2, HistTyped DEF Follows, Committed, Pos
      <3>2. tips' # Virtual'
        BY <3>1, <2>4, <1>1, <1>4, <1>5
      <3>3. QED
        BY <2>2, <3>2
    <2>5. QED
      BY <2>3, <2>4, <1>3
  <1>11. QED
    BY <1>1, <1>8, <1>9, <1>10 DEF IInv, IdleInv, UpdateInv, ResyncInv, Updating, Resyncing

LEMMA NewKeeps == ASSUME IInv, New PROVE IInv'
  <1>1. UNCHANGED <<hist, queue, ibd, old, utxos, tips, job>> /\ pc = "down"
        /\ queue = <<>>
    BY DEF New, consensus, store, IInv, DownInv
  <1>2. /\ TypeOK /\ tips \in Pos /\ (tips = Nowhere \/ Committed(tips))
        /\ ghost.upto \in Nat /\ Virtual \in Pos
    BY HistTyped DEF IInv, TypeOK, Pos
  <1>3. /\ ghost'.floor = ghost.floor /\ ghost'.at = ghost.at /\ ghost'.upto = ghost.upto
        /\ ghost' \in [at : [line : Nat, n : Nat], upto : Nat, astray : BOOLEAN,
                       floor : [line : Nat, n : Nat]]
        /\ ~ghost'.astray => ~ghost.astray /\ (IsSynced => tips = Virtual)
    <2>1. CASE ~IsSynced
      BY <2>1, <1>2 DEF New, TypeOK
    <2>2. CASE IsSynced
      <3>1. PICK b : b = (ghost.astray \/ tips # Virtual)
        OBVIOUS
      <3>2. b \in BOOLEAN /\ (~b => ~ghost.astray /\ tips = Virtual)
        BY <3>1, Zenon
      <3>3. ghost' = [ghost EXCEPT !.astray = b]
        BY <3>1, <2>2 DEF New
      <3>4. QED
        BY <3>2, <3>3, <1>2 DEF TypeOK
    <2>3. QED
      BY <2>1, <2>2
  <1>4. pc' \in {"idle", "deleteTips"}
    BY DEF New
  <1>5. TypeOK' /\ FlowInv'
    BY <1>1, <1>2, <1>3, <1>4 DEF IInv, TypeOK, FlowInv, QueueOrdered, Virtual, Newest, Committed
  <1>6. CASE IsSynced
    <2>1. pc' = "idle" /\ ghost' = [ghost EXCEPT !.astray = @ \/ tips # Virtual]
          /\ tips # Nowhere
      BY <1>6, Zenon DEF New, IsSynced
    <2>2. IdleInv'
      <3> SUFFICES ASSUME ~ghost'.astray
                   PROVE  Follows(tips)' /\ NotBefore(tips', ghost'.floor)
                          /\ QueueFrom(tips)' /\ Holds(tips, Top(tips), {})'
        BY DEF IdleInv
      <3>1. ~ghost.astray /\ tips = Virtual
        BY <1>3, <1>6
      <3>2. Follows(tips) /\ utxos = At(tips).utxos
        BY <3>1, <2>1, TipsVouch
      <3>3. tips.n \in Nat /\ tips.n = Len(hist[tips.line]) /\ ghost.upto <= tips.n
        <4>1. Virtual.n \in Nat /\ Virtual.n = Len(hist[Virtual.line])
          BY <1>2, HistTyped DEF Pos
        <4>2. QED
          BY <4>1, <3>1, <3>2 DEF Follows
      <3>4. Follows(tips)' /\ NotBefore(tips', ghost'.floor)
        BY <3>1, <3>2, <1>1, <1>3 DEF Follows, Committed, IInv, FlowInv
      <3>5. QueueFrom(tips)'
        BY <3>3, <1>1 DEF QueueFrom
      <3>6. Top(tips)' = tips.n
        BY <3>3, <1>1, <1>2, <1>3 DEF Top
      <3>7. Holds(tips, Top(tips), {})'
        BY <3>2, <3>3, <3>6, <1>1 DEF Holds, At
      <3>8. QED
        BY <3>4, <3>5, <3>7
    <2>3. QED
      BY <2>1, <2>2, <1>5 DEF IInv, UpdateInv, ResyncInv, DownInv, Updating, Resyncing
  <1>7. CASE ~IsSynced
    <2>1. pc' = "deleteTips" /\ ghost' = ghost
      BY <1>7 DEF New
    <2>2. DownInv'
      BY <2>1, <1>1 DEF IInv, DownInv, Follows, Committed, Virtual, Newest, At
    <2>3. QED
      BY <2>1, <2>2, <1>5 DEF IInv, IdleInv, UpdateInv, ResyncInv, Updating, Resyncing
  <1>8. QED
    BY <1>6, <1>7

-----------------------------------------------------------------------------
(* A resync.                                                               *)
LEMMA HandleResetKeeps == ASSUME IInv, HandleConsensusReset PROVE IInv'
  <1>1. /\ UNCHANGED <<hist, queue, ibd, old, utxos, tips, job>> /\ pc = "idle"
        /\ pc' = "deleteTips" /\ ghost' = [ghost EXCEPT !.floor = Virtual]
    BY DEF HandleConsensusReset, consensus, store
  <1>2. TypeOK /\ Virtual \in Pos /\ Virtual.line = Len(hist) /\ Len(hist) \in Nat
    BY HistTyped DEF IInv
  <1>3. /\ ghost'.floor = Virtual /\ ghost'.at = ghost.at /\ ghost'.upto = ghost.upto
        /\ ghost'.astray = ghost.astray
        /\ ghost' \in [at : [line : Nat, n : Nat], upto : Nat, astray : BOOLEAN,
                       floor : [line : Nat, n : Nat]]
    BY <1>1, <1>2 DEF TypeOK, Pos
  <1>4. TypeOK'
    BY <1>1, <1>2, <1>3 DEF TypeOK, Committed
  <1>5. FlowInv'
    <2>1. Virtual' = Virtual
      BY <1>1 DEF Virtual, Newest
    <2>2. QED
      BY <2>1, <1>1, <1>2, <1>3 DEF IInv, FlowInv, QueueOrdered, NotBefore, Pos
  <1>6. DownInv'
    <2>1. ~ghost.astray /\ tips # Nowhere =>
            Follows(tips) /\ (tips = Virtual => utxos = At(Virtual).utxos)
      BY TipsVouch
    <2>2. QED
      BY <2>1, <1>1, <1>3 DEF DownInv, Follows, Committed, Virtual, Newest, At
  <1>7. QED
    BY <1>1, <1>4, <1>5, <1>6 DEF IInv, IdleInv, UpdateInv, ResyncInv, Updating, Resyncing

LEMMA DeleteTipsKeeps == ASSUME IInv, DeleteTips PROVE IInv'
  <1>1. /\ UNCHANGED <<hist, queue, ibd, old, utxos, job>> /\ pc = "deleteTips"
        /\ pc' = "deleteSupply" /\ tips' = Nowhere /\ ghost' = [ghost EXCEPT !.astray = FALSE]
    BY DEF DeleteTips, consensus
  <1>2. /\ ghost'.floor = ghost.floor /\ ~ghost'.astray
        /\ ghost' \in [at : [line : Nat, n : Nat], upto : Nat, astray : BOOLEAN,
                       floor : [line : Nat, n : Nat]]
    BY <1>1 DEF IInv, TypeOK
  <1>3. TypeOK' /\ FlowInv'
    BY <1>1, <1>2 DEF IInv, TypeOK, FlowInv, QueueOrdered, Virtual, Newest, Committed, Nowhere
  <1>4. QED
    BY <1>1, <1>2, <1>3 DEF IInv, IdleInv, UpdateInv, ResyncInv, DownInv, Updating, Resyncing

LEMMA DeleteSupplyKeeps == ASSUME IInv, DeleteSupply PROVE IInv'
  <1>1. /\ UNCHANGED <<hist, queue, ibd, old, utxos, tips, job, ghost>> /\ pc = "deleteSupply"
        /\ pc' = "deleteUtxos"
    BY DEF DeleteSupply, consensus
  <1>2. TypeOK' /\ FlowInv'
    BY <1>1 DEF IInv, TypeOK, FlowInv, QueueOrdered, Virtual, Newest, Committed
  <1>3. QED
    BY <1>1, <1>2 DEF IInv, IdleInv, UpdateInv, ResyncInv, DownInv, Updating, Resyncing

LEMMA DeleteUtxosKeeps == ASSUME IInv, DeleteUtxos PROVE IInv'
  <1>1. /\ UNCHANGED <<hist, queue, ibd, old, tips>>
        /\ pc = "deleteUtxos" /\ pc' = "scan" /\ utxos' = NoEntry
        /\ job' = [NoJob EXCEPT !.n = Virtual] /\ ghost' = [ghost EXCEPT !.at = Virtual]
    BY DEF DeleteUtxos, consensus
  <1>2. /\ TypeOK /\ Virtual \in Pos /\ Virtual.line = Len(hist) /\ Virtual.n = Len(hist[Len(hist)])
        /\ Committed(Virtual) /\ Len(hist) \in Nat
    BY HistTyped DEF IInv
  <1>3. /\ job'.n = Virtual /\ job'.cursor = 0 /\ job'.rem = {} /\ job'.add = {}
        /\ job' = [n |-> job'.n, rem |-> job'.rem, add |-> job'.add,
                   cursor |-> job'.cursor, total |-> job'.total]
    BY <1>1 DEF NoJob
  <1>4. /\ ghost'.floor = ghost.floor /\ ghost'.at = Virtual /\ ghost'.astray = ghost.astray
        /\ ghost' \in [at : [line : Nat, n : Nat], upto : Nat, astray : BOOLEAN,
                       floor : [line : Nat, n : Nat]]
    BY <1>1, <1>2 DEF TypeOK, Pos
  <1>5. Virtual' = Virtual
    BY <1>1 DEF Virtual, Newest
  <1>6. TypeOK' /\ FlowInv'
    <2>1. NoEntry \in [Outpoints -> Nat]
      BY DEF NoEntry
    <2>2. TypeOK'
      <3>1. job'.n \in [line : Nat, n : Nat] /\ job'.cursor \in Nat
            /\ job'.rem \subseteq Outpoints /\ job'.add \subseteq Outpoints
        BY <1>2, <1>3 DEF Pos
      <3>2. QED
        BY <2>1, <3>1, <1>1, <1>2, <1>3, <1>4 DEF TypeOK, Committed
    <2>3. QED
      BY <2>2, <1>1, <1>4, <1>5 DEF IInv, FlowInv, QueueOrdered
  <1>7. ASSUME NEW i \in DOMAIN queue', queue'[i].line = Virtual.line, queue'[i].n > Virtual.n
        PROVE  FALSE
    <2>1. Committed(queue[i]) /\ queue[i].line = Len(hist)
      BY <1>1, <1>2, <1>7 DEF TypeOK
    <2>2. QED
      BY <2>1, <1>1, <1>2, <1>7, HistTyped DEF Committed
  <1>8. QueueFrom(job.n)'
    BY <1>1, <1>2, <1>3, <1>4, <1>7 DEF QueueFrom, Pos
  <1>9. /\ Holds(job.n, Virtual.n, {o \in Outpoints : o > job.cursor})'
        /\ \A o \in Outpoints : o > job'.cursor => utxos'[o] = 0
    BY <1>1, <1>3, IndexAssumption DEF Holds, NoEntry
  <1>10. tips = Nowhere /\ ~ghost.astray
    BY <1>1 DEF IInv, ResyncInv, Resyncing
  <1>11. ResyncInv'
    BY <1>1, <1>2, <1>3, <1>4, <1>5, <1>8, <1>9, <1>10 DEF IInv, ResyncInv, FlowInv, Committed
  <1>12. QED
    BY <1>1, <1>6, <1>11 DEF IInv, IdleInv, UpdateInv, DownInv, Updating

LEMMA InsertSupplyKeeps == ASSUME IInv, InsertSupply PROVE IInv'
  <1>1. /\ UNCHANGED <<hist, queue, ibd, old, utxos, tips, job, ghost>> /\ pc = "insertSupply"
        /\ pc' = "resyncTips"
    BY DEF InsertSupply, consensus
  <1>2. TypeOK' /\ FlowInv'
    BY <1>1 DEF IInv, TypeOK, FlowInv, QueueOrdered, Virtual, Newest, Committed
  <1>3. ResyncInv'
    BY <1>1 DEF IInv, ResyncInv, Resyncing, Committed, QueueFrom, Holds
  <1>4. QED
    BY <1>1, <1>2, <1>3 DEF IInv, IdleInv, UpdateInv, DownInv, Updating

LEMMA ResyncTipsKeeps == ASSUME IInv, ResyncTips PROVE IInv'
  <1>1. /\ UNCHANGED <<hist, queue, old, utxos, ghost>> /\ pc = "resyncTips"
        /\ pc' = "idle" /\ tips' = job.n /\ job' = NoJob
        /\ ibd' \in {"none", "replaced", "transit", "imported", "stable"}
    BY DEF ResyncTips, IInv, TypeOK
  <1>2. /\ TypeOK /\ job.n \in Pos /\ ghost.upto \in Nat
        /\ job.n = ghost.at /\ Committed(job.n) /\ NotBefore(job.n, ghost.floor)
        /\ QueueFrom(job.n) /\ Holds(job.n, ghost.upto, {})
        /\ ghost.upto \in job.n.n..Len(hist[job.n.line])
    BY <1>1 DEF IInv, ResyncInv, Resyncing, TypeOK, Pos
  <1>3. /\ job' = [n |-> job'.n, rem |-> job'.rem, add |-> job'.add,
                   cursor |-> job'.cursor, total |-> job'.total]
        /\ job'.n \in Pos /\ job'.cursor \in Nat /\ job'.rem = {} /\ job'.add = {}
    BY <1>1 DEF NoJob, Nowhere, Pos
  <1>4. TypeOK' /\ FlowInv'
    BY <1>1, <1>2, <1>3 DEF IInv, TypeOK, FlowInv, QueueOrdered, Virtual, Newest, Committed, Pos
  <1>5. job.n.n \in Nat /\ job.n.n <= ghost.upto /\ ghost.upto <= Len(hist[job.n.line])
    <2>1. Len(hist[job.n.line]) \in Nat
      BY <1>2, HistTyped DEF Committed
    <2>2. QED
      BY <2>1, <1>2 DEF Pos
  <1>6. Follows(tips)' /\ NotBefore(tips', ghost'.floor) /\ QueueFrom(tips)'
    BY <1>1, <1>2, <1>5 DEF Follows, Committed, QueueFrom
  <1>7. Top(tips)' = ghost.upto
    <2>1. Top(tips)' = IF ghost.upto > job.n.n THEN ghost.upto ELSE job.n.n
      BY <1>1, Zenon DEF Top
    <2>2. ghost.upto \in Nat
      BY <1>2
    <2>3. QED
      BY <2>1, <2>2, <1>5
  <1>8. Holds(tips, Top(tips), {})'
    BY <1>1, <1>2, <1>7 DEF Holds
  <1>9. QED
    BY <1>1, <1>4, <1>6, <1>8 DEF IInv, IdleInv, UpdateInv, ResyncInv, DownInv, Updating, Resyncing

LEMMA ScanKeeps == ASSUME IInv, ScanChunk PROVE IInv'
  <1>0. PICK U : U = At(Virtual).utxos
    OBVIOUS
  <1> DEFINE rest == {o \in Present(U) : o > job.cursor}
  <1>1. PICK chunk \in SUBSET rest, cursor \in rest \cup {job.cursor} :
          /\ IsFirst(ChunkSize, rest, chunk)
          /\ IsCursor(cursor, chunk, job.cursor)
          /\ utxos' = [o \in Outpoints |-> IF o \in chunk THEN U[o] ELSE utxos[o]]
          /\ job' = [job EXCEPT !.cursor = cursor,
                                !.total = @ + MapThenSumSet(LAMBDA o : Amount[o], chunk)]
          /\ pc' = IF Cardinality(chunk) < ChunkSize THEN "insertSupply" ELSE "scan"
    BY <1>0 DEF ScanChunk
  <1>2. /\ UNCHANGED <<hist, queue, ibd, old, tips>> /\ pc = "scan"
        /\ ghost' = [ghost EXCEPT !.upto = Virtual.n]
    BY DEF ScanChunk, consensus
  <1>3. /\ job'.n = job.n /\ job'.cursor = cursor /\ job'.rem = job.rem /\ job'.add = job.add
        /\ job' = [n |-> job'.n, rem |-> job'.rem, add |-> job'.add,
                   cursor |-> job'.cursor, total |-> job'.total]
    BY <1>1 DEF IInv, TypeOK
  <1>4. /\ TypeOK /\ Virtual \in Pos /\ Virtual' = Virtual
        /\ U \in [Outpoints -> Nat]
        /\ Virtual.line = Len(hist) /\ Virtual.n = Len(hist[Len(hist)]) /\ Virtual.n \in Nat
        /\ job.n \in Pos
    <2>1. TypeOK /\ Committed(Virtual)
      BY HistTyped DEF IInv
    <2>2. U \in [Outpoints -> Nat]
      BY <2>1, <1>0, StateTyped
    <2>3. QED
      BY <2>1, <2>2, <1>2, HistTyped DEF Virtual, Newest, Pos, TypeOK
  <1>5. rest \subseteq Outpoints /\ job.cursor \in Nat /\ cursor \in Nat /\ utxos \in [Outpoints -> Nat]
    BY <1>4, IndexAssumption DEF Present, TypeOK
  <1>6. pc' \in {"scan", "insertSupply"}
    BY <1>1
  <1>7. /\ ghost'.floor = ghost.floor /\ ghost'.at = ghost.at /\ ghost'.astray = ghost.astray
        /\ ghost'.upto = Virtual.n
        /\ ghost' \in [at : [line : Nat, n : Nat], upto : Nat, astray : BOOLEAN,
                       floor : [line : Nat, n : Nat]]
    BY <1>2, <1>4 DEF TypeOK
  <1>8. TypeOK' /\ FlowInv'
    <2>1. utxos' \in [Outpoints -> Nat]
      BY <1>1, <1>4, <1>5
    <2>2. TypeOK'
      BY <2>1, <1>2, <1>3, <1>4, <1>5, <1>6, <1>7 DEF TypeOK, Committed
    <2>3. QED
      BY <2>2, <1>2, <1>4, <1>7 DEF IInv, FlowInv, QueueOrdered
  <1>9. /\ tips = Nowhere /\ ~ghost.astray
        /\ job.n = ghost.at /\ Committed(job.n) /\ job.n.line = Len(hist)
        /\ NotBefore(job.n, ghost.floor) /\ QueueFrom(job.n)
        /\ Holds(job.n, Virtual.n, {o \in Outpoints : o > job.cursor})
        /\ \A o \in Outpoints : o > job.cursor => utxos[o] = 0
    BY <1>2 DEF IInv, ResyncInv, Resyncing
  <1>10. job.n.n \in 1..Virtual.n /\ U = hist[job.n.line][Virtual.n].utxos
    BY <1>0, <1>4, <1>9, HistTyped DEF Committed, At
  <1>11. ASSUME NEW o \in Outpoints, utxos'[o] = U[o] \/ (o <= job.cursor /\ utxos'[o] = utxos[o])
         PROVE  \E m \in job.n.n..Virtual.n : utxos'[o] = hist[job.n.line][m].utxos[o]
    <2>1. CASE utxos'[o] = U[o]
      <3>1. Virtual.n \in job.n.n..Virtual.n
        BY <1>4, <1>10
      <3>2. QED
        BY <2>1, <3>1, <1>10
    <2>2. CASE o <= job.cursor /\ utxos'[o] = utxos[o]
      <3>1. o \in Outpoints \ {q \in Outpoints : q > job.cursor}
        BY <2>2, <1>5, IndexAssumption
      <3>2. QED
        BY <2>2, <3>1, <1>9 DEF Holds
    <2>3. QED
      BY <1>11, <2>1, <2>2
  <1>12. ASSUME NEW o \in Outpoints, o \notin rest, o > job.cursor PROVE U[o] = 0
    BY <1>12 DEF Present
  <1>13. ASSUME NEW o \in Outpoints
         PROVE  o \in Nat /\ utxos'[o] = IF o \in chunk THEN U[o] ELSE utxos[o]
    BY <1>1, IndexAssumption
  <1>14. pc' = "scan" =>
           /\ Holds(job.n, Virtual.n, {o \in Outpoints : o > job.cursor})'
           /\ \A o \in Outpoints : o > job'.cursor => utxos'[o] = 0
    <2>1. /\ \A p \in chunk, q \in rest : q < p => q \in chunk
          /\ chunk = {} => cursor = job.cursor
          /\ chunk # {} => cursor \in chunk /\ \A p \in chunk : p <= cursor
      BY <1>1 DEF IsFirst, IsCursor
    <2>2. job.cursor <= cursor
      BY <2>1, <1>5
    <2>3. ASSUME NEW o \in Outpoints, o > cursor PROVE utxos'[o] = 0
      <3>1. o \notin chunk /\ o > job.cursor
        BY <2>1, <2>2, <2>3, <1>5, <1>13
      <3>2. QED
        BY <3>1, <1>9, <1>13
    <2>4. ASSUME NEW o \in Outpoints, ~ (o > cursor)
          PROVE  utxos'[o] = U[o] \/ (o <= job.cursor /\ utxos'[o] = utxos[o])
      <3>1. CASE o \in chunk
        BY <3>1, <1>13
      <3>2. CASE o \notin chunk /\ o <= job.cursor
        BY <3>2, <1>13
      <3>3. CASE o \notin chunk /\ o > job.cursor
        <4>1. cursor \in chunk /\ cursor \in Nat /\ o <= cursor /\ o # cursor
          BY <3>3, <2>1, <2>4, <1>5, <1>13
        <4>2. o \notin rest
          BY <3>3, <4>1, <2>1, <1>13
        <4>3. U[o] = 0 /\ utxos'[o] = 0
          BY <3>3, <4>2, <1>9, <1>12, <1>13
        <4>4. QED
          BY <4>3
      <3>4. QED
        BY <3>1, <3>2, <3>3, <1>5, <1>13
    <2>5. QED
      BY <2>3, <2>4, <1>2, <1>3, <1>4, <1>11 DEF Holds
  <1>15. pc' = "insertSupply" => Holds(job.n, ghost.upto, {})'
    <2> SUFFICES ASSUME pc' = "insertSupply" PROVE Holds(job.n, ghost.upto, {})'
      OBVIOUS
    <2>1. chunk = rest
      <3>1. Cardinality(chunk) < ChunkSize
        BY <1>1
      <3>2. chunk = rest \/ Cardinality(chunk) = ChunkSize
        BY <1>1 DEF IsFirst
      <3>3. QED
        BY <3>1, <3>2, IndexAssumption
    <2>2. ASSUME NEW o \in Outpoints
          PROVE  utxos'[o] = U[o] \/ (o <= job.cursor /\ utxos'[o] = utxos[o])
      <3>1. CASE o \in rest
        BY <3>1, <2>1, <1>13
      <3>2. CASE o \notin rest /\ o > job.cursor
        BY <3>2, <2>1, <1>9, <1>12, <1>13
      <3>3. CASE o \notin rest /\ o <= job.cursor
        BY <3>3, <2>1, <1>13
      <3>4. QED
        BY <3>1, <3>2, <3>3, <1>5, <1>13
    <2>3. QED
      BY <2>2, <1>2, <1>3, <1>7, <1>11 DEF Holds
  <1>16. QueueFrom(job.n)' /\ Committed(job.n)'
    BY <1>2, <1>3, <1>7, <1>9 DEF QueueFrom, Committed
  <1>17. pc' = "insertSupply" => ghost'.upto \in job'.n.n..Len(hist'[job'.n.line])
    BY <1>2, <1>3, <1>4, <1>7, <1>9, <1>10
  <1>18. ResyncInv'
    BY <1>2, <1>3, <1>4, <1>6, <1>7, <1>9, <1>14, <1>15, <1>16, <1>17 DEF ResyncInv
  <1>19. QED
    BY <1>6, <1>8, <1>18 DEF IInv, IdleInv, UpdateInv, DownInv, Updating

-----------------------------------------------------------------------------
(* An update.                                                              *)

(* What is neither removed nor added is the same before and after.         *)
LEMMA Untouched ==
  ASSUME TypeOK, NEW p \in Pos, Committed(p), p.n > 1,
         NEW o \in Outpoints, o \notin Removed(p) \cup Added(p)
  PROVE  hist[p.line][p.n].utxos[o] = hist[p.line][p.n - 1].utxos[o]
  <1>1. At(Before(p)) = hist[p.line][p.n - 1] /\ At(p) = hist[p.line][p.n]
    BY BeforeTyped DEF At
  <1>2. o \notin Changed(p) \/ (At(p).utxos[o] = 0 /\ At(Before(p)).utxos[o] = 0)
    BY DEF Removed, Added, Present
  <1>3. QED
    BY <1>1, <1>2 DEF Changed

LEMMA ReceiveKeeps == ASSUME IInv, ReceiveDiff PROVE IInv'
  <1>1. /\ TypeOK /\ queue \in Seq(Pos) /\ queue # <<>> /\ Len(queue) \in Nat \ {0}
        /\ DOMAIN queue = 1..Len(queue) /\ ghost.upto \in Nat /\ ghost.at \in Pos
    <2>1. TypeOK /\ queue \in Seq(Pos) /\ ghost.upto \in Nat /\ ghost.at \in Pos
      BY DEF IInv, TypeOK, Pos
    <2>2. queue # <<>>
      BY DEF ReceiveDiff
    <2>3. QED
      BY <2>1, <2>2
  <1>2. PICK p \in Pos : p = Head(queue) /\ p = queue[1]
    BY <1>1
  <1>3. Committed(p) /\ p.n > 1
    <2>1. 1 \in DOMAIN queue
      BY <1>1
    <2>2. QED
      BY <2>1, <1>1, <1>2 DEF TypeOK
  <1>4. /\ UNCHANGED <<hist, ibd, old, utxos, tips>> /\ pc = "idle" /\ pc' = "update"
        /\ queue' = Tail(queue)
        /\ job' = [NoJob EXCEPT !.n = p, !.rem = Removed(p), !.add = Added(p)]
    BY <1>2 DEF ReceiveDiff, store
  <1>5. /\ job'.n = p /\ job'.rem = Removed(p) /\ job'.add = Added(p) /\ job'.cursor = 0
        /\ job' = [n |-> job'.n, rem |-> job'.rem, add |-> job'.add,
                   cursor |-> job'.cursor, total |-> job'.total]
    BY <1>4 DEF NoJob
  <1>6. /\ Virtual' = Virtual /\ Virtual \in Pos /\ Virtual.line = Len(hist) /\ Len(hist) \in Nat
    BY <1>1, <1>4, HistTyped DEF Virtual, Newest
  <1>7. /\ ghost'.at = ghost.at /\ ghost'.upto = ghost.upto
        /\ ghost'.floor = IF Stale(p) THEN Virtual ELSE ghost.floor
        /\ ~ghost'.astray => ~ghost.astray /\ ~Stale(p)
        /\ ghost' \in [at : [line : Nat, n : Nat], upto : Nat, astray : BOOLEAN,
                       floor : [line : Nat, n : Nat]]
    <2>1. PICK b : b = (ghost.astray \/ Stale(p))
      OBVIOUS
    <2>2. b \in BOOLEAN /\ (~b => ~ghost.astray /\ ~Stale(p))
      BY <2>1, Zenon
    <2>3. PICK f : f = IF Stale(p) THEN Virtual ELSE ghost.floor
      OBVIOUS
    <2>4. f \in [line : Nat, n : Nat]
      BY <2>3, <1>1, <1>6 DEF TypeOK, Pos
    <2>5. ghost' = [ghost EXCEPT !.astray = b, !.floor = f]
      BY <2>1, <2>3, <1>2 DEF ReceiveDiff
    <2>6. QED
      BY <2>2, <2>3, <2>4, <2>5, <1>1 DEF TypeOK
  <1>8. /\ queue' \in Seq(Pos) /\ DOMAIN queue' = 1..Len(queue) - 1
        /\ \A i \in 1..Len(queue) - 1 : queue'[i] = queue[i + 1] /\ i + 1 \in 1..Len(queue)
    BY <1>1, <1>4
  <1>9. TypeOK'
    <2>1. ASSUME NEW i \in DOMAIN queue' PROVE Committed(queue[i])' /\ queue'[i].n > 1
      <3>1. queue'[i] = queue[i + 1] /\ i + 1 \in DOMAIN queue
        BY <1>1, <1>8
      <3>2. Committed(queue[i + 1]) /\ queue[i + 1].n > 1
        BY <3>1, <1>1 DEF TypeOK
      <3>3. QED
        BY <3>1, <3>2, <1>4 DEF Committed
    <2>2. /\ job'.n \in [line : Nat, n : Nat] /\ job'.cursor \in Nat
          /\ job'.rem \subseteq Outpoints /\ job'.add \subseteq Outpoints
      BY <1>5 DEF Pos, Removed, Added, Changed
    <2>3. QED
      BY <2>1, <2>2, <1>1, <1>4, <1>5, <1>7, <1>8 DEF TypeOK, Committed, Pos
  <1>10. FlowInv'
    <2>1. ASSUME NEW i \in DOMAIN queue', NEW j \in DOMAIN queue', i < j,
                 queue'[i].line = queue'[j].line
          PROVE  queue'[i].n < queue'[j].n
      <3>1. /\ queue'[i] = queue[i + 1] /\ i + 1 \in DOMAIN queue
            /\ queue'[j] = queue[j + 1] /\ j + 1 \in DOMAIN queue /\ i + 1 < j + 1
        BY <2>1, <1>1, <1>8
      <3>2. QED
        BY <2>1, <3>1 DEF IInv, FlowInv, QueueOrdered
    <2>2. ghost'.floor.line <= Len(hist') /\ NotBefore(Virtual', ghost'.floor)
      BY <1>4, <1>6, <1>7 DEF IInv, FlowInv, NotBefore, Pos
    <2>3. QED
      BY <2>1, <2>2 DEF FlowInv, QueueOrdered
  <1>11. ASSUME ~ghost'.astray
         PROVE  /\ Follows(tips)' /\ NotBefore(tips', ghost'.floor)
                /\ p.line = tips.line /\ p.n = tips.n + 1
                /\ QueueFrom(job.n)'
                /\ Holds(job.n, Top(job.n), job.rem \cup job.add)'
    <2>1. /\ Follows(tips) /\ NotBefore(tips, ghost.floor) /\ QueueFrom(tips)
          /\ Holds(tips, Top(tips), {}) /\ ~Stale(p)
      BY <1>4, <1>7, <1>11 DEF IInv, IdleInv
    <2>2. /\ p.line = tips.line /\ p.n > ghost.at.n /\ tips \in Pos
          /\ p.line \in 1..Len(hist) /\ p.n \in 1..Len(hist[p.line]) /\ Len(hist[p.line]) \in Nat
      BY <2>1, <1>1, <1>3, HistTyped DEF Stale, Follows, Committed, Pos
    <2>3. p.n > tips.n
      BY <2>1, <2>2, <1>1, <1>2 DEF QueueFrom
    <2>4. p.n = tips.n + 1
      <3>1. tips.n + 1 \in tips.n + 1 .. Len(hist[tips.line]) /\ tips.n \in Nat /\ p.n \in Nat
        BY <2>2, <2>3 DEF Pos
      <3>2. PICK i \in DOMAIN queue : queue[i].line = tips.line /\ queue[i].n = tips.n + 1
        BY <2>1, <3>1 DEF QueueFrom
      <3>3. CASE i = 1
        BY <3>2, <3>3, <1>2
      <3>4. CASE i # 1
        <4>1. 1 \in DOMAIN queue /\ 1 < i
          BY <3>4, <1>1
        <4>2. p.n < tips.n + 1
          BY <4>1, <3>2, <2>2, <1>2 DEF IInv, FlowInv, QueueOrdered
        <4>3. QED
          BY <4>2, <3>1, <2>3
      <3>5. QED
        BY <3>3, <3>4
    <2>5. ASSUME NEW n \in p.n + 1 .. Len(hist[p.line])
          PROVE  \E i \in DOMAIN queue' : queue'[i].line = p.line /\ queue'[i].n = n
      <3>1. n \in tips.n + 1 .. Len(hist[tips.line]) /\ n # p.n
        BY <2>2, <2>4 DEF Pos
      <3>2. PICK i \in DOMAIN queue : queue[i].line = p.line /\ queue[i].n = n
        BY <2>1, <2>2, <3>1 DEF QueueFrom
      <3>3. i # 1
        BY <3>1, <3>2, <1>2
      <3>4. i - 1 \in DOMAIN queue' /\ queue'[i - 1] = queue[i]
        BY <3>3, <1>1, <1>8
      <3>5. QED
        BY <3>2, <3>4
    <2>6. ASSUME NEW i \in DOMAIN queue', queue'[i].line = p.line
          PROVE  queue'[i].n > p.n
      <3>1. queue'[i] = queue[i + 1] /\ i + 1 \in DOMAIN queue /\ 1 \in DOMAIN queue /\ 1 < i + 1
        BY <1>1, <1>8
      <3>2. p.n < queue[i + 1].n /\ queue[i + 1] \in Pos
        BY <3>1, <2>6, <1>1, <1>2 DEF IInv, FlowInv, QueueOrdered
      <3>3. QED
        BY <3>1, <3>2 DEF Pos
    <2>7. QueueFrom(job.n)'
      BY <2>5, <2>6, <1>4, <1>5 DEF QueueFrom
    <2>8. ASSUME NEW o \in Outpoints \ (Removed(p) \cup Added(p))
          PROVE  \E m \in p.n..Top(p) : utxos[o] = hist[p.line][m].utxos[o]
      <3>1. PICK m \in tips.n..Top(tips) : utxos[o] = hist[p.line][m].utxos[o]
        BY <2>1, <2>2 DEF Holds
      <3>2. hist[p.line][p.n].utxos[o] = hist[p.line][tips.n].utxos[o]
        <4>1. tips.n = p.n - 1
          BY <2>2, <2>4 DEF Pos
        <4>2. QED
          BY <4>1, <1>1, <1>3, Untouched
      <3>3. p.n \in p.n..Top(p) /\ (m # tips.n => m \in p.n..Top(p))
        BY <2>2, <2>4, <1>1 DEF Top, Pos
      <3>4. QED
        BY <3>1, <3>2, <3>3
    <2>9. Top(job.n)' = Top(p)
      BY <1>5, <1>7 DEF Top
    <2>10. Holds(job.n, Top(job.n), job.rem \cup job.add)'
      BY <2>8, <2>9, <1>4, <1>5 DEF Holds
    <2>11. Follows(tips)' /\ NotBefore(tips', ghost'.floor)
      BY <2>1, <1>4, <1>7 DEF Follows, Committed
    <2>12. QED
      BY <2>2, <2>4, <2>7, <2>10, <2>11
  <1>12. Removed(job.n)' = Removed(p) /\ Added(job.n)' = Added(p) /\ Committed(job.n)'
    BY <1>3, <1>4, <1>5 DEF Removed, Added, Changed, Present, At, Before, Committed
  <1>13. UpdateInv'
    BY <1>3, <1>4, <1>5, <1>11, <1>12 DEF UpdateInv
  <1>14. QED
    BY <1>4, <1>9, <1>10, <1>13 DEF IInv, IdleInv, ResyncInv, DownInv, Resyncing

(* One key written while an update is under way.                           *)
LEMMA EntryKeeps ==
  ASSUME IInv, NEW o \in Outpoints, NEW v \in Nat, pc = "update", UNCHANGED pc,
         UNCHANGED <<hist, queue, ibd, old, tips, ghost>>,
         utxos' = [utxos EXCEPT ![o] = v],
         job' = [n |-> job'.n, rem |-> job'.rem, add |-> job'.add,
                 cursor |-> job'.cursor, total |-> job'.total],
         job'.n = job.n, job'.cursor = job.cursor,
         job'.rem \subseteq job.rem, job'.add \subseteq job.add,
         job'.rem # {} => job'.add = job.add,
         job.rem \cup job.add \subseteq job'.rem \cup job'.add \cup {o},
         ~ghost.astray => o \in job'.rem \cup job'.add \/ v = At(job.n).utxos[o]
  PROVE  IInv'
  <1>1. TypeOK /\ job.n \in Pos /\ ghost.upto \in Nat /\ utxos \in [Outpoints -> Nat]
    BY DEF IInv, TypeOK, Pos
  <1>2. TypeOK'
    BY <1>1 DEF TypeOK, Committed
  <1>3. FlowInv'
    BY DEF IInv, FlowInv, QueueOrdered, Virtual, Newest
  <1>4. /\ Removed(job.n)' = Removed(job.n) /\ Added(job.n)' = Added(job.n)
        /\ Committed(job.n)' = Committed(job.n)
    BY DEF Removed, Added, Changed, Present, At, Before, Committed
  <1>5. Follows(tips)' = Follows(tips) /\ QueueFrom(job.n)' = QueueFrom(job.n)
    BY DEF Follows, Committed, QueueFrom
  <1>6. ASSUME ~ghost.astray PROVE Holds(job.n, Top(job.n), job.rem \cup job.add)'
    <2>1. Holds(job.n, Top(job.n), job.rem \cup job.add)
      BY <1>6 DEF IInv, UpdateInv, Updating
    <2>2. Top(job.n)' = Top(job.n) /\ job.n.n \in job.n.n..Top(job.n)
      BY <1>1 DEF Top, Pos
    <2>3. ASSUME NEW q \in Outpoints \ (job'.rem \cup job'.add)
          PROVE  \E m \in job.n.n..Top(job.n) : utxos'[q] = hist[job.n.line][m].utxos[q]
      <3>1. CASE q = o
        <4>1. utxos'[q] = hist[job.n.line][job.n.n].utxos[q]
          BY <3>1, <2>3, <1>1, <1>6 DEF At
        <4>2. QED
          BY <4>1, <2>2
      <3>2. CASE q # o
        <4>1. q \in Outpoints \ (job.rem \cup job.add) /\ utxos'[q] = utxos[q]
          BY <3>2, <2>3, <1>1
        <4>2. QED
          BY <4>1, <2>1 DEF Holds
      <3>3. QED
        BY <3>1, <3>2
    <2>4. QED
      BY <2>2, <2>3 DEF Holds
  <1>7. UpdateInv'
    BY <1>4, <1>5, <1>6 DEF IInv, UpdateInv, Updating
  <1>8. QED
    BY <1>2, <1>3, <1>7 DEF IInv, IdleInv, ResyncInv, DownInv, Resyncing

LEMMA RemoveKeeps == ASSUME IInv, NEW o \in Outpoints, RemoveEntry(o) PROVE IInv'
  <1>1. /\ pc = "update" /\ o \in job.rem /\ utxos' = [utxos EXCEPT ![o] = 0]
        /\ job' = [job EXCEPT !.rem = @ \ {o}]
        /\ UNCHANGED <<hist, queue, ibd, old, tips, pc, ghost>>
    BY DEF RemoveEntry, consensus
  <1>2. /\ job' = [n |-> job'.n, rem |-> job'.rem, add |-> job'.add,
                   cursor |-> job'.cursor, total |-> job'.total]
        /\ job'.n = job.n /\ job'.cursor = job.cursor
        /\ job'.rem = job.rem \ {o} /\ job'.add = job.add
    BY <1>1 DEF IInv, TypeOK
  <1>3. ASSUME ~ghost.astray, o \notin job.add PROVE At(job.n).utxos[o] = 0
    <2>1. job.rem \subseteq Removed(job.n) /\ job.add = Added(job.n)
      BY <1>1, <1>3 DEF IInv, UpdateInv, Updating
    <2>2. QED
      BY <2>1, <1>1, <1>3 DEF Removed, Added, Present
  <1>4. ~ghost.astray => o \in job'.rem \cup job'.add \/ 0 = At(job.n).utxos[o]
    BY <1>2, <1>3
  <1>5. QED
    BY <1>1, <1>2, <1>4, EntryKeeps

LEMMA AddKeeps == ASSUME IInv, NEW o \in Outpoints, AddEntry(o) PROVE IInv'
  <1>1. /\ pc = "update" /\ job.rem = {} /\ o \in job.add
        /\ utxos' = [utxos EXCEPT ![o] = At(job.n).utxos[o]]
        /\ job' = [job EXCEPT !.add = @ \ {o}]
        /\ UNCHANGED <<hist, queue, ibd, old, tips, pc, ghost>>
    BY DEF AddEntry, consensus
  <1>2. /\ job' = [n |-> job'.n, rem |-> job'.rem, add |-> job'.add,
                   cursor |-> job'.cursor, total |-> job'.total]
        /\ job'.n = job.n /\ job'.cursor = job.cursor
        /\ job'.rem = {} /\ job'.add = job.add \ {o}
    BY <1>1 DEF IInv, TypeOK
  <1>3. TypeOK /\ Committed(job.n)
    BY <1>1 DEF IInv, UpdateInv, Updating
  <1>4. PICK v \in Nat : v = At(job.n).utxos[o]
    BY <1>3, StateTyped
  <1>5. QED
    BY <1>1, <1>2, <1>4, EntryKeeps

LEMMA UpdateSupplyKeeps == ASSUME IInv, UpdateSupply PROVE IInv'
  <1>1. /\ UNCHANGED <<hist, queue, ibd, old, utxos, tips, job, ghost>> /\ pc = "update"
        /\ pc' = "updateTips" /\ job.rem = {} /\ job.add = {}
    BY DEF UpdateSupply, consensus
  <1>2. TypeOK' /\ FlowInv'
    BY <1>1 DEF IInv, TypeOK, FlowInv, QueueOrdered, Virtual, Newest, Committed
  <1>3. /\ Committed(job.n)' = Committed(job.n) /\ Follows(tips)' = Follows(tips)
        /\ QueueFrom(job.n)' = QueueFrom(job.n)
        /\ Holds(job.n, Top(job.n), {})' = Holds(job.n, Top(job.n), {})
    BY <1>1 DEF Committed, Follows, QueueFrom, Holds, Top
  <1>4. job.rem \cup job.add = {}
    BY <1>1
  <1>5. UpdateInv'
    BY <1>1, <1>3, <1>4 DEF IInv, UpdateInv, Updating
  <1>6. QED
    BY <1>1, <1>2, <1>5 DEF IInv, IdleInv, ResyncInv, DownInv, Resyncing

LEMMA UpdateTipsKeeps == ASSUME IInv, UpdateTips PROVE IInv'
  <1>1. /\ UNCHANGED <<hist, queue, ibd, old, utxos, ghost>> /\ pc = "updateTips"
        /\ pc' = "idle" /\ tips' = job.n /\ job' = NoJob
    BY DEF UpdateTips, consensus
  <1>2. TypeOK /\ job.n \in Pos /\ Committed(job.n) /\ ghost.at \in Pos
    BY <1>1 DEF IInv, UpdateInv, Updating, TypeOK, Pos
  <1>3. /\ job' = [n |-> job'.n, rem |-> job'.rem, add |-> job'.add,
                   cursor |-> job'.cursor, total |-> job'.total]
        /\ job'.n \in Pos /\ job'.cursor \in Nat /\ job'.rem = {} /\ job'.add = {}
    BY <1>1 DEF NoJob, Nowhere, Pos
  <1>4. TypeOK' /\ FlowInv'
    BY <1>1, <1>2, <1>3 DEF IInv, TypeOK, FlowInv, QueueOrdered, Virtual, Newest, Committed, Pos
  <1>5. IdleInv'
    <2> SUFFICES ASSUME ~ghost.astray
                 PROVE  Follows(tips)' /\ NotBefore(tips', ghost'.floor)
                        /\ QueueFrom(tips)' /\ Holds(tips, Top(tips), {})'
      BY <1>1 DEF IdleInv
    <2>1. /\ Follows(tips) /\ NotBefore(tips, ghost.floor)
          /\ job.n.line = tips.line /\ job.n.n = tips.n + 1
          /\ QueueFrom(job.n) /\ Holds(job.n, Top(job.n), {})
      BY <1>1 DEF IInv, UpdateInv, Updating
    <2>2. Follows(tips)' /\ NotBefore(tips', ghost'.floor)
      <3>1. tips \in Pos /\ ghost.floor \in Pos
        BY <2>1, <1>2 DEF Follows, TypeOK, Pos
      <3>2. QED
        BY <2>1, <3>1, <1>1, <1>2 DEF Follows, Committed, NotBefore, Pos
    <2>3. QueueFrom(tips)' /\ Holds(tips, Top(tips), {})'
      BY <2>1, <1>1 DEF QueueFrom, Holds, Top
    <2>4. QED
      BY <2>2, <2>3
  <1>6. QED
    BY <1>1, <1>4, <1>5 DEF IInv, UpdateInv, ResyncInv, DownInv, Updating, Resyncing

-----------------------------------------------------------------------------
LEMMA NextKeeps == ASSUME IInv, [Next]_vars PROVE IInv'
  <1>1. ASSUME Client \/ UNCHANGED vars PROVE IInv'
    <2>1. ibd \in {"none", "replaced", "transit", "imported", "stable"}
      BY DEF IInv, TypeOK
    <2>2. QED
      BY <1>1, <2>1, StutterKeeps DEF Client, StartWalk, ReadPage, consensus, store, vars, indexVars
  <1>2. ASSUME Update PROVE IInv'
    BY <1>2, ReceiveKeeps, RemoveKeeps, AddKeeps, UpdateSupplyKeeps, UpdateTipsKeeps DEF Update
  <1>3. ASSUME Resync PROVE IInv'
    BY <1>3, HandleResetKeeps, DeleteTipsKeeps, DeleteSupplyKeeps, DeleteUtxosKeeps, ScanKeeps,
       InsertSupplyKeeps, ResyncTipsKeeps DEF Resync
  <1>4. QED
    BY <1>1, <1>2, <1>3, ConsensusStepKeeps, CrashKeeps, NewKeeps DEF Next

LEMMA IInvHolds == Spec => []IInv
  BY InitIInv, NextKeeps, PTL DEF Spec

(* Whatever UtxoIndex::update and resync were doing when the process died, *)
(* and whatever consensus committed, imported or replaced meanwhile, tips  *)
(* stored for the present virtual state mean stored entries equal to the   *)
(* virtual UTXO set, unless a stale difference reached the index since it  *)
(* was rebuilt or a restart took it for another state.                     *)
THEOREM SyncedMeansEqualHolds == Spec => []SyncedMeansEqual
  <1>1. IInv => SyncedMeansEqual
    <2> SUFFICES ASSUME IInv, ~ghost.astray, tips = Virtual PROVE utxos = At(Virtual).utxos
      BY DEF SyncedMeansEqual
    <2>1. tips # Nowhere
      BY HistTyped DEF IInv, Nowhere
    <2>2. QED
      BY <2>1, TipsVouch
  <1>2. QED
    BY <1>1, IInvHolds, PTL

-----------------------------------------------------------------------------
(* The refinement.                                                         *)

(* A step that leaves what readers rely on alone, or that takes the index  *)
(* from one state in which nobody can rely on it to another.               *)
LEMMA ViewStutter ==
  ASSUME UNCHANGED hist, served' = served, visible' = visible, ghost'.floor = ghost.floor
  PROVE  [Promise!Next]_(Promise!vars)
  BY DEF Promise!vars

LEMMA SilentStutter ==
  ASSUME UNCHANGED hist, Unreliable, Unreliable', ghost'.floor = ghost.floor
  PROVE  [Promise!Next]_(Promise!vars)
  BY ViewStutter DEF served, visible

LEMMA ViewLost ==
  ASSUME Unreliable', ghost'.floor = Virtual',
         UNCHANGED hist \/ \E s \in States : hist' = Append(hist, <<s>>)
  PROVE  [Promise!Next]_(Promise!vars)
  <1>1. served' = Promise!Nowhere /\ visible' = <<>>
    BY DEF served, visible, Nowhere, Promise!Nowhere
  <1>2. ghost'.floor = Promise!Newest'
    BY DEF Virtual, Newest, Promise!Newest
  <1>3. Promise!Lose
    BY <1>1, <1>2 DEF Promise!Lose
  <1>4. QED
    BY <1>3 DEF Promise!Next

LEMMA ViewServed ==
  ASSUME TypeOK, UNCHANGED hist, Unreliable, ~Unreliable', ghost'.floor = ghost.floor,
         NEW p \in Pos, Committed(p), NotBefore(p, ghost.floor),
         tips' = p, pc' = "idle", utxos' = At(p).utxos
  PROVE  [Promise!Next]_(Promise!vars)
  <1>1. served = Promise!Nowhere
    BY DEF served, Nowhere, Promise!Nowhere
  <1>2. served' = [line |-> p.line, n |-> p.n] /\ visible' = hist[p.line][p.n].utxos
    BY DEF served, visible, Updating, Pos, At
  <1>3. p.line \in DOMAIN hist /\ p.n \in DOMAIN hist[p.line]
    BY DEF Committed
  <1>4. p.line > ghost.floor.line \/ (p.line = ghost.floor.line /\ p.n >= ghost.floor.n)
    BY DEF NotBefore
  <1>5. Promise!Serve
    BY <1>1, <1>2, <1>3, <1>4 DEF Promise!Serve
  <1>6. QED
    BY <1>5 DEF Promise!Next

LEMMA Exact ==
  ASSUME TypeOK, NEW p \in Pos, Committed(p), Holds(p, p.n, {})
  PROVE  utxos = At(p).utxos
  <1>1. p.n \in Nat
    BY DEF Pos
  <1>2. ASSUME NEW o \in Outpoints PROVE utxos[o] = At(p).utxos[o]
    BY <1>1 DEF Holds, At
  <1>3. utxos \in [Outpoints -> Nat] /\ At(p).utxos \in [Outpoints -> Nat]
    BY StateTyped DEF TypeOK
  <1>4. QED
    BY <1>2, <1>3

(* History grows under the readers' feet.                                  *)
LEMMA GrowthUnseen ==
  ASSUME IInv, Grown, UNCHANGED <<utxos, tips, pc, ghost>>
  PROVE  served' = served /\ visible' = visible
  <1>1. Unreliable' = Unreliable /\ Updating' = Updating
    BY DEF Unreliable, Updating, Resyncing
  <1>2. ASSUME Updating, ~Unreliable PROVE At(tips)' = At(tips)
    <2>1. TypeOK /\ Committed(tips)
      BY <1>2 DEF IInv, UpdateInv, Follows, Unreliable
    <2>2. PICK t : t = tips
      OBVIOUS
    <2>3. At(t)' = At(t)
      BY <2>1, <2>2, PositionKept
    <2>4. QED
      BY <2>2, <2>3 DEF At
  <1>3. QED
    BY <1>1, <1>2 DEF served, visible

LEMMA CommitSteps ==
  ASSUME IInv, NEW l \in 1..Len(hist), NEW p \in Parents, Commit(l, p),
         UNCHANGED <<utxos, tips, pc, ghost>>
  PROVE  [Promise!Next]_(Promise!vars)
  <1>1. PICK s : s = [parents |-> p, utxos |-> UtxoOf[p]]
    OBVIOUS
  <1>2. TypeOK /\ Grown /\ s \in States /\ hist' = [hist EXCEPT ![l] = Append(@, s)]
        /\ l \in DOMAIN hist
    BY <1>1, CommitGrows, HistTyped DEF IInv
  <1>3. Promise!Commit
    BY <1>2, GrowthUnseen DEF Promise!Commit
  <1>4. QED
    BY <1>3 DEF Promise!Next

LEMMA LineSteps ==
  ASSUME IInv, NEW p \in Parents, NEW U \in UtxoSets, StartLine(p, U),
         UNCHANGED <<utxos, tips, pc, ghost>>
  PROVE  [Promise!Next]_(Promise!vars)
  <1>1. PICK s : s = [parents |-> p, utxos |-> U]
    OBVIOUS
  <1>2. TypeOK /\ Grown /\ s \in States /\ hist' = Append(hist, <<s>>)
    BY <1>1, LineGrows DEF IInv, StartLine
  <1>3. Promise!Jump
    BY <1>2, GrowthUnseen DEF Promise!Jump
  <1>4. QED
    BY <1>3 DEF Promise!Next

LEMMA StutterSteps ==
  ASSUME UNCHANGED <<hist, utxos, tips, pc, ghost>>
  PROVE  [Promise!Next]_(Promise!vars)
  <1>1. served' = served /\ visible' = visible
    BY DEF served, visible, Unreliable, Updating, Resyncing, At
  <1>2. QED
    BY <1>1, ViewStutter

LEMMA ConsensusSteps == ASSUME IInv, Consensus PROVE [Promise!Next]_(Promise!vars)
  <1>1. TypeOK /\ Len(hist) \in Nat \ {0} /\ old \in 0..Len(hist) - 1 /\ Committed(Virtual)
    BY HistTyped DEF IInv, TypeOK
  <1>2. At(Virtual).parents \in Parents /\ At(Virtual).utxos \in UtxoSets
    BY <1>1, StateTyped
  <1>3. ASSUME NEW p \in Parents, CommitVirtual(p) PROVE [Promise!Next]_(Promise!vars)
    BY <1>1, <1>3, CommitSteps DEF CommitVirtual, store
  <1>4. ASSUME NEW p \in Parents, LateCommit(p) PROVE [Promise!Next]_(Promise!vars)
    <2>1. PICK l \in 1..Len(hist) : l = old
      BY <1>1, <1>4 DEF LateCommit
    <2>2. QED
      BY <2>1, <1>4, CommitSteps DEF LateCommit, store
  <1>5. ASSUME NEW p \in Parents, ReplaceConsensus(p) PROVE [Promise!Next]_(Promise!vars)
    <2>1. NoEntry \in UtxoSets
      BY SetsTyped
    <2>2. QED
      BY <2>1, <1>5, LineSteps DEF ReplaceConsensus, store
  <1>6. ASSUME NEW p \in Parents, CatchUp(p) PROVE [Promise!Next]_(Promise!vars)
    <2>1. PICK U \in UtxoSets : U = At(Virtual).utxos
      BY <1>2
    <2>2. QED
      BY <2>1, <1>6, LineSteps DEF CatchUp, store
  <1>7. ASSUME Import PROVE [Promise!Next]_(Promise!vars)
    <2>1. PICK p \in Parents : p = At(Virtual).parents
      BY <1>2
    <2>2. UtxoOf[p] \in UtxoSets
      BY SetsTyped
    <2>3. QED
      BY <2>1, <2>2, <1>7, LineSteps DEF Import, store
  <1>8. ASSUME SetStable PROVE [Promise!Next]_(Promise!vars)
    BY <1>8, StutterSteps DEF SetStable, store
  <1>9. QED
    BY <1>3, <1>4, <1>5, <1>6, <1>7, <1>8, IndexAssumption DEF Consensus

LEMMA CrashSteps == ASSUME IInv, Crash PROVE [Promise!Next]_(Promise!vars)
  <1>1. TypeOK /\ pc' = "down" /\ ghost' = [ghost EXCEPT !.floor = Newest(Len(hist))']
    BY DEF Crash, IInv
  <1>2. ghost'.floor = Virtual' /\ Unreliable'
    BY <1>1 DEF Virtual, Newest, TypeOK, Unreliable
  <1>3. UNCHANGED hist \/ \E s \in States : hist' = Append(hist, <<s>>)
    <2> SUFFICES ASSUME ~UNCHANGED hist PROVE \E s \in States : hist' = Append(hist, <<s>>)
      OBVIOUS
    <2>1. PICK k \in {0} \cup Outpoints :
            StartLine(At(Virtual).parents, UpTo(UtxoOf[At(Virtual).parents], k))
      BY DEF Crash
    <2>2. PICK p \in Parents : p = At(Virtual).parents
      BY <1>1, HistTyped, StateTyped
    <2>3. PICK U \in UtxoSets : U = UpTo(UtxoOf[p], k)
      BY SetsTyped
    <2>4. hist' = Append(hist, <<[parents |-> p, utxos |-> U]>>)
      BY <2>1, <2>2, <2>3 DEF StartLine
    <2>5. [parents |-> p, utxos |-> U] \in States
      BY DEF States
    <2>6. QED
      BY <2>4, <2>5
  <1>4. QED
    BY <1>2, <1>3, ViewLost

LEMMA NewSteps == ASSUME IInv, New PROVE [Promise!Next]_(Promise!vars)
  <1>1. UNCHANGED <<hist, utxos, tips>> /\ pc = "down" /\ Unreliable
    BY DEF New, consensus, store, Unreliable
  <1>2. TypeOK /\ Virtual \in Pos /\ Committed(Virtual) /\ Virtual.n = Len(hist[Virtual.line])
    BY HistTyped DEF IInv
  <1>3. ghost'.floor = ghost.floor /\ ghost'.upto = ghost.upto /\ ghost.upto \in Nat
    BY <1>2 DEF New, TypeOK
  <1>4. CASE Unreliable'
    BY <1>1, <1>3, <1>4, SilentStutter
  <1>5. CASE ~Unreliable'
    <2>1. IsSynced /\ pc' = "idle"
      BY <1>5 DEF New, Unreliable, Resyncing
    <2>2. ~ghost.astray /\ tips = Virtual
      <3>1. PICK b : b = (ghost.astray \/ tips # Virtual)
        OBVIOUS
      <3>2. ghost' = [ghost EXCEPT !.astray = b] /\ b \in BOOLEAN
        BY <2>1, <3>1 DEF New
      <3>3. ~ghost'.astray /\ ghost'.astray = b
        BY <1>2, <1>5, <3>2 DEF Unreliable, TypeOK
      <3>4. QED
        BY <3>1, <3>3, Zenon
    <2>3. utxos = At(Virtual).utxos
      BY <2>1, <2>2, TipsVouch DEF IsSynced
    <2>4. NotBefore(Virtual, ghost.floor)
      BY DEF IInv, FlowInv
    <2>5. PICK p \in Pos : p = Virtual
      BY <1>2
    <2>6. QED
      BY <1>1, <1>2, <1>3, <1>5, <2>1, <2>2, <2>3, <2>4, <2>5, ViewServed
  <1>6. QED
    BY <1>4, <1>5

LEMMA ReceiveSteps == ASSUME IInv, ReceiveDiff PROVE [Promise!Next]_(Promise!vars)
  <1>1. PICK p : p = Head(queue)
    OBVIOUS
  <1>2. UNCHANGED <<hist, utxos, tips>> /\ pc = "idle" /\ pc' = "update" /\ TypeOK
    BY DEF ReceiveDiff, store, IInv
  <1>3. /\ ghost'.upto = ghost.upto
        /\ ghost'.floor = IF Stale(p) THEN Virtual ELSE ghost.floor
        /\ ghost.astray \/ Stale(p) => ghost'.astray
        /\ ghost'.astray => ghost.astray \/ Stale(p)
    <2>1. PICK b : b = (ghost.astray \/ Stale(p))
      OBVIOUS
    <2>2. b \in BOOLEAN /\ (ghost.astray \/ Stale(p) => b) /\ (b => ghost.astray \/ Stale(p))
      BY <2>1, Zenon
    <2>3. PICK f : f = IF Stale(p) THEN Virtual ELSE ghost.floor
      OBVIOUS
    <2>4. ghost' = [ghost EXCEPT !.astray = b, !.floor = f]
      BY <2>1, <2>3, <1>1 DEF ReceiveDiff
    <2>5. ghost'.astray = b /\ ghost'.floor = f /\ ghost'.upto = ghost.upto
      BY <2>4, <1>2 DEF TypeOK
    <2>6. QED
      BY <2>2, <2>3, <2>5
  <1>4. CASE Stale(p)
    <2>1. Virtual' = Virtual /\ Unreliable'
      BY <1>2, <1>3, <1>4 DEF Virtual, Newest, Unreliable
    <2>2. QED
      BY <1>2, <1>3, <1>4, <2>1, ViewLost
  <1>5. CASE ~Stale(p) /\ Unreliable
    <2>1. Unreliable'
      BY <1>2, <1>3, <1>5 DEF Unreliable, Resyncing
    <2>2. QED
      BY <1>2, <1>3, <1>5, <2>1, SilentStutter
  <1>6. CASE ~Stale(p) /\ ~Unreliable
    <2>1. ~Unreliable' /\ ~ghost.astray /\ ~ (tips.n < ghost.upto)
      BY <1>2, <1>3, <1>6 DEF Unreliable, Resyncing
    <2>2. Follows(tips) /\ Holds(tips, Top(tips), {})
      BY <2>1, <1>2 DEF IInv, IdleInv
    <2>3. PICK t \in Pos : t = tips /\ Committed(t)
      BY <2>2 DEF Follows
    <2>4. Top(tips) = tips.n
      BY <2>1, <2>3, <1>2 DEF Top, Pos, TypeOK
    <2>5. utxos = At(tips).utxos
      BY <2>2, <2>3, <2>4, <1>2, Exact
    <2>6. served' = served /\ visible' = visible
      BY <1>2, <1>6, <2>1, <2>5 DEF served, visible, Updating, At
    <2>7. QED
      BY <1>2, <1>3, <1>6, <2>6, ViewStutter
  <1>7. QED
    BY <1>4, <1>5, <1>6

LEMMA UpdateTipsSteps == ASSUME IInv, UpdateTips PROVE [Promise!Next]_(Promise!vars)
  <1>1. UNCHANGED <<hist, utxos, ghost>> /\ pc = "updateTips" /\ pc' = "idle" /\ tips' = job.n
    BY DEF UpdateTips, consensus
  <1>2. /\ TypeOK /\ Committed(job.n) /\ tips \in Pos /\ ghost.floor \in Pos /\ ghost.upto \in Nat
    BY <1>1 DEF IInv, UpdateInv, Updating, TypeOK, Pos
  <1>3. PICK p \in Pos : p = job.n
    BY DEF IInv, TypeOK, Pos
  <1>4. CASE ghost.astray
    BY <1>1, <1>4, SilentStutter DEF Unreliable
  <1>5. CASE ~ghost.astray
    <2>1. /\ NotBefore(tips, ghost.floor) /\ p.line = tips.line /\ p.n = tips.n + 1
          /\ Holds(p, Top(p), {})
      BY <1>1, <1>3, <1>5 DEF IInv, UpdateInv, Updating
    <2>2. Unreliable = (tips.n < ghost.upto) /\ Unreliable' = (p.n < ghost.upto)
      BY <1>1, <1>3, <1>5 DEF Unreliable, Resyncing
    <2>3. CASE p.n < ghost.upto
      <3>1. tips.n < ghost.upto
        BY <2>1, <2>3, <1>2 DEF Pos
      <3>2. QED
        BY <2>2, <2>3, <3>1, <1>1, SilentStutter
    <2>4. CASE ~ (p.n < ghost.upto)
      <3>1. Top(p) = p.n
        BY <2>4, <1>2 DEF Top, Pos
      <3>2. Committed(p) /\ utxos = At(p).utxos
        BY <3>1, <2>1, <1>2, <1>3, Exact
      <3>3. CASE tips.n < ghost.upto
        <4>1. NotBefore(p, ghost.floor)
          BY <2>1, <1>2 DEF NotBefore, Pos
        <4>2. QED
          BY <2>2, <2>4, <3>2, <3>3, <4>1, <1>1, <1>2, <1>3, ViewServed
      <3>4. CASE ~ (tips.n < ghost.upto)
        <4>1. served = tips /\ served' = p /\ visible' = hist[p.line][p.n].utxos
          BY <2>2, <2>4, <3>2, <3>4, <1>1, <1>3 DEF served, visible, Updating, At
        <4>2. p = [tips EXCEPT !.n = @ + 1]
          BY <2>1, <1>2 DEF Pos
        <4>3. tips.line \in DOMAIN hist /\ tips.n + 1 \in DOMAIN hist[tips.line]
          BY <2>1, <3>2 DEF Committed
        <4>4. Promise!Step
          BY <2>1, <4>1, <4>2, <4>3, <1>1 DEF Promise!Step
        <4>5. QED
          BY <4>4 DEF Promise!Next
      <3>5. QED
        BY <3>3, <3>4
    <2>5. QED
      BY <2>3, <2>4
  <1>6. QED
    BY <1>4, <1>5

LEMMA UpdateSteps == ASSUME IInv, Update PROVE [Promise!Next]_(Promise!vars)
  <1>1. ASSUME NEW o \in Outpoints, RemoveEntry(o) \/ AddEntry(o) PROVE [Promise!Next]_(Promise!vars)
    <2>1. UNCHANGED <<hist, tips, pc, ghost>> /\ pc = "update"
      BY <1>1 DEF RemoveEntry, AddEntry, consensus
    <2>2. QED
      BY <2>1, ViewStutter DEF served, visible, Unreliable, Updating, Resyncing, At
  <1>2. CASE UpdateSupply
    <2>1. UNCHANGED <<hist, tips, ghost>> /\ pc = "update" /\ pc' = "updateTips"
      BY <1>2 DEF UpdateSupply, consensus
    <2>2. QED
      BY <2>1, ViewStutter DEF served, visible, Unreliable, Updating, Resyncing, At
  <1>3. QED
    BY <1>1, <1>2, ReceiveSteps, UpdateTipsSteps DEF Update

LEMMA ResyncSteps == ASSUME IInv, Resync PROVE [Promise!Next]_(Promise!vars)
  <1>1. CASE HandleConsensusReset
    <2>1. UNCHANGED hist /\ Unreliable' /\ ghost' = [ghost EXCEPT !.floor = Virtual]
      BY <1>1 DEF HandleConsensusReset, consensus, Unreliable, Resyncing
    <2>2. ghost'.floor = Virtual'
      BY <2>1 DEF IInv, TypeOK, Virtual, Newest
    <2>3. QED
      BY <2>1, <2>2, ViewLost
  <1>2. CASE DeleteTips \/ DeleteSupply \/ DeleteUtxos \/ InsertSupply \/ ScanChunk
    <2>1. UNCHANGED hist /\ Unreliable
      BY <1>2 DEF DeleteTips, DeleteSupply, DeleteUtxos, InsertSupply, ScanChunk,
         consensus, Unreliable, Resyncing
    <2>2. pc' \in {"deleteSupply", "deleteUtxos", "scan", "insertSupply", "resyncTips"}
      BY <1>2 DEF DeleteTips, DeleteSupply, DeleteUtxos, InsertSupply, ScanChunk
    <2>3. ghost'.floor = ghost.floor
      BY <1>2 DEF DeleteTips, DeleteSupply, DeleteUtxos, InsertSupply, ScanChunk, IInv, TypeOK
    <2>4. QED
      BY <2>1, <2>2, <2>3, SilentStutter DEF Unreliable, Resyncing
  <1>3. CASE ResyncTips
    <2>1. UNCHANGED <<hist, utxos, ghost>> /\ pc = "resyncTips" /\ pc' = "idle" /\ tips' = job.n
          /\ Unreliable
      BY <1>3 DEF ResyncTips, Unreliable, Resyncing
    <2>2. /\ TypeOK /\ Committed(job.n) /\ NotBefore(job.n, ghost.floor)
          /\ Holds(job.n, ghost.upto, {}) /\ ghost.upto \in job.n.n..Len(hist[job.n.line])
          /\ ghost.upto \in Nat
      BY <2>1 DEF IInv, ResyncInv, Resyncing, TypeOK
    <2>3. PICK p \in Pos : p = job.n
      BY DEF IInv, TypeOK, Pos
    <2>4. CASE Unreliable'
      BY <2>1, <2>4, SilentStutter
    <2>5. CASE ~Unreliable'
      <3>1. ~ (p.n < ghost.upto)
        BY <2>1, <2>3, <2>5 DEF Unreliable
      <3>2. ghost.upto = p.n
        <4>1. Len(hist[p.line]) \in Nat
          BY <2>2, <2>3, HistTyped DEF Committed
        <4>2. QED
          BY <2>2, <2>3, <3>1, <4>1 DEF Pos
      <3>3. utxos = At(p).utxos
        BY <2>2, <2>3, <3>2, Exact
      <3>4. QED
        BY <2>1, <2>2, <2>3, <2>5, <3>3, ViewServed
    <2>6. QED
      BY <2>4, <2>5
  <1>4. QED
    BY <1>1, <1>2, <1>3 DEF Resync

(* Those who read the index while they can rely on it see committed UTXO   *)
(* sets whole, one after the other along a line and without a gap, and     *)
(* after a crash, a rebuild or a stale difference none that is older than  *)
(* what was then the newest: update, resync and new implement UtxoView.    *)
THEOREM ImplementsViewHolds == Spec => ImplementsView
  <1>1. Init => Promise!Init
    <2> SUFFICES ASSUME Init PROVE Promise!Init
      OBVIOUS
    <2>1. PICK p \in Parents : hist = <<<<[parents |-> p, utxos |-> UtxoOf[p]]>>>>
      BY DEF Init
    <2>2. [parents |-> p, utxos |-> UtxoOf[p]] \in States
      BY SetsTyped DEF States
    <2>3. served = Promise!Nowhere /\ visible = <<>>
      BY DEF Init, served, visible, Unreliable, Nowhere, Promise!Nowhere
    <2>4. ghost.floor = Promise!Newest
      BY DEF Init, Virtual, Newest, Promise!Newest
    <2>5. QED
      BY <2>1, <2>2, <2>3, <2>4 DEF Promise!Init
  <1>2. ASSUME IInv, [Next]_vars PROVE [Promise!Next]_(Promise!vars)
    <2>1. CASE Client \/ UNCHANGED vars
      BY <2>1, StutterSteps DEF Client, StartWalk, ReadPage, consensus, store, vars
    <2>2. QED
      BY <1>2, <2>1, ConsensusSteps, CrashSteps, NewSteps, UpdateSteps, ResyncSteps DEF Next
  <1>3. QED
    BY <1>1, <1>2, IInvHolds, PTL DEF Spec, ImplementsView, Promise!Spec
=============================================================================
