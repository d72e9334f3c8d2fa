---------------------------- MODULE PruningProofs ----------------------------
(***************************************************************************)
(* Proofs about the pruning point for every chain, every set of side       *)
(* blocks and any number of catch-ups, failures and crashes: what pruning  *)
(* keeps, and that a move of the pruning point can always be finished.     *)
(***************************************************************************)
EXTENDS Pruning, TLAPS

Job == [sink : Chain, next : 0 .. Height + 1, pp : Chain, root : Chain,
        prune : BOOLEAN, recover : BOOLEAN, del : SUBSET Blocks]

PointTypes == pp \in Chain /\ root \in Chain /\ position \in Chain /\ virt \in Chain
                 /\ message \in Chain \cup {Empty}
DataType == data \in [Blocks -> 0 .. 3]
JobType == job \in Job
Types == PointTypes /\ DataType /\ JobType

(* A deletion was started for an older pruning point and retention root, or for the current. *)
Ordered ==
    /\ root <= pp /\ job.root <= root /\ job.root <= job.pp /\ job.pp <= pp
    /\ job.del \subseteq ToDelete(job.pp, job.root)

LEMMA ConstantFacts ==
    /\ Height \in Nat /\ Depth \in Nat /\ Depth > 0 /\ Window \in Nat
    /\ Fork \in [Blocks -> Chain] /\ Merge \in [Blocks -> Chain]
    /\ \A b \in Chain : Fork[b] = b
    /\ Samples \subseteq Chain /\ Chain = 0 .. Height /\ Chain \subseteq Blocks
BY PruningAssumption DEF Samples, Chain, Blocks

LEMMA ChainFacts == Height \in Nat /\ Chain = 0 .. Height /\ Samples \subseteq Chain
BY PruningAssumption DEF Samples, Chain

(* The shape of the worker's local variables, for the updates of one field. *)
LEMMA JobShape ==
    ASSUME JobType
    PROVE  /\ job = [sink |-> job.sink, next |-> job.next, pp |-> job.pp, root |-> job.root,
                     prune |-> job.prune, recover |-> job.recover, del |-> job.del]
           /\ job.sink \in Chain /\ job.next \in 0 .. Height + 1 /\ job.pp \in Chain
           /\ job.root \in Chain /\ job.prune \in BOOLEAN /\ job.recover \in BOOLEAN
           /\ job.del \subseteq Blocks
BY DEF JobType, Job

LEMMA NoJobTyped == NoJob \in Job
BY ConstantFacts DEF NoJob, Job

LEMMA TypesInit == Init => Types
<1> SUFFICES ASSUME Init PROVE Types
  OBVIOUS
<1>1. PointTypes
  BY ConstantFacts DEF Init, PointTypes
<1>2. DataType
  BY DEF Init, DataType, UtxoState, Nothing
<1>3. JobType
  BY NoJobTyped DEF Init, JobType
<1> QED
  BY <1>1, <1>2, <1>3 DEF Types

(* The points stay on the chain. *)
LEMMA PointStep == Types /\ [Next]_vars => PointTypes'
<1> SUFFICES ASSUME Types, [Next]_vars PROVE PointTypes'
  OBVIOUS
<1>1. CASE ResolveVirtual
  <2>1. virt \in Chain /\ virt < Height /\ virt' = virt + 1
    BY <1>1 DEF ResolveVirtual, Types, PointTypes
  <2>2. virt' \in Chain
    BY <2>1, ChainFacts
  <2> QED
    BY <1>1, <2>2 DEF ResolveVirtual, Types, PointTypes, meta
<1>2. CASE NotifyVirtual
  BY <1>2 DEF NotifyVirtual, Types, PointTypes, meta
<1>3. CASE Receive
  BY <1>3 DEF Receive, Types, PointTypes, meta
<1>4. CASE AdvancePruningPoint
  BY <1>4, ConstantFacts DEF AdvancePruningPoint, NextPruningPoint, RetentionRoots, Types, PointTypes, meta
<1>5. CASE MoveOne
  <2>1. position' = job.next => position' \in Chain
    BY <1>5, JobShape, ConstantFacts DEF MoveOne, Types, PointTypes
  <2> QED
    BY <1>5, <2>1 DEF MoveOne, Types, PointTypes
<1>6. CASE Moved
  BY <1>6 DEF Moved, Types, PointTypes, meta
<1>7. CASE CheckRecovery
  BY <1>7 DEF CheckRecovery, Types, PointTypes, meta
<1>8. CASE PreparePrune
  BY <1>8 DEF PreparePrune, Forget, Types, PointTypes, meta
<1>9. CASE StartPrune
  BY <1>9 DEF StartPrune, Forget, Types, PointTypes, meta
<1>10. CASE DeleteOne
  BY <1>10 DEF DeleteOne, Types, PointTypes, meta
<1>11. CASE SetCheckpoint
  BY <1>11 DEF SetCheckpoint, Types, PointTypes, meta
<1>12. CASE CatchUp
  BY <1>12, ConstantFacts DEF CatchUp, RetentionRoots, Types, PointTypes
<1>13. CASE Resume
  BY <1>13 DEF Resume, Types, PointTypes, meta
<1>14. CASE SyncBodies
  BY <1>14 DEF SyncBodies, Types, PointTypes, meta
<1>15. CASE SyncSmt
  BY <1>15 DEF SyncSmt, Types, PointTypes, meta
<1>16. CASE SyncPool
  BY <1>16 DEF SyncPool, Types, PointTypes, meta
<1>17. CASE SyncUtxoSet
  BY <1>17 DEF SyncUtxoSet, Types, PointTypes, meta
<1>18. CASE Fail
  BY <1>18 DEF Fail, Types, PointTypes, meta
<1>19. CASE Crash
  BY <1>19 DEF Crash, Forget, Types, PointTypes, meta
<1>20. CASE UNCHANGED vars
  BY <1>20 DEF vars, meta, worker, ibd, Types, PointTypes
<1>21. CASE InterruptPrune
  BY <1>21 DEF InterruptPrune, Types, PointTypes, meta
<1>22. CASE SignalExit
  BY <1>22 DEF SignalExit, Types, PointTypes, meta
<1>23. CASE Restart
  BY <1>23 DEF Restart, Forget, Types, PointTypes, meta
<1> QED
  BY <1>1, <1>2, <1>3, <1>4, <1>5, <1>6, <1>7, <1>8, <1>9, <1>10, <1>11,
     <1>12, <1>13, <1>14, <1>15, <1>16, <1>17, <1>18, <1>19, <1>20,
     <1>21, <1>22, <1>23
     DEF Next, Work, Sync

(* What is stored of a block stays one of the four kinds. *)
LEMMA DataStep == Types /\ [Next]_vars => DataType'
<1> SUFFICES ASSUME Types, [Next]_vars PROVE DataType'
  OBVIOUS
<1>1. CASE ResolveVirtual
  BY <1>1 DEF ResolveVirtual, Types, DataType, UtxoState, Body
<1>2. CASE NotifyVirtual
  BY <1>2 DEF NotifyVirtual, Types, DataType
<1>3. CASE Receive
  BY <1>3 DEF Receive, Types, DataType
<1>4. CASE AdvancePruningPoint
  BY <1>4 DEF AdvancePruningPoint, Types, DataType
<1>5. CASE MoveOne
  BY <1>5 DEF MoveOne, Types, DataType
<1>6. CASE Moved
  BY <1>6 DEF Moved, Types, DataType
<1>7. CASE CheckRecovery
  BY <1>7 DEF CheckRecovery, Types, DataType
<1>8. CASE PreparePrune
  BY <1>8 DEF PreparePrune, Types, DataType
<1>9. CASE StartPrune
  BY <1>9 DEF StartPrune, Types, DataType
<1>10. CASE DeleteOne
  <2>1. PICK b \in job.del :
            data' = [data EXCEPT ![b] = IF b \in KeepsHeader(job.pp) THEN HeaderOnly ELSE Nothing]
    BY <1>10 DEF DeleteOne
  <2>2. (IF b \in KeepsHeader(job.pp) THEN HeaderOnly ELSE Nothing) \in 0 .. 3
    BY DEF HeaderOnly, Nothing
  <2>3. data \in [Blocks -> 0 .. 3]
    BY DEF Types, DataType
  <2> QED
    BY <2>1, <2>2, <2>3 DEF DataType
<1>11. CASE SetCheckpoint
  BY <1>11 DEF SetCheckpoint, Types, DataType
<1>12. CASE CatchUp
  BY <1>12 DEF CatchUp, Types, DataType, HeaderOnly
<1>13. CASE Resume
  BY <1>13 DEF Resume, Types, DataType
<1>14. CASE SyncBodies
  BY <1>14 DEF SyncBodies, Types, DataType, Body
<1>15. CASE SyncSmt
  BY <1>15 DEF SyncSmt, Types, DataType
<1>16. CASE SyncPool
  BY <1>16 DEF SyncPool, Types, DataType
<1>17. CASE SyncUtxoSet
  BY <1>17 DEF SyncUtxoSet, Types, DataType
<1>18. CASE Fail
  BY <1>18 DEF Fail, Types, DataType
<1>19. CASE Crash
  BY <1>19 DEF Crash, Types, DataType
<1>20. CASE UNCHANGED vars
  BY <1>20 DEF vars, meta, worker, ibd, Types, DataType
<1>21. CASE InterruptPrune
  BY <1>21 DEF InterruptPrune, Types, DataType
<1>22. CASE SignalExit
  BY <1>22 DEF SignalExit, Types, DataType
<1>23. CASE Restart
  BY <1>23 DEF Restart, Types, DataType
<1> QED
  BY <1>1, <1>2, <1>3, <1>4, <1>5, <1>6, <1>7, <1>8, <1>9, <1>10, <1>11,
     <1>12, <1>13, <1>14, <1>15, <1>16, <1>17, <1>18, <1>19, <1>20,
     <1>21, <1>22, <1>23
     DEF Next, Work, Sync

(* The local variables of the worker keep their types. *)
LEMMA JobStep == Types /\ [Next]_vars => JobType'
<1> SUFFICES ASSUME Types, [Next]_vars PROVE JobType'
  OBVIOUS
<1>1. CASE ResolveVirtual
  BY <1>1 DEF ResolveVirtual, worker, Types, JobType
<1>2. CASE NotifyVirtual
  BY <1>2 DEF NotifyVirtual, worker, Types, JobType
<1>3. CASE Receive
  <2>1. message \in Chain /\ position \in Chain /\ pp \in Chain /\ root \in Chain
    BY <1>3 DEF Receive, Types, PointTypes
  <2>2. position + 1 \in 0 .. Height + 1 /\ 0 \in Chain /\ 0 \in 0 .. Height + 1
    BY <2>1, ChainFacts
  <2>3. CASE job' = [NoJob EXCEPT !.sink = message]
    BY <2>1, <2>2, <2>3 DEF NoJob, JobType, Job
  <2>4. CASE job' = [NoJob EXCEPT !.sink = message, !.pp = pp, !.root = root,
                                  !.prune = (checkpoint # root), !.recover = TRUE]
    <3>1. job' = [sink |-> message, next |-> 0, pp |-> pp, root |-> root,
                  prune |-> (checkpoint # root), recover |-> TRUE, del |-> {}]
      BY <2>4 DEF NoJob
    <3> QED
      BY <2>1, <2>2, <3>1 DEF JobType, Job
  <2>5. CASE job' = [NoJob EXCEPT !.sink = message, !.next = position + 1, !.pp = pp, !.root = root,
                                  !.prune = (checkpoint # root), !.recover = TRUE]
    <3>1. job' = [sink |-> message, next |-> position + 1, pp |-> pp, root |-> root,
                  prune |-> (checkpoint # root), recover |-> TRUE, del |-> {}]
      BY <2>5 DEF NoJob
    <3> QED
      BY <2>1, <2>2, <3>1 DEF JobType, Job
  <2>6. CASE UNCHANGED job
    BY <2>6 DEF Types, JobType
  <2> QED
    BY <1>3, <2>3, <2>4, <2>5, <2>6 DEF Receive
<1>4. CASE AdvancePruningPoint
  <2>1. pp' \in Chain /\ root' \in Chain /\ pp + 1 \in 0 .. Height + 1
    BY <1>4, PointStep, ConstantFacts DEF Types, PointTypes
  <2>2. CASE job' = NoJob
    BY <2>2, NoJobTyped DEF JobType
  <2>3. CASE \E p \in Samples : pp' = p
                 /\ job' = [NoJob EXCEPT !.next = pp + 1, !.pp = p, !.root = root', !.prune = TRUE]
    <3>1. PICK p \in Samples : pp' = p
                 /\ job' = [NoJob EXCEPT !.next = pp + 1, !.pp = p, !.root = root', !.prune = TRUE]
      BY <2>3
    <3>2. job' = [sink |-> 0, next |-> pp + 1, pp |-> p, root |-> root',
                  prune |-> TRUE, recover |-> FALSE, del |-> {}]
      BY <3>1 DEF NoJob
    <3>3. 0 \in Chain /\ p \in Chain
      BY ChainFacts
    <3> QED
      BY <2>1, <3>2, <3>3 DEF JobType, Job
  <2> QED
    BY <1>4, <2>2, <2>3 DEF AdvancePruningPoint, NextPruningPoint, Return
<1>5. CASE MoveOne
  <2>1. CASE job' = NoJob
    BY <2>1, NoJobTyped DEF JobType
  <2>2. CASE job' = [job EXCEPT !.next = @ + 1]
    <3>1. job.next + 1 \in 0 .. Height + 1
      <4>1. job.next \in 0 .. Height + 1 /\ job.pp \in 0 .. Height /\ Height \in Nat
        BY JobShape, ChainFacts DEF Types
      <4> QED
        BY <1>5, <4>1 DEF MoveOne
    <3> QED
      BY <2>2, <3>1, JobShape DEF Types, JobType, Job
  <2> QED
    BY <1>5, <2>1, <2>2 DEF MoveOne, Return
<1>6. CASE Moved
  BY <1>6 DEF Moved, Types, JobType
<1>7. CASE CheckRecovery
  BY <1>7, NoJobTyped DEF CheckRecovery, Return, Types, JobType
<1>8. CASE PreparePrune
  BY <1>8, NoJobTyped DEF PreparePrune, Forget, Types, JobType
<1>9. CASE StartPrune
  <2>1. CASE job' = NoJob
    BY <2>1, NoJobTyped DEF JobType
  <2>2. CASE job' = [job EXCEPT !.del = {b \in ToDelete(job.pp, job.root) : data[b] # Nothing}]
    BY <2>2, JobShape DEF Types, JobType, Job, ToDelete
  <2> QED
    BY <1>9, <2>1, <2>2 DEF StartPrune, Forget
<1>10. CASE DeleteOne
  <2>1. PICK b \in job.del : job' = [job EXCEPT !.del = @ \ {b}]
    BY <1>10 DEF DeleteOne
  <2> QED
    BY <2>1, JobShape DEF Types, JobType, Job
<1>11. CASE SetCheckpoint
  BY <1>11, NoJobTyped DEF SetCheckpoint, Pruned, Return, Types, JobType
<1>12. CASE CatchUp
  BY <1>12 DEF CatchUp, worker, Types, JobType
<1>13. CASE Resume
  BY <1>13 DEF Resume, worker, Types, JobType
<1>14. CASE SyncBodies
  BY <1>14 DEF SyncBodies, worker, Types, JobType
<1>15. CASE SyncSmt
  BY <1>15 DEF SyncSmt, worker, Types, JobType
<1>16. CASE SyncPool
  BY <1>16 DEF SyncPool, worker, Types, JobType
<1>17. CASE SyncUtxoSet
  BY <1>17 DEF SyncUtxoSet, worker, Types, JobType
<1>18. CASE Fail
  BY <1>18 DEF Fail, worker, Types, JobType
<1>19. CASE Crash
  BY <1>19, NoJobTyped DEF Crash, Forget, JobType
<1>20. CASE UNCHANGED vars
  BY <1>20 DEF vars, meta, worker, ibd, Types, JobType
<1>21. CASE InterruptPrune
  BY <1>21, NoJobTyped DEF InterruptPrune, Pruned, Return, Types, JobType
<1>22. CASE SignalExit
  BY <1>22 DEF SignalExit, Types, JobType
<1>23. CASE Restart
  BY <1>23, NoJobTyped DEF Restart, Forget, JobType
<1> QED
  BY <1>1, <1>2, <1>3, <1>4, <1>5, <1>6, <1>7, <1>8, <1>9, <1>10, <1>11,
     <1>12, <1>13, <1>14, <1>15, <1>16, <1>17, <1>18, <1>19, <1>20,
     <1>21, <1>22, <1>23
     DEF Next, Work, Sync

LEMMA TypesStep == Types /\ [Next]_vars => Types'
BY PointStep, DataStep, JobStep DEF Types
-----------------------------------------------------------------------------
(* The pruning point and the retention root only move up, the root never past the point. *)
LEMMA PointsMonotone ==
    ASSUME Types, root <= pp, [Next]_vars
    PROVE  pp <= pp' /\ root <= root' /\ root' <= pp'
<1>0. pp \in Nat /\ root \in Nat
  BY ChainFacts DEF Types, PointTypes
<1>1. CASE AdvancePruningPoint
  <2>1. CASE UNCHANGED <<pp, root>>
    BY <1>0, <2>1
  <2>2. CASE \E p \in NextPruningPoint(job.sink, pp) : pp' = p /\ root' \in RetentionRoots(p)
    <3>1. PICK p \in NextPruningPoint(job.sink, pp) : pp' = p /\ root' \in RetentionRoots(p)
      BY <2>2
    <3>2. p \in Nat /\ pp < p /\ root' \in Nat /\ root <= root' /\ root' <= p
      BY <3>1, ChainFacts DEF NextPruningPoint, RetentionRoots
    <3> QED
      BY <1>0, <3>1, <3>2
  <2> QED
    BY <1>1, <2>1, <2>2 DEF AdvancePruningPoint
<1>2. CASE CatchUp
  <2>1. PICK p \in Samples : pp < p /\ pp' = p /\ root' \in RetentionRoots(p)
    BY <1>2 DEF CatchUp
  <2>2. p \in Nat /\ root' \in Nat /\ root <= root' /\ root' <= p
    BY <2>1, ChainFacts DEF RetentionRoots
  <2> QED
    BY <1>0, <2>1, <2>2
<1>3. CASE UNCHANGED <<pp, root>>
  BY <1>0, <1>3
<1> QED
  BY <1>1, <1>2, <1>3
     DEF Next, Work, Sync, ResolveVirtual, NotifyVirtual, Receive, MoveOne, Moved, CheckRecovery, PreparePrune,
         StartPrune, DeleteOne, SetCheckpoint, InterruptPrune, Resume, SyncBodies, SyncSmt, SyncPool, SyncUtxoSet, Fail,
         SignalExit, Restart, Crash, vars

LEMMA OrderedFresh ==
    ASSUME Types', job' = NoJob, root' <= pp'
    PROVE  Ordered'
BY ChainFacts DEF Types, PointTypes, Ordered, NoJob

LEMMA OrderedKept ==
    ASSUME Types, Types', Ordered, pp <= pp', root <= root', root' <= pp',
           job'.root = job.root, job'.pp = job.pp, job'.del \subseteq job.del
    PROVE  Ordered'
<1>1. pp \in Nat /\ root \in Nat /\ pp' \in Nat /\ root' \in Nat
  BY ChainFacts DEF Types, PointTypes
<1>2. job.root \in Nat /\ job.pp \in Nat
  BY ChainFacts, JobShape DEF Types
<1> QED
  BY <1>1, <1>2 DEF Ordered

LEMMA OrderedStep == Types /\ Ordered /\ [Next]_vars => Ordered'
<1> SUFFICES ASSUME Types, Ordered, [Next]_vars PROVE Ordered'
  OBVIOUS
<1>a. Types'
  BY TypesStep
<1>b. pp <= pp' /\ root <= root' /\ root' <= pp'
  BY PointsMonotone DEF Ordered
<1>c. CASE job' = NoJob
  BY <1>a, <1>b, <1>c, OrderedFresh
<1>d. CASE job'.root = job.root /\ job'.pp = job.pp /\ job'.del \subseteq job.del
  BY <1>a, <1>b, <1>d, OrderedKept
<1>e. CASE UNCHANGED job
  BY <1>a, <1>b, <1>e, OrderedKept
<1>1. CASE ResolveVirtual
  BY <1>1, <1>e DEF ResolveVirtual, worker
<1>2. CASE NotifyVirtual
  BY <1>2, <1>e DEF NotifyVirtual, worker
<1>3. CASE Receive
  <2>1. CASE job' = [NoJob EXCEPT !.sink = message]
    <3>1. job'.root = 0 /\ job'.pp = 0 /\ job'.del = {}
      BY <2>1 DEF NoJob
    <3> QED
      BY <1>a, <1>b, <3>1, ChainFacts DEF Types, PointTypes, Ordered
  <2>2. CASE \/ job' = [NoJob EXCEPT !.sink = message, !.pp = pp, !.root = root,
                                     !.prune = (checkpoint # root), !.recover = TRUE]
             \/ job' = [NoJob EXCEPT !.sink = message, !.next = position + 1, !.pp = pp, !.root = root,
                                     !.prune = (checkpoint # root), !.recover = TRUE]
    <3>1. job'.root = root /\ job'.pp = pp /\ job'.del = {}
      BY <2>2 DEF NoJob
    <3>2. pp \in Nat /\ root \in Nat /\ UNCHANGED <<pp, root>>
      BY <1>3, ChainFacts DEF Types, PointTypes, Receive
    <3> QED
      BY <1>b, <3>1, <3>2 DEF Ordered
  <2> QED
    BY <1>3, <1>e, <2>1, <2>2 DEF Receive
<1>4. CASE AdvancePruningPoint
  <2>1. CASE \E p \in NextPruningPoint(job.sink, pp) : pp' = p
                 /\ job' = [NoJob EXCEPT !.next = pp + 1, !.pp = p, !.root = root', !.prune = TRUE]
    <3>1. PICK p \in NextPruningPoint(job.sink, pp) : pp' = p
                 /\ job' = [NoJob EXCEPT !.next = pp + 1, !.pp = p, !.root = root', !.prune = TRUE]
      BY <2>1
    <3>2. job'.root = root' /\ job'.pp = p /\ job'.del = {}
      BY <3>1 DEF NoJob
    <3>3. pp' = p /\ pp' \in Nat /\ root' \in Nat
      BY <1>a, <3>1, ChainFacts DEF Types, PointTypes
    <3> QED
      BY <1>b, <3>2, <3>3 DEF Ordered
  <2> QED
    BY <1>4, <1>c, <2>1 DEF AdvancePruningPoint, Return
<1>5. CASE MoveOne
  <2>1. CASE job' = [job EXCEPT !.next = @ + 1]
    BY <2>1, <1>d, JobShape DEF Types
  <2> QED
    BY <1>5, <1>c, <2>1 DEF MoveOne, Return
<1>6. CASE Moved
  BY <1>6, <1>e DEF Moved
<1>7. CASE CheckRecovery
  BY <1>7, <1>c, <1>e DEF CheckRecovery, Return
<1>8. CASE PreparePrune
  BY <1>8, <1>c, <1>e DEF PreparePrune, Forget
<1>9. CASE StartPrune
  <2>1. CASE job' = [job EXCEPT !.del = {b \in ToDelete(job.pp, job.root) : data[b] # Nothing}]
    <3>1. job'.root = job.root /\ job'.pp = job.pp /\ job'.del \subseteq ToDelete(job.pp, job.root)
      BY <2>1, JobShape DEF Types
    <3>2. UNCHANGED <<pp, root>>
      BY <1>9 DEF StartPrune
    <3> QED
      BY <3>1, <3>2 DEF Ordered
  <2> QED
    BY <1>9, <1>c, <2>1 DEF StartPrune, Forget
<1>10. CASE DeleteOne
  <2>1. PICK b \in job.del : job' = [job EXCEPT !.del = @ \ {b}]
    BY <1>10 DEF DeleteOne
  <2> QED
    BY <1>d, <2>1, JobShape DEF Types
<1>11. CASE SetCheckpoint
  BY <1>11, <1>c, <1>e DEF SetCheckpoint, Pruned, Return
<1>12. CASE CatchUp
  BY <1>12, <1>e DEF CatchUp, worker
<1>13. CASE Resume
  BY <1>13, <1>e DEF Resume, worker
<1>14. CASE SyncBodies
  BY <1>14, <1>e DEF SyncBodies, worker
<1>15. CASE SyncSmt
  BY <1>15, <1>e DEF SyncSmt, worker
<1>16. CASE SyncPool
  BY <1>16, <1>e DEF SyncPool, worker
<1>17. CASE SyncUtxoSet
  BY <1>17, <1>e DEF SyncUtxoSet, worker
<1>18. CASE Fail
  BY <1>18, <1>e DEF Fail, worker
<1>19. CASE Crash
  BY <1>19, <1>c DEF Crash, Forget
<1>20. CASE UNCHANGED vars
  BY <1>20, <1>e DEF vars, worker
<1>21. CASE InterruptPrune
  BY <1>21, <1>c, <1>e DEF InterruptPrune, Pruned, Return
<1>22. CASE SignalExit
  BY <1>22, <1>e DEF SignalExit
<1>23. CASE Restart
  BY <1>23, <1>c DEF Restart, Forget
<1> QED
  BY <1>1, <1>2, <1>3, <1>4, <1>5, <1>6, <1>7, <1>8, <1>9, <1>10, <1>11,
     <1>12, <1>13, <1>14, <1>15, <1>16, <1>17, <1>18, <1>19, <1>20,
     <1>21, <1>22, <1>23
     DEF Next, Work, Sync

LEMMA OrderedInit == Init => Ordered
BY DEF Init, Ordered, NoJob

(* Only the traversal takes data away. *)
LEMMA DeleteKeeps ==
    ASSUME Types, Ordered, DeleteOne, NEW c \in Blocks, data'[c] < data[c]
    PROVE  /\ c \notin Future(root') \cup Anticone(pp')
           /\ c \in KeepsHeader(pp') => data'[c] = HeaderOnly
<1>1. PICK b \in job.del :
          data' = [data EXCEPT ![b] = IF b \in KeepsHeader(job.pp) THEN HeaderOnly ELSE Nothing]
  BY DEF DeleteOne
<1>2. data \in [Blocks -> 0 .. 3]
  BY DEF Types, DataType
<1>3. c = b
  BY <1>1, <1>2
<1>4. data'[c] = IF c \in KeepsHeader(job.pp) THEN HeaderOnly ELSE Nothing
  BY <1>1, <1>2, <1>3
<1>5. c \in ToDelete(job.pp, job.root)
  BY <1>1, <1>3 DEF Ordered
<1>6. /\ pp \in Nat /\ root \in Nat /\ job.pp \in Nat /\ job.root \in Nat
      /\ Fork[c] \in Nat /\ Merge[c] \in Nat /\ Window \in Nat
  BY ConstantFacts, JobShape DEF Types, PointTypes
<1>7. job.root <= root /\ job.root <= job.pp /\ job.pp <= pp
  BY DEF Ordered
<1>8. UNCHANGED <<pp, root>>
  BY DEF DeleteOne
<1>9. Fork[c] < job.root /\ ~(Fork[c] < job.pp /\ job.pp < Merge[c])
  BY <1>5, <1>6 DEF ToDelete, Future, Anticone
<1>10. c \notin Future(root)
  BY <1>6, <1>7, <1>9 DEF Future
<1>11. c \in Chain => Fork[c] = c
  BY ConstantFacts
<1>12. c \notin Anticone(pp)
  <2>1. c = pp => Fork[c] = pp
    BY <1>11 DEF Types, PointTypes
  <2> QED
    BY <1>6, <1>7, <1>9, <2>1 DEF Anticone
<1>13. c \in KeepsHeader(pp) => c \in KeepsHeader(job.pp)
  <2>1. CASE pp - Window <= Fork[c]
    BY <1>6, <1>7, <2>1 DEF KeepsHeader
  <2>2. CASE c \in Samples /\ c < pp
    <3>1. Fork[c] = c
      BY <1>11, <2>2, ChainFacts
    <3> QED
      BY <1>6, <1>7, <1>9, <2>2, <3>1 DEF KeepsHeader
  <2> QED
    BY <1>12, <2>1, <2>2 DEF KeepsHeader
<1> QED
  BY <1>4, <1>8, <1>10, <1>12, <1>13

(* PruneKeeps: for every chain and every retention period, a deletion started for one pruning
   point takes nothing that the pruning point and retention root of the moment need. *)
THEOREM PruneKeepsHolds == Spec => PruneKeeps
<1>1. ASSUME Types, Ordered, [Next]_vars
      PROVE  [\A b \in Blocks :
                data'[b] < data[b] =>
                    /\ b \notin Future(root') \cup Anticone(pp')
                    /\ b \in KeepsHeader(pp') => data'[b] = HeaderOnly]_vars
  <2> SUFFICES ASSUME NEW b \in Blocks, data'[b] < data[b]
               PROVE  /\ b \notin Future(root') \cup Anticone(pp')
                      /\ b \in KeepsHeader(pp') => data'[b] = HeaderOnly
    OBVIOUS
  <2>0. data \in [Blocks -> 0 .. 3] /\ data[b] \in 0 .. 3
    BY <1>1 DEF Types, DataType
  <2>1. CASE DeleteOne
    BY <1>1, <2>1, DeleteKeeps
  <2>2. CASE ResolveVirtual
    <3>1. data'[b] = CASE b = virt' -> UtxoState
                       [] b # virt' /\ Merge[b] = virt' /\ data[b] < Body -> Body
                       [] OTHER -> data[b]
      BY <2>2 DEF ResolveVirtual
    <3> QED
      BY <2>0, <3>1 DEF UtxoState, Body
  <2>3. CASE CatchUp
    <3>1. data'[b] = IF Fork[b] >= pp /\ data[b] = Nothing THEN HeaderOnly ELSE data[b]
      BY <2>3 DEF CatchUp
    <3> QED
      BY <2>0, <3>1 DEF Nothing, HeaderOnly
  <2>4. CASE SyncBodies
    <3>1. data'[b] = IF b \in Anticone(pp) /\ data[b] < Body THEN Body ELSE data[b]
      BY <2>4 DEF SyncBodies
    <3> QED
      BY <2>0, <3>1 DEF Body
  <2>5. CASE UNCHANGED data
    BY <2>0, <2>5
  <2> QED
    BY <1>1, <2>1, <2>2, <2>3, <2>4, <2>5
       DEF Next, Work, Sync, NotifyVirtual, Receive, AdvancePruningPoint, MoveOne, Moved, CheckRecovery,
           PreparePrune, StartPrune, SetCheckpoint, InterruptPrune, Resume, SyncSmt, SyncPool, SyncUtxoSet, Fail,
           SignalExit, Restart, Crash, vars
<1> QED
  BY <1>1, TypesInit, TypesStep, OrderedInit, OrderedStep, PTL DEF Spec, PruneKeeps
-----------------------------------------------------------------------------
(* The strengthening of MoveRecoverable. *)

(* A raised UTXO flag means that nothing of the catch-up is open, and a running IBD has the UTXO
   set left to sync, which comes last. *)
Flags ==
    /\ stable \subseteq {"utxo", "smt", "pool"} /\ todo \subseteq Tasks
    /\ "utxo" \in stable => "smt" \in stable /\ "pool" \in stable /\ ~missing
    /\ todo # {} => /\ "utxo" \in todo /\ "utxo" \notin stable
                    /\ "smt" \in todo \/ "smt" \in stable
                    /\ "pool" \in todo \/ "pool" \in stable
                    /\ "bodies" \in todo \/ ~missing

(* No queued sink is above virtual's, and virtual stands at the pruning point during a catch-up:
   a worker that runs meanwhile finds no pruning point to move to. *)
Sinks ==
    /\ message <= virt /\ job.sink <= virt
    /\ "utxo" \in stable \/ virt = pp

(* The kept UTXO set is that of the position, and the chain above it has its diffs. *)
KeptSet ==
    "utxo" \in stable =>
        /\ utxos = 0 .. position /\ position <= pp /\ pp <= virt
        /\ \A b \in position + 1 .. virt : data[b] = UtxoState

(* Only a worker in the middle of a move, a process that has not recovered yet, or one that was
   told to exit may have the position below the pruning point, and none of them while it prunes.
   The local variables of a move agree with the stores, or its first step finds the exit signal. *)
InStep ==
    "utxo" \in stable =>
        /\ pc = "move" => \/ job.next = position + 1 /\ job.pp = pp
                          \/ exiting /\ job.next <= job.pp
        /\ pc \in {"check", "prepare", "start", "sweep"} => position = pp
        /\ ~exiting /\ (pc = "advance" \/ (pc = "idle" /\ recovered)) => position = pp

(* Between the import and the flag. *)
Imported == phase = 2 => todo = {"utxo"} /\ utxos = 0 .. pp /\ position = pp

MoveInv == Types /\ Flags /\ Sinks /\ KeptSet /\ InStep /\ Imported

LEMMA FlagsInit == Init => Flags /\ Sinks /\ KeptSet /\ InStep /\ Imported
<1> SUFFICES ASSUME Init PROVE Flags /\ Sinks /\ KeptSet /\ InStep /\ Imported
  OBVIOUS
<1>1. Flags
  BY DEF Init, Flags
<1>2. Sinks
  BY DEF Init, Sinks, Empty, NoJob
<1>3. KeptSet
  <2>1. 0 .. 0 = {0} /\ 0 + 1 .. 0 = {}
    OBVIOUS
  <2> QED
    BY <2>1 DEF Init, KeptSet
<1>4. InStep /\ Imported
  BY DEF Init, InStep, Imported
<1> QED
  BY <1>1, <1>2, <1>3, <1>4

LEMMA TransitionalFlag == Flags => (Transitional <=> "utxo" \notin stable)
<1> SUFFICES ASSUME Flags PROVE Transitional <=> "utxo" \notin stable
  OBVIOUS
<1>1. CASE "utxo" \in stable
  <2>1. stable = {"utxo", "smt", "pool"}
    BY <1>1 DEF Flags
  <2> QED
    BY <1>1, <2>1 DEF Flags, Transitional
<1>2. CASE "utxo" \notin stable
  BY <1>2 DEF Transitional
<1> QED
  BY <1>1, <1>2

LEMMA FlagsStep == Flags /\ [Next]_vars => Flags'
<1> SUFFICES ASSUME Flags, [Next]_vars PROVE Flags'
  OBVIOUS
<1>a. CASE UNCHANGED <<stable, missing>> /\ (UNCHANGED todo \/ todo' = {})
  BY <1>a DEF Flags
<1>1. CASE ResolveVirtual
  BY <1>1, <1>a DEF ResolveVirtual, meta, ibd
<1>2. CASE NotifyVirtual
  BY <1>2, <1>a DEF NotifyVirtual, meta, ibd
<1>3. CASE Receive
  BY <1>3, <1>a DEF Receive, meta, ibd
<1>4. CASE AdvancePruningPoint
  BY <1>4, <1>a DEF AdvancePruningPoint, meta, ibd
<1>5. CASE MoveOne
  BY <1>5, <1>a DEF MoveOne, meta, ibd
<1>6. CASE Moved
  BY <1>6, <1>a DEF Moved, meta, ibd
<1>7. CASE CheckRecovery
  BY <1>7, <1>a DEF CheckRecovery, meta, ibd
<1>8. CASE PreparePrune
  BY <1>8, <1>a DEF PreparePrune, Forget, meta, ibd
<1>9. CASE StartPrune
  BY <1>9, <1>a DEF StartPrune, Forget, meta, ibd
<1>10. CASE DeleteOne
  BY <1>10, <1>a DEF DeleteOne, meta, ibd
<1>11. CASE SetCheckpoint
  BY <1>11, <1>a DEF SetCheckpoint, meta, ibd
<1>12. CASE CatchUp
  BY <1>12 DEF CatchUp, Flags, Tasks
<1>13. CASE Resume
  <2>1. UNCHANGED <<stable, missing>>
    BY <1>13 DEF Resume, meta
  <2>2. "utxo" \notin stable
    BY <1>13, TransitionalFlag DEF Resume
  <2>3. /\ todo' \subseteq Tasks /\ "utxo" \in todo'
        /\ "smt" \in todo' \/ "smt" \in stable
        /\ "pool" \in todo' \/ "pool" \in stable
        /\ "bodies" \in todo' \/ ~missing
    BY <1>13, <2>2 DEF Resume, Tasks, Flags
  <2> QED
    BY <2>1, <2>2, <2>3 DEF Flags
<1>14. CASE SyncBodies
  BY <1>14 DEF SyncBodies, Done, Turn, Flags
<1>15. CASE SyncSmt
  BY <1>15 DEF SyncSmt, Done, Goto, Turn, Flags
<1>16. CASE SyncPool
  BY <1>16 DEF SyncPool, Done, Goto, Turn, Flags
<1>17. CASE SyncUtxoSet
  <2>1. UNCHANGED missing /\ "utxo" \in todo /\ {"bodies", "smt", "pool"} \cap todo = {}
    BY <1>17 DEF SyncUtxoSet, Turn, Before
  <2>2. CASE stable' = stable \ {"utxo"} /\ UNCHANGED todo
    BY <2>1, <2>2 DEF Flags
  <2>3. CASE UNCHANGED <<stable, todo>>
    BY <2>1, <2>3, <1>a DEF Flags
  <2>4. CASE stable' = stable \cup {"utxo"} /\ todo' = todo \ {"utxo"}
    <3>1. todo' = {}
      BY <2>1, <2>4 DEF Flags, Tasks
    <3>2. "smt" \in stable /\ "pool" \in stable /\ ~missing
      BY <2>1 DEF Flags
    <3> QED
      BY <2>1, <2>4, <3>1, <3>2 DEF Flags
  <2> QED
    BY <1>17, <2>2, <2>3, <2>4 DEF SyncUtxoSet, Done, Goto
<1>18. CASE Fail
  BY <1>18, <1>a DEF Fail, meta
<1>19. CASE Crash
  BY <1>19, <1>a DEF Crash, Forget, meta
<1>20. CASE UNCHANGED vars
  BY <1>20, <1>a DEF vars, meta, ibd
<1>21. CASE InterruptPrune
  BY <1>21, <1>a DEF InterruptPrune, meta, ibd
<1>22. CASE SignalExit
  BY <1>22, <1>a DEF SignalExit, meta, ibd
<1>23. CASE Restart
  BY <1>23, <1>a DEF Restart, Forget, meta
<1> QED
  BY <1>1, <1>2, <1>3, <1>4, <1>5, <1>6, <1>7, <1>8, <1>9, <1>10, <1>11,
     <1>12, <1>13, <1>14, <1>15, <1>16, <1>17, <1>18, <1>19, <1>20,
     <1>21, <1>22, <1>23
     DEF Next, Work, Sync

(* A catch-up goes to a pruning point above virtual's sink, whose body is missing. *)
LEMMA CatchUpAbove ==
    ASSUME Types, Flags, Sinks, KeptSet, CatchUp
    PROVE  virt < pp' /\ virt' = pp'
<1>1. PICK p \in Samples : pp < p /\ (Transitional \/ data[p] < Body) /\ pp' = p /\ virt' = p
  BY DEF CatchUp
<1>2. p \in Nat /\ virt \in Nat /\ pp \in Nat /\ position \in Nat
  BY ChainFacts DEF Types, PointTypes
<1>3. CASE "utxo" \in stable
  <2>1. data[p] < Body
    BY <1>1, <1>3, TransitionalFlag
  <2>2. p \notin position + 1 .. virt
    BY <1>3, <2>1 DEF KeptSet, UtxoState, Body
  <2> QED
    BY <1>1, <1>2, <1>3, <2>2 DEF KeptSet
<1>4. CASE "utxo" \notin stable
  BY <1>1, <1>2, <1>4 DEF Sinks
<1> QED
  BY <1>3, <1>4, <1>1

(* A pruning point the worker moves to is deep below virtual's sink, and the UTXO set is stable. *)
LEMMA AdvanceBelow ==
    ASSUME Types, Sinks, NEW p \in NextPruningPoint(job.sink, pp)
    PROVE  DeepEnough(p) /\ "utxo" \in stable /\ p <= virt
<1>1. p \in Nat /\ virt \in Nat /\ pp \in Nat /\ job.sink \in Nat /\ Depth \in Nat
  BY ConstantFacts, JobShape DEF Types, PointTypes, NextPruningPoint
<1>2. p + Depth <= job.sink /\ pp < p /\ job.sink <= virt
  BY DEF NextPruningPoint, Sinks
<1>3. p + Depth <= virt /\ p <= virt /\ virt # pp
  BY <1>1, <1>2
<1> QED
  BY <1>1, <1>3 DEF DeepEnough, Sinks

LEMMA SinksKept ==
    ASSUME Types, Sinks, virt' \in Nat, virt <= virt', message' = message \/ message' = Empty \/ message' = virt',
           job'.sink = job.sink \/ job'.sink = 0 \/ job'.sink = message
    PROVE  message' <= virt' /\ job'.sink <= virt'
<1>1. virt \in Nat /\ (message \in Nat \/ message = Empty) /\ job.sink \in Nat
  BY ChainFacts, JobShape DEF Types, PointTypes
<1>2. message \in Int /\ Empty \in Int /\ message' \in Int /\ Empty < 0
  BY <1>1 DEF Empty
<1> QED
  BY <1>1, <1>2 DEF Sinks

LEMMA SinksStep == Types /\ Flags /\ Sinks /\ KeptSet /\ [Next]_vars => Sinks'
<1> SUFFICES ASSUME Types, Flags, Sinks, KeptSet, [Next]_vars PROVE Sinks'
  OBVIOUS
<1>a. virt \in Nat /\ pp \in Nat /\ virt' \in Nat /\ pp' \in Nat
  BY TypesStep, ChainFacts DEF Types, PointTypes
<1>b. NoJob.sink = 0
  BY DEF NoJob
<1>c. ASSUME virt <= virt', message' = message \/ message' = Empty \/ message' = virt',
             job'.sink = job.sink \/ job'.sink = 0 \/ job'.sink = message,
             "utxo" \in stable' \/ virt' = pp'
      PROVE  Sinks'
  BY <1>a, <1>c, SinksKept DEF Sinks
<1>d. ASSUME UNCHANGED <<virt, pp, stable>>, message' = message \/ message' = Empty,
             job'.sink = job.sink \/ job'.sink = 0 \/ job'.sink = message
      PROVE  Sinks'
  BY <1>a, <1>c, <1>d DEF Sinks
<1>e. ASSUME UNCHANGED <<virt, pp, stable>>, UNCHANGED message \/ message' = Empty, UNCHANGED job \/ job' = NoJob
      PROVE  Sinks'
  BY <1>b, <1>d, <1>e
<1>1. CASE ResolveVirtual
  <2>1. "utxo" \in stable /\ UNCHANGED <<stable, job>> /\ virt' = virt + 1 /\ message' = virt'
    BY <1>1, TransitionalFlag DEF ResolveVirtual, meta, worker
  <2> QED
    BY <1>a, <1>c, <2>1
<1>2. CASE NotifyVirtual
  <2>1. UNCHANGED <<virt, pp, stable, job>> /\ message' = virt'
    BY <1>2 DEF NotifyVirtual, meta, worker
  <2> QED
    BY <1>a, <1>c, <2>1 DEF Sinks
<1>3. CASE Receive
  <2>1. job'.sink = job.sink \/ job'.sink = message
    BY <1>3 DEF Receive, NoJob
  <2> QED
    BY <1>3, <1>d, <2>1 DEF Receive, meta
<1>4. CASE AdvancePruningPoint
  <2>1. UNCHANGED <<virt, stable, message>>
    BY <1>4 DEF AdvancePruningPoint, meta
  <2>2. CASE UNCHANGED pp /\ job' = NoJob
    BY <1>e, <2>1, <2>2
  <2>3. CASE \E p \in NextPruningPoint(job.sink, pp) :
                job' = [NoJob EXCEPT !.next = pp + 1, !.pp = p, !.root = root', !.prune = TRUE]
    <3>1. "utxo" \in stable
      BY <2>3, AdvanceBelow
    <3>2. job'.sink = 0
      BY <2>3 DEF NoJob
    <3> QED
      BY <1>a, <1>c, <2>1, <3>1, <3>2
  <2> QED
    BY <1>4, <2>2, <2>3 DEF AdvancePruningPoint, Return
<1>5. CASE MoveOne
  <2>1. job' = [job EXCEPT !.next = @ + 1] => job'.sink = job.sink
    BY JobShape DEF Types
  <2>2. job' = NoJob \/ job'.sink = job.sink
    BY <1>5, <2>1 DEF MoveOne, Return
  <2> QED
    BY <1>5, <1>b, <1>d, <2>2 DEF MoveOne
<1>6. CASE Moved
  BY <1>6, <1>e DEF Moved, meta
<1>7. CASE CheckRecovery
  BY <1>7, <1>e DEF CheckRecovery, Return, meta
<1>8. CASE PreparePrune
  BY <1>8, <1>e DEF PreparePrune, Forget, meta
<1>9. CASE StartPrune
  <2>1. job' = [job EXCEPT !.del = {b \in ToDelete(job.pp, job.root) : data[b] # Nothing}] => job'.sink = job.sink
    BY JobShape DEF Types
  <2>2. job' = NoJob \/ job'.sink = job.sink
    BY <1>9, <2>1 DEF StartPrune, Forget
  <2> QED
    BY <1>9, <1>b, <1>d, <2>2 DEF StartPrune, Forget, meta
<1>10. CASE DeleteOne
  <2>1. PICK b \in job.del : job' = [job EXCEPT !.del = @ \ {b}]
    BY <1>10 DEF DeleteOne
  <2>2. job'.sink = job.sink
    BY <2>1, JobShape DEF Types
  <2> QED
    BY <1>10, <1>d, <2>2 DEF DeleteOne, meta
<1>11. CASE SetCheckpoint
  BY <1>11, <1>e DEF SetCheckpoint, Pruned, Return, meta
<1>12. CASE CatchUp
  <2>1. virt <= virt' /\ virt' = pp'
    BY <1>12, <1>a, CatchUpAbove
  <2>2. UNCHANGED <<message, job>>
    BY <1>12 DEF CatchUp, worker
  <2> QED
    BY <1>c, <2>1, <2>2
<1>13. CASE Resume
  BY <1>13, <1>e DEF Resume, meta, worker
<1>14. CASE SyncBodies
  BY <1>14, <1>e DEF SyncBodies, meta, worker
<1>15. CASE SyncSmt
  <2>1. "utxo" \in stable => "utxo" \in stable'
    BY <1>15 DEF SyncSmt
  <2> QED
    BY <1>15, <1>a, <1>c, <2>1 DEF SyncSmt, worker, Sinks
<1>16. CASE SyncPool
  <2>1. "utxo" \in stable => "utxo" \in stable'
    BY <1>16 DEF SyncPool
  <2> QED
    BY <1>16, <1>a, <1>c, <2>1 DEF SyncPool, worker, Sinks
<1>17. CASE SyncUtxoSet
  <2>1. "utxo" \notin stable /\ virt = pp
    BY <1>17 DEF SyncUtxoSet, Turn, Flags, Sinks
  <2>2. UNCHANGED <<pp, virt, message, job>>
    BY <1>17, <2>1 DEF SyncUtxoSet, worker
  <2> QED
    BY <1>a, <1>c, <2>1, <2>2
<1>18. CASE Fail
  BY <1>18, <1>e DEF Fail, meta, worker
<1>19. CASE Crash
  BY <1>19, <1>e DEF Crash, Forget, meta
<1>20. CASE UNCHANGED vars
  BY <1>20, <1>e DEF vars, meta, worker
<1>21. CASE InterruptPrune
  BY <1>21, <1>e DEF InterruptPrune, Pruned, Return, meta
<1>22. CASE SignalExit
  BY <1>22, <1>e DEF SignalExit, meta
<1>23. CASE Restart
  BY <1>23, <1>e DEF Restart, Forget, meta
<1> QED
  BY <1>1, <1>2, <1>3, <1>4, <1>5, <1>6, <1>7, <1>8, <1>9, <1>10, <1>11,
     <1>12, <1>13, <1>14, <1>15, <1>16, <1>17, <1>18, <1>19, <1>20,
     <1>21, <1>22, <1>23
     DEF Next, Work, Sync

LEMMA KeptSetStep == MoveInv /\ Ordered /\ [Next]_vars => KeptSet'
<1> SUFFICES ASSUME Types, Flags, Sinks, KeptSet, InStep, Imported, Ordered, [Next]_vars PROVE KeptSet'
  BY DEF MoveInv
<1>a. virt \in Nat /\ pp \in Nat /\ position \in Nat
  BY ChainFacts DEF Types, PointTypes
<1>b. CASE "utxo" \notin stable'
  BY <1>b DEF KeptSet
<1>c. CASE UNCHANGED <<utxos, position, pp, virt, data, stable>>
  BY <1>c DEF KeptSet
<1>d. CASE todo # {} /\ UNCHANGED stable
  BY <1>b, <1>d DEF Flags
<1>1. CASE ResolveVirtual
  <2>1. "utxo" \in stable
    BY <1>1, TransitionalFlag DEF ResolveVirtual
  <2>2. UNCHANGED <<utxos, position, pp>> /\ virt' = virt + 1
    BY <1>1 DEF ResolveVirtual, meta
  <2>3. ASSUME NEW b \in position' + 1 .. virt' PROVE data'[b] = UtxoState
    <3>1. b \in Blocks
      BY <1>a, <2>2, <2>3, TypesStep, ConstantFacts DEF Types, PointTypes
    <3>2. data'[b] = CASE b = virt' -> UtxoState
                       [] b # virt' /\ Merge[b] = virt' /\ data[b] < Body -> Body
                       [] OTHER -> data[b]
      BY <1>1, <3>1 DEF ResolveVirtual
    <3>3. b = virt' \/ data[b] = UtxoState
      BY <1>a, <2>1, <2>2, <2>3 DEF KeptSet
    <3> QED
      BY <3>2, <3>3 DEF UtxoState, Body
  <2> QED
    BY <1>a, <2>1, <2>2, <2>3 DEF KeptSet
<1>2. CASE NotifyVirtual
  BY <1>2, <1>c DEF NotifyVirtual, meta
<1>3. CASE Receive
  BY <1>3, <1>c DEF Receive, meta
<1>4. CASE AdvancePruningPoint
  <2>1. UNCHANGED <<utxos, position, virt, data, stable>>
    BY <1>4 DEF AdvancePruningPoint, meta
  <2>2. CASE \E p \in NextPruningPoint(job.sink, pp) : pp' = p
    <3>1. PICK p \in NextPruningPoint(job.sink, pp) : pp' = p
      BY <2>2
    <3>2. pp < p /\ p <= virt /\ p \in Nat
      BY <3>1, AdvanceBelow, ChainFacts DEF NextPruningPoint
    <3> QED
      BY <1>a, <2>1, <3>1, <3>2 DEF KeptSet
  <2> QED
    BY <1>4, <1>c, <2>1, <2>2 DEF AdvancePruningPoint
<1>5. CASE MoveOne
  <2>1. UNCHANGED <<pp, virt, data, stable>>
    BY <1>5 DEF MoveOne
  <2>2. CASE UNCHANGED <<position, utxos, pool>>
    BY <1>c, <2>1, <2>2
  <2>3. CASE ~exiting /\ ~Transitional
    <3>1. "utxo" \in stable
      BY <2>3, TransitionalFlag
    <3>2. job.next = position + 1 /\ job.pp = pp /\ job.next <= job.pp
      BY <1>5, <2>3, <3>1 DEF MoveOne, InStep
    <3>3. utxos' = utxos \cup {position + 1} /\ position' = position + 1
      BY <1>5, <2>3, <3>2 DEF MoveOne
    <3>4. 0 .. position + 1 = (0 .. position) \cup {position + 1}
      BY <1>a
    <3>5. utxos' = 0 .. position'
      BY <3>1, <3>3, <3>4 DEF KeptSet
    <3> QED
      BY <1>a, <2>1, <3>1, <3>2, <3>3, <3>5 DEF KeptSet
  <2> QED
    BY <1>5, <2>2, <2>3 DEF MoveOne
<1>6. CASE Moved
  BY <1>6, <1>c DEF Moved, meta
<1>7. CASE CheckRecovery
  BY <1>7, <1>c DEF CheckRecovery, meta
<1>8. CASE PreparePrune
  BY <1>8, <1>c DEF PreparePrune, meta
<1>9. CASE StartPrune
  BY <1>9, <1>c DEF StartPrune, meta
<1>10. CASE DeleteOne
  <2>1. UNCHANGED <<utxos, position, pp, virt, stable>> /\ pc = "sweep"
    BY <1>10 DEF DeleteOne, meta
  <2>2. CASE "utxo" \in stable
    <3>1. position = pp
      BY <2>1, <2>2 DEF InStep
    <3>2. ASSUME NEW b \in position + 1 .. virt PROVE data'[b] = UtxoState
      <4>1. PICK c \in job.del :
                data' = [data EXCEPT ![c] = IF c \in KeepsHeader(job.pp) THEN HeaderOnly ELSE Nothing]
        BY <1>10 DEF DeleteOne
      <4>2. c \in Blocks /\ ~(job.root <= Fork[c])
        BY <4>1 DEF Ordered, ToDelete, Future
      <4>3. b \in Chain /\ Fork[b] = b /\ b \in Nat
        BY <1>a, <3>2, ConstantFacts DEF Types, PointTypes
      <4>4. job.root \in Nat /\ root \in Nat
        BY JobShape, ChainFacts DEF Types, PointTypes
      <4>5. b # c
        BY <1>a, <3>1, <3>2, <4>2, <4>3, <4>4 DEF Ordered
      <4>6. data'[b] = data[b]
        BY <4>1, <4>3, <4>5, ConstantFacts DEF Types, DataType
      <4> QED
        BY <2>2, <3>2, <4>6 DEF KeptSet
    <3> QED
      BY <2>1, <2>2, <3>2 DEF KeptSet
  <2> QED
    BY <1>b, <2>1, <2>2
<1>11. CASE SetCheckpoint
  BY <1>11, <1>c DEF SetCheckpoint, meta
<1>12. CASE CatchUp
  BY <1>12, <1>b DEF CatchUp
<1>13. CASE Resume
  BY <1>13, <1>c DEF Resume, meta
<1>14. CASE SyncBodies
  BY <1>14, <1>d DEF SyncBodies, Turn
<1>15. CASE SyncSmt
  <2>1. "utxo" \notin stable
    BY <1>15 DEF SyncSmt, Turn, Flags
  <2> QED
    BY <1>15, <1>b, <2>1 DEF SyncSmt
<1>16. CASE SyncPool
  <2>1. "utxo" \notin stable
    BY <1>16 DEF SyncPool, Turn, Flags
  <2> QED
    BY <1>16, <1>b, <2>1 DEF SyncPool
<1>17. CASE SyncUtxoSet
  <2>1. "utxo" \notin stable /\ virt = pp
    BY <1>17 DEF SyncUtxoSet, Turn, Flags, Sinks
  <2>2. CASE "utxo" \notin stable'
    BY <1>b, <2>2
  <2>3. CASE phase = 2
    <3>1. UNCHANGED <<utxos, position, pp, virt, data>> /\ utxos = 0 .. pp /\ position = pp
      BY <1>17, <2>1, <2>3 DEF SyncUtxoSet, Imported
    <3>2. position + 1 .. virt = {}
      BY <1>a, <2>1, <3>1
    <3> QED
      BY <1>a, <2>1, <3>1, <3>2 DEF KeptSet
  <2> QED
    BY <1>17, <2>1, <2>2, <2>3 DEF SyncUtxoSet
<1>18. CASE Fail
  BY <1>18, <1>c DEF Fail, meta
<1>19. CASE Crash
  BY <1>19, <1>c DEF Crash, meta
<1>20. CASE UNCHANGED vars
  BY <1>20, <1>c DEF vars, meta
<1>21. CASE InterruptPrune
  BY <1>21, <1>c DEF InterruptPrune, meta
<1>22. CASE SignalExit
  BY <1>22, <1>c DEF SignalExit, meta
<1>23. CASE Restart
  BY <1>23, <1>c DEF Restart, meta
<1> QED
  BY <1>1, <1>2, <1>3, <1>4, <1>5, <1>6, <1>7, <1>8, <1>9, <1>10, <1>11,
     <1>12, <1>13, <1>14, <1>15, <1>16, <1>17, <1>18, <1>19, <1>20,
     <1>21, <1>22, <1>23
     DEF Next, Work, Sync

LEMMA InStepStep ==
    ASSUME PromptWorker
    PROVE  MoveInv /\ [Next]_vars => InStep'
<1> SUFFICES ASSUME Types, Flags, Sinks, KeptSet, InStep, Imported, [Next]_vars PROVE InStep'
  BY DEF MoveInv
<1>a. virt \in Nat /\ pp \in Nat /\ position \in Nat
  BY ChainFacts DEF Types, PointTypes
<1>b. CASE "utxo" \notin stable'
  BY <1>b DEF InStep
<1>c. CASE UNCHANGED <<worker, position, pp, stable>>
  BY <1>c DEF InStep, worker
<1>d. CASE UNCHANGED <<stable, position, pp>> /\ pc \in {"check", "prepare", "start", "sweep"} /\ pc' # "move"
  BY <1>d DEF InStep
<1>e. CASE pc' = "idle" /\ recovered' = FALSE
  BY <1>e DEF InStep
<1>f. CASE UNCHANGED <<pc, recovered, job, position, pp, stable>> /\ exiting'
  BY <1>f DEF InStep
<1>1. CASE ResolveVirtual
  BY <1>1, <1>c DEF ResolveVirtual, meta, worker
<1>2. CASE NotifyVirtual
  BY <1>2, <1>c DEF NotifyVirtual, meta, worker
<1>3. CASE Receive
  <2>1. UNCHANGED <<stable, position, pp, recovered, exiting>> /\ pc = "idle"
    BY <1>3 DEF Receive, meta
  <2>2. CASE recovered /\ pc' = "advance"
    BY <2>1, <2>2 DEF InStep
  <2>3. CASE position = pp /\ pc' = "check"
    BY <2>1, <2>3 DEF InStep
  <2>4. CASE pc' = "move" /\ job' = [NoJob EXCEPT !.sink = message, !.next = position + 1, !.pp = pp, !.root = root,
                                                  !.prune = (checkpoint # root), !.recover = TRUE]
    <3>1. job'.next = position + 1 /\ job'.pp = pp
      BY <2>4 DEF NoJob
    <3> QED
      BY <2>1, <2>4, <3>1 DEF InStep
  <2>5. CASE UNCHANGED <<pc, job>>
    BY <1>c, <2>1, <2>5 DEF worker
  <2> QED
    BY <1>3, <2>2, <2>3, <2>4, <2>5 DEF Receive
<1>4. CASE AdvancePruningPoint
  <2>1. UNCHANGED <<stable, position, exiting>> /\ pc = "advance"
    BY <1>4 DEF AdvancePruningPoint, meta
  <2>2. CASE Return /\ UNCHANGED pp
    BY <2>1, <2>2 DEF Return, InStep
  <2>3. CASE \E p \in NextPruningPoint(job.sink, pp) :
                /\ pp' = p /\ pc' = (IF DeepEnough(p) THEN "move" ELSE "idle")
                /\ job' = [NoJob EXCEPT !.next = pp + 1, !.pp = p, !.root = root', !.prune = TRUE]
    <3>1. PICK p \in NextPruningPoint(job.sink, pp) :
                /\ pp' = p /\ pc' = (IF DeepEnough(p) THEN "move" ELSE "idle")
                /\ job' = [NoJob EXCEPT !.next = pp + 1, !.pp = p, !.root = root', !.prune = TRUE]
      BY <2>3
    <3>2. pc' = "move" /\ "utxo" \in stable
      BY <3>1, AdvanceBelow
    <3>3. job'.next = pp + 1 /\ job'.pp = p
      BY <3>1 DEF NoJob
    <3>4. pp + 1 <= p
      BY <1>a, ChainFacts DEF NextPruningPoint
    <3> QED
      BY <2>1, <3>1, <3>2, <3>3, <3>4 DEF InStep
  <2> QED
    BY <1>4, <2>2, <2>3 DEF AdvancePruningPoint
<1>5. CASE MoveOne
  <2>1. UNCHANGED <<pp, stable, exiting>>
    BY <1>5 DEF MoveOne
  <2>2. CASE Transitional
    BY <1>b, <2>1, <2>2, TransitionalFlag
  <2>3. CASE exiting /\ Return
    BY <2>1, <2>3 DEF Return, InStep
  <2>4. CASE ~exiting /\ ~Transitional
    <3>1. job.next = position + 1 /\ job.pp = pp /\ pc = "move"
      BY <1>5, <2>4, TransitionalFlag DEF MoveOne, InStep
    <3>2. position' = job.next /\ UNCHANGED pc /\ job' = [job EXCEPT !.next = @ + 1]
      BY <1>5, <2>4 DEF MoveOne
    <3>3. job'.next = job.next + 1 /\ job'.pp = job.pp
      BY <3>2, JobShape DEF Types
    <3> QED
      BY <2>1, <3>1, <3>2, <3>3 DEF InStep
  <2> QED
    BY <1>5, <2>2, <2>3, <2>4 DEF MoveOne
<1>6. CASE Moved
  <2>1. UNCHANGED <<stable, position, pp>> /\ pc = "move" /\ job.next > job.pp /\ pc' \in {"check", "prepare"}
    BY <1>6 DEF Moved, meta
  <2>2. job.next \in Nat /\ job.pp \in Nat
    BY JobShape, ChainFacts DEF Types
  <2>3. "utxo" \in stable => position = pp
    BY <1>a, <2>1, <2>2 DEF InStep, KeptSet
  <2> QED
    BY <2>1, <2>3 DEF InStep
<1>7. CASE CheckRecovery
  <2>1. UNCHANGED <<stable, position, pp>> /\ pc = "check" /\ pc' # "move"
    BY <1>7 DEF CheckRecovery, Return, meta
  <2> QED
    BY <1>d, <2>1
<1>8. CASE PreparePrune
  <2>1. UNCHANGED <<stable, position, pp>> /\ pc = "prepare" /\ pc' # "move"
    BY <1>8 DEF PreparePrune, Forget, meta
  <2> QED
    BY <1>d, <2>1
<1>9. CASE StartPrune
  <2>1. UNCHANGED <<stable, position, pp>> /\ pc = "start" /\ pc' # "move"
    BY <1>9 DEF StartPrune, Forget, meta
  <2> QED
    BY <1>d, <2>1
<1>10. CASE DeleteOne
  <2>1. UNCHANGED <<stable, position, pp>> /\ pc = "sweep" /\ pc' # "move"
    BY <1>10 DEF DeleteOne, meta
  <2> QED
    BY <1>d, <2>1
<1>11. CASE SetCheckpoint
  <2>1. UNCHANGED <<stable, position, pp>> /\ pc = "sweep" /\ pc' # "move"
    BY <1>11 DEF SetCheckpoint, Pruned, Return, meta
  <2> QED
    BY <1>d, <2>1
<1>12. CASE CatchUp
  BY <1>12, <1>b DEF CatchUp
<1>13. CASE Resume
  BY <1>13, <1>c DEF Resume, meta, worker
<1>14. CASE SyncBodies
  BY <1>14, <1>c DEF SyncBodies
<1>15. CASE SyncSmt
  <2>1. "utxo" \notin stable
    BY <1>15 DEF SyncSmt, Turn, Flags
  <2> QED
    BY <1>15, <1>b, <2>1 DEF SyncSmt
<1>16. CASE SyncPool
  <2>1. "utxo" \notin stable
    BY <1>16 DEF SyncPool, Turn, Flags
  <2> QED
    BY <1>16, <1>b, <2>1 DEF SyncPool
<1>17. CASE SyncUtxoSet
  <2>1. "utxo" \notin stable
    BY <1>17 DEF SyncUtxoSet, Turn, Flags
  <2>2. CASE "utxo" \notin stable'
    BY <1>b, <2>2
  <2>3. CASE phase = 2
    <3>1. UNCHANGED <<pc, position, pp>> /\ pc # "move" /\ position = pp
      BY <1>17, <2>3 DEF SyncUtxoSet, Imported, worker
    <3> QED
      BY <3>1 DEF InStep
  <2> QED
    BY <1>17, <2>1, <2>2, <2>3 DEF SyncUtxoSet
<1>18. CASE Fail
  BY <1>18, <1>c DEF Fail, meta, worker
<1>19. CASE Crash
  BY <1>19, <1>e DEF Crash, Forget
<1>20. CASE UNCHANGED vars
  BY <1>20, <1>c DEF vars, meta, worker
<1>21. CASE InterruptPrune
  <2>1. UNCHANGED <<stable, position, pp>> /\ pc = "sweep" /\ pc' # "move"
    BY <1>21 DEF InterruptPrune, Pruned, Return, meta
  <2> QED
    BY <1>d, <2>1
<1>22. CASE SignalExit
  BY <1>22, <1>f DEF SignalExit, meta
<1>23. CASE Restart
  BY <1>23, <1>e DEF Restart, Forget
<1> QED
  BY <1>1, <1>2, <1>3, <1>4, <1>5, <1>6, <1>7, <1>8, <1>9, <1>10, <1>11,
     <1>12, <1>13, <1>14, <1>15, <1>16, <1>17, <1>18, <1>19, <1>20,
     <1>21, <1>22, <1>23
     DEF Next, Work, Sync

LEMMA ImportedStep == MoveInv /\ [Next]_vars => Imported'
<1> SUFFICES ASSUME Types, Flags, Sinks, Imported, [Next]_vars PROVE Imported'
  BY DEF MoveInv
<1>a. CASE phase' \in {0, 1}
  BY <1>a DEF Imported
<1>b. CASE UNCHANGED <<ibd, utxos, position, pp>>
  BY <1>b DEF Imported, ibd
<1>c. CASE UNCHANGED ibd /\ "utxo" \in stable
  BY <1>c DEF Imported, Flags, ibd
<1>1. CASE ResolveVirtual
  BY <1>1, <1>b DEF ResolveVirtual, meta
<1>2. CASE NotifyVirtual
  BY <1>2, <1>b DEF NotifyVirtual, meta
<1>3. CASE Receive
  BY <1>3, <1>b DEF Receive, meta
<1>4. CASE AdvancePruningPoint
  <2>1. CASE \E p \in NextPruningPoint(job.sink, pp) : pp' = p
    BY <1>4, <1>c, <2>1, AdvanceBelow DEF AdvancePruningPoint
  <2> QED
    BY <1>4, <1>b, <2>1 DEF AdvancePruningPoint, meta
<1>5. CASE MoveOne
  <2>1. CASE UNCHANGED <<position, utxos, pool>>
    BY <1>5, <1>b, <2>1 DEF MoveOne
  <2>2. CASE ~exiting /\ ~Transitional
    BY <1>5, <1>c, <2>2, TransitionalFlag DEF MoveOne
  <2> QED
    BY <1>5, <2>1, <2>2 DEF MoveOne
<1>6. CASE Moved
  BY <1>6, <1>b DEF Moved, meta
<1>7. CASE CheckRecovery
  BY <1>7, <1>b DEF CheckRecovery, meta
<1>8. CASE PreparePrune
  BY <1>8, <1>a, <1>b DEF PreparePrune, Forget, meta
<1>9. CASE StartPrune
  BY <1>9, <1>a, <1>b DEF StartPrune, Forget, meta
<1>10. CASE DeleteOne
  BY <1>10, <1>b DEF DeleteOne, meta
<1>11. CASE SetCheckpoint
  BY <1>11, <1>b DEF SetCheckpoint, meta
<1>12. CASE CatchUp
  BY <1>12, <1>a DEF CatchUp
<1>13. CASE Resume
  BY <1>13, <1>a DEF Resume
<1>14. CASE SyncBodies
  BY <1>14, <1>a DEF SyncBodies, Done
<1>15. CASE SyncSmt
  BY <1>15, <1>a DEF SyncSmt, Done, Goto
<1>16. CASE SyncPool
  BY <1>16, <1>a DEF SyncPool, Done, Goto
<1>17. CASE SyncUtxoSet
  <2>1. CASE phase = 1
    <3>1. todo = {"utxo"}
      BY <1>17 DEF SyncUtxoSet, Turn, Before, Flags, Tasks
    <3> QED
      BY <1>17, <2>1, <3>1 DEF SyncUtxoSet, Goto, Imported
  <2> QED
    BY <1>17, <1>a, <2>1 DEF SyncUtxoSet, Done, Goto
<1>18. CASE Fail
  BY <1>18, <1>a DEF Fail
<1>19. CASE Crash
  BY <1>19, <1>a DEF Crash, Forget
<1>20. CASE UNCHANGED vars
  BY <1>20, <1>b DEF vars, meta
<1>21. CASE InterruptPrune
  BY <1>21, <1>b DEF InterruptPrune, meta
<1>22. CASE SignalExit
  BY <1>22, <1>b DEF SignalExit, meta
<1>23. CASE Restart
  BY <1>23, <1>a DEF Restart, Forget
<1> QED
  BY <1>1, <1>2, <1>3, <1>4, <1>5, <1>6, <1>7, <1>8, <1>9, <1>10, <1>11,
     <1>12, <1>13, <1>14, <1>15, <1>16, <1>17, <1>18, <1>19, <1>20,
     <1>21, <1>22, <1>23
     DEF Next, Work, Sync

(* MoveRecoverable: for every chain and any number of catch-ups, failures and crashes, if no
   catch-up both starts and ends between two steps of a move, a node with a stable UTXO set can
   finish the move it is in. *)
THEOREM MoveRecoverableHolds ==
    ASSUME PromptWorker
    PROVE  Spec => []MoveRecoverable
<1>1. Init => MoveInv /\ Ordered
  BY TypesInit, FlagsInit, OrderedInit DEF MoveInv
<1>2. MoveInv /\ Ordered /\ [Next]_vars => MoveInv' /\ Ordered'
  BY TypesStep, FlagsStep, SinksStep, KeptSetStep, InStepStep, ImportedStep, OrderedStep DEF MoveInv
<1>3. MoveInv => MoveRecoverable
  <2>1. ASSUME Types, KeptSet, "utxo" \in stable
        PROVE  utxos = 0 .. position /\ position <= pp /\ \A b \in position + 1 .. pp : data[b] = UtxoState
    <3>1. virt \in Nat /\ pp \in Nat /\ position \in Nat
      BY <2>1, ChainFacts DEF Types, PointTypes
    <3> QED
      BY <2>1, <3>1 DEF KeptSet
  <2> QED
    BY <2>1 DEF MoveInv, Flags, MoveRecoverable
<1> QED
  BY <1>1, <1>2, <1>3, PTL DEF Spec
=============================================================================
