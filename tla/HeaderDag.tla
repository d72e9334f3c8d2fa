------------------------------ MODULE HeaderDag ------------------------------
(***************************************************************************)
(* The header DAG of a node: headers that the header processor validates    *)
(* and commits (pipeline/header_processor), and the header pruning of the   *)
(* pruning processor, over the reachability and GHOSTDAG algorithms.        *)
(*                                                                          *)
(* Blocks are numbered in the order they are committed, and the number is   *)
(* their identity.  A commit is one step: it holds the reachability store   *)
(* from the staging to the write, and the validation before it reads only   *)
(* the past of the header, which concurrent commits leave alone.  Headers   *)
(* and pruning exclude each other by the pruning lock, which the pruning    *)
(* gives up between two blocks.                                             *)
(***************************************************************************)
EXTENDS GhostDag

CONSTANTS MaxHeaders,     \* the number of headers, genesis included
          ParentSets,     \* the parents that the n-th header may have
          Window,         \* the chain blocks whose data a pruning keeps for the difficulty windows
          MergeDepth,     \* merge_depth
          PruningDepth,   \* pruning_depth
          MaxPrunings,
          MaxLevels       \* the blocks that a pruning keeps for the proof below its windows

ASSUME HeaderDagAssumption ==
    /\ K \in Nat \ {0} /\ MaxHeaders \in Nat /\ MaxPrunings \in Nat /\ MaxLevels \in Nat
    /\ MergeDepth <= PruningDepth /\ ReindexDepth <= PruningDepth /\ Window >= K + 3

VARIABLES reach,      \* reachability_store
          gd,         \* ghostdag_store
          rel,        \* relations_store
          reachRel,   \* reachability_relations_store
          mergeRoot,  \* depth_store: merge_depth_root
          hst,        \* headers_selected_tip_store
          pp,         \* pruning_point_store
          queue,      \* the blocks the running pruning has still to visit
          keep,       \* its keep_blocks, and keep_relations of level 0 and above
          prunings,   \* how often the pruning point moved
          past,       \* of every block that ever was: its past by the parents in its header,
          chain,      \*   the selected parents below it,
          blue,       \*   and the blue blocks below it
          stray       \* a header named a parent that the pruning removes

stores == <<reach, gd, rel, reachRel, mergeRoot>>
history == <<past, chain, blue, stray>>
vars == <<stores, hst, pp, queue, keep, prunings, history>>

Blocks == DOMAIN reach.interval \ {Origin}

-------------------------------------------------------------------------------
NoMergeset == [sp |-> Origin, blues |-> <<>>, reds |-> <<>>, sizes |-> <<>>, score |-> 0, work |-> 0,
               ok |-> TRUE]

(* process_genesis *)
Init ==
    /\ reach = AddBlock(InitialStore, Genesis, Origin, {})
    /\ gd = (Genesis :> NoMergeset)
    /\ rel = (Genesis :> {Origin}) @@ (Origin :> {})
    /\ reachRel = rel
    /\ mergeRoot = (Genesis :> Origin)
    /\ hst = Genesis /\ pp = Genesis
    /\ queue = <<>> /\ keep = [blocks |-> {}, level0 |-> {}, levels |-> {}] /\ prunings = 0
    /\ past = (Genesis :> {Origin}) @@ (Origin :> {})
    /\ chain = past
    /\ blue = (Genesis :> {})
    /\ stray = FALSE

-------------------------------------------------------------------------------
(* calculate_block_at_depth for the merge root *)
RECURSIVE LastBelow(_, _, _)
LastBelow(b, tip, score) ==
    IF b = tip \/ gd[NextChainAncestor(reach, tip, b)].score >= score THEN b
    ELSE LastBelow(NextChainAncestor(reach, tip, b), tip, score)

CalcMergeDepthRoot(data) ==
    LET stored == mergeRoot[data.sp]
        from   == IF stored = Origin THEN pp ELSE stored
    IN  IF data.score < MergeDepth THEN Genesis
        ELSE IF data.score < gd[pp].score + MergeDepth \/ ~ IsChainAncestor(reach, pp, data.sp) THEN Origin
        ELSE IF gd[from].score >= data.score - MergeDepth THEN from
        ELSE LastBelow(from, data.sp, data.score - MergeDepth)

(* check_bounded_merge_depth *)
BoundedMergeDepth(data, root) ==
    \A red \in ToSet(data.reds) :
        \/ IsDagAncestor(reach, root, red)
        \/ \E b \in ToSet(data.blues) : IsChainAncestor(reach, root, b) /\ IsDagAncestor(reach, red, b)

(* post_pow_validation and commit_header, with the parents that have relations. *)
CommitHeader(new, parents, known, data) ==
    \E added \in {AddBlock(reach, new, data.sp, MergesetOf(data))}, root \in {CalcMergeDepthRoot(data)} :
        /\ BoundedMergeDepth(data, root)
        /\ IF added.ok /\ IsChainAncestor(added, pp, new) /\ Heavier(gd @@ (new :> data), new, hst)
           THEN reach' = Hint(added, new) /\ hst' = new
           ELSE reach' = added /\ hst' = hst
        /\ gd' = gd @@ (new :> data)
        /\ rel' = rel @@ (new :> known)
        /\ reachRel' = reachRel @@ (new :> known)
        /\ mergeRoot' = mergeRoot @@ (new :> root)
        /\ past' = past @@ (new :> parents \cup UNION {past[p] : p \in parents})
        /\ chain' = chain @@ (new :> {data.sp} \cup chain[data.sp])
        /\ blue' = blue @@ (new :> ToSet(data.blues) \cup blue[data.sp])

(* process_header: all parents have a status and none is in the past of another.  A parent that a
   pruning keeps for a higher level of the proof has no relations and is left out.  GHOSTDAG runs
   first, and may panic; only then a header is refused that has no parent in the future of the
   pruning point.  The other parents may be anywhere. *)
ProcessHeader(parents) ==
    LET new   == Cardinality(DOMAIN past)
        known == parents \cap DOMAIN rel
    IN  /\ reach.ok /\ new <= MaxHeaders /\ parents \in ParentSets[new] /\ parents \subseteq Blocks
        /\ \A p, q \in parents : p # q => ~ IsDagAncestor(reach, p, q)
        /\ known # {}
        /\ \E data \in {Ghostdag(reach, rel, gd, known)} :
             IF data.ok
             THEN /\ \E p \in known : IsDagAncestor(reach, pp, p)
                  /\ CommitHeader(new, parents, known, data)
             ELSE reach' = Fail(reach) /\ UNCHANGED <<gd, rel, reachRel, mergeRoot, hst, past, chain, blue>>
        /\ stray' = (stray \/ \E p \in known \ keep.blocks : ~ IsDagAncestor(reach, pp, p))
        /\ UNCHANGED <<pp, queue, keep, prunings>>

-------------------------------------------------------------------------------
(* get_ghostdag_chain_k_depth *)
RECURSIVE ChainOf(_, _)
ChainOf(b, n) ==
    IF b \notin DOMAIN gd \/ n = 0 THEN {} ELSE {b} \cup ChainOf(gd[b].sp, n - 1)

(* The data of a kept block, without the blocks that are not kept. *)
Filtered(data, kept) ==
    LET In(b) == b \in kept IN
    IF ToSet(data.blues) \cup ToSet(data.reds) \subseteq kept THEN data ELSE
    [data EXCEPT !.sp = IF @ \in kept THEN @ ELSE Origin,
                 !.blues = SelectSeq(@, In), !.reds = SelectSeq(@, In),
                 !.sizes = [b \in DOMAIN @ \cap kept |-> @[b]]]

(* anticone_and_trusted_data: the pruning point and what virtual merges of its anticone *)
AnticoneOf(b) ==
    LET future == {x \in Blocks : IsDagAncestor(reach, b, x)} IN
    {b} \cup {x \in Blocks \ future : /\ ~ IsDagAncestor(reach, x, b)
                                      /\ \E f \in future : IsDagAncestor(reach, x, f)}

(* The pruning point moves up the chain of the selected tip, and prune() starts: the pruning point
   and its anticone are kept, their GHOSTDAG data over K chain blocks, and everything between; the
   difficulty windows and the proof reach further down, to some work and some higher levels.
   Virtual merges every tip above the pruning point.  The pruning point is far below the reindex
   root, as the pruning depth is far above reindex depth and slack. *)
StartPruning(b) ==
    /\ reach.ok /\ queue = <<>> /\ prunings < MaxPrunings
    /\ b # pp /\ IsChainAncestor(reach, pp, b) /\ IsChainAncestor(reach, b, hst)
    /\ gd[hst].score >= gd[b].score + PruningDepth
    /\ IsDagAncestor(reach, b, reach.root)
    /\ \E anticone \in {AnticoneOf(b)} :
       \E below \in {{x \in DOMAIN gd : \E a \in anticone : IsDagAncestor(reach, x, a)}},
          least \in {Min({gd[x].work : x \in UNION {ChainOf(a, Window) : a \in anticone}})} :
       \E w \in {gd[x].work : x \in below} :
        /\ w <= least
        /\ LET level0 == anticone \cup {x \in below : gd[x].work >= w} IN
           \E levels \in SUBSET (below \ level0) :
              /\ Cardinality(levels) <= MaxLevels
              /\ keep' = [blocks |-> anticone, level0 |-> level0, levels |-> levels]
              /\ gd' = [x \in DOMAIN gd |-> IF x \in level0 THEN Filtered(gd[x], level0) ELSE gd[x]]
    /\ pp' = b /\ prunings' = prunings + 1
    /\ queue' = reach.children[Origin]
    /\ UNCHANGED <<reach, rel, reachRel, mergeRoot, hst, history>>

Without(f, b) == [x \in DOMAIN f \ {b} |-> f[x]]

DeleteLevelRelations(b) ==
    [c \in DOMAIN rel \ {b} |-> IF rel[c] = {b} THEN {Origin} ELSE rel[c] \ {b}]

DeleteReachabilityRelations(b) ==
    LET Needed(c) == {g \in reachRel[b] : \A o \in reachRel[c] \ {b} : ~ IsDagAncestor(reach, g, o)}
    IN  [c \in DOMAIN reachRel \ {b} |->
            IF b \in reachRel[c] THEN (reachRel[c] \ {b}) \cup Needed(c) ELSE reachRel[c]]

(* One block of the traversal from the origin up. *)
PruneNext ==
    LET b     == Head(queue)
        above == IsDagAncestor(reach, pp, b)
        below == queue' = Tail(queue) \o reach.children[b]
    IN  /\ reach.ok /\ queue # <<>>
        /\ \/ above /\ queue' = Tail(queue) /\ UNCHANGED stores
           \/ /\ ~ above /\ below /\ b \in keep.blocks \cup keep.level0
              /\ UNCHANGED stores
           \/ /\ ~ above /\ below /\ b \in keep.levels
              /\ rel' = DeleteLevelRelations(b) /\ gd' = Without(gd, b)
              /\ UNCHANGED <<reach, reachRel, mergeRoot>>
           \/ /\ ~ above /\ below /\ b \notin keep.blocks \cup keep.level0 \cup keep.levels
              /\ reach' = DeleteBlock(reach, b, Mergeset(reach, reachRel, reach.parent[b], reachRel[b]))
              /\ reachRel' = DeleteReachabilityRelations(b)
              /\ rel' = DeleteLevelRelations(b)
              /\ gd' = Without(gd, b) /\ mergeRoot' = Without(mergeRoot, b)
        /\ UNCHANGED <<hst, pp, keep, prunings, history>>

Next ==
    \/ \E parents \in UNION {ParentSets[n] : n \in DOMAIN ParentSets} : ProcessHeader(parents)
    \/ \E b \in Blocks : StartPruning(b)
    \/ PruneNext

Spec == Init /\ [][Next]_vars
-------------------------------------------------------------------------------
Before(a, b) == a = b \/ a \in past[b]
BeforeOnChain(a, b) == a = b \/ a \in chain[b]

(* The reachability store answers as the parents in the headers say, for every two blocks it still
   has and whatever was reindexed or deleted: "DAG/chain queries are guaranteed to return the same
   results as before the deletion" (inquirer.rs). *)
QueriesExact ==
    reach.ok => \A a, b \in DOMAIN reach.interval :
        /\ IsDagAncestor(reach, a, b) <=> Before(a, b)
        /\ IsChainAncestor(reach, a, b) <=> BeforeOnChain(a, b)

(* No header and no deletion runs into an error or a failed assertion of the reachability and
   GHOSTDAG code, which would end the process: the reindex root keeps capacity, intervals never
   turn negative, and the data kept below a pruned anticone is enough to colour what follows.  This
   holds until a header names a parent that a pruning is removing; no check comes between such a
   header and GHOSTDAG, and check_pruning_violation, which comes later, asks for one parent only. *)
NeverPanics == ~ stray => reach.ok

(* The database keeps children and covering sets unordered and sorts them by interval when they
   fall out of the cache: that gives the order in memory back. *)
Reloads ==
    reach.ok => \A b \in DOMAIN reach.interval : \A s \in {reach.children[b], reach.fcs[b]} :
        \A i \in 1 .. Len(s) - 1 : reach.interval[s[i]].end < reach.interval[s[i + 1]].start

(* The blue past of every block is a K-cluster: no blue block has more than K blue blocks in its
   anticone; the blue score is its size. *)
BluesAreCluster ==
    reach.ok => \A b \in DOMAIN blue :
        /\ \A x \in blue[b] : Cardinality({y \in blue[b] : ~ Before(x, y) /\ ~ Before(y, x)}) <= K
        /\ b \in DOMAIN gd => gd[b].score = Cardinality(blue[b])
===============================================================================
