-------------------------------- MODULE BlockDag --------------------------------
(***************************************************************************)
(* The block DAG above a root (genesis, or the pruning point a node synced *)
(* from), with the part of GHOSTDAG the fork choice needs.  Every block    *)
(* carries the same work and K is at least the width of the DAG, so every  *)
(* mergeset is blue: blue work, blue score and DAA score of a block are    *)
(* all the number of blocks in its past.  Hash is the order of the block   *)
(* hashes, the tie break of SortableBlock.                                 *)
(***************************************************************************)
EXTENDS Naturals, FiniteSetsExt, SequencesExt

CONSTANTS
    Blocks, Root, Parents, Hash,
    FinalityDepth, MergeDepth, MaxParents

ASSUME DagAssumption ==
    /\ Root \in Blocks
    /\ Parents \in [Blocks -> SUBSET Blocks]
    /\ \A b \in Blocks : Parents[b] = {} <=> b = Root
    /\ Hash \in [Blocks -> Nat]
    /\ \A a, b \in Blocks : Hash[a] = Hash[b] => a = b

Past[b \in Blocks] == UNION {Past[p] \union {p} : p \in Parents[b]}

(* The past of a block, or of the virtual block, with parents P. *)
PastOf(P) == UNION {Past[p] \union {p} : p \in P}

Score(b) == Cardinality(Past[b])

IsDagAncestor(a, b) == a = b \/ a \in Past[b]

Heavier(a, b) ==
    \/ Score(a) > Score(b)
    \/ Score(a) = Score(b) /\ Hash[a] > Hash[b]

Heaviest(S) == CHOOSE b \in S : \A c \in S \ {b} : Heavier(b, c)

SelectedParent(P) == Heaviest(P)

(* The selected chain of b, from the root up to b itself. *)
Chain[b \in Blocks] == {b} \union IF b = Root THEN {} ELSE Chain[SelectedParent(Parents[b])]

(* The mergeset, with the selected parent in it. *)
Mergeset(P) == PastOf(P) \ Past[SelectedParent(P)]

Ascending(S) == SetToSortSeq(S, LAMBDA a, b : Heavier(b, a))

Descending(S) == SetToSortSeq(S, Heavier)

(* The selected parent first, then the rest in consensus order. *)
MergeOrder(P) ==
    LET sp == SelectedParent(P)
    IN  <<sp>> \o Ascending(Mergeset(P) \ {sp})

(* The blocks of S that no block of S has as a parent. *)
Tips(S) == {b \in S : \A c \in S : b \notin Parents[c]}

(* The highest chain block strictly more than depth below a block with parents P. *)
BlockAtDepth(P, depth) ==
    LET deep == {b \in Chain[SelectedParent(P)] : Score(b) + depth < Cardinality(PastOf(P))}
    IN  IF deep = {} THEN Root ELSE Heaviest(deep)

(* The heap after a refused candidate: its parents take its place. *)
Bug_StrictFuture(heap, fp, c) ==
    heap \union {p \in Parents[c] : fp \in Past[p] /\ \A h \in heap : ~ IsDagAncestor(p, h)}
Bug_SelectedParentOnly(heap, fp, c) ==
    heap \union {p \in Parents[c] : p = SelectedParent(Parents[c]) /\ IsDagAncestor(fp, p)}
PushParents(heap, fp, c) ==
    heap \union {p \in Parents[c] : IsDagAncestor(fp, p) /\ \A h \in heap : ~ IsDagAncestor(p, h)}

(* pick_virtual_parents: the heaviest half for certain, the rest shuffled. *)
VirtualParents(sink, heap) ==
    LET n   == Min({Cardinality(heap), MaxParents - 1})
        top == {h \in heap : Cardinality({g \in heap : Heavier(g, h)}) < Min({n, MaxParents \div 2})}
    IN  {{sink} \union S : S \in {S \in kSubset(n, heap) : top \subseteq S}}

(* remove_bounded_merge_breaking_parents: no parent may merge a block      *)
(* outside the future of the merge root, unless a merged block with that   *)
(* root on its chain merged it before.  The code asks this of merged reds  *)
(* only; at the real merge depth a block outside the future of the root    *)
(* has more than K chain blocks in its anticone, so it is one of them.     *)
BoundedMerge(P) ==
    LET root == BlockAtDepth(P, MergeDepth)
        bad  == {m \in Mergeset(P) : /\ ~ IsDagAncestor(root, m)
                                     /\ \A k \in Mergeset(P) : root \in Chain[k] => ~ IsDagAncestor(m, k)}
    IN  {h \in P : \A m \in bad : ~ IsDagAncestor(m, h)}
================================================================================
