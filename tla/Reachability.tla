----------------------------- MODULE Reachability -----------------------------
(***************************************************************************)
(* The reachability data of the header DAG (processes/reachability): a tree *)
(* of selected parents whose blocks own nested intervals of numbers, and    *)
(* for each block an ordered future covering set.  A store is a value r     *)
(* with the maps of model/stores/reachability.rs; the functions of the code *)
(* are operators from a store to a store.  r.ok turns FALSE where the code  *)
(* panics or returns an error, which all its callers unwrap: a subtraction  *)
(* below zero (the release profile keeps overflow checks), a failed         *)
(* assertion, a data inconsistency, or no capacity left.                    *)
(***************************************************************************)
EXTENDS Integers, Sequences, FiniteSets, SequencesExt

CONSTANTS Capacity,       \* the end of Interval::maximal
          ReindexDepth,   \* DEFAULT_REINDEX_DEPTH
          ReindexSlack    \* DEFAULT_REINDEX_SLACK

ASSUME ReachabilityAssumption ==
    Capacity \in Nat \ {0} /\ ReindexDepth \in Nat \ {0} /\ ReindexSlack \in Nat

Origin == 0   \* blockhash::ORIGIN

Plus(a, b) == a + b
Total(s) == FoldLeft(Plus, 0, s)
Least(a, b) == IF a < b THEN a ELSE b

-------------------------------------------------------------------------------
(* interval.rs *)

Interval(s, e) == [start |-> s, end |-> e]
Size(i) == i.end + 1 - i.start
Holds(i, j) == i.start <= j.start /\ j.end <= i.end
StrictlyHolds(i, j) == i.start <= j.start /\ j.end < i.end
FirstHalf(i) == Interval(i.start, i.start + (Size(i) + 1) \div 2 - 1)

SplitExact(i, sizes) ==
    [k \in DOMAIN sizes |->
        LET s == i.start + Total(SubSeq(sizes, 1, k - 1)) IN Interval(s, s + sizes[k] - 1)]

(* Each part gets its size and a share of the rest that grows exponentially with the size, in
   exact fractions; the last part gets what is left of it. *)
SplitExponential(i, sizes) ==
    LET n      == Len(sizes)
        bias   == Size(i) - Total(sizes)
        weight == [k \in DOMAIN sizes |-> 2 ^ sizes[k]]
        W      == Total(weight)
        Share(acc, w) ==
            Append(acc, IF Len(acc) = n - 1 THEN bias - Total(acc)
                        ELSE Least(bias - Total(acc), (2 * bias * w + W) \div (2 * W)))
        shares == FoldLeft(Share, <<>>, weight)
    IN  SplitExact(i, [k \in DOMAIN sizes |-> sizes[k] + shares[k]])

-------------------------------------------------------------------------------
(* The store, extensions.rs and the queries of inquirer.rs *)

InitialStore ==
    [interval |-> (Origin :> Interval(1, Capacity)), parent |-> (Origin :> -1),
     children |-> (Origin :> <<>>), fcs |-> (Origin :> <<>>), height |-> (Origin :> 0),
     root |-> Origin, ok |-> TRUE]

Fail(r) == [r EXCEPT !.ok = FALSE]
Check(r, p) == [r EXCEPT !.ok = @ /\ p]
SetInterval(r, b, i) == [r EXCEPT !.interval[b] = i, !.ok = @ /\ i.start >= 1 /\ Size(i) >= 0]

ChildrenCapacity(r, b) == [r.interval[b] EXCEPT !.end = @ - 1]
RemainingBefore(r, b) ==
    LET cap == ChildrenCapacity(r, b) IN
    IF r.children[b] = <<>> THEN cap
    ELSE Interval(cap.start, r.interval[Head(r.children[b])].start - 1)
RemainingAfter(r, b) ==
    LET cap == ChildrenCapacity(r, b) IN
    IF r.children[b] = <<>> THEN cap
    ELSE Interval(r.interval[Last(r.children[b])].end + 1, cap.end)

IsStrictChainAncestor(r, a, b) == StrictlyHolds(r.interval[a], r.interval[b])
IsChainAncestor(r, a, b) == Holds(r.interval[a], r.interval[b])

Bug_StrictSearch(r, s, d) ==
    LET i == Cardinality({k \in DOMAIN s : r.interval[s[k]].start < r.interval[d].end}) IN
    IF i > 0 /\ IsChainAncestor(r, s[i], d) THEN [found |-> TRUE, at |-> i] ELSE [found |-> FALSE, at |-> i + 1]

(* binary_search_descendant: a member of the ordered blocks s that is a chain ancestor of d, or
   the index at which d would be inserted. *)
Search(r, s, d) ==
    LET point == r.interval[d].end
        i     == Cardinality({k \in DOMAIN s : r.interval[s[k]].start <= point})
    IN  IF i > 0 /\ (r.interval[s[i]].start = point \/ IsChainAncestor(r, s[i], d))
        THEN [found |-> TRUE, at |-> i] ELSE [found |-> FALSE, at |-> i + 1]

IsDagAncestor(r, a, b) == IsChainAncestor(r, a, b) \/ Search(r, r.fcs[a], b).found

HasNextChainAncestor(r, d, a) == Search(r, r.children[a], d).found
NextChainAncestor(r, d, a) == r.children[a][Search(r, r.children[a], d).at]

-------------------------------------------------------------------------------
(* reindex.rs *)

RECURSIVE SubtreeSize(_, _)
SubtreeSize(r, b) ==
    1 + Total([k \in DOMAIN r.children[b] |-> SubtreeSize(r, r.children[b][k])])
SubtreeSizes(r, s) == [k \in DOMAIN s |-> SubtreeSize(r, s[k])]

SetIntervals(r, s, parts) ==
    FoldLeft(LAMBDA acc, k : SetInterval(acc, s[k], parts[k]), r, [k \in DOMAIN s |-> k])

RECURSIVE PropagateInterval(_, _)
PropagateInterval(r, b) ==
    LET s     == r.children[b]
        sizes == SubtreeSizes(r, s)
        cap   == ChildrenCapacity(r, b)
    IN  IF s = <<>> \/ ~ r.ok THEN r
        ELSE IF Size(cap) < Total(sizes) THEN Fail(r)
        ELSE FoldLeft(PropagateInterval, SetIntervals(r, s, SplitExponential(cap, sizes)), s)

SetAndPropagate(r, b, i) == PropagateInterval(SetInterval(r, b, i), b)

(* Space for a block before (after) the chain to the reindex root is taken from the start (end)
   of the chain's blocks. *)
Reserve(r, side, b) == Size(IF side = "before" THEN RemainingBefore(r, b) ELSE RemainingAfter(r, b))
Shrink(side, i, n) == IF side = "before" THEN [i EXCEPT !.start = @ + n] ELSE [i EXCEPT !.end = @ - n]
Extend(side, i, n) == IF side = "before" THEN [i EXCEPT !.end = @ + n] ELSE [i EXCEPT !.start = @ - n]
Shift(side, i, n) == LET d == IF side = "before" THEN n ELSE -n IN Interval(i.start + d, i.end + d)

(* offset_siblings_before and _after: the siblings between the chain and the block move over, and
   the block gets the space. *)
OffsetSiblings(r, side, block, current, n) ==
    LET s    == r.children[r.parent[current]]
        at   == CHOOSE k \in DOMAIN s : s[k] = current
        near == IF side = "before" THEN Reverse(SubSeq(s, 1, at - 1)) ELSE SubSeq(s, at + 1, Len(s))
        stop == SelectInSeq(near, LAMBDA c : c = block)
        Move(acc, c) == SetAndPropagate(acc, c, IF c = block THEN Extend(side, acc.interval[c], n)
                                                             ELSE Shift(side, acc.interval[c], n))
    IN  FoldLeft(Move, r, IF stop = 0 THEN near ELSE SubSeq(near, 1, stop))

TakeFrom(r, side, block, current, n) ==
    OffsetSiblings(SetInterval(r, current, Shrink(side, r.interval[current], n)), side, block, current, n)

(* The walk back from current to the common ancestor of block and the root. *)
RECURSIVE WalkDown(_, _, _, _, _)
WalkDown(r, side, block, current, kept) ==
    LET next == r.parent[current]
        n    == Reserve(r, side, next) - kept
    IN  IF next = r.parent[block] \/ ~ r.ok THEN r
        ELSE WalkDown(TakeFrom(Check(r, n >= 0), side, block, next, n), side, block, next, kept)

(* reclaim_interval_before and _after: from the chain block current up to the first one whose
   reserve, with those on the way, covers what is required, or to the reindex root, which pays
   the rest and a new slack for each block on the way. *)
RECURSIVE Reclaim(_, _, _, _, _, _, _)
Bug_NoNewSlack(r, side, block, current, required, sum, len) ==
    LET reserve == Reserve(r, side, current)
        pay     == required - sum
        rooted  == SetAndPropagate(Check(r, pay >= 0), current, Shrink(side, r.interval[current], pay))
    IN  IF current = r.root
        THEN WalkDown(OffsetSiblings(rooted, side, block, current, pay), side, block, current, ReindexSlack)
        ELSE IF sum + reserve >= required
        THEN WalkDown(TakeFrom(r, side, block, current, required - sum), side, block, current, 0)
        ELSE Reclaim(r, side, block, NextChainAncestor(r, r.root, current), required, sum + reserve, len + 1)

Reclaim(r, side, block, current, required, sum, len) ==
    LET reserve == Reserve(r, side, current)
        pay     == required + ReindexSlack * len - sum
        rooted  == SetAndPropagate(Check(r, pay >= 0), current, Shrink(side, r.interval[current], pay))
    IN  IF current = r.root
        THEN WalkDown(OffsetSiblings(rooted, side, block, current, pay), side, block, current, ReindexSlack)
        ELSE IF sum + reserve >= required
        THEN WalkDown(TakeFrom(r, side, block, current, required - sum), side, block, current, 0)
        ELSE IF HasNextChainAncestor(r, r.root, current)
        THEN Reclaim(r, side, block, NextChainAncestor(r, r.root, current), required,
                     sum + reserve, len + 1)
        ELSE Fail(r)

ReindexEarlierThanRoot(r, block, common) ==
    LET chosen == NextChainAncestor(r, r.root, common)
        side   == IF r.interval[block].start < r.interval[chosen].start THEN "before" ELSE "after"
    IN  IF HasNextChainAncestor(r, r.root, common)
        THEN Reclaim(r, side, block, chosen, SubtreeSize(r, block), 0, 0) ELSE Fail(r)

RECURSIVE ReindexIntervals(_, _)
ReindexIntervals(r, current) ==
    IF Size(r.interval[current]) >= SubtreeSize(r, current) THEN PropagateInterval(r, current)
    ELSE IF current \in {Origin, r.root} THEN Fail(r)
    ELSE IF IsStrictChainAncestor(r, r.parent[current], r.root)
    THEN ReindexEarlierThanRoot(r, current, r.parent[current])
    ELSE ReindexIntervals(r, r.parent[current])

TightenIntervals(r, s, start) ==
    LET sizes == SubtreeSizes(r, s)
        parts == SplitExact(Interval(start, start + Total(sizes) - 1), sizes)
    IN  FoldLeft(LAMBDA acc, k : SetAndPropagate(acc, s[k], parts[k]), r, [k \in DOMAIN s |-> k])

ConcentrateInterval(r, parent, child, final) ==
    LET s      == r.children[parent]
        at     == CHOOSE k \in DOMAIN s : s[k] = child
        before == SubSeq(s, 1, at - 1)
        after  == SubSeq(s, at + 1, Len(s))
        i      == r.interval[parent]
        sumB   == Total(SubtreeSizes(r, before))
        sumA   == Total(SubtreeSizes(r, after))
        tight  == TightenIntervals(TightenIntervals(r, before, i.start + ReindexSlack),
                                   after, i.end - ReindexSlack - sumA)
        alloc  == Interval(i.start + sumB + ReindexSlack, i.end - sumA - ReindexSlack - 1)
        narrow == Interval(alloc.start + ReindexSlack, alloc.end - ReindexSlack)
    IN  SetInterval(IF final /\ ~ Holds(alloc, r.interval[child]) THEN SetAndPropagate(tight, child, narrow)
                                                                  ELSE tight,
                    child, alloc)

-------------------------------------------------------------------------------
(* tree.rs *)

AddTreeBlock(r, new, parent) ==
    LET rest == RemainingAfter(r, parent)
        With(i) == [r EXCEPT !.children = [@ EXCEPT ![parent] = Append(@, new)] @@ (new :> <<>>),
                             !.interval = @ @@ (new :> i), !.parent = @ @@ (new :> parent),
                             !.fcs = @ @@ (new :> <<>>), !.height = @ @@ (new :> r.height[parent] + 1)]
    IN  IF Size(rest) = 0 THEN ReindexIntervals(With(rest), new)
        ELSE Check(With(FirstHalf(rest)), Size(rest) > 0)

RECURSIVE CommonTreeAncestor(_, _)
CommonTreeAncestor(r, b) ==
    IF IsChainAncestor(r, b, r.root) THEN b ELSE CommonTreeAncestor(r, r.parent[b])

(* The last block on the way from b to the hint that is at least ReindexDepth below the hint, or
   none when the hint is not above b. *)
RECURSIVE ClimbTo(_, _, _)
ClimbTo(r, hint, b) ==
    IF ~ HasNextChainAncestor(r, hint, b) THEN {}
    ELSE LET child == NextChainAncestor(r, hint, b) IN
         IF r.height[hint] - r.height[child] < ReindexDepth THEN {b} ELSE ClimbTo(r, hint, child)

RECURSIVE Concentrate(_, _, _)
Concentrate(r, from, to) ==
    IF from = to \/ ~ r.ok THEN r
    ELSE IF ~ HasNextChainAncestor(r, to, from) THEN Fail(r)
    ELSE LET child == NextChainAncestor(r, to, from) IN
         Concentrate(ConcentrateInterval(r, from, child, child = to), child, to)

(* hint_virtual_selected_parent: the reindex root follows the hint, to another branch only when
   the hint is higher by the slack. *)
Hint(r, hint) ==
    LET reorg == ~ IsChainAncestor(r, r.root, hint)
        from  == IF reorg THEN CommonTreeAncestor(r, hint) ELSE r.root
        next  == ClimbTo(r, hint, from)
    IN  IF (reorg /\ r.height[hint] < r.height[r.root] + ReindexSlack) \/ next = {r.root} THEN r
        ELSE IF next = {} THEN Fail(r)
        ELSE LET to == CHOOSE b \in next : TRUE IN [Concentrate(r, from, to) EXCEPT !.root = to]

-------------------------------------------------------------------------------
(* add_block and delete_block *)

Bug_InsertLast(r, merged, new) == [r EXCEPT !.fcs[merged] = Append(@, new)]

InsertFuture(r, merged, new) ==
    LET at == Search(r, r.fcs[merged], new) IN
    [r EXCEPT !.fcs[merged] = InsertAt(@, at.at, new), !.ok = @ /\ ~ at.found]

AddBlock(r, new, parent, mergeset) ==
    LET Merge(acc, m) == InsertFuture(acc, m, new)
        tree == AddTreeBlock(r, new, parent)
    IN  IF tree.ok THEN FoldLeft(Merge, tree, SetToSeq(mergeset)) ELSE tree

Spliced(s, k, t) == SubSeq(s, 1, k - 1) \o t \o SubSeq(s, k + 1, Len(s))

DeleteBlock(r, b, mergeset) ==
    LET i     == r.interval[b]
        p     == r.parent[b]
        s     == r.children[b]
        at    == Search(r, r.children[p], b)
        fcsAt == [m \in mergeset |-> Search(r, r.fcs[m], b)]
        kids  == Spliced(r.children[p], at.at, s)
        grown == [c \in DOMAIN r.interval |->
                    LET j == r.interval[c] IN
                    CASE s = <<>> /\ at.at > 1 /\ c = kids[at.at - 1] -> [j EXCEPT !.end = i.end]
                      [] Len(s) = 1 /\ c = s[1] -> i
                      [] Len(s) > 1 /\ c = s[1] -> [j EXCEPT !.start = i.start]
                      [] Len(s) > 1 /\ c = Last(s) -> [j EXCEPT !.end = i.end]
                      [] OTHER -> j]
        rest  == DOMAIN r.interval \ {b}
    IN  IF ~ at.found \/ \E m \in mergeset : ~ fcsAt[m].found THEN Fail(r)
        ELSE [r EXCEPT !.interval = [c \in rest |-> grown[c]],
                       !.parent   = [c \in rest |-> IF r.parent[c] = b THEN p ELSE r.parent[c]],
                       !.children = [c \in rest |-> IF c = p THEN kids ELSE r.children[c]],
                       !.fcs      = [c \in rest |-> IF c \in mergeset THEN Spliced(r.fcs[c], fcsAt[c].at, s)
                                                    ELSE r.fcs[c]],
                       !.height   = [c \in rest |-> r.height[c]]]
===============================================================================
