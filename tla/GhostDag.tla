------------------------------- MODULE GhostDag -------------------------------
(***************************************************************************)
(* The GHOSTDAG protocol (processes/ghostdag): selected parent, merge set   *)
(* and K-cluster colouring of a new block, from the data stored for its     *)
(* past and the answers of the reachability store.                          *)
(*                                                                          *)
(* rel[b] are the stored parents of b, gd[b] its GhostdagData: selected     *)
(* parent sp, merge set blues and reds, blues_anticone_sizes, blue score    *)
(* and blue work.                                                           *)
(***************************************************************************)
EXTENDS Reachability, FiniteSets, FiniteSetsExt

CONSTANTS K,           \* ghostdag_k
          Genesis,
          Hash, Work   \* of each block: the order of its hash, and calc_work of its bits

(* SortableBlock: blue work, then hash. *)
Heavier(gd, a, b) == gd[a].work > gd[b].work \/ (gd[a].work = gd[b].work /\ Hash[a] > Hash[b])
FindSelectedParent(gd, parents) ==
    CHOOSE p \in parents : \A q \in parents \ {p} : Heavier(gd, p, q)

(* unordered_mergeset_without_selected_parent, found being the queued blocks. *)
RECURSIVE MergesetFrom(_, _, _, _, _)
MergesetFrom(r, rel, sp, found, queue) ==
    LET new == {p \in UNION {rel[b] : b \in queue \cap DOMAIN rel} \ found : ~ IsDagAncestor(r, p, sp)}
    IN  IF queue = {} THEN found ELSE MergesetFrom(r, rel, sp, found \cup new, new)
Mergeset(r, rel, sp, parents) == MergesetFrom(r, rel, sp, parents \ {sp}, parents \ {sp})

(* The blue anticone size of b from the view of data; -1 where the code finds none. *)
RECURSIVE BlueAnticoneSize(_, _, _)
BlueAnticoneSize(gd, data, b) ==
    IF b \in DOMAIN data.sizes THEN data.sizes[b]
    ELSE IF data.sp \in {Genesis, Origin} \/ data.sp \notin DOMAIN gd THEN -1
    ELSE BlueAnticoneSize(gd, gd[data.sp], b)

Bug_CountedAfter(met, peers) == Cardinality(DOMAIN met) > K + 1 \/ \E p \in peers : met[p] = K

(* The candidate has more than K blues in its anticone, or a peer would get more. *)
Violates(met, peers) == Cardinality(DOMAIN met) > K \/ \E p \in peers : met[p] = K

(* check_blue_candidate: down the chain of the new block until candidate c is in the future of
   the chain block, or has, or gives a blue peer, more than K blues in its anticone.  sizes are the
   anticone sizes of the peers met.  A chain block or a peer without data is a panic, also where an
   earlier peer would have ended the loop. *)
RECURSIVE CheckBlueCandidate(_, _, _, _, _, _)
CheckBlueCandidate(r, gd, new, c, chain, sizes) ==
    LET blues  == IF chain = {} THEN new.blues ELSE gd[CHOOSE b \in chain : TRUE].blues
        below  == IF chain = {} THEN new.sp ELSE gd[CHOOSE b \in chain : TRUE].sp
        peers  == {p \in ToSet(blues) : ~ IsDagAncestor(r, p, c)}
        met    == sizes @@ [p \in peers |-> BlueAnticoneSize(gd, new, p)]
    IN  IF ~ chain \subseteq DOMAIN gd \cup {Origin} THEN [colour |-> "panic"]
        ELSE IF \E b \in chain : IsDagAncestor(r, b, c) THEN [colour |-> "blue", sizes |-> sizes]
        ELSE IF ~ ToSet(blues) \subseteq DOMAIN r.interval THEN [colour |-> "panic"]
        ELSE IF \E p \in peers : met[p] = -1 \/ met[p] > K THEN [colour |-> "panic"]
        ELSE IF Violates(met, peers) THEN [colour |-> "red"]
        ELSE CheckBlueCandidate(r, gd, new, c, {below}, met)

AddBlue(data, c, sizes) ==
    [data EXCEPT !.blues = Append(@, c),
                 !.sizes = [b \in DOMAIN sizes |-> sizes[b] + 1] @@ (c :> Cardinality(DOMAIN sizes)) @@ @]
AddRed(data, c) == [data EXCEPT !.reds = Append(@, c)]

Colour(r, gd, data, c) ==
    LET verdict == IF Len(data.blues) = K + 1 THEN [colour |-> "red"]
                   ELSE CheckBlueCandidate(r, gd, data, c, {}, <<>>)
    IN  CASE verdict.colour = "blue"  -> AddBlue(data, c, verdict.sizes)
          [] verdict.colour = "red"   -> AddRed(data, c)
          [] verdict.colour = "panic" -> [data EXCEPT !.ok = FALSE]

(* ghostdag: the data of a block with these parents. *)
Ghostdag(r, rel, gd, parents) ==
    LET sp       == FindSelectedParent(gd, parents)
        mergeset == Mergeset(r, rel, sp, parents)
        ordered  == SetToSortSeq(mergeset, LAMBDA a, b : Heavier(gd, b, a))
        start    == [sp |-> sp, blues |-> <<sp>>, reds |-> <<>>, sizes |-> (sp :> 0),
                     score |-> 0, work |-> 0, ok |-> mergeset \subseteq DOMAIN rel \cap DOMAIN gd]
        Step(acc, c) == IF acc.ok THEN Colour(r, gd, acc, c) ELSE acc
        data     == FoldLeft(Step, start, IF start.ok THEN ordered ELSE <<>>)
        blues    == ToSet(data.blues)
    IN  [data EXCEPT !.score = gd[sp].score + Len(data.blues),
                     !.work  = gd[sp].work + MapThenSumSet(LAMBDA b : Work[b], blues)]

MergesetOf(data) == (ToSet(data.blues) \cup ToSet(data.reds)) \ {data.sp}
===============================================================================
