---------------------------- MODULE StateDiffProofs ----------------------------
(* The laws of the difference algebra, for collections of any size. *)
EXTENDS StateDiff, TLAPS

(***************************************************************************)
(* A diff that fits a collection leads to a collection: the store holds at *)
(* most one entry per key after write_diff_batch.                          *)
(***************************************************************************)
THEOREM ApplyIsCollection ==
    ASSUME NEW C, NEW d, IsCollection(C), Fits(C, d)
    PROVE  /\ IsCollection(Apply(C, d))
           /\ Apply(C, d) = (C \ d.remove) \union d.add
  BY DEF IsCollection, Fits, Apply, Keys

(***************************************************************************)
(* Reversal: undoing a block's diff (as_reversed, the walk down to a reorg *)
(* split point) fits the state the diff led to and restores the state      *)
(* before it.                                                              *)
(***************************************************************************)
THEOREM ReversalRestores ==
    ASSUME NEW C, NEW d, IsCollection(C), Fits(C, d)
    PROVE  /\ Fits(Apply(C, d), Reversed(d))
           /\ Apply(Apply(C, d), Reversed(d)) = C
<1>1. Fits(Apply(C, d), Reversed(d))
  BY DEF IsCollection, Fits, Apply, Keys, Reversed
<1>2. Apply(Apply(C, d), Reversed(d)) = C
  BY DEF IsCollection, Fits, Apply, Keys, Reversed
<1>3. QED
  BY <1>1, <1>2

(***************************************************************************)
(* Two diffs that fit one after the other never trip the sanity checks of  *)
(* with_diff_in_place: the unwraps on the virtual-state path cannot panic  *)
(* as long as every diff is applied to the state it was computed from.     *)
(***************************************************************************)
THEOREM ComposableNeverErrs ==
    ASSUME NEW C, NEW d, NEW o, IsCollection(C), Fits(C, d), Fits(Apply(C, d), o)
    PROVE  ~ DiffError(d, o)
<1>1. Apply(C, d) = (C \ d.remove) \union d.add
  BY ApplyIsCollection
<1>2. ~ DuplicateRemove(d, o)
  BY <1>1 DEF IsCollection, Fits, Keys, DuplicateRemove
<1>3. ~ DuplicateAdd(d, o)
  BY <1>1 DEF IsCollection, Fits, Lookup, DuplicateAdd
<1>4. QED
  BY <1>2, <1>3 DEF DiffError

(***************************************************************************)
(* Composition: the accumulated diff applied once (write_diff_batch in     *)
(* commit_virtual_state, or a view composed with it) gives what its two    *)
(* parts give one after the other.                                         *)
(***************************************************************************)
THEOREM CompositionIsSequential ==
    ASSUME NEW C, NEW d, NEW o, IsCollection(C), Fits(C, d), Fits(Apply(C, d), o)
    PROVE  /\ Fits(C, WithDiff(d, o))
           /\ Apply(C, WithDiff(d, o)) = Apply(Apply(C, d), o)
<1> DEFINE M == (C \ d.remove) \union d.add
<1>1. Apply(C, d) = M /\ IsCollection(M) /\ Fits(M, o)
  BY ApplyIsCollection
<1>2. Apply(M, o) = (M \ o.remove) \union o.add
  BY <1>1, ApplyIsCollection
<1>3. Fits(C, WithDiff(d, o))
  BY <1>1 DEF IsCollection, Fits, WithDiff
<1>4. Apply(C, WithDiff(d, o)) = (C \ WithDiff(d, o).remove) \union WithDiff(d, o).add
  BY <1>3, ApplyIsCollection
<1>5. (C \ WithDiff(d, o).remove) \union WithDiff(d, o).add = (M \ o.remove) \union o.add
  <2>1. ASSUME NEW x, x \in (C \ WithDiff(d, o).remove) \union WithDiff(d, o).add
        PROVE  x \in (M \ o.remove) \union o.add
    BY <2>1, <1>1 DEF Fits, WithDiff
  <2>2. ASSUME NEW x, x \in (M \ o.remove) \union o.add
        PROVE  x \in (C \ WithDiff(d, o).remove) \union WithDiff(d, o).add
    BY <2>2, <1>1 DEF Fits, WithDiff
  <2>3. QED
    BY <2>1, <2>2
<1>6. QED
  BY <1>1, <1>2, <1>3, <1>4, <1>5
================================================================================
