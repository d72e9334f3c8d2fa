------------------------------- MODULE StateDiff -------------------------------
(***************************************************************************)
(* The difference algebra of the UTXO set (UtxoDiff) and of the note pool  *)
(* (PoolDiff).  Both keep an `add' and a `remove' collection, each a map   *)
(* from a key to an entry.  A collection is modelled as the set of its     *)
(* entries: a UTXO entry carries its outpoint as `key' and its             *)
(* block_daa_score as `score'; a pool note carries its serial as `key' and *)
(* always score 0, because PoolDiff compares serials only.  With that one  *)
(* convention the two algebras of the code are the same operators.         *)
(***************************************************************************)

Keys(C) == {c.key : c \in C}

(* A HashMap holds at most one entry per key. *)
IsCollection(C) == \A c, d \in C : c.key = d.key => c = d

(* The entries of C with the given key: none or one. *)
Lookup(C, k) == {c \in C : c.key = k}

NoDiff == [add |-> {}, remove |-> {}]

Reversed(d) == [add |-> d.remove, remove |-> d.add]

(***************************************************************************)
(* The two sanity checks of with_diff_in_place; every caller on the        *)
(* virtual-state path unwraps the result, so a TRUE here is a panic.       *)
(***************************************************************************)
DuplicateRemove(d, o) == \E c \in o.remove : c.key \in Keys(d.remove) /\ c \notin d.add

DuplicateAdd(d, o) == \E c \in o.add : \E e \in Lookup(d.add, c.key) : e \notin o.remove

DiffError(d, o) == DuplicateRemove(d, o) \/ DuplicateAdd(d, o)

(***************************************************************************)
(* with_diff_in_place: removals first (an entry present in `add' with the  *)
(* same score cancels, any other goes to `remove'), then additions against *)
(* the updated `remove'.                                                   *)
(***************************************************************************)
WithDiff(d, o) ==
    LET removed == d.remove \union (o.remove \ d.add)
    IN  [add    |-> (d.add \ o.remove) \union (o.add \ removed),
         remove |-> removed \ o.add]

(***************************************************************************)
(* A view composed of a base and a diff, and equally the stored set after  *)
(* write_diff_batch (delete the removed keys, then write the added ones):  *)
(* added entries shadow the base, removed keys are hidden.                 *)
(***************************************************************************)
Apply(C, d) == {c \in C : c.key \notin Keys(d.remove) \union Keys(d.add)} \union d.add

(* The diff d leads from the collection C to another collection. *)
Fits(C, d) ==
    /\ d.remove \subseteq C
    /\ IsCollection(d.add)
    /\ d.add \intersect d.remove = {}
    /\ \A c \in d.add : \A e \in C : e.key = c.key => e \in d.remove
================================================================================
