------------------------------ MODULE UtxoView ------------------------------
(***************************************************************************)
(* What the UTXO index promises its readers.  hist holds the virtual       *)
(* states consensus has committed, in lines, the last of the last line     *)
(* being the present one.  A reader sees the UTXO set of the state at      *)
(* `at', whole; at = Nowhere stands for an index that nobody can rely on.  *)
(* While it answers, the view moves forward along a line, one committed    *)
(* state at a time, and never skips one, because each step is also         *)
(* announced to subscribers as a difference.  It may be lost (a crash, a   *)
(* rebuild, a stray difference), and comes back at no state that is older  *)
(* than the newest one was at the loss, the floor.                         *)
(***************************************************************************)
EXTENDS Naturals, Sequences

CONSTANT States

VARIABLES hist, at, view, floor

vars == <<hist, at, view, floor>>

Nowhere == [line |-> 0, n |-> 0]
Newest == [line |-> Len(hist), n |-> Len(hist[Len(hist)])]

Init == /\ \E s \in States : hist = <<<<s>>>>
        /\ at = Nowhere
        /\ view = <<>>
        /\ floor = Newest

(* Some line goes on.                                                      *)
Commit == /\ \E l \in DOMAIN hist, s \in States :
               hist' = [hist EXCEPT ![l] = Append(@, s)]
          /\ UNCHANGED <<at, view, floor>>

(* A line starts.                                                          *)
Jump == /\ \E s \in States : hist' = Append(hist, <<s>>)
        /\ UNCHANGED <<at, view, floor>>

Step == /\ at.line \in DOMAIN hist /\ at.n + 1 \in DOMAIN hist[at.line]
        /\ at' = [at EXCEPT !.n = @ + 1]
        /\ view' = hist[at.line][at.n + 1].utxos
        /\ UNCHANGED <<hist, floor>>

(* A crash may cut off an import: a line starts in the same step.          *)
Lose == /\ at' = Nowhere
        /\ view' = <<>>
        /\ floor' = Newest'
        /\ UNCHANGED hist \/ \E s \in States : hist' = Append(hist, <<s>>)

Serve == /\ at = Nowhere
         /\ \E l \in DOMAIN hist : \E n \in DOMAIN hist[l] :
              /\ l > floor.line \/ (l = floor.line /\ n >= floor.n)
              /\ at' = [line |-> l, n |-> n]
              /\ view' = hist[l][n].utxos
         /\ UNCHANGED <<hist, floor>>

Next == Commit \/ Jump \/ Step \/ Lose \/ Serve

Spec == Init /\ [][Next]_vars
=============================================================================
