------------------------------ MODULE MCQueue -------------------------------
(* Instances of Queue for TLC: threads and items are model values.           *)
EXTENDS Queue, TLC

CONSTANTS p1, p2, c1, c2, i1, i2

TwoProducers == {p1, p2}
TwoConsumers == {c1, c2}
TwoItems == {i1, i2}

(* Sound for the safety run: no definition tells threads of one kind, or     *)
(* items, apart.                                                             *)
Symmetry == Permutations(TwoProducers) \union Permutations(TwoConsumers)
            \union Permutations(TwoItems)
=============================================================================
