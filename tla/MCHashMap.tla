----------------------------- MODULE MCHashMap ------------------------------
(* Instances of HashMap for TLC.                                             *)
EXTENDS HashMap, TLC

CONSTANTS k1, k2, k3, k4, v1, v2, v3, v4

ThreeKeys == {k1, k2, k3}
ThreeValues == {v1, v2, v3}
FourKeys == {k1, k2, k3, k4}
FourValues == {v1, v2, v3, v4}

(* Every way three keys can meet in tables of up to eight slots.             *)
AllHashes == [ThreeKeys -> 0 .. 7]

(* Four keys whose order in a table of four makes a table of eight too       *)
(* small, so that it grows while it is filled.                               *)
Wrapping == {[k \in FourKeys |-> CASE k = k1 -> 2 [] k = k2 -> 2
                                    [] k = k3 -> 3 [] k = k4 -> 6]}

(* Sound for the safety run: an address is only compared with others.        *)
Symmetry == Permutations(ThreeValues)
=============================================================================
