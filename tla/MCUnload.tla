------------------------------ MODULE MCUnload ------------------------------
(* Instances of Unload for TLC: two threads that call a program each.        *)
EXTENDS Unload

CONSTANTS p1, p2, c1, c2, e1, e2

TwoProcs == {p1, p2}
TwoCallers == {c1, c2}
TwoExes == {e1, e2}

(* Each caller has its own program.                                          *)
OwnExe == {<<c1, e1>>, <<c2, e2>>}

NoBytes == {0}
NoImage == {{}}
Anytime == Phases
BothReasons == {"free", "end"}
=============================================================================
