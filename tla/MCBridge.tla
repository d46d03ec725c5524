------------------------------ MODULE MCBridge ------------------------------
(* Instances of Bridge for TLC.                                              *)
EXTENDS Bridge, TLC

CONSTANTS p1, p2, c1, c2, e1, e2

TwoProcs == {p1, p2}
OneCaller == {c1}
TwoCallers == {c1, c2}
OneExe == {e1}
TwoExes == {e1, e2}

(* Every caller calls every program, or each caller has its own.             *)
All == Callers \X Exes
OwnExe == {<<c1, e1>>, <<c2, e2>>}

NoBytes == {0}

TwoWays == {{}, {"r", "w"}}
NoImage == {{}}

(* Callers change places together with the programs they use.               *)
Symmetry ==
  {f \in Permutations(Callers \union Exes) : \A u \in Uses : <<f[u[1]], f[u[2]]>> \in Uses}

Anytime == Phases
OnceAnswered == {"idle"}
=============================================================================
