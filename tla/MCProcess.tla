----------------------------- MODULE MCProcess ------------------------------
(* Instances of Process for TLC: one process; processes share nothing.       *)
EXTENDS Process

CONSTANT p1

OneProcess == {p1}
EmptyOrNot == {0, 1}

(* A child that ends whenever it likes, in the middle of a message too.      *)
Anytime == Phases
=============================================================================
