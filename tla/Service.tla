------------------------------ MODULE Service -------------------------------
(***************************************************************************)
(* What src/src/bridge.c expects of a struct process: a program that is    *)
(* asked one thing at a time.  A request is replied to at most once, and   *)
(* only by a program that is up.  The call returns the reply if there is a *)
(* complete one, and fails only if there is none and, the program being    *)
(* down, there will be none.                                               *)
(***************************************************************************)
CONSTANT Procs

VARIABLES
  state,    (* "none", "ready", "asked" or "finished"                      *)
  up,       (* the program runs                                            *)
  replied,  (* the reply to the last request is complete                   *)
  result    (* of the last request: "none", "ok" or "failed"               *)

vars == <<state, up, replied, result>>

Init ==
  /\ state = [p \in Procs |-> "none"]
  /\ up = [p \in Procs |-> FALSE]
  /\ replied = [p \in Procs |-> FALSE]
  /\ result = [p \in Procs |-> "none"]

Goto(p, from, to) ==
  /\ state[p] = from
  /\ state' = [state EXCEPT ![p] = to]

Start(p) ==
  /\ Goto(p, "none", "ready")
  /\ up' = [up EXCEPT ![p] = TRUE]
  /\ UNCHANGED <<replied, result>>

Ask(p) ==
  /\ Goto(p, "ready", "asked")
  /\ replied' = [replied EXCEPT ![p] = FALSE]
  /\ result' = [result EXCEPT ![p] = "none"]
  /\ UNCHANGED up

Complete(p) ==
  /\ state[p] = "asked"
  /\ up[p]
  /\ ~replied[p]
  /\ replied' = [replied EXCEPT ![p] = TRUE]
  /\ UNCHANGED <<state, up, result>>

GoDown(p) ==
  /\ up[p]
  /\ up' = [up EXCEPT ![p] = FALSE]
  /\ UNCHANGED <<state, replied, result>>

Answer(p) ==
  /\ Goto(p, "asked", "ready")
  /\ replied[p]
  /\ result' = [result EXCEPT ![p] = "ok"]
  /\ UNCHANGED <<up, replied>>

Fail(p) ==
  /\ Goto(p, "asked", "ready")
  /\ ~up[p]
  /\ ~replied[p]
  /\ result' = [result EXCEPT ![p] = "failed"]
  /\ UNCHANGED <<up, replied>>

Finish(p) ==
  /\ Goto(p, "ready", "finished")
  /\ up' = [up EXCEPT ![p] = FALSE]
  /\ replied' = [replied EXCEPT ![p] = FALSE]
  /\ result' = [result EXCEPT ![p] = "none"]

Next == \E p \in Procs :
  Start(p) \/ Ask(p) \/ Complete(p) \/ GoDown(p) \/ Answer(p) \/ Fail(p) \/ Finish(p)

Spec == Init /\ [][Next]_vars

(* A program that is up replies, and every call returns. *)
FairSpec ==
  /\ Spec
  /\ \A p \in Procs : WF_vars(Complete(p)) /\ WF_vars(Answer(p) \/ Fail(p))
=============================================================================
