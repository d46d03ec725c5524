----------------------------- MODULE QueueLife ------------------------------
(***************************************************************************)
(* How long a struct queue lives.  read_worker of src/src/process.c pushes *)
(* replies and, last, the end mark; the host pops replies in process_read  *)
(* and, in process_finish, everything up to the end mark, whereupon it     *)
(* destroys the queue and frees it, and struct process with it.  It does   *)
(* not join the worker: nothing but the end mark says that the worker is   *)
(* done, and the end mark is popped while the worker may still be inside   *)
(* queue_push.                                                             *)
(*                                                                         *)
(* The steps inside queue_push and queue_pop are those of module Queue.    *)
(***************************************************************************)
EXTENDS Queue

CONSTANT EndMark   (* the item whose buf is NULL and whose len is -1       *)

ASSUME EndMarkAssumption == EndMark \in Items

VARIABLES
  ended,   (* read_worker is past its loop                                 *)
  hostAt   (* "use", "drain" (in process_finish) or "destroyed"            *)

lifeVars == <<vars, ended, hostAt>>

LifeInit == Init /\ ended = FALSE /\ hostAt = "use"

(* A reply was read. *)
WorkerPushes(p) ==
  /\ ~ended
  /\ \E v \in Items \ {EndMark} : PushCall(p, v)
  /\ UNCHANGED <<ended, hostAt>>

(* The label error. *)
WorkerEnds(p) ==
  /\ ~ended
  /\ PushCall(p, EndMark)
  /\ ended' = TRUE
  /\ UNCHANGED hostAt

(* process_read. *)
HostReads(c) ==
  /\ hostAt = "use"
  /\ PopCall(c)
  /\ UNCHANGED <<ended, hostAt>>

(* process_finish comes to its loop ... *)
HostFinishes(c) ==
  /\ hostAt = "use"
  /\ PopCall(c)
  /\ hostAt' = "drain"
  /\ UNCHANGED ended

(* ... goes round ... *)
HostDrains(c) ==
  /\ hostAt = "drain"
  /\ r[c] # EndMark
  /\ PopCall(c)
  /\ UNCHANGED <<ended, hostAt>>

(* ... and leaves it: queue_destroy, free. *)
HostDestroys(c) ==
  /\ hostAt = "drain"
  /\ pc[c] = "idle"
  /\ r[c] = EndMark
  /\ hostAt' = "destroyed"
  /\ UNCHANGED <<vars, ended>>

Inside(t) == (Step(t) \/ SpuriousWakeup(t)) /\ UNCHANGED <<ended, hostAt>>

HostStep(c) == HostDrains(c) \/ HostDestroys(c)

LifeNext ==
  \/ \E t \in Threads : Inside(t)
  \/ \E p \in Producers : WorkerPushes(p) \/ WorkerEnds(p)
  \/ \E c \in Consumers : HostReads(c) \/ HostFinishes(c) \/ HostStep(c)

LifeSpec == LifeInit /\ [][LifeNext]_lifeVars

(* Threads run on, and the child comes to an end once process_finish has    *)
(* closed its stdin, so that the worker does too.                           *)
LifeFairSpec ==
  /\ LifeSpec
  /\ \A t \in Threads : WF_lifeVars(Step(t) /\ UNCHANGED <<ended, hostAt>>)
  /\ \A c \in Consumers : WF_lifeVars(HostStep(c))
  /\ \A p \in Producers : SF_lifeVars(WorkerEnds(p))

-----------------------------------------------------------------------------

(* When queue_destroy runs nobody is inside queue_push, or will call it,    *)
(* although the worker was not joined: it does not touch the mutex, the     *)
(* condition variables or the ring after the host could pop the end mark.   *)
(* And nothing is left in the ring to be freed.                             *)
DestroyedWhenUnused ==
  hostAt = "destroyed" =>
    /\ ended
    /\ \A t \in Threads : pc[t] = "idle"
    /\ mtx = NoThread
    /\ used = 0

(* process_finish sleeps beside an empty queue and nobody will fill it:     *)
(* process_read has taken the end mark.                                     *)
WaitsInVain ==
  /\ ended
  /\ used = 0
  /\ \A p \in Producers : pc[p] = "idle"
  /\ \A c \in Consumers : pc[c] = "wait"

(* That is the one way in which process_finish fails to get there.          *)
Destroyed == hostAt = "drain" ~> (hostAt = "destroyed" \/ WaitsInVain)
=============================================================================
