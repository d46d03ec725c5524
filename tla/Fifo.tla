-------------------------------- MODULE Fifo --------------------------------
(***************************************************************************)
(* What struct queue of src/src/process.c promises to its two kinds of     *)
(* users: a bounded first-in first-out buffer.  A producer offers an item  *)
(* and, at one instant between the call and the return of queue_push, the  *)
(* item is appended.  A consumer asks for an item and, at one instant      *)
(* between the call and the return of queue_pop, it receives the oldest    *)
(* one.  Nothing is said here of locks, of condition variables or of the   *)
(* array of slots: module Queue models those and implements this one.      *)
(***************************************************************************)
EXTENDS Naturals, Sequences

CONSTANTS
  Producers,  (* threads that call queue_push                              *)
  Consumers,  (* threads that call queue_pop                               *)
  Items,      (* non-NULL item pointers                                    *)
  NoItem,     (* the NULL pointer                                          *)
  NumItems    (* capacity                                                  *)

VARIABLES
  buf,        (* the items stored, oldest first                            *)
  offered,    (* per producer: the item it wants stored, or NoItem         *)
  asking,     (* the consumers that wait for an item                       *)
  got         (* per consumer: what its last call received                 *)

vars == <<buf, offered, asking, got>>

Init ==
  /\ buf = <<>>
  /\ offered = [p \in Producers |-> NoItem]
  /\ asking = {}
  /\ got = [c \in Consumers |-> NoItem]

Offer(p, v) ==
  /\ offered[p] = NoItem
  /\ offered' = [offered EXCEPT ![p] = v]
  /\ UNCHANGED <<buf, asking, got>>

Put(p) ==
  /\ offered[p] # NoItem
  /\ Len(buf) < NumItems
  /\ buf' = Append(buf, offered[p])
  /\ offered' = [offered EXCEPT ![p] = NoItem]
  /\ UNCHANGED <<asking, got>>

Ask(c) ==
  /\ c \notin asking
  /\ asking' = asking \union {c}
  /\ got' = [got EXCEPT ![c] = NoItem]
  /\ UNCHANGED <<buf, offered>>

Take(c) ==
  /\ c \in asking
  /\ buf # <<>>
  /\ got' = [got EXCEPT ![c] = Head(buf)]
  /\ buf' = Tail(buf)
  /\ asking' = asking \ {c}
  /\ UNCHANGED offered

Next ==
  \/ \E p \in Producers : (\E v \in Items : Offer(p, v)) \/ Put(p)
  \/ \E c \in Consumers : Ask(c) \/ Take(c)

Spec == Init /\ [][Next]_vars

(* An offered item is not left outside a buffer that keeps room for it, and *)
(* a consumer that asks is not left waiting beside a buffer that keeps an   *)
(* item.                                                                    *)
Fairness ==
  /\ \A p \in Producers : WF_vars(Put(p))
  /\ \A c \in Consumers : WF_vars(Take(c))

FairSpec == Spec /\ Fairness
=============================================================================
