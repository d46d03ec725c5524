------------------------------- MODULE Queue --------------------------------
(***************************************************************************)
(* struct queue of src/src/process.c: a ring of NumItems slots guarded by  *)
(* a mutex, with one condition variable per direction (cnd: an item came,  *)
(* cnd2: a slot came free).  Every lock, wait, signal and unlock of        *)
(* queue_push and queue_pop is a step; the accesses to the ring between    *)
(* a lock and the matching unlock are one step, since no other thread can  *)
(* touch the ring meanwhile.                                               *)
(*                                                                         *)
(* The mutex and the condition variables are those of threads_win32.h in   *)
(* the configuration src/src/CMakeLists.txt builds (_WIN32_WINNT 0x0601):  *)
(* a CRITICAL_SECTION and a native CONDITION_VARIABLE.  A wait gives up    *)
(* the mutex and sleeps in one step, may end without a signal, and takes   *)
(* the mutex again before it returns.  A signal wakes one sleeper, any     *)
(* one, and is lost when nobody sleeps.                                    *)
(***************************************************************************)
EXTENDS Naturals, Sequences, FiniteSets

CONSTANTS
  Producers,   (* threads that call queue_push (the read_worker)           *)
  Consumers,   (* threads that call queue_pop                              *)
  Items,       (* non-NULL item pointers                                   *)
  NoItem,      (* the NULL pointer                                         *)
  NumItems,    (* q->num_items; process_start passes 2                     *)
  NoThread,    (* owner of a free mutex                                    *)
  MaxSpurious  (* bound: wakeups without a signal in one behaviour         *)

ASSUME QueueAssumption ==
  /\ NumItems \in Nat \ {0}
  /\ MaxSpurious \in Nat
  /\ NoItem \notin Items
  /\ NoThread \notin Producers \union Consumers
  /\ Producers \intersect Consumers = {}
  /\ IsFiniteSet(Producers)
  /\ IsFiniteSet(Consumers)

VARIABLES
  items,       (* q->items, indexed 0 .. NumItems - 1                      *)
  used,        (* q->used                                                  *)
  readcur,     (* q->readcur                                               *)
  writecur,    (* q->writecur                                              *)
  mtx,         (* owner of q->mtx, or NoThread                             *)
  pc,          (* where each thread is in queue_push or queue_pop          *)
  arg,         (* per producer: the parameter item                         *)
  r,           (* per consumer: the local r, returned at the end           *)
  spurious     (* wakeups without a signal so far                          *)

ring == <<items, used, readcur, writecur>>
vars == <<ring, mtx, pc, arg, r, spurious>>

Threads == Producers \union Consumers
Slots == 0 .. NumItems - 1

(* The threads asleep on q->cnd and on q->cnd2. *)
SleepOnCnd == {c \in Consumers : pc[c] = "wait"}
SleepOnCnd2 == {p \in Producers : pc[p] = "wait"}

-----------------------------------------------------------------------------

(* queue_init: an empty ring, a free mutex, nobody inside. *)
Init ==
  /\ items = [i \in Slots |-> NoItem]
  /\ used = 0
  /\ readcur = 0
  /\ writecur = 0
  /\ mtx = NoThread
  /\ pc = [t \in Threads |-> "idle"]
  /\ arg = [p \in Producers |-> NoItem]
  /\ r = [c \in Consumers |-> NoItem]
  /\ spurious = 0

Goto(t, from, to) ==
  /\ pc[t] = from
  /\ pc' = [pc EXCEPT ![t] = to]

(* mtx_lock: EnterCriticalSection returns once the thread owns the mutex.   *)
(* The same step ends a cnd_wait that was woken.                            *)
MtxLock(t) ==
  /\ Goto(t, "lock", "test")
  /\ mtx = NoThread
  /\ mtx' = t
  /\ UNCHANGED <<ring, arg, r, spurious>>

(* mtx_unlock, the last step of both functions. *)
MtxUnlock(t) ==
  /\ Goto(t, "unlock", "idle")
  /\ mtx' = NoThread
  /\ UNCHANGED <<ring, arg, r, spurious>>

(* cnd_wait: give up the mutex and sleep. *)
CndWait(t) ==
  /\ Goto(t, "test", "wait")
  /\ mtx' = NoThread
  /\ UNCHANGED <<ring, arg, r, spurious>>

(* cnd_signal: wake one of the sleepers, if there is one. *)
CndSignal(t, sleepers) ==
  /\ pc[t] = "signal"
  /\ \/ /\ sleepers = {}
        /\ pc' = [pc EXCEPT ![t] = "unlock"]
     \/ \E s \in sleepers :
          pc' = [pc EXCEPT ![t] = "unlock", ![s] = "lock"]
  /\ UNCHANGED <<ring, mtx, arg, r, spurious>>

(* SleepConditionVariableCS may return although nobody signalled. *)
SpuriousWakeup(t) ==
  /\ spurious < MaxSpurious
  /\ Goto(t, "wait", "lock")
  /\ spurious' = spurious + 1
  /\ UNCHANGED <<ring, mtx, arg, r>>

-----------------------------------------------------------------------------

PushCall(p, v) ==
  /\ Goto(p, "idle", "lock")
  /\ arg' = [arg EXCEPT ![p] = v]
  /\ UNCHANGED <<ring, mtx, r, spurious>>

PushWait(p) ==
  /\ used = NumItems
  /\ CndWait(p)

(* Mutant: a full ring is written to. *)
OverwritesWhenFull(p) ==
  /\ Goto(p, "test", "signal")
  /\ items' = [items EXCEPT ![writecur] = arg[p]]
  /\ used' = used + 1
  /\ writecur' = (writecur + 1) % NumItems
  /\ UNCHANGED <<readcur, mtx, arg, r, spurious>>

(* Mutant: the mutex is given up before the signal. *)
UnlocksEarly(p) ==
  /\ used # NumItems
  /\ Goto(p, "test", "signal")
  /\ items' = [items EXCEPT ![writecur] = arg[p]]
  /\ used' = used + 1
  /\ writecur' = (writecur + 1) % NumItems
  /\ mtx' = NoThread
  /\ UNCHANGED <<readcur, arg, r, spurious>>

PushStore(p) ==
  /\ used # NumItems
  /\ Goto(p, "test", "signal")
  /\ items' = [items EXCEPT ![writecur] = arg[p]]
  /\ used' = used + 1
  /\ writecur' = (writecur + 1) % NumItems
  /\ UNCHANGED <<readcur, mtx, arg, r, spurious>>

(* Mutant: the other condition variable is signalled. *)
SignalsProducers(p) == CndSignal(p, SleepOnCnd2)

PushSignal(p) == CndSignal(p, SleepOnCnd)

PopCall(c) ==
  /\ Goto(c, "idle", "lock")
  /\ r' = [r EXCEPT ![c] = NoItem]
  /\ UNCHANGED <<ring, mtx, arg, spurious>>

PopWait(c) ==
  /\ used = 0
  /\ CndWait(c)

(* Mutants: the slot keeps its pointer, or the newest item is taken.        *)
KeepsSlot(c) ==
  /\ used # 0
  /\ Goto(c, "test", "signal")
  /\ r' = [r EXCEPT ![c] = items[readcur]]
  /\ used' = used - 1
  /\ readcur' = (readcur + 1) % NumItems
  /\ UNCHANGED <<items, writecur, mtx, arg, spurious>>

TakesNewest(c) ==
  /\ used # 0
  /\ Goto(c, "test", "signal")
  /\ LET newest == (writecur + NumItems - 1) % NumItems
     IN  /\ r' = [r EXCEPT ![c] = items[newest]]
         /\ items' = [items EXCEPT ![newest] = NoItem]
         /\ writecur' = newest
  /\ used' = used - 1
  /\ UNCHANGED <<readcur, mtx, arg, spurious>>

PopTake(c) ==
  /\ used # 0
  /\ Goto(c, "test", "signal")
  /\ r' = [r EXCEPT ![c] = items[readcur]]
  /\ items' = [items EXCEPT ![readcur] = NoItem]
  /\ used' = used - 1
  /\ readcur' = (readcur + 1) % NumItems
  /\ UNCHANGED <<writecur, mtx, arg, spurious>>

(* Mutants: the other condition variable is signalled, or none. *)
SignalsConsumers(c) == CndSignal(c, SleepOnCnd)

SignalsNobody(c) == CndSignal(c, {})

PopSignal(c) == CndSignal(c, SleepOnCnd2)

-----------------------------------------------------------------------------

Push(p) == PushWait(p) \/ PushStore(p) \/ PushSignal(p)
Pop(c) == PopWait(c) \/ PopTake(c) \/ PopSignal(c)

(* What a thread does by itself once it has called. *)
Step(t) ==
  \/ MtxLock(t)
  \/ MtxUnlock(t)
  \/ t \in Producers /\ Push(t)
  \/ t \in Consumers /\ Pop(t)

Next ==
  \/ \E t \in Threads : Step(t) \/ SpuriousWakeup(t)
  \/ \E p \in Producers, v \in Items : PushCall(p, v)
  \/ \E c \in Consumers : PopCall(c)

Spec == Init /\ [][Next]_vars

-----------------------------------------------------------------------------

TypeOK ==
  /\ items \in [Slots -> Items \union {NoItem}]
  /\ used \in 0 .. NumItems
  /\ readcur \in Slots
  /\ writecur \in Slots
  /\ mtx \in Threads \union {NoThread}
  /\ pc \in [Threads -> {"idle", "lock", "test", "wait", "signal", "unlock"}]
  /\ arg \in [Producers -> Items \union {NoItem}]
  /\ r \in [Consumers -> Items \union {NoItem}]
  /\ spurious \in 0 .. MaxSpurious

(* The slot i places on from a cursor: from readcur, that of the i-th       *)
(* oldest item, i counted from 0.                                           *)
SlotAt(cursor, i) == (cursor + i) % NumItems

(* The used items lie in the slots from readcur on and end where writecur   *)
(* points; every other slot is NULL.  queue_push overwrites no item that    *)
(* was not popped and queue_pop never returns NULL (process_read would take *)
(* it for a failure, process_finish for the end of the queue).              *)
RingInv ==
  /\ writecur = SlotAt(readcur, used)
  /\ \A i \in Slots : items[SlotAt(readcur, i)] # NoItem <=> i < used

(* Consumers that will look at the ring before they sleep (again), and      *)
(* producers that have stored an item and not yet signalled it.             *)
AlertConsumers == {c \in Consumers : pc[c] \in {"lock", "test"}}
AnnouncingProducers == {p \in Producers : pc[p] = "signal"}

(* No wakeup is lost: when a consumer sleeps, every stored item has a       *)
(* consumer that is awake and will look, or a producer about to signal.     *)
ConsumerWakeup ==
  SleepOnCnd # {} =>
    used <= Cardinality(AlertConsumers) + Cardinality(AnnouncingProducers)

AlertProducers == {p \in Producers : pc[p] \in {"lock", "test"}}
AnnouncingConsumers == {c \in Consumers : pc[c] = "signal"}

(* The same for the other direction: when a producer sleeps, every free     *)
(* slot has a producer that is awake or a consumer about to signal.         *)
ProducerWakeup ==
  SleepOnCnd2 # {} =>
    NumItems - used
      <= Cardinality(AlertProducers) + Cardinality(AnnouncingConsumers)

(* The queue as its users see it. *)
Contents == [i \in 1 .. used |-> items[SlotAt(readcur, i - 1)]]
Entered(t) == pc[t] \in {"lock", "test", "wait"}

Abstract == INSTANCE Fifo WITH
  buf <- Contents,
  offered <- [p \in Producers |-> IF Entered(p) THEN arg[p] ELSE NoItem],
  asking <- {c \in Consumers : Entered(c)},
  got <- r

(* queue_push and queue_pop act as the atomic Put and Take of Fifo, in      *)
(* some order of the calls that overlap.                                    *)
ImplementsFifo == Abstract!Spec

(* In addition, in a specification with fairness of the threads, a push is  *)
(* not stuck while there is room, nor a pop while there is an item.         *)
ImplementsFairFifo == Abstract!FairSpec
=============================================================================
