---------------------------- MODULE QueueProofs -----------------------------
(***************************************************************************)
(* What TLAPS proves of Queue, for every number of threads, every set of   *)
(* items and every capacity: the types, the shape of the ring, that no     *)
(* wakeup is lost, and that queue_push and queue_pop implement the atomic  *)
(* operations of Fifo; and of QueueLife, for the one worker and the one    *)
(* host of the code: queue_destroy finds the queue unused, although nobody *)
(* joined the worker.                                                      *)
(***************************************************************************)
EXTENDS QueueLife, SequenceTheorems, FiniteSetTheorems, TLAPS

(* What % does to the sums the queue computes: a cursor moved on by at most *)
(* the capacity wraps to the front at most once.                            *)
LEMMA SlotValue ==
  ASSUME NEW x \in Slots, NEW i \in 0 .. NumItems
  PROVE  /\ SlotAt(x, i) = IF x + i < NumItems THEN x + i ELSE x + i - NumItems
         /\ SlotAt(x, i) \in Slots
BY QueueAssumption DEF Slots, SlotAt

LEMMA NextSlot ==
  ASSUME NEW x \in Slots
  PROVE  /\ (x + 1) % NumItems = IF x + 1 < NumItems THEN x + 1 ELSE 0
         /\ (x + 1) % NumItems \in Slots
BY QueueAssumption DEF Slots

(* The i-th slot from the next cursor is the next slot but i ... *)
LEMMA SlotShift ==
  ASSUME NEW x \in Slots, NEW i \in Slots
  PROVE  SlotAt((x + 1) % NumItems, i) = SlotAt(x, i + 1)
<1>1. i \in 0 .. NumItems /\ i + 1 \in 0 .. NumItems
  BY QueueAssumption DEF Slots
<1>2. PICK y \in Slots : y = (x + 1) % NumItems
  BY NextSlot
<1>3. y = IF x + 1 < NumItems THEN x + 1 ELSE 0
  BY <1>2, NextSlot
<1>4. SlotAt(y, i) = IF y + i < NumItems THEN y + i ELSE y + i - NumItems
  BY <1>1, SlotValue
<1>5. SlotAt(x, i + 1) = IF x + (i + 1) < NumItems
                         THEN x + (i + 1) ELSE x + (i + 1) - NumItems
  BY <1>1, SlotValue
<1>6. SlotAt(y, i) = SlotAt(x, i + 1)
  BY <1>1, <1>3, <1>4, <1>5, QueueAssumption DEF Slots
<1> QED
  BY <1>2, <1>6

(* ... the successor of the i-th slot is the next one ...                   *)
LEMMA SlotSucc ==
  ASSUME NEW x \in Slots, NEW i \in Slots
  PROVE  (SlotAt(x, i) + 1) % NumItems = SlotAt(x, i + 1)
<1>1. i \in 0 .. NumItems /\ i + 1 \in 0 .. NumItems
  BY QueueAssumption DEF Slots
<1>2. PICK y \in Slots : y = SlotAt(x, i)
  BY <1>1, SlotValue
<1>3. y = IF x + i < NumItems THEN x + i ELSE x + i - NumItems
  BY <1>1, <1>2, SlotValue
<1>4. (y + 1) % NumItems = IF y + 1 < NumItems THEN y + 1 ELSE 0
  BY NextSlot
<1>5. SlotAt(x, i + 1) = IF x + (i + 1) < NumItems
                         THEN x + (i + 1) ELSE x + (i + 1) - NumItems
  BY <1>1, SlotValue
<1>6. (y + 1) % NumItems = SlotAt(x, i + 1)
  BY <1>1, <1>3, <1>4, <1>5, QueueAssumption DEF Slots
<1> QED
  BY <1>2, <1>6

(* ... and two places in the ring have two slots. *)
LEMMA SlotInjective ==
  ASSUME NEW x \in Slots, NEW i \in Slots, NEW j \in Slots,
         SlotAt(x, i) = SlotAt(x, j)
  PROVE  i = j
<1>1. i \in 0 .. NumItems /\ j \in 0 .. NumItems
  BY QueueAssumption DEF Slots
<1>2. /\ SlotAt(x, i) = IF x + i < NumItems THEN x + i ELSE x + i - NumItems
      /\ SlotAt(x, j) = IF x + j < NumItems THEN x + j ELSE x + j - NumItems
  BY <1>1, SlotValue
<1>3. /\ x \in Int /\ i \in Int /\ j \in Int /\ NumItems \in Int
      /\ 0 <= x /\ x < NumItems
      /\ 0 <= i /\ i < NumItems /\ 0 <= j /\ j < NumItems
  BY QueueAssumption DEF Slots
<1>4. (IF x + i < NumItems THEN x + i ELSE x + i - NumItems)
        = (IF x + j < NumItems THEN x + j ELSE x + j - NumItems)
  BY <1>2
<1> QED
  BY <1>3, <1>4

(* Moved on by nothing, and by a whole turn, a cursor stays where it is. *)
LEMMA SlotFixed ==
  ASSUME NEW x \in Slots
  PROVE  SlotAt(x, 0) = x /\ SlotAt(x, NumItems) = x
BY QueueAssumption DEF Slots, SlotAt

-----------------------------------------------------------------------------

THEOREM InitTypeOK == Init => TypeOK
BY QueueAssumption DEF Init, TypeOK, Slots, Threads

LEMMA NextTypeOK == TypeOK /\ [Next]_vars => TypeOK'
<1> SUFFICES ASSUME TypeOK, [Next]_vars PROVE TypeOK'
  OBVIOUS
<1> USE QueueAssumption DEF TypeOK, Goto, ring, Slots
<1>1. ASSUME NEW t \in Threads, MtxLock(t) PROVE TypeOK'
  BY <1>1 DEF MtxLock
<1>2. ASSUME NEW t \in Threads, MtxUnlock(t) PROVE TypeOK'
  BY <1>2 DEF MtxUnlock
<1>3. ASSUME NEW t \in Threads, CndWait(t) PROVE TypeOK'
  BY <1>3 DEF CndWait
<1>4. ASSUME NEW t \in Threads, NEW S \in SUBSET Threads, CndSignal(t, S)
      PROVE  TypeOK'
  BY <1>4 DEF CndSignal
<1>5. ASSUME NEW t \in Threads, SpuriousWakeup(t) PROVE TypeOK'
  BY <1>5 DEF SpuriousWakeup
<1>6. ASSUME NEW p \in Producers, NEW v \in Items, PushCall(p, v)
      PROVE  TypeOK'
  BY <1>6 DEF PushCall, Threads
<1>7. ASSUME NEW p \in Producers, PushStore(p) PROVE TypeOK'
  <2>1. (writecur + 1) % NumItems \in Slots
    BY NextSlot
  <2> QED
    BY <1>7, <2>1 DEF PushStore, Threads
<1>8. ASSUME NEW c \in Consumers, PopCall(c) PROVE TypeOK'
  BY <1>8 DEF PopCall, Threads
<1>9. ASSUME NEW c \in Consumers, PopTake(c) PROVE TypeOK'
  <2>1. (readcur + 1) % NumItems \in Slots
    BY NextSlot
  <2> QED
    BY <1>9, <2>1 DEF PopTake, Threads
<1>10. CASE UNCHANGED vars
  BY <1>10 DEF vars
<1>11. SleepOnCnd \in SUBSET Threads /\ SleepOnCnd2 \in SUBSET Threads
  BY DEF SleepOnCnd, SleepOnCnd2, Threads
<1> QED
  BY <1>1, <1>2, <1>3, <1>4, <1>5, <1>6, <1>7, <1>8, <1>9, <1>10, <1>11
  DEF Next, Step, Push, Pop, PushWait, PushSignal, PopWait, PopSignal, Threads

(* Every variable of the queue keeps its type: the cursors stay inside the  *)
(* array and used between 0 and the capacity.                               *)
THEOREM TypeCorrect == Spec => []TypeOK
BY InitTypeOK, NextTypeOK, PTL DEF Spec

-----------------------------------------------------------------------------

(* A producer inside queue_push carries a real item. *)
ArgInv == \A p \in Producers : Entered(p) => arg[p] # NoItem

(* The inductive invariant: RingInv alone is not preserved by a PushStore   *)
(* that stores NULL, hence ArgInv.                                          *)
IInv == TypeOK /\ ArgInv /\ RingInv

LEMMA InitIInv == Init => IInv
<1> SUFFICES ASSUME Init PROVE ArgInv /\ RingInv
  BY InitTypeOK DEF IInv
<1>1. ArgInv
  BY DEF Init, ArgInv, Entered, Threads
<1>2. /\ readcur \in Slots /\ writecur = readcur /\ used = 0
      /\ items = [i \in Slots |-> NoItem]
  BY QueueAssumption DEF Init, Slots
<1>3. ASSUME NEW i \in Slots
      PROVE  items[SlotAt(readcur, i)] # NoItem <=> i < used
  <2>1. i \in 0 .. NumItems /\ ~ (i < 0)
    BY QueueAssumption DEF Slots
  <2>2. SlotAt(readcur, i) \in Slots
    BY <1>2, <2>1, SlotValue
  <2> QED
    BY <1>2, <2>1, <2>2
<1> QED
  BY <1>1, <1>2, <1>3, SlotFixed DEF RingInv

LEMMA NextArgInv == IInv /\ [Next]_vars => ArgInv'
<1> SUFFICES ASSUME IInv, [Next]_vars PROVE ArgInv'
  OBVIOUS
<1> USE QueueAssumption DEF IInv, TypeOK, ArgInv, Entered, Goto, ring
<1>1. ASSUME NEW t \in Threads, MtxLock(t) PROVE ArgInv'
  BY <1>1 DEF MtxLock, Threads
<1>2. ASSUME NEW t \in Threads, MtxUnlock(t) PROVE ArgInv'
  BY <1>2 DEF MtxUnlock, Threads
<1>3. ASSUME NEW t \in Threads, CndWait(t) PROVE ArgInv'
  BY <1>3 DEF CndWait, Threads
<1>4. ASSUME NEW t \in Threads, CndSignal(t, SleepOnCnd) PROVE ArgInv'
  BY <1>4 DEF CndSignal, SleepOnCnd, Threads
<1>5. ASSUME NEW t \in Threads, CndSignal(t, SleepOnCnd2) PROVE ArgInv'
  BY <1>5 DEF CndSignal, SleepOnCnd2, Threads
<1>6. ASSUME NEW t \in Threads, SpuriousWakeup(t) PROVE ArgInv'
  BY <1>6 DEF SpuriousWakeup, Threads
<1>7. ASSUME NEW p \in Producers, NEW v \in Items, PushCall(p, v) PROVE ArgInv'
  BY <1>7 DEF PushCall, Threads
<1>8. ASSUME NEW p \in Producers, PushStore(p) PROVE ArgInv'
  BY <1>8 DEF PushStore, Threads
<1>9. ASSUME NEW c \in Consumers, PopCall(c) PROVE ArgInv'
  BY <1>9 DEF PopCall, Threads
<1>10. ASSUME NEW c \in Consumers, PopTake(c) PROVE ArgInv'
  BY <1>10 DEF PopTake, Threads
<1>11. CASE UNCHANGED vars
  BY <1>11 DEF vars
<1> QED
  BY <1>1, <1>2, <1>3, <1>4, <1>5, <1>6, <1>7, <1>8, <1>9, <1>10, <1>11
  DEF Next, Step, Push, Pop, PushWait, PushSignal, PopWait, PopSignal, Threads

(* Storing into the slot at used appends to the ring. *)
LEMMA StoreKeepsRing ==
  ASSUME IInv, NEW p \in Producers, PushStore(p)
  PROVE  RingInv'
<1>1. /\ readcur' = readcur /\ used' = used + 1 /\ used \in Slots
      /\ items' = [items EXCEPT ![SlotAt(readcur, used)] = arg[p]]
      /\ writecur' = (SlotAt(readcur, used) + 1) % NumItems
      /\ readcur \in Slots
      /\ items \in [Slots -> Items \union {NoItem}]
  BY QueueAssumption DEF PushStore, IInv, RingInv, TypeOK, Slots
<1>2. arg[p] # NoItem
  BY DEF PushStore, Goto, IInv, ArgInv, Entered
<1>3. writecur' = SlotAt(readcur', used')
  BY <1>1, SlotSucc
<1>4. ASSUME NEW i \in Slots
      PROVE  items'[SlotAt(readcur', i)] # NoItem <=> i < used'
  <2>1. SlotAt(readcur, i) \in Slots
    <3>1. i \in 0 .. NumItems
      BY QueueAssumption DEF Slots
    <3> QED
      BY <1>1, <3>1, SlotValue
  <2>2. SlotAt(readcur, i) = SlotAt(readcur, used) <=> i = used
    BY <1>1, SlotInjective
  <2>3. items[SlotAt(readcur, i)] # NoItem <=> i < used
    BY DEF IInv, RingInv
  <2>4. i < used' <=> i = used \/ i < used
    BY <1>1, QueueAssumption DEF Slots
  <2> QED
    BY <1>1, <1>2, <2>1, <2>2, <2>3, <2>4
<1> QED
  BY <1>3, <1>4 DEF RingInv, Slots

(* Emptying the slot at readcur drops the oldest item. *)
LEMMA TakeKeepsRing ==
  ASSUME IInv, NEW c \in Consumers, PopTake(c)
  PROVE  RingInv'
<1>1. /\ readcur' = (readcur + 1) % NumItems /\ used' = used - 1
      /\ used \in 1 .. NumItems /\ readcur \in Slots
      /\ items' = [items EXCEPT ![readcur] = NoItem]
      /\ writecur' = writecur /\ writecur = SlotAt(readcur, used)
      /\ items \in [Slots -> Items \union {NoItem}]
  BY QueueAssumption DEF PopTake, IInv, RingInv, TypeOK
<1>2. used - 1 \in Slots /\ (used - 1) + 1 = used
  BY <1>1, QueueAssumption DEF Slots
<1>3. writecur' = SlotAt(readcur', used')
  BY <1>1, <1>2, SlotShift
<1>4. ASSUME NEW i \in Slots
      PROVE  items'[SlotAt(readcur', i)] # NoItem <=> i < used'
  <2>1. SlotAt(readcur', i) = SlotAt(readcur, i + 1)
    BY <1>1, SlotShift
  <2>2. i < used' <=> i + 1 < used
    BY <1>1, QueueAssumption DEF Slots
  <2>3. CASE i + 1 = NumItems
    <3>1. SlotAt(readcur, i + 1) = readcur
      BY <1>1, <2>3, SlotFixed
    <3>2. ~ (i + 1 < used)
      BY <1>1, <2>3, QueueAssumption DEF Slots
    <3> QED
      BY <1>1, <2>1, <2>2, <3>1, <3>2
  <2>4. CASE i + 1 # NumItems
    <3>1. i + 1 \in Slots /\ i + 1 # 0 /\ 0 \in Slots /\ i + 1 \in 0 .. NumItems
      BY <2>4, QueueAssumption DEF Slots
    <3>2. SlotAt(readcur, i + 1) \in Slots
      BY <1>1, <3>1, SlotValue
    <3>3. SlotAt(readcur, i + 1) # readcur
      BY <1>1, <3>1, SlotInjective, SlotFixed
    <3>4. items[SlotAt(readcur, i + 1)] # NoItem <=> i + 1 < used
      BY <3>1 DEF IInv, RingInv
    <3> QED
      BY <1>1, <2>1, <2>2, <3>2, <3>3, <3>4
  <2> QED
    BY <2>3, <2>4
<1> QED
  BY <1>3, <1>4 DEF RingInv, Slots

LEMMA NextIInv == IInv /\ [Next]_vars => IInv'
<1> SUFFICES ASSUME IInv, [Next]_vars PROVE RingInv'
  BY NextTypeOK, NextArgInv DEF IInv
<1>2. CASE UNCHANGED ring
  BY <1>2 DEF IInv, RingInv, SlotAt, ring
<1>3. ASSUME NEW p \in Producers, PushStore(p) PROVE RingInv'
  BY <1>3, StoreKeepsRing
<1>4. ASSUME NEW c \in Consumers, PopTake(c) PROVE RingInv'
  BY <1>4, TakeKeepsRing
<1>5. \/ UNCHANGED ring
      \/ \E p \in Producers : PushStore(p)
      \/ \E c \in Consumers : PopTake(c)
  BY DEF Next, vars, Step, Push, Pop, PushWait, PushSignal, PopWait, PopSignal,
         MtxLock, MtxUnlock, CndWait, CndSignal, SpuriousWakeup, PushCall, PopCall
<1> QED
  BY <1>2, <1>3, <1>4, <1>5

LEMMA InvariantIInv == Spec => []IInv
BY InitIInv, NextIInv, PTL DEF Spec

(* The ring is sound in every reachable state: the used items lie in a row  *)
(* from readcur to writecur and every other slot is NULL, so queue_push     *)
(* overwrites nothing and queue_pop never returns NULL.                     *)
THEOREM RingCorrect == Spec => []RingInv
BY InvariantIInv, PTL DEF IInv

-----------------------------------------------------------------------------

(* The counts of the two wakeup invariants: how a sum of two cardinalities  *)
(* follows the sets when nothing leaves them, when one member is added,     *)
(* moves from one to the other, or leaves.                                  *)
LEMMA CountKept ==
  ASSUME NEW A, NEW B, NEW A2, NEW B2, IsFiniteSet(A2), IsFiniteSet(B2),
         A \subseteq A2, B \subseteq B2
  PROVE  /\ Cardinality(A) + Cardinality(B) <= Cardinality(A2) + Cardinality(B2)
         /\ Cardinality(A) \in Nat /\ Cardinality(B) \in Nat
         /\ Cardinality(A2) \in Nat /\ Cardinality(B2) \in Nat
<1>1. /\ IsFiniteSet(A) /\ Cardinality(A) <= Cardinality(A2)
      /\ IsFiniteSet(B) /\ Cardinality(B) <= Cardinality(B2)
  BY FS_Subset
<1>2. /\ Cardinality(A) \in Nat /\ Cardinality(B) \in Nat
      /\ Cardinality(A2) \in Nat /\ Cardinality(B2) \in Nat
  BY <1>1, FS_CardinalityType
<1> QED
  BY <1>1, <1>2

LEMMA CountAdded ==
  ASSUME NEW A, NEW B, NEW A2, NEW B2, IsFiniteSet(A2), IsFiniteSet(B2),
         NEW x, x \notin B, A \subseteq A2, B \union {x} \subseteq B2
  PROVE  Cardinality(A) + Cardinality(B) + 1 <= Cardinality(A2) + Cardinality(B2)
<1>1. IsFiniteSet(B)
  BY FS_Subset
<1>2. Cardinality(B \union {x}) = Cardinality(B) + 1
  BY <1>1, FS_AddElement
<1>3. Cardinality(B) \in Nat
  BY <1>1, FS_CardinalityType
<1>4. /\ Cardinality(A) + Cardinality(B \union {x})
           <= Cardinality(A2) + Cardinality(B2)
      /\ Cardinality(A) \in Nat /\ Cardinality(A2) \in Nat
      /\ Cardinality(B2) \in Nat
  BY CountKept
<1> QED
  BY <1>2, <1>3, <1>4

LEMMA CountMoved ==
  ASSUME NEW A, NEW B, NEW A2, NEW B2, IsFiniteSet(A2), IsFiniteSet(B2),
         IsFiniteSet(B), NEW x, NEW y, x \in B, y \notin A,
         A \union {y} \subseteq A2, B \ {x} \subseteq B2
  PROVE  Cardinality(A) + Cardinality(B) <= Cardinality(A2) + Cardinality(B2)
<1>1. Cardinality(B \ {x}) = Cardinality(B) - 1
  BY FS_RemoveElement
<1>2. Cardinality(B \ {x}) + Cardinality(A) + 1
        <= Cardinality(B2) + Cardinality(A2)
  BY CountAdded
<1>3. /\ Cardinality(B) \in Nat /\ Cardinality(A2) \in Nat
      /\ Cardinality(B2) \in Nat
  BY FS_CardinalityType
<1>4. Cardinality(A) \in Nat
  BY CountKept
<1> QED
  BY <1>1, <1>2, <1>3, <1>4

LEMMA CountLeft ==
  ASSUME NEW A, NEW B, NEW A2, NEW B2, IsFiniteSet(A2), IsFiniteSet(B2),
         IsFiniteSet(A), NEW x, x \in A, A \ {x} \subseteq A2, B \subseteq B2
  PROVE  Cardinality(A) + Cardinality(B) <= Cardinality(A2) + Cardinality(B2) + 1
<1>1. Cardinality(A \ {x}) = Cardinality(A) - 1
  BY FS_RemoveElement
<1>2. /\ Cardinality(A \ {x}) + Cardinality(B)
           <= Cardinality(A2) + Cardinality(B2)
      /\ Cardinality(B) \in Nat /\ Cardinality(A2) \in Nat
      /\ Cardinality(B2) \in Nat
  BY CountKept
<1>3. Cardinality(A) \in Nat
  BY FS_CardinalityType
<1> QED
  BY <1>1, <1>2, <1>3

LEMMA FiniteCounts ==
  /\ IsFiniteSet(AlertConsumers) /\ IsFiniteSet(AnnouncingProducers)
  /\ IsFiniteSet(AlertProducers) /\ IsFiniteSet(AnnouncingConsumers)
  /\ IsFiniteSet(AlertConsumers') /\ IsFiniteSet(AnnouncingProducers')
  /\ IsFiniteSet(AlertProducers') /\ IsFiniteSet(AnnouncingConsumers')
BY QueueAssumption, FS_Subset
DEF AlertConsumers, AnnouncingProducers, AlertProducers, AnnouncingConsumers

(* Both wakeup invariants are kept by a step that changes no count, that    *)
(* takes nobody from the watchful sets, and that puts nobody to sleep.      *)
LEMMA QuietStep ==
  ASSUME TypeOK, used' = used,
         AlertConsumers \subseteq AlertConsumers',
         AnnouncingProducers \subseteq AnnouncingProducers',
         AlertProducers \subseteq AlertProducers',
         AnnouncingConsumers \subseteq AnnouncingConsumers',
         SleepOnCnd' \subseteq SleepOnCnd, SleepOnCnd2' \subseteq SleepOnCnd2
  PROVE  /\ ConsumerWakeup => ConsumerWakeup'
         /\ ProducerWakeup => ProducerWakeup'
<1>1. /\ Cardinality(AlertConsumers) + Cardinality(AnnouncingProducers)
           <= Cardinality(AlertConsumers') + Cardinality(AnnouncingProducers')
      /\ Cardinality(AlertConsumers) \in Nat
      /\ Cardinality(AnnouncingProducers) \in Nat
      /\ Cardinality(AlertConsumers') \in Nat
      /\ Cardinality(AnnouncingProducers') \in Nat
  BY FiniteCounts, CountKept
<1>2. /\ Cardinality(AlertProducers) + Cardinality(AnnouncingConsumers)
           <= Cardinality(AlertProducers') + Cardinality(AnnouncingConsumers')
      /\ Cardinality(AlertProducers) \in Nat
      /\ Cardinality(AnnouncingConsumers) \in Nat
      /\ Cardinality(AlertProducers') \in Nat
      /\ Cardinality(AnnouncingConsumers') \in Nat
  BY FiniteCounts, CountKept
<1>3. used \in Nat /\ NumItems \in Nat
  BY QueueAssumption DEF TypeOK
<1> QED
  BY <1>1, <1>2, <1>3 DEF ConsumerWakeup, ProducerWakeup

WakeupInv == TypeOK /\ ConsumerWakeup /\ ProducerWakeup

(* The sets that ConsumerWakeup and ProducerWakeup count. *)
LEMMA WakeupStep ==
  ASSUME WakeupInv, [Next]_vars
  PROVE  ConsumerWakeup' /\ ProducerWakeup'
<1> DEFINE Goal == ConsumerWakeup' /\ ProducerWakeup'
<1>a. TypeOK /\ TypeOK' /\ ConsumerWakeup /\ ProducerWakeup
  BY NextTypeOK DEF WakeupInv
<1>b. /\ used \in Nat /\ used' \in Nat /\ NumItems \in Nat
      /\ used <= NumItems /\ used' <= NumItems
      /\ pc \in [Threads -> {"idle", "lock", "test", "wait", "signal", "unlock"}]
  BY <1>a, QueueAssumption DEF TypeOK
<1>c. /\ Cardinality(AlertConsumers) \in Nat
      /\ Cardinality(AnnouncingProducers) \in Nat
      /\ Cardinality(AlertProducers) \in Nat
      /\ Cardinality(AnnouncingConsumers) \in Nat
      /\ Cardinality(AlertConsumers') \in Nat
      /\ Cardinality(AnnouncingProducers') \in Nat
      /\ Cardinality(AlertProducers') \in Nat
      /\ Cardinality(AnnouncingConsumers') \in Nat
  BY FiniteCounts, FS_CardinalityType
<1>d. Producers \intersect Consumers = {} /\ Threads = Producers \union Consumers
  BY QueueAssumption DEF Threads
<1>1. ASSUME NEW t \in Threads,
             \/ Goto(t, "lock", "test") \/ Goto(t, "unlock", "idle")
             \/ Goto(t, "wait", "lock") \/ Goto(t, "idle", "lock"),
             used' = used
      PROVE  Goal
  <2>1. /\ AlertConsumers \subseteq AlertConsumers'
        /\ AnnouncingProducers \subseteq AnnouncingProducers'
        /\ AlertProducers \subseteq AlertProducers'
        /\ AnnouncingConsumers \subseteq AnnouncingConsumers'
        /\ SleepOnCnd' \subseteq SleepOnCnd /\ SleepOnCnd2' \subseteq SleepOnCnd2
    BY <1>1, <1>b, <1>d
    DEF Goto, AlertConsumers, AnnouncingProducers, AlertProducers,
        AnnouncingConsumers, SleepOnCnd, SleepOnCnd2
  <2> QED
    BY <1>1, <1>a, <2>1, QuietStep
<1>2. ASSUME NEW p \in Producers, PushWait(p) PROVE Goal
  <2>1. /\ used = NumItems /\ used' = used
        /\ AlertConsumers' = AlertConsumers
        /\ AnnouncingProducers' = AnnouncingProducers
        /\ SleepOnCnd' = SleepOnCnd
    BY <1>2, <1>b, <1>d
    DEF PushWait, CndWait, Goto, ring, AlertConsumers, AnnouncingProducers, SleepOnCnd
  <2> QED
    BY <1>a, <1>b, <1>c, <2>1 DEF ConsumerWakeup, ProducerWakeup
<1>3. ASSUME NEW c \in Consumers, PopWait(c) PROVE Goal
  <2>1. /\ used = 0 /\ used' = used
        /\ AlertProducers' = AlertProducers
        /\ AnnouncingConsumers' = AnnouncingConsumers
        /\ SleepOnCnd2' = SleepOnCnd2
    BY <1>3, <1>b, <1>d
    DEF PopWait, CndWait, Goto, ring, AlertProducers, AnnouncingConsumers, SleepOnCnd2
  <2> QED
    BY <1>a, <1>b, <1>c, <2>1 DEF ConsumerWakeup, ProducerWakeup
<1>4. ASSUME NEW p \in Producers, PushStore(p) PROVE Goal
  <2>1. /\ used' = used + 1
        /\ AlertConsumers \subseteq AlertConsumers'
        /\ p \notin AnnouncingProducers
        /\ AnnouncingProducers \union {p} \subseteq AnnouncingProducers'
        /\ p \in AlertProducers
        /\ AlertProducers \ {p} \subseteq AlertProducers'
        /\ AnnouncingConsumers \subseteq AnnouncingConsumers'
        /\ SleepOnCnd' = SleepOnCnd /\ SleepOnCnd2' = SleepOnCnd2
    BY <1>4, <1>b, <1>d
    DEF PushStore, Goto, AlertConsumers, AnnouncingProducers, AlertProducers,
        AnnouncingConsumers, SleepOnCnd, SleepOnCnd2
  <2>2. Cardinality(AlertConsumers) + Cardinality(AnnouncingProducers) + 1
          <= Cardinality(AlertConsumers') + Cardinality(AnnouncingProducers')
    BY <2>1, FiniteCounts, CountAdded
  <2>3. Cardinality(AlertProducers) + Cardinality(AnnouncingConsumers)
          <= Cardinality(AlertProducers') + Cardinality(AnnouncingConsumers') + 1
    BY <2>1, FiniteCounts, CountLeft
  <2> QED
    BY <1>a, <1>b, <1>c, <2>1, <2>2, <2>3 DEF ConsumerWakeup, ProducerWakeup
<1>5. ASSUME NEW c \in Consumers, PopTake(c) PROVE Goal
  <2>1. /\ used' = used - 1
        /\ AlertProducers \subseteq AlertProducers'
        /\ c \notin AnnouncingConsumers
        /\ AnnouncingConsumers \union {c} \subseteq AnnouncingConsumers'
        /\ c \in AlertConsumers
        /\ AlertConsumers \ {c} \subseteq AlertConsumers'
        /\ AnnouncingProducers \subseteq AnnouncingProducers'
        /\ SleepOnCnd' = SleepOnCnd /\ SleepOnCnd2' = SleepOnCnd2
    BY <1>5, <1>b, <1>d
    DEF PopTake, Goto, AlertConsumers, AnnouncingProducers, AlertProducers,
        AnnouncingConsumers, SleepOnCnd, SleepOnCnd2
  <2>2. Cardinality(AlertProducers) + Cardinality(AnnouncingConsumers) + 1
          <= Cardinality(AlertProducers') + Cardinality(AnnouncingConsumers')
    BY <2>1, FiniteCounts, CountAdded
  <2>3. Cardinality(AlertConsumers) + Cardinality(AnnouncingProducers)
          <= Cardinality(AlertConsumers') + Cardinality(AnnouncingProducers') + 1
    BY <2>1, FiniteCounts, CountLeft
  <2> QED
    BY <1>a, <1>b, <1>c, <2>1, <2>2, <2>3 DEF ConsumerWakeup, ProducerWakeup
<1>6. ASSUME NEW p \in Producers, PushSignal(p) PROVE Goal
  <2>1. /\ used' = used
        /\ AlertProducers \subseteq AlertProducers'
        /\ AnnouncingConsumers \subseteq AnnouncingConsumers'
        /\ SleepOnCnd2' = SleepOnCnd2
        /\ p \in AnnouncingProducers
        /\ AnnouncingProducers \ {p} \subseteq AnnouncingProducers'
    BY <1>6, <1>b, <1>d
    DEF PushSignal, CndSignal, ring, AnnouncingProducers, AlertProducers,
        AnnouncingConsumers, SleepOnCnd, SleepOnCnd2
  <2>2. ProducerWakeup'
    <3>1. Cardinality(AlertProducers) + Cardinality(AnnouncingConsumers)
            <= Cardinality(AlertProducers') + Cardinality(AnnouncingConsumers')
      BY <2>1, FiniteCounts, CountKept
    <3> QED
      BY <1>a, <1>b, <1>c, <2>1, <3>1 DEF ProducerWakeup
  <2>3. CASE SleepOnCnd = {}
    <3>1. pc' = [pc EXCEPT ![p] = "unlock"]
      BY <1>6, <2>3 DEF PushSignal, CndSignal
    <3>2. SleepOnCnd' = {}
      BY <1>b, <1>d, <2>3, <3>1 DEF SleepOnCnd
    <3> QED
      BY <2>2, <3>2 DEF ConsumerWakeup
  <2>4. CASE SleepOnCnd # {}
    <3>1. PICK s \in SleepOnCnd : pc' = [pc EXCEPT ![p] = "unlock", ![s] = "lock"]
      BY <1>6, <2>4 DEF PushSignal, CndSignal
    <3>2. /\ s \notin AlertConsumers
          /\ AlertConsumers \union {s} \subseteq AlertConsumers'
      BY <1>b, <1>d, <3>1 DEF AlertConsumers, SleepOnCnd
    <3>3. Cardinality(AlertConsumers) + Cardinality(AnnouncingProducers)
            <= Cardinality(AlertConsumers') + Cardinality(AnnouncingProducers')
      BY <2>1, <3>2, FiniteCounts, CountMoved
    <3> QED
      BY <1>a, <1>b, <1>c, <2>1, <2>2, <2>4, <3>3 DEF ConsumerWakeup
  <2> QED
    BY <2>3, <2>4
<1>7. ASSUME NEW c \in Consumers, PopSignal(c) PROVE Goal
  <2>1. /\ used' = used
        /\ AlertConsumers \subseteq AlertConsumers'
        /\ AnnouncingProducers \subseteq AnnouncingProducers'
        /\ SleepOnCnd' = SleepOnCnd
        /\ c \in AnnouncingConsumers
        /\ AnnouncingConsumers \ {c} \subseteq AnnouncingConsumers'
    BY <1>7, <1>b, <1>d
    DEF PopSignal, CndSignal, ring, AlertConsumers, AnnouncingProducers,
        AnnouncingConsumers, SleepOnCnd, SleepOnCnd2
  <2>2. ConsumerWakeup'
    <3>1. Cardinality(AlertConsumers) + Cardinality(AnnouncingProducers)
            <= Cardinality(AlertConsumers') + Cardinality(AnnouncingProducers')
      BY <2>1, FiniteCounts, CountKept
    <3> QED
      BY <1>a, <1>b, <1>c, <2>1, <3>1 DEF ConsumerWakeup
  <2>3. CASE SleepOnCnd2 = {}
    <3>1. pc' = [pc EXCEPT ![c] = "unlock"]
      BY <1>7, <2>3 DEF PopSignal, CndSignal
    <3>2. SleepOnCnd2' = {}
      BY <1>b, <1>d, <2>3, <3>1 DEF SleepOnCnd2
    <3> QED
      BY <2>2, <3>2 DEF ProducerWakeup
  <2>4. CASE SleepOnCnd2 # {}
    <3>1. PICK s \in SleepOnCnd2 : pc' = [pc EXCEPT ![c] = "unlock", ![s] = "lock"]
      BY <1>7, <2>4 DEF PopSignal, CndSignal
    <3>2. /\ s \notin AlertProducers
          /\ AlertProducers \union {s} \subseteq AlertProducers'
      BY <1>b, <1>d, <3>1 DEF AlertProducers, SleepOnCnd2
    <3>3. Cardinality(AlertProducers) + Cardinality(AnnouncingConsumers)
            <= Cardinality(AlertProducers') + Cardinality(AnnouncingConsumers')
      BY <2>1, <3>2, FiniteCounts, CountMoved
    <3> QED
      BY <1>a, <1>b, <1>c, <2>1, <2>2, <2>4, <3>3 DEF ProducerWakeup
  <2> QED
    BY <2>3, <2>4
<1>8. CASE UNCHANGED vars
  BY <1>8, <1>a DEF vars, ring, ConsumerWakeup, ProducerWakeup, AlertConsumers,
     AnnouncingProducers, AlertProducers, AnnouncingConsumers, SleepOnCnd, SleepOnCnd2
<1>9. CASE \E t \in Threads : MtxLock(t) \/ MtxUnlock(t) \/ SpuriousWakeup(t)
  BY <1>1, <1>9 DEF MtxLock, MtxUnlock, SpuriousWakeup, ring
<1>10. CASE \/ \E p \in Producers, v \in Items : PushCall(p, v)
            \/ \E c \in Consumers : PopCall(c)
  BY <1>1, <1>10, <1>d DEF PushCall, PopCall, ring
<1> QED
  BY <1>2, <1>3, <1>4, <1>5, <1>6, <1>7, <1>8, <1>9, <1>10
  DEF Next, Step, Push, Pop

LEMMA WakeupInvariant == Spec => []WakeupInv
<1>1. Init => WakeupInv
  <2> SUFFICES ASSUME Init PROVE SleepOnCnd = {} /\ SleepOnCnd2 = {}
    BY InitTypeOK DEF WakeupInv, ConsumerWakeup, ProducerWakeup
  <2> QED
    BY DEF Init, SleepOnCnd, SleepOnCnd2, Threads
<1>2. WakeupInv /\ [Next]_vars => WakeupInv'
  BY NextTypeOK, WakeupStep DEF WakeupInv
<1> QED
  BY <1>1, <1>2, PTL DEF Spec

(* However many threads share a queue, cnd_signal (and not a broadcast)     *)
(* from each queue_push is enough: no consumer sleeps beside an item that   *)
(* nobody is going to look for.                                             *)
THEOREM NoLostConsumerWakeup == Spec => []ConsumerWakeup
BY WakeupInvariant, PTL DEF WakeupInv

(* The same for the producers that sleep on a full queue. *)
THEOREM NoLostProducerWakeup == Spec => []ProducerWakeup
BY WakeupInvariant, PTL DEF WakeupInv

-----------------------------------------------------------------------------

ItemOrNull == Items \union {NoItem}

(* The ring read as a sequence, before a step and after it. *)
LEMMA ContentsSeq ==
  ASSUME TypeOK
  PROVE  /\ Contents \in Seq(ItemOrNull)
         /\ Len(Contents) = used
         /\ \A i \in 1 .. used : Contents[i] = items[SlotAt(readcur, i - 1)]
<1>1. /\ used \in Nat /\ used <= NumItems /\ readcur \in Slots
      /\ NumItems \in Nat
      /\ items \in [Slots -> ItemOrNull]
  BY QueueAssumption DEF TypeOK, ItemOrNull, Slots
<1>2. ASSUME NEW i \in 1 .. used
      PROVE  items[SlotAt(readcur, i - 1)] \in ItemOrNull
  <2>1. i - 1 \in 0 .. NumItems
    BY <1>1
  <2> QED
    BY <1>1, <2>1, SlotValue
<1>3. Contents \in [1 .. used -> ItemOrNull]
  BY <1>2 DEF Contents
<1>4. Contents \in Seq(ItemOrNull)
  BY <1>1, <1>3, SeqDef
<1>5. Len(Contents) = used
  BY <1>1, <1>3, <1>4, LenProperties
<1> QED
  BY <1>4, <1>5 DEF Contents

LEMMA ContentsSeqNext ==
  ASSUME TypeOK'
  PROVE  /\ Contents' \in Seq(ItemOrNull)
         /\ Len(Contents') = used'
         /\ \A i \in 1 .. used' : Contents'[i] = items'[SlotAt(readcur', i - 1)]
<1>1. /\ used' \in Nat /\ used' <= NumItems /\ readcur' \in Slots
      /\ NumItems \in Nat
      /\ items' \in [Slots -> ItemOrNull]
  BY QueueAssumption DEF TypeOK, ItemOrNull, Slots
<1>2. ASSUME NEW i \in 1 .. used'
      PROVE  items'[SlotAt(readcur', i - 1)] \in ItemOrNull
  <2>1. i - 1 \in 0 .. NumItems
    BY <1>1
  <2> QED
    BY <1>1, <2>1, SlotValue
<1>3. Contents' \in [1 .. used' -> ItemOrNull]
  BY <1>2 DEF Contents
<1>4. Contents' \in Seq(ItemOrNull)
  BY <1>1, <1>3, SeqDef
<1>5. Len(Contents') = used'
  BY <1>1, <1>3, <1>4, LenProperties
<1> QED
  BY <1>4, <1>5 DEF Contents

(* PushStore appends to the sequence ... *)
LEMMA StoreAppends ==
  ASSUME IInv, TypeOK', NEW p \in Producers, PushStore(p)
  PROVE  Contents' = Append(Contents, arg[p]) /\ Len(Contents) < NumItems
<1>1. /\ readcur' = readcur /\ used' = used + 1 /\ used \in Slots
      /\ used \in Nat /\ used < NumItems
      /\ items' = [items EXCEPT ![SlotAt(readcur, used)] = arg[p]]
      /\ readcur \in Slots /\ arg[p] \in ItemOrNull
      /\ items \in [Slots -> ItemOrNull]
  BY QueueAssumption DEF PushStore, IInv, RingInv, TypeOK, Slots, ItemOrNull
<1>2. /\ Contents \in Seq(ItemOrNull) /\ Len(Contents) = used
      /\ \A i \in 1 .. used : Contents[i] = items[SlotAt(readcur, i - 1)]
  BY ContentsSeq DEF IInv
<1>3. /\ Contents' \in Seq(ItemOrNull) /\ Len(Contents') = used + 1
      /\ \A i \in 1 .. used + 1 : Contents'[i] = items'[SlotAt(readcur, i - 1)]
  BY <1>1, ContentsSeqNext
<1>4. /\ Append(Contents, arg[p]) \in Seq(ItemOrNull)
      /\ Len(Append(Contents, arg[p])) = used + 1
      /\ \A i \in 1 .. used + 1 :
           Append(Contents, arg[p])[i] = IF i <= used THEN Contents[i] ELSE arg[p]
  BY <1>1, <1>2, AppendProperties
<1>5. ASSUME NEW i \in 1 .. used + 1
      PROVE  Contents'[i] = Append(Contents, arg[p])[i]
  <2>1. i - 1 \in Slots /\ (i - 1 = used <=> ~ (i <= used))
    BY <1>1, QueueAssumption DEF Slots
  <2>2. i - 1 \in 0 .. NumItems
    BY <2>1, QueueAssumption DEF Slots
  <2>3. SlotAt(readcur, i - 1) \in Slots
    BY <1>1, <2>2, SlotValue
  <2>4. SlotAt(readcur, i - 1) = SlotAt(readcur, used) <=> i - 1 = used
    BY <1>1, <2>1, SlotInjective
  <2>5. CASE i <= used
    <3>1. i \in 1 .. used
      BY <1>1, <2>5
    <3> QED
      BY <1>1, <1>2, <1>3, <1>4, <2>1, <2>3, <2>4, <2>5, <3>1
  <2>6. CASE ~ (i <= used)
    BY <1>1, <1>3, <1>4, <2>1, <2>3, <2>4, <2>6
  <2> QED
    BY <2>5, <2>6
<1> QED
  BY <1>1, <1>2, <1>3, <1>4, <1>5, SeqEqual

(* ... and PopTake returns its head and leaves its tail. *)
LEMMA TakeIsHead ==
  ASSUME IInv, TypeOK', NEW c \in Consumers, PopTake(c)
  PROVE  /\ Contents # <<>>
         /\ items[readcur] = Head(Contents)
         /\ Contents' = Tail(Contents)
<1>1. /\ readcur' = (readcur + 1) % NumItems /\ used' = used - 1
      /\ used \in 1 .. NumItems /\ readcur \in Slots /\ NumItems \in Nat
      /\ items' = [items EXCEPT ![readcur] = NoItem]
      /\ items \in [Slots -> ItemOrNull]
  BY QueueAssumption DEF PopTake, IInv, RingInv, TypeOK, ItemOrNull
<1>2. /\ Contents \in Seq(ItemOrNull) /\ Len(Contents) = used
      /\ \A i \in 1 .. used : Contents[i] = items[SlotAt(readcur, i - 1)]
  BY ContentsSeq DEF IInv
<1>3. /\ Contents' \in Seq(ItemOrNull) /\ Len(Contents') = used - 1
      /\ \A i \in 1 .. used - 1 : Contents'[i] = items'[SlotAt(readcur', i - 1)]
  BY <1>1, ContentsSeqNext
<1>4. Contents # <<>>
  BY <1>1, <1>2, EmptySeq
<1>5. /\ Tail(Contents) \in Seq(ItemOrNull)
      /\ Len(Tail(Contents)) = used - 1
      /\ \A i \in 1 .. used - 1 : Tail(Contents)[i] = Contents[i + 1]
  BY <1>2, <1>4, HeadTailProperties
<1>6. items[readcur] = Head(Contents)
  <2>1. 1 \in 1 .. used /\ 1 - 1 = 0
    BY <1>1
  <2>2. Contents[1] = items[readcur]
    BY <1>1, <1>2, <2>1, SlotFixed
  <2> QED
    BY <1>2, <1>4, <2>2
<1>7. ASSUME NEW i \in 1 .. used - 1
      PROVE  Contents'[i] = Tail(Contents)[i]
  <2>1. /\ i - 1 \in Slots /\ i \in Slots /\ i # 0 /\ 0 \in Slots
        /\ (i - 1) + 1 = i /\ (i + 1) - 1 = i /\ i + 1 \in 1 .. used
    BY <1>1, QueueAssumption DEF Slots
  <2>2. SlotAt(readcur', i - 1) = SlotAt(readcur, i)
    BY <1>1, <2>1, SlotShift
  <2>3. i \in 0 .. NumItems
    BY <2>1, QueueAssumption DEF Slots
  <2>4. SlotAt(readcur, i) \in Slots /\ SlotAt(readcur, i) # readcur
    BY <1>1, <2>1, <2>3, SlotValue, SlotInjective, SlotFixed
  <2>5. Contents[i + 1] = items[SlotAt(readcur, i)]
    BY <1>2, <2>1
  <2> QED
    BY <1>1, <1>3, <1>5, <2>2, <2>4, <2>5
<1>8. Contents' = Tail(Contents)
  BY <1>1, <1>3, <1>5, <1>7, SeqEqual
<1> QED
  BY <1>4, <1>6, <1>8

(* The steps that map to a stutter of Fifo change neither the ring, nor     *)
(* what a call carries or returns, nor who is before its Store or Take.     *)
LEMMA StutterStep ==
  ASSUME UNCHANGED <<ring, arg, r>>,
         \A t \in Threads : Entered(t)' = Entered(t)
  PROVE  UNCHANGED Abstract!vars
<1>1. Contents' = Contents
  BY DEF Contents, ring
<1>2. [p \in Producers |-> IF Entered(p) THEN arg[p] ELSE NoItem]'
        = [p \in Producers |-> IF Entered(p) THEN arg[p] ELSE NoItem]
  BY DEF Threads
<1>3. {c \in Consumers : Entered(c)}' = {c \in Consumers : Entered(c)}
  BY DEF Threads
<1> QED
  BY <1>1, <1>2, <1>3 DEF Abstract!vars

LEMMA StepSimulation ==
  ASSUME IInv, [Next]_vars
  PROVE  [Abstract!Next]_(Abstract!vars)
<1> DEFINE Offered == [p \in Producers |-> IF Entered(p) THEN arg[p] ELSE NoItem]
           Asking == {c \in Consumers : Entered(c)}
<1>a. IInv /\ TypeOK /\ TypeOK' /\ ArgInv
  BY NextTypeOK DEF IInv
<1>b. /\ pc \in [Threads -> {"idle", "lock", "test", "wait", "signal", "unlock"}]
      /\ arg \in [Producers -> Items \union {NoItem}]
      /\ r \in [Consumers -> Items \union {NoItem}]
      /\ NoItem \notin Items
      /\ Producers \intersect Consumers = {}
      /\ Threads = Producers \union Consumers
  BY <1>a, QueueAssumption DEF TypeOK, Threads
<1>1. ASSUME NEW p \in Producers, NEW v \in Items, PushCall(p, v)
      PROVE  Abstract!Offer(p, v)
  <2>1. Contents' = Contents
    BY <1>1 DEF PushCall, Contents, ring
  <2>2. Offered[p] = NoItem /\ Offered' = [Offered EXCEPT ![p] = v]
    BY <1>1, <1>b DEF PushCall, Goto, Entered
  <2>3. Asking' = Asking /\ r' = r
    BY <1>1, <1>b DEF PushCall, Goto, Entered
  <2> QED
    BY <2>1, <2>2, <2>3 DEF Abstract!Offer
<1>2. ASSUME NEW p \in Producers, PushStore(p)
      PROVE  Abstract!Put(p)
  <2>1. Contents' = Append(Contents, arg[p]) /\ Len(Contents) < NumItems
    BY <1>2, <1>a, StoreAppends
  <2>2. /\ Offered[p] = arg[p] /\ arg[p] # NoItem
        /\ Offered' = [Offered EXCEPT ![p] = NoItem]
    BY <1>2, <1>a, <1>b DEF PushStore, Goto, Entered, ArgInv
  <2>3. Asking' = Asking /\ r' = r
    BY <1>2, <1>b DEF PushStore, Goto, Entered
  <2> QED
    BY <2>1, <2>2, <2>3 DEF Abstract!Put
<1>3. ASSUME NEW c \in Consumers, PopCall(c)
      PROVE  Abstract!Ask(c)
  <2>1. Contents' = Contents
    BY <1>3 DEF PopCall, Contents, ring
  <2>2. Offered' = Offered
    BY <1>3, <1>b DEF PopCall, Goto, Entered
  <2>3. c \notin Asking /\ Asking' = Asking \union {c}
    BY <1>3, <1>b DEF PopCall, Goto, Entered
  <2>4. r' = [r EXCEPT ![c] = NoItem]
    BY <1>3 DEF PopCall
  <2> QED
    BY <2>1, <2>2, <2>3, <2>4 DEF Abstract!Ask
<1>4. ASSUME NEW c \in Consumers, PopTake(c)
      PROVE  Abstract!Take(c)
  <2>1. /\ Contents # <<>> /\ items[readcur] = Head(Contents)
        /\ Contents' = Tail(Contents)
    BY <1>4, <1>a, TakeIsHead
  <2>2. Offered' = Offered
    BY <1>4, <1>b DEF PopTake, Goto, Entered
  <2>3. c \in Asking /\ Asking' = Asking \ {c}
    BY <1>4, <1>b DEF PopTake, Goto, Entered
  <2>4. r' = [r EXCEPT ![c] = items[readcur]]
    BY <1>4 DEF PopTake
  <2> QED
    BY <2>1, <2>2, <2>3, <2>4 DEF Abstract!Take
<1>5. ASSUME NEW t \in Threads,
             \/ MtxLock(t) \/ MtxUnlock(t) \/ CndWait(t) \/ SpuriousWakeup(t)
      PROVE  UNCHANGED Abstract!vars
  <2>1. UNCHANGED <<ring, arg, r>>
    BY <1>5 DEF MtxLock, MtxUnlock, CndWait, SpuriousWakeup
  <2>2. \A u \in Threads : Entered(u)' = Entered(u)
    BY <1>5, <1>b DEF MtxLock, MtxUnlock, CndWait, SpuriousWakeup, Goto, Entered
  <2> QED
    BY <2>1, <2>2, StutterStep
<1>6. ASSUME NEW t \in Threads, NEW S \in SUBSET Threads,
             \A u \in S : pc[u] = "wait", CndSignal(t, S)
      PROVE  UNCHANGED Abstract!vars
  <2>1. UNCHANGED <<ring, arg, r>>
    BY <1>6 DEF CndSignal
  <2>2. \A u \in Threads : Entered(u)' = Entered(u)
    BY <1>6, <1>b DEF CndSignal, Entered
  <2> QED
    BY <2>1, <2>2, StutterStep
<1>7. CASE UNCHANGED vars
  <2>1. UNCHANGED <<ring, arg, r>> /\ \A u \in Threads : Entered(u)' = Entered(u)
    BY <1>7 DEF vars, Entered
  <2> QED
    BY <2>1, StutterStep
<1>8. ASSUME NEW p \in Producers, PushSignal(p) PROVE UNCHANGED Abstract!vars
  <2>1. SleepOnCnd \in SUBSET Threads /\ \A u \in SleepOnCnd : pc[u] = "wait"
    BY <1>b DEF SleepOnCnd
  <2> QED
    BY <1>6, <1>8, <1>b, <2>1 DEF PushSignal
<1>9. ASSUME NEW c \in Consumers, PopSignal(c) PROVE UNCHANGED Abstract!vars
  <2>1. SleepOnCnd2 \in SUBSET Threads /\ \A u \in SleepOnCnd2 : pc[u] = "wait"
    BY <1>b DEF SleepOnCnd2
  <2> QED
    BY <1>6, <1>9, <1>b, <2>1 DEF PopSignal
<1>10. CASE \E p \in Producers : Push(p)
  BY <1>10, <1>2, <1>5, <1>8, <1>b DEF Push, PushWait, Abstract!Next
<1>11. CASE \E c \in Consumers : Pop(c)
  BY <1>11, <1>4, <1>5, <1>9, <1>b DEF Pop, PopWait, Abstract!Next
<1>12. CASE \/ \E p \in Producers, v \in Items : PushCall(p, v)
            \/ \E c \in Consumers : PopCall(c)
  BY <1>12, <1>1, <1>3 DEF Abstract!Next
<1> QED
  BY <1>5, <1>7, <1>10, <1>11, <1>12 DEF Next, Step

LEMMA InitSimulation == Init => Abstract!Init
<1> SUFFICES ASSUME Init PROVE Abstract!Init
  OBVIOUS
<1>1. Contents = <<>>
  BY InitTypeOK, ContentsSeq, EmptySeq DEF Init
<1>2. /\ [p \in Producers |-> IF Entered(p) THEN arg[p] ELSE NoItem]
           = [p \in Producers |-> NoItem]
      /\ {c \in Consumers : Entered(c)} = {}
      /\ r = [c \in Consumers |-> NoItem]
  BY DEF Init, Entered, Threads
<1> QED
  BY <1>1, <1>2 DEF Abstract!Init

(* queue_push and queue_pop, with their lock, waits and signals, implement  *)
(* the atomic Put and Take of a bounded first-in first-out buffer, for any  *)
(* number of threads and any capacity.                                      *)
THEOREM QueueImplementsFifo == Spec => ImplementsFifo
BY InvariantIInv, InitSimulation, StepSimulation, PTL
DEF Spec, ImplementsFifo, Abstract!Spec

-----------------------------------------------------------------------------

(* A thread that is past mtx_lock and not past mtx_unlock, nor in cnd_wait, *)
(* is the owner of the mutex.                                               *)
Owning(t) == pc[t] \in {"test", "signal", "unlock"}
Mutex == \A t \in Threads : Owning(t) <=> mtx = t

QueueInv == IInv /\ Mutex

LEMMA InitQueueInv == Init => QueueInv
<1> SUFFICES ASSUME Init PROVE Mutex
  BY InitIInv DEF QueueInv
<1> QED
  BY QueueAssumption DEF Init, Mutex, Owning, Threads

LEMMA NextQueueInv == QueueInv /\ [Next]_vars => QueueInv'
<1> SUFFICES ASSUME QueueInv, [Next]_vars PROVE Mutex'
  BY NextIInv DEF QueueInv
<1>a. /\ pc \in [Threads -> {"idle", "lock", "test", "wait", "signal", "unlock"}]
      /\ mtx \in Threads \union {NoThread}
      /\ NoThread \notin Threads
      /\ Threads = Producers \union Consumers
  BY QueueAssumption DEF QueueInv, IInv, TypeOK, Threads
<1>b. \A t \in Threads : pc[t] \in {"test", "signal", "unlock"} <=> mtx = t
  BY DEF QueueInv, Mutex, Owning
<1> USE DEF Mutex, Owning, Goto
<1>1. ASSUME NEW t \in Threads, MtxLock(t) PROVE Mutex'
  BY <1>1, <1>a, <1>b DEF MtxLock
<1>2. ASSUME NEW t \in Threads, MtxUnlock(t) \/ CndWait(t) PROVE Mutex'
  BY <1>2, <1>a, <1>b DEF MtxUnlock, CndWait
<1>3. ASSUME NEW t \in Threads, NEW S \in SUBSET Threads,
             \A u \in S : pc[u] = "wait", CndSignal(t, S)
      PROVE  Mutex'
  BY <1>3, <1>a, <1>b DEF CndSignal
<1>4. ASSUME NEW t \in Threads, SpuriousWakeup(t) PROVE Mutex'
  BY <1>4, <1>a, <1>b DEF SpuriousWakeup
<1>5. ASSUME NEW p \in Producers, NEW v \in Items, PushCall(p, v) PROVE Mutex'
  BY <1>5, <1>a, <1>b DEF PushCall
<1>6. ASSUME NEW p \in Producers, PushStore(p) PROVE Mutex'
  BY <1>6, <1>a, <1>b DEF PushStore
<1>7. ASSUME NEW c \in Consumers, PopCall(c) PROVE Mutex'
  BY <1>7, <1>a, <1>b DEF PopCall
<1>8. ASSUME NEW c \in Consumers, PopTake(c) PROVE Mutex'
  BY <1>8, <1>a, <1>b DEF PopTake
<1>9. CASE UNCHANGED vars
  BY <1>9, <1>b DEF vars
<1>10. /\ SleepOnCnd \in SUBSET Threads /\ \A u \in SleepOnCnd : pc[u] = "wait"
       /\ SleepOnCnd2 \in SUBSET Threads /\ \A u \in SleepOnCnd2 : pc[u] = "wait"
  BY <1>a DEF SleepOnCnd, SleepOnCnd2
<1> QED
  BY <1>1, <1>2, <1>3, <1>4, <1>5, <1>6, <1>7, <1>8, <1>9, <1>10, <1>a
  DEF Next, Step, Push, Pop, PushWait, PushSignal, PopWait, PopSignal

(* A step of the queue's life is a step of the queue or leaves it alone.    *)
LEMMA LifeUsesQueue == [LifeNext]_lifeVars => [Next]_vars
BY EndMarkAssumption
DEF LifeNext, lifeVars, Inside, WorkerPushes, WorkerEnds, HostReads, HostFinishes,
    HostStep, HostDrains, HostDestroys, Next, Threads

(* The queue as process_read and process_finish use it, one worker and one  *)
(* host that pushes the end mark and destroys the ring, still implements    *)
(* the bounded buffer: nothing that QueueLife adds reorders or loses an     *)
(* item. It is the safety part of ImplementsFairFifo.                       *)
THEOREM LifeImplementsFifo == LifeSpec => ImplementsFifo
<1>1. LifeInit => IInv /\ Abstract!Init
  BY InitIInv, InitSimulation DEF LifeInit
<1>2. IInv /\ [LifeNext]_lifeVars => IInv' /\ [Abstract!Next]_(Abstract!vars)
  BY LifeUsesQueue, NextIInv, StepSimulation
<1> QED
  BY <1>1, <1>2, PTL DEF LifeSpec, ImplementsFifo, Abstract!Spec

-----------------------------------------------------------------------------

NoMark == \A s \in Slots : items[s] # EndMark

(* Where the end mark of the worker w is until the host h pops it.          *)
MarkUnsaid(w, h) == ~ ended => arg[w] # EndMark /\ NoMark /\ r[h] # EndMark

MarkPushed(w, h) == ended /\ Entered(w) => NoMark /\ r[h] # EndMark

MarkIsLast == \A s \in Slots : items[s] = EndMark => writecur = (s + 1) % NumItems

MarkTaken(w, h) ==
  r[h] = EndMark =>
    /\ ended
    /\ used = 0
    /\ pc[w] = "idle"
    /\ pc[h] \in {"signal", "unlock", "idle"}

(* The host is done with the queue once it is destroyed.                    *)
HostGone(h) == hostAt = "destroyed" => pc[h] = "idle" /\ r[h] = EndMark

MarkInv(w, h) ==
  /\ MarkUnsaid(w, h)
  /\ MarkPushed(w, h)
  /\ MarkIsLast
  /\ MarkTaken(w, h)
  /\ HostGone(h)

(* If the oldest item is the last one, it is the only one. *)
LEMMA OldestIsLast ==
  ASSUME QueueInv, used # 0, writecur = (readcur + 1) % NumItems
  PROVE  used = 1
<1>1. /\ readcur \in Slots /\ used \in 0 .. NumItems
      /\ writecur = SlotAt(readcur, used)
  BY DEF QueueInv, IInv, TypeOK, RingInv
<1>2. SlotAt(readcur, used) = IF readcur + used < NumItems
                              THEN readcur + used ELSE readcur + used - NumItems
  BY <1>1, SlotValue
<1>3. (readcur + 1) % NumItems = IF readcur + 1 < NumItems THEN readcur + 1 ELSE 0
  BY <1>1, NextSlot
<1>4. /\ readcur \in Int /\ used \in Int /\ NumItems \in Int
      /\ 0 <= readcur /\ readcur < NumItems /\ 0 < used /\ used <= NumItems
  BY <1>1, QueueAssumption DEF Slots
<1>5. (IF readcur + used < NumItems THEN readcur + used ELSE readcur + used - NumItems)
        = (IF readcur + 1 < NumItems THEN readcur + 1 ELSE 0)
  BY <1>1, <1>2, <1>3
<1> QED
  BY <1>4, <1>5

LEMMA InitMarkInv ==
  ASSUME NEW w, NEW h, Producers = {w}, Consumers = {h}, LifeInit
  PROVE  MarkInv(w, h)
<1>1. /\ items = [i \in Slots |-> NoItem] /\ arg[w] = NoItem /\ r[h] = NoItem
      /\ ended = FALSE /\ hostAt = "use" /\ NoItem # EndMark
  BY QueueAssumption, EndMarkAssumption DEF LifeInit, Init
<1> QED
  BY <1>1 DEF MarkInv, MarkUnsaid, MarkPushed, MarkIsLast, MarkTaken, HostGone, NoMark

LEMMA NextMarkInv ==
  ASSUME NEW w, NEW h, Producers = {w}, Consumers = {h},
         QueueInv, MarkInv(w, h), [LifeNext]_lifeVars
  PROVE  MarkInv(w, h)'
<1>a. /\ pc \in [{w, h} -> {"idle", "lock", "test", "wait", "signal", "unlock"}]
      /\ arg \in [{w} -> Items \union {NoItem}]
      /\ r \in [{h} -> Items \union {NoItem}]
      /\ items \in [Slots -> Items \union {NoItem}]
      /\ Threads = {w, h} /\ w # h /\ NoItem # EndMark /\ EndMark \in Items
      /\ writecur \in Slots /\ readcur \in Slots
  BY QueueAssumption, EndMarkAssumption DEF QueueInv, IInv, TypeOK, Threads
<1>b. /\ pc[w] \in {"test", "signal", "unlock"} <=> mtx = w
      /\ pc[h] \in {"test", "signal", "unlock"} <=> mtx = h
  BY <1>a DEF QueueInv, Mutex, Owning
<1> USE DEF MarkInv, MarkUnsaid, MarkPushed, MarkIsLast, MarkTaken, HostGone,
            NoMark, Entered, Goto, ring
<1>1. ASSUME NEW t \in {w, h}, MtxLock(t), UNCHANGED <<ended, hostAt>>
      PROVE  MarkInv(w, h)'
  BY <1>1, <1>a DEF MtxLock
<1>2. ASSUME NEW t \in {w, h}, MtxUnlock(t), UNCHANGED <<ended, hostAt>>
      PROVE  MarkInv(w, h)'
  BY <1>2, <1>a DEF MtxUnlock
<1>3. ASSUME NEW t \in {w, h}, CndWait(t), UNCHANGED <<ended, hostAt>>
      PROVE  MarkInv(w, h)'
  BY <1>3, <1>a DEF CndWait
<1>4. ASSUME NEW t \in {w, h}, SpuriousWakeup(t), UNCHANGED <<ended, hostAt>>
      PROVE  MarkInv(w, h)'
  BY <1>4, <1>a DEF SpuriousWakeup
<1>5. ASSUME PushSignal(w), UNCHANGED <<ended, hostAt>>
      PROVE  MarkInv(w, h)'
  BY <1>5, <1>a DEF PushSignal, CndSignal, SleepOnCnd
<1>6. ASSUME PopSignal(h), UNCHANGED <<ended, hostAt>>
      PROVE  MarkInv(w, h)'
  BY <1>6, <1>a DEF PopSignal, CndSignal, SleepOnCnd2
<1>7. ASSUME PushStore(w), UNCHANGED <<ended, hostAt>>
      PROVE  MarkInv(w, h)'
  <2>1. NoMark /\ r[h] # EndMark
    BY <1>7 DEF PushStore
  <2>2. /\ pc[w] = "test" /\ pc' = [pc EXCEPT ![w] = "signal"]
        /\ items' = [items EXCEPT ![writecur] = arg[w]]
        /\ writecur' = (writecur + 1) % NumItems
        /\ UNCHANGED <<arg, r, ended, hostAt>>
    BY <1>7 DEF PushStore
  <2>3. MarkIsLast'
    BY <2>1, <2>2, <1>a
  <2>4. MarkUnsaid(w, h)' /\ MarkPushed(w, h)' /\ MarkTaken(w, h)' /\ HostGone(h)'
    BY <2>1, <2>2, <1>a
  <2> QED
    BY <2>3, <2>4
<1>8. ASSUME PopTake(h), UNCHANGED <<ended, hostAt>>
      PROVE  MarkInv(w, h)'
  <2>1. /\ used # 0 /\ pc[h] = "test" /\ pc' = [pc EXCEPT ![h] = "signal"]
        /\ r' = [r EXCEPT ![h] = items[readcur]]
        /\ items' = [items EXCEPT ![readcur] = NoItem]
        /\ used' = used - 1
        /\ UNCHANGED <<writecur, arg, ended, hostAt>>
    BY <1>8 DEF PopTake
  <2>2. pc[w] \notin {"test", "signal", "unlock"} /\ pc'[w] = pc[w] /\ pc'[h] = "signal"
    BY <1>a, <1>b, <2>1
  <2>3. ASSUME items[readcur] = EndMark
        PROVE  ended /\ used' = 0 /\ pc[w] = "idle"
    <3>1. ended /\ ~ Entered(w)
      BY <2>3, <1>a
    <3>2. used = 1
      BY <2>1, <2>3, <1>a, OldestIsLast
    <3> QED
      BY <1>a, <2>1, <2>2, <3>1, <3>2
  <2>4. r'[h] = items[readcur] /\ \A s \in Slots : items'[s] = EndMark => items[s] = EndMark
    BY <1>a, <2>1
  <2>5. hostAt # "destroyed"
    BY <2>1
  <2> QED
    BY <1>a, <2>1, <2>2, <2>3, <2>4, <2>5
<1>9. ASSUME WorkerPushes(w) PROVE MarkInv(w, h)'
  BY <1>9, <1>a DEF WorkerPushes, PushCall
<1>10. ASSUME WorkerEnds(w) PROVE MarkInv(w, h)'
  BY <1>10, <1>a DEF WorkerEnds, PushCall
<1>11. ASSUME HostReads(h) \/ HostFinishes(h) \/ HostDrains(h) PROVE MarkInv(w, h)'
  BY <1>11, <1>a DEF HostReads, HostFinishes, HostDrains, PopCall
<1>12. ASSUME HostDestroys(h) PROVE MarkInv(w, h)'
  BY <1>12, <1>a DEF HostDestroys, vars
<1>13. CASE UNCHANGED lifeVars
  BY <1>13 DEF lifeVars, vars
<1> QED
  BY <1>a, <1>1, <1>2, <1>3, <1>4, <1>5, <1>6, <1>7, <1>8, <1>9, <1>10, <1>11,
     <1>12, <1>13
  DEF LifeNext, Inside, HostStep, Step, Push, Pop, PushWait, PopWait

(* When process_finish has popped the end mark and destroys the queue, the  *)
(* worker has left queue_push for good, nobody owns the mutex, and no reply *)
(* is left in the ring, whatever the capacity and the number of replies.    *)
THEOREM DestroyedWhenUnusedCorrect ==
  ASSUME NEW w, NEW h, Producers = {w}, Consumers = {h}
  PROVE  LifeSpec => []DestroyedWhenUnused
<1>1. LifeInit => QueueInv /\ MarkInv(w, h)
  BY InitQueueInv, InitMarkInv DEF LifeInit
<1>2. QueueInv /\ MarkInv(w, h) /\ [LifeNext]_lifeVars => (QueueInv /\ MarkInv(w, h))'
  BY LifeUsesQueue, NextQueueInv, NextMarkInv
<1>3. QueueInv /\ MarkInv(w, h) => DestroyedWhenUnused
  <2> SUFFICES ASSUME QueueInv, MarkInv(w, h), hostAt = "destroyed"
               PROVE  ended /\ (\A t \in Threads : pc[t] = "idle")
                      /\ mtx = NoThread /\ used = 0
    BY DEF DestroyedWhenUnused
  <2>1. ended /\ used = 0 /\ pc[w] = "idle" /\ pc[h] = "idle"
    BY DEF MarkInv, HostGone, MarkTaken
  <2>2. mtx = NoThread
    BY <2>1 DEF QueueInv, Mutex, Owning, IInv, TypeOK, Threads
  <2> QED
    BY <2>1, <2>2 DEF Threads
<1> QED
  BY <1>1, <1>2, <1>3, PTL DEF LifeSpec
=============================================================================
