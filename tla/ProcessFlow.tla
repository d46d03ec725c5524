---------------------------- MODULE ProcessFlow -----------------------------
(***************************************************************************)
(* How far a request has come: where its parts and the parts of its reply  *)
(* are on the way from the host through the child and the worker back to   *)
(* the host.  From this follow, for any number of processes, lengths and   *)
(* capacities and a child that may leave at any time: who owns a queue     *)
(* item, that a reply answers the last request, that two slots are enough, *)
(* that host, worker and child never all wait for one another, and that a  *)
(* struct process is a service as module Service describes it.             *)
(***************************************************************************)
EXTENDS ProcessProofs, FiniteSetTheorems

SizePart(r) == [part |-> "size", of |-> r]
BodyPart(r) == [part |-> "body", of |-> r]

(* What process_write, or the child, writes for a message: a message of no  *)
(* bytes has no body.                                                       *)
Message(r) == IF r.len = 0 THEN <<SizePart(r)>> ELSE <<SizePart(r), BodyPart(r)>>

(* The child has no request: none was sent, it has answered, or it is gone. *)
Resting(p) ==
  stdin[p] = <<>> /\ cpc[p] \in {"none", "fresh", "idle", "dying", "exited"}

(* The request is on its way, or the child has read its size only.  While   *)
(* the host is at "body" it has not written the body yet.                   *)
Incoming(p) ==
  \/ /\ cpc[p] \in {"fresh", "idle"}
     /\ stdin[p] = IF hpc[p] = "body" THEN <<SizePart(msg[p])>> ELSE Message(msg[p])
  \/ /\ cpc[p] = "body" /\ job[p] = msg[p] /\ msg[p].len # 0
     /\ stdin[p] = IF hpc[p] = "body" THEN <<>> ELSE <<BodyPart(msg[p])>>

(* The child has read the request and written nothing for it.               *)
Working(p) ==
  stdin[p] = <<>> /\ cpc[p] \in {"work", "log", "reply"} /\ job[p] = msg[p]

(* No reply is on its way, and behind the last one at most the end mark.    *)
Drained(p) ==
  /\ stdout[p] = <<>>
  /\ qi[p] = NoItem
  /\ wpc[p] \in {"none", "size", "inSize", "end", "done"}
  /\ q[p] = <<>> \/ (q[p] = <<EndMark>> /\ wpc[p] = "done")

(* The size of reply r is written and its body is not.                      *)
Half(p, r) ==
  /\ r.len # 0
  /\ q[p] = <<>>
  /\ \/ stdout[p] = <<SizePart(r)>> /\ qi[p] = NoItem /\ wpc[p] \in {"size", "inSize"}
     \/ stdout[p] = <<>> /\ qi[p] = r /\ wpc[p] \in {"body", "inBody"}

(* Reply r is complete and not yet taken by the host.                       *)
Whole(p, r) ==
  \/ /\ stdout[p] = Message(r) /\ qi[p] = NoItem /\ q[p] = <<>>
     /\ wpc[p] \in {"size", "inSize"}
  \/ /\ stdout[p] = <<BodyPart(r)>> /\ qi[p] = r /\ q[p] = <<>> /\ r.len # 0
     /\ wpc[p] \in {"body", "inBody"}
  \/ stdout[p] = <<>> /\ qi[p] = r /\ q[p] = <<>> /\ wpc[p] = "push"
  \/ /\ stdout[p] = <<>> /\ qi[p] = NoItem /\ q[p] = <<r>>
     /\ wpc[p] \in {"size", "inSize", "end"}
  \/ stdout[p] = <<>> /\ qi[p] = NoItem /\ q[p] = <<r, EndMark>> /\ wpc[p] = "done"

(* Replies to the last request. *)
Answers(p) == {r \in Replies : r.id = msg[p].id}

(* The points of a request: between two of them; on its way; given up by a  *)
(* child that is gone; at the child; its reply half written, by a child     *)
(* that goes on or by one that is gone; its reply complete.                 *)
Between(p) == hpc[p] \notin {"body", "read"} /\ Resting(p) /\ Drained(p)
Travelling(p) == hpc[p] \in {"body", "read"} /\ Incoming(p) /\ Drained(p)
Lost(p) ==
  hpc[p] \in {"body", "read"} /\ stdin[p] = <<>> /\ ChildGone(p) /\ Drained(p)
Served(p) == hpc[p] = "read" /\ Working(p) /\ Drained(p)
Replying(p) ==
  /\ hpc[p] = "read" /\ stdin[p] = <<>> /\ cpc[p] = "replyBody"
  /\ job[p] \in Answers(p) /\ Half(p, job[p])
CutShort(p) ==
  /\ hpc[p] = "read" /\ stdin[p] = <<>> /\ ChildGone(p)
  /\ \E r \in Answers(p) : Half(p, r)
Replied(p) == hpc[p] = "read" /\ Resting(p) /\ \E r \in Answers(p) : Whole(p, r)

Flow(p) ==
  \/ Between(p) \/ Travelling(p) \/ Lost(p) \/ Served(p)
  \/ Replying(p) \/ CutShort(p) \/ Replied(p)

(* Until process_finish closes it the worker has the pipe, and only the end *)
(* of the child ends it.  A body is sent only if there is one.              *)
Open(p) ==
  /\ hpc[p] \in {"started", "idle", "size", "body", "read", "closeIn", "closeOut"}
       => "out_r" \in handles[p]
  /\ "out_r" \in handles[p] /\ wpc[p] \in {"end", "done"} => ChildGone(p)
  /\ hpc[p] = "body" => msg[p].len # 0
  /\ hpc[p] = "none" => cpc[p] = "none" /\ handles[p] = {}

(* Requests are numbered; the last reply is not younger than the last       *)
(* request, and as old as it only if it was the answer.                     *)
Numbered(p) ==
  /\ prev[p].id <= msg[p].id
  /\ ret[p] = "ok" => prev[p] \in Replies /\ prev[p].id = msg[p].id
  /\ ret[p] # "ok" /\ msg[p] # NoItem => prev[p].id < msg[p].id
  /\ hpc[p] \in {"none", "started", "size", "body", "read"} => ret[p] = "none"
  /\ hpc[p] \in {"none", "started"} => msg[p] = NoItem
  /\ hpc[p] \in {"size", "body", "read"} => msg[p] \in Replies

Owned(p) == heap[p] = Held(qi[p]) \union Queued(p) \union Held(prev[p])

Here(p) == Flow(p) /\ Open(p) /\ Numbered(p) /\ Owned(p)

FlowInv == \A p \in Procs : Here(p)

-----------------------------------------------------------------------------

(* Short sequences. *)
LEMMA Tuples == \A a, b :
  /\ Head(<<a>>) = a /\ Tail(<<a>>) = <<>>
  /\ Head(<<a, b>>) = a /\ Tail(<<a, b>>) = <<b>>
  /\ <<a>> # <<>> /\ <<a, b>> # <<>>
  /\ Append(<<>>, a) = <<a>>
OBVIOUS

LEMMA AppendPair ==
  ASSUME NEW a, NEW b
  PROVE  Append(<<a>>, b) = <<a, b>>
<1> DEFINE S == {a, b}
<1>1. <<a>> \in Seq(S) /\ Len(<<a>>) = 1 /\ <<a, b>> \in Seq(S) /\ Len(<<a, b>>) = 2
  OBVIOUS
<1>2. /\ Append(<<a>>, b) \in Seq(S) /\ Len(Append(<<a>>, b)) = 2
      /\ Append(<<a>>, b)[1] = a /\ Append(<<a>>, b)[2] = b
  BY <1>1, AppendProperties
<1>3. \A i \in 1 .. 2 : Append(<<a>>, b)[i] = <<a, b>>[i]
  BY <1>2
<1> QED
  BY <1>1, <1>2, <1>3, SeqEqual

LEMMA OnePart ==
  ASSUME NEW r, NEW s, <<SizePart(r)>> = Message(s)
  PROVE  r = s /\ s.len = 0
<1>1. CASE s.len = 0
  <2>1. <<SizePart(r)>> = <<SizePart(s)>>
    BY <1>1 DEF Message
  <2>2. <<SizePart(r)>>[1] = SizePart(r) /\ <<SizePart(s)>>[1] = SizePart(s)
    OBVIOUS
  <2>3. SizePart(r).of = SizePart(s).of
    BY <2>1, <2>2
  <2> QED
    BY <1>1, <2>3 DEF SizePart
<1>2. CASE s.len # 0
  <2>1. <<SizePart(r)>> = <<SizePart(s), BodyPart(s)>>
    BY <1>2 DEF Message
  <2>2. Len(<<SizePart(r)>>) = 1 /\ Len(<<SizePart(s), BodyPart(s)>>) = 2
    OBVIOUS
  <2> QED
    BY <2>1, <2>2
<1> QED
  BY <1>1, <1>2

LEMMA IdRange == \A x \in Items \union {NoItem} : x.id \in 0 .. MaxCalls
BY ProcessAssumption DEF Items, Replies, EndMark, NoItem

(* Their contents. *)
LEMMA Contents ==
  /\ {<<>>[i] : i \in 1 .. Len(<<>>)} = {}
  /\ \A a : {<<a>>[i] : i \in 1 .. Len(<<a>>)} = {a}
  /\ \A a, b : {<<a, b>>[i] : i \in 1 .. Len(<<a, b>>)} = {a, b}
<1>1. {<<>>[i] : i \in 1 .. Len(<<>>)} = {}
  OBVIOUS
<1>2. \A a : {<<a>>[i] : i \in 1 .. Len(<<a>>)} = {a}
  OBVIOUS
<1>3. ASSUME NEW a, NEW b
      PROVE  {<<a, b>>[i] : i \in 1 .. Len(<<a, b>>)} = {a, b}
  <2>1. Len(<<a, b>>) = 2 /\ <<a, b>>[1] = a /\ <<a, b>>[2] = b /\ 1 .. 2 = {1, 2}
    OBVIOUS
  <2>2. {<<a, b>>[i] : i \in {1, 2}} = {a, b}
    BY <2>1
  <2> QED
    BY <2>1, <2>2
<1> QED
  BY <1>1, <1>2, <1>3

LEMMA InitFlow == Init => FlowInv
<1> SUFFICES ASSUME Init, NEW p \in Procs PROVE Here(p)
  BY DEF FlowInv
<1>1. Between(p)
  BY DEF Init, Between, Resting, Drained
<1>2. Open(p) /\ Numbered(p)
  BY DEF Init, Open, Numbered, NoItem
<1>3. Owned(p)
  BY Contents DEF Queued, Init, Owned, Held
<1> QED
  BY <1>1, <1>2, <1>3 DEF Here, Flow

LEMMA ReadFlow ==
  ASSUME Typed, LifeInv, FlowInv, NEW p \in Procs, ProcessRead(p)
  PROVE  Here(p)'
<1>1. Mark(p) /\ Flow(p) /\ Open(p) /\ Numbered(p) /\ Owned(p)
  BY DEF FlowInv, LifeInv, Here
<1>2. /\ hpc[p] = "read" /\ hpc'[p] = "idle"
      /\ q[p] # <<>> /\ q'[p] = Tail(q[p])
      /\ heap'[p] = heap[p] \ {prev[p]} /\ prev'[p] = Head(q[p])
      /\ ret'[p] = IF Head(q[p]) = EndMark THEN "notReceived" ELSE "ok"
      /\ UNCHANGED <<handles, msg, wpc, qi, cpc, job, stdin, stdout>>
  BY DEF ProcessRead, HostGoto, workerVars, childVars, pipeVars, Typed, TypeOK
<1>3. msg[p] \in Replies /\ ret[p] = "none" /\ prev[p].id < msg[p].id
  BY <1>1, <1>2, ItemFacts DEF Numbered
<1>4. "out_r" \in handles[p] /\ (wpc[p] = "done" => ChildGone(p))
  BY <1>1, <1>2 DEF Open
<1>5. prev[p] # EndMark
  BY <1>1, <1>2 DEF Mark
<1>6. \/ q[p] = <<EndMark>> /\ wpc[p] = "done" /\ Resting(p) /\ Drained(p)
      \/ \E r \in Answers(p) :
           /\ Resting(p) /\ stdout[p] = <<>> /\ qi[p] = NoItem
           /\ \/ q[p] = <<r>> /\ wpc[p] \in {"size", "inSize", "end"}
              \/ q[p] = <<r, EndMark>> /\ wpc[p] = "done"
  BY <1>1, <1>2, <1>4
  DEF Flow, Between, Travelling, Incoming, Lost, Served, Working, Replying, CutShort,
      Replied, Drained, Half, Whole, ChildGone, Resting
<1>7. Open(p)'
  BY <1>1, <1>2 DEF Open, ChildGone
<1>8. CASE q[p] = <<EndMark>> /\ wpc[p] = "done" /\ Resting(p) /\ Drained(p)
  <2>1. q'[p] = <<>> /\ prev'[p] = EndMark /\ ret'[p] = "notReceived"
    BY <1>2, <1>8, Tuples
  <2>2. Between(p)'
    BY <1>2, <1>8, <2>1 DEF Between, Resting, Drained
  <2>3. Numbered(p)'
    BY <1>2, <1>3, <2>1 DEF Numbered, EndMark, Replies
  <2>4. heap[p] = {EndMark} \union Held(prev[p]) /\ qi[p] = NoItem
    BY <1>1, <1>8, Contents DEF Queued, Owned, Held, Drained
  <2>5. heap'[p] = {EndMark}
    BY <1>2, <1>5, <2>4 DEF Held
  <2>6. Queued(p)' = {}
    BY <2>1 DEF Queued
  <2>7. Owned(p)'
    BY <1>2, <2>1, <2>4, <2>5, <2>6, ItemFacts DEF Owned, Held
  <2> QED
    BY <1>7, <2>2, <2>3, <2>7 DEF Here, Flow
<1>9. ASSUME NEW r \in Answers(p),
             Resting(p), stdout[p] = <<>>, qi[p] = NoItem,
             \/ q[p] = <<r>> /\ wpc[p] \in {"size", "inSize", "end"}
             \/ q[p] = <<r, EndMark>> /\ wpc[p] = "done"
      PROVE  Here(p)'
  <2>1. /\ r \in Replies /\ r.id = msg[p].id /\ r # EndMark /\ r # NoItem
        /\ r # prev[p]
    BY <1>3, <1>9, ItemFacts DEF Answers, Replies
  <2>2. prev'[p] = r /\ ret'[p] = "ok"
    BY <1>2, <1>9, <2>1, Tuples
  <2>3. \/ q[p] = <<r>> /\ q'[p] = <<>> /\ wpc[p] \in {"size", "inSize", "end"}
        \/ q[p] = <<r, EndMark>> /\ q'[p] = <<EndMark>> /\ wpc[p] = "done"
    <3>1. Tail(<<r>>) = <<>> /\ Tail(<<r, EndMark>>) = <<EndMark>>
      BY Tuples
    <3>2. q[p] = <<r>> => q'[p] = <<>>
      BY <1>2, <3>1
    <3>3. q[p] = <<r, EndMark>> => q'[p] = <<EndMark>>
      BY <1>2, <3>1
    <3> QED
      BY <1>9, <3>2, <3>3
  <2>4. Between(p)'
    BY <1>2, <1>9, <2>3 DEF Between, Resting, Drained
  <2>5. Numbered(p)'
    BY <1>2, <1>3, <2>1, <2>2 DEF Numbered, Replies
  <2>6. Queued(p) = {r} \union Queued(p)'
    <3>1. CASE q[p] = <<r>> /\ q'[p] = <<>>
      BY <3>1, Contents DEF Queued
    <3>2. CASE q[p] = <<r, EndMark>> /\ q'[p] = <<EndMark>>
      BY <3>2, Contents DEF Queued
    <3> QED
      BY <2>3, <3>1, <3>2
  <2>7. Owned(p)'
    <3>1. Queued(p)' \subseteq {EndMark} /\ Held(qi[p]) = {}
      BY <1>9, <2>3, Contents DEF Queued, Held
    <3>2. heap'[p] = {r} \union Queued(p)'
      BY <1>1, <1>2, <1>5, <2>1, <2>6, <3>1 DEF Owned, Held
    <3> QED
      BY <1>2, <2>1, <2>2, <3>1, <3>2 DEF Owned, Held
  <2> QED
    BY <1>7, <2>4, <2>5, <2>7 DEF Here, Flow
<1> QED
  BY <1>6, <1>8, <1>9

(* A request is called for, and its two parts are written. *)
LEMMA CallFlow ==
  ASSUME Typed, LifeInv, FlowInv, NEW p \in Procs, Call(p)
  PROVE  Here(p)'
<1>1. Life(p) /\ Flow(p) /\ Open(p) /\ Numbered(p) /\ Owned(p)
  BY DEF FlowInv, LifeInv, Here
<1>2. CASE ProcessStart(p)
  <2>1. /\ hpc[p] = "none" /\ hpc'[p] = "started"
        /\ handles'[p] = HandleFields /\ wpc'[p] = "size" /\ cpc'[p] = "fresh"
        /\ UNCHANGED <<prev, msg, ret, q, heap, qi, job, stdin, stdout>>
    BY <1>2 DEF ProcessStart, HostGoto, pipeVars, Typed, TypeOK
  <2>2. Between(p) /\ q[p] = <<>>
    BY <1>1, <2>1
    DEF Flow, Travelling, Lost, Served, Replying, CutShort, Replied, Life, Between
  <2>3. Between(p)'
    BY <2>1, <2>2 DEF Between, Resting, Drained
  <2>4. Open(p)'
    BY <2>1 DEF Open, HandleFields
  <2>5. Numbered(p)' /\ Owned(p)'
    BY <1>1, <2>1 DEF Numbered, Owned, Queued
  <2> QED
    BY <2>3, <2>4, <2>5 DEF Here, Flow
<1>3. ASSUME NEW len \in Lens, WriteCall(p, len) PROVE Here(p)'
  <2>1. /\ hpc[p] = "idle" /\ hpc'[p] = "size" /\ ret'[p] = "none"
        /\ msg'[p] = [id |-> msg[p].id + 1, len |-> len] /\ msg[p].id < MaxCalls
        /\ UNCHANGED <<handles, prev, q, heap, wpc, qi, cpc, job, stdin, stdout>>
    BY <1>3 DEF WriteCall, HostGoto, workerVars, childVars, pipeVars, Typed, TypeOK
  <2>2. msg[p].id \in 0 .. MaxCalls /\ prev[p].id \in Int
    BY ProcessAssumption, ItemFacts, IdRange DEF Typed, TypeOK
  <2>3. msg'[p] \in Replies /\ prev[p].id < msg'[p].id
    BY <1>1, <2>1, <2>2, ProcessAssumption DEF Replies, Numbered
  <2>4. Between(p)'
    BY <1>1, <2>1
    DEF Flow, Travelling, Lost, Served, Replying, CutShort, Replied, Between, Resting,
        Drained
  <2>5. Open(p)'
    BY <1>1, <2>1 DEF Open, ChildGone
  <2>6. Numbered(p)'
    BY <2>1, <2>2, <2>3, ProcessAssumption DEF Numbered, Replies
  <2>7. Owned(p)'
    BY <1>1, <2>1 DEF Owned, Queued
  <2> QED
    BY <2>4, <2>5, <2>6, <2>7 DEF Here, Flow
<1>4. CASE FinishCall(p)
  <2>1. /\ hpc[p] = "idle" /\ hpc'[p] = "closeIn"
        /\ UNCHANGED <<handles, prev, msg, ret, q, heap, wpc, qi, cpc, job, stdin, stdout>>
    BY <1>4 DEF FinishCall, HostGoto, workerVars, childVars, pipeVars, Typed, TypeOK
  <2>2. Between(p)'
    BY <1>1, <2>1
    DEF Flow, Travelling, Lost, Served, Replying, CutShort, Replied, Between, Resting,
        Drained
  <2>3. Open(p)' /\ Numbered(p)' /\ Owned(p)'
    BY <1>1, <2>1 DEF Open, ChildGone, Numbered, Owned, Queued
  <2> QED
    BY <2>2, <2>3 DEF Here, Flow
<1> QED
  BY <1>2, <1>3, <1>4 DEF Call

LEMMA WriteFlow ==
  ASSUME Typed, LifeInv, FlowInv, NEW p \in Procs, ProcessWrite(p)
  PROVE  Here(p)'
<1>1. Flow(p) /\ Open(p) /\ Numbered(p) /\ Owned(p)
  BY DEF FlowInv, Here
<1>2. /\ hpc[p] \in {"size", "body"} /\ msg[p] \in Replies
      /\ UNCHANGED <<handles, prev, msg, q, heap, wpc, qi, cpc, job, stdout>>
  BY <1>1 DEF ProcessWrite, WritePart, WriteFails, workerVars, childVars, Numbered
<1>3. CASE WritePart(p, "size", IF msg[p].len # 0 THEN "body" ELSE "read")
  <2>1. /\ hpc[p] = "size" /\ cpc[p] \in Phases /\ UNCHANGED ret
        /\ hpc'[p] = IF msg[p].len # 0 THEN "body" ELSE "read"
        /\ stdin'[p] = Append(stdin[p], SizePart(msg[p]))
    BY <1>3 DEF WritePart, SizePart, ChildAlive, Typed, TypeOK
  <2>2. Between(p)
    BY <1>1, <2>1 DEF Flow, Travelling, Lost, Served, Replying, CutShort, Replied
  <2>3. stdin[p] = <<>> /\ cpc[p] \in {"fresh", "idle"} /\ Drained(p)
    BY <2>1, <2>2 DEF Between, Resting, Phases
  <2>4. stdin'[p] = <<SizePart(msg[p])>>
    BY <2>1, <2>3, Tuples
  <2>5. Travelling(p)'
    BY <1>2, <2>1, <2>3, <2>4 DEF Travelling, Incoming, Drained, Message, SizePart
  <2>6. Open(p)' /\ Numbered(p)' /\ Owned(p)'
    BY <1>1, <1>2, <2>1 DEF Open, ChildGone, Numbered, Owned, Queued
  <2> QED
    BY <2>5, <2>6 DEF Here, Flow
<1>4. CASE WritePart(p, "body", "read")
  <2>1. /\ hpc[p] = "body" /\ cpc[p] \in Phases /\ UNCHANGED ret
        /\ hpc'[p] = "read" /\ stdin'[p] = Append(stdin[p], BodyPart(msg[p]))
    BY <1>4 DEF WritePart, BodyPart, ChildAlive, Typed, TypeOK
  <2>2. Travelling(p) /\ msg[p].len # 0
    BY <1>1, <2>1
    DEF Flow, Between, Lost, Served, Replying, CutShort, Replied, Open, ChildGone, Phases
  <2>3. ASSUME cpc[p] \in {"fresh", "idle"}, stdin[p] = <<SizePart(msg[p])>>
        PROVE  Incoming(p)'
    <3>1. stdin'[p] = <<SizePart(msg[p]), BodyPart(msg[p])>>
      BY <2>1, <2>3, AppendPair
    <3>2. stdin'[p] = Message(msg'[p])
      BY <1>2, <2>2, <3>1 DEF Message
    <3> QED
      BY <1>2, <2>1, <2>3, <3>2 DEF Incoming
  <2>4. ASSUME cpc[p] = "body", job[p] = msg[p], stdin[p] = <<>>
        PROVE  Incoming(p)'
    <3>1. stdin'[p] = <<BodyPart(msg[p])>>
      BY <2>1, <2>4, Tuples
    <3>2. stdin'[p] = <<BodyPart(msg'[p])>>
      BY <1>2, <3>1
    <3> QED
      BY <1>2, <2>1, <2>2, <2>4, <3>2 DEF Incoming
  <2>5. Travelling(p)'
    <3>1. Incoming(p)'
      BY <2>1, <2>2, <2>3, <2>4 DEF Travelling, Incoming
    <3>2. Drained(p)'
      BY <1>2, <2>2 DEF Travelling, Drained
    <3> QED
      BY <2>1, <3>1, <3>2 DEF Travelling
  <2>6. Open(p)' /\ Numbered(p)' /\ Owned(p)'
    BY <1>1, <1>2, <2>1 DEF Open, ChildGone, Numbered, Owned, Queued
  <2> QED
    BY <2>5, <2>6 DEF Here, Flow
<1>5. CASE WriteFails(p)
  <2>1. /\ hpc'[p] = "idle" /\ ret'[p] = "notSent" /\ ChildGone(p) /\ UNCHANGED stdin
    BY <1>5 DEF WriteFails, Typed, TypeOK
  <2>2. Between(p)'
    BY <1>1, <1>2, <2>1
    DEF Flow, Travelling, Incoming, Lost, Served, Replying, CutShort, Replied, Between,
        Resting, Drained, ChildGone
  <2>3. Numbered(p)'
    BY <1>1, <1>2, <2>1, ItemFacts DEF Numbered
  <2>4. Open(p)' /\ Owned(p)'
    BY <1>1, <1>2, <2>1 DEF Open, ChildGone, Owned, Queued
  <2> QED
    BY <2>2, <2>3, <2>4 DEF Here, Flow
<1> QED
  BY <1>3, <1>4, <1>5 DEF ProcessWrite

(* process_finish is called between two requests, and so is                 *)
(* process_close_stderr.                                                    *)
LEMMA FinishFlow ==
  ASSUME Typed, LifeInv, FlowInv, NEW p \in Procs,
         ProcessFinish(p) \/ ProcessCloseStderr(p)
  PROVE  Here(p)'
<1>1. Mark(p) /\ Closed(p) /\ Flow(p) /\ Open(p) /\ Numbered(p) /\ Owned(p)
  BY DEF FlowInv, LifeInv, Here
<1>2. /\ UNCHANGED <<wpc, qi, cpc, job, stdin, stdout>>
      /\ hpc[p] \in {"started", "closeIn", "closeOut", "closeRest", "drain", "free"}
  BY DEF ProcessFinish, FinishCloseIn, FinishCloseOut, FinishCloseRest, FinishClose,
         FinishDrain, FinishFree, ProcessCloseStderr, HostGoto, workerVars, childVars,
         pipeVars
<1>3. Between(p)
  BY <1>1, <1>2 DEF Flow, Travelling, Lost, Served, Replying, CutShort, Replied
<1>4. CASE ProcessCloseStderr(p) \/ FinishCloseIn(p) \/ FinishCloseOut(p) \/ FinishCloseRest(p)
  <2>1. /\ UNCHANGED <<prev, msg, ret, q, heap>>
        /\ \/ /\ hpc[p] = "started" /\ hpc'[p] = "idle"
              /\ handles'[p] = handles[p] \ {"err_r"}
           \/ /\ hpc[p] = "closeIn" /\ hpc'[p] = "closeOut"
              /\ handles'[p] = handles[p] \ {"in_w"}
           \/ /\ hpc[p] = "closeOut" /\ hpc'[p] = "closeRest"
              /\ handles'[p] = handles[p] \ {"out_r"}
           \/ /\ hpc[p] = "closeRest" /\ hpc'[p] = "drain"
              /\ handles'[p] = handles[p] \ {"err_r", "process"}
    BY <1>4 DEF FinishCloseIn, FinishCloseOut, FinishCloseRest, FinishClose,
                ProcessCloseStderr, HostGoto, Typed, TypeOK
  <2>2. Between(p)'
    BY <1>2, <1>3, <2>1 DEF Between, Resting, Drained
  <2>3. Open(p)'
    BY <1>1, <1>2, <2>1 DEF Open, ChildGone
  <2>4. Numbered(p)' /\ Owned(p)'
    BY <1>1, <1>2, <2>1 DEF Numbered, Owned, Queued
  <2> QED
    BY <2>2, <2>3, <2>4 DEF Here, Flow
<1>5. CASE FinishDrain(p)
  <2>1. /\ hpc[p] = "drain" /\ hpc'[p] \in {"drain", "free"}
        /\ q[p] # <<>> /\ q'[p] = Tail(q[p]) /\ heap'[p] = heap[p] \ {Head(q[p])}
        /\ UNCHANGED <<handles, prev, msg, ret>>
    BY <1>5 DEF FinishDrain, Typed, TypeOK
  <2>2. q[p] = <<EndMark>> /\ wpc[p] = "done" /\ prev[p] # EndMark
    BY <1>1, <1>3, <2>1 DEF Between, Drained, Mark
  <2>3. q'[p] = <<>> /\ heap'[p] = heap[p] \ {EndMark}
    BY <2>1, <2>2, Tuples
  <2>4. Between(p)'
    BY <1>2, <1>3, <2>1, <2>3 DEF Between, Resting, Drained
  <2>5. Open(p)' /\ Numbered(p)'
    BY <1>1, <1>2, <2>1 DEF Open, ChildGone, Numbered
  <2>6. Queued(p) = {EndMark} /\ Queued(p)' = {} /\ qi[p] = NoItem
    BY <1>3, <2>2, <2>3, Contents DEF Queued, Between, Drained
  <2>7. Owned(p)'
    BY <1>1, <1>2, <2>1, <2>2, <2>3, <2>6 DEF Owned, Held
  <2> QED
    BY <2>4, <2>5, <2>7 DEF Here, Flow
<1>6. CASE FinishFree(p)
  <2>1. /\ hpc[p] = "free" /\ hpc'[p] = "gone" /\ prev'[p] = NoItem
        /\ msg'[p] = NoItem /\ ret'[p] = "none" /\ heap'[p] = heap[p] \ {prev[p]}
        /\ UNCHANGED <<handles, q>>
    BY <1>6 DEF FinishFree, HostGoto, Typed, TypeOK
  <2>2. Between(p)'
    BY <1>2, <1>3, <2>1 DEF Between, Resting, Drained
  <2>3. Open(p)' /\ Numbered(p)'
    BY <1>1, <1>2, <2>1 DEF Open, ChildGone, Numbered, NoItem
  <2>4. Queued(p) = {} /\ Queued(p)' = {} /\ qi[p] = NoItem
    BY <1>1, <1>3, <2>1, Contents DEF Mark, Queued, Between, Drained
  <2>5. Owned(p)'
    BY <1>1, <1>2, <2>1, <2>4 DEF Owned, Held
  <2> QED
    BY <2>2, <2>3, <2>5 DEF Here, Flow
<1> QED
  BY <1>4, <1>5, <1>6 DEF ProcessFinish

(* The worker carries the reply from the pipe to the queue; whether it is   *)
(* complete is no longer up to the worker.                                  *)
LEMMA WorkerFlow ==
  ASSUME Typed, LifeInv, FlowInv, NEW p \in Procs, Worker(p)
  PROVE  Here(p)' /\ (Replied(p)' <=> Replied(p))
<1>1. Life(p) /\ Mark(p) /\ Flow(p) /\ Open(p) /\ Numbered(p) /\ Owned(p)
  BY DEF FlowInv, LifeInv, Here
<1>2. UNCHANGED <<handles, prev, hpc, msg, ret, cpc, job, stdin>>
  BY DEF Worker, hostVars, childVars
<1>3. Numbered(p)'
  BY <1>1, <1>2 DEF Numbered
<1>4. wpc'[p] \in {"end", "done"} => wpc[p] = "end" \/ ChildGone(p) \/ "out_r" \notin handles[p]
  BY DEF Worker, WorkerReads, BeginRead, GotSize, NoSize, GotBody, NoBody, ReadFails,
         WorkerPushes, WorkerEnds, Typed, TypeOK
<1>5. Open(p)'
  BY <1>1, <1>2, <1>4 DEF Open, ChildGone
<1> DEFINE Kept == Replied(p)' <=> Replied(p)
<1>6. SUFFICES Flow(p)' /\ Kept /\ Owned(p)'
  BY <1>3, <1>5 DEF Here
<1> USE DEF Answers
<1>7. CASE BeginRead(p, "size", "inSize") /\ UNCHANGED <<stdout, q>>
  <2>1. wpc[p] = "size" /\ wpc'[p] = "inSize" /\ UNCHANGED <<stdout, q, qi, heap>>
    BY <1>7 DEF BeginRead, Typed, TypeOK
  <2>2. Flow(p)' /\ Kept
    BY <1>1, <1>2, <2>1
    DEF Flow, Between, Travelling, Incoming, Lost, Served, Working, Replying, CutShort,
        Replied, Drained, Half, Whole, ChildGone, Resting
  <2> QED
    BY <1>1, <1>2, <2>1, <2>2 DEF Owned, Queued
<1>8. CASE BeginRead(p, "body", "inBody") /\ UNCHANGED <<stdout, q>>
  <2>1. wpc[p] = "body" /\ wpc'[p] = "inBody" /\ UNCHANGED <<stdout, q, qi, heap>>
    BY <1>8 DEF BeginRead, Typed, TypeOK
  <2>2. Flow(p)' /\ Kept
    BY <1>1, <1>2, <2>1
    DEF Flow, Between, Travelling, Incoming, Lost, Served, Working, Replying, CutShort,
        Replied, Drained, Half, Whole, ChildGone, Resting
  <2> QED
    BY <1>1, <1>2, <2>1, <2>2 DEF Owned, Queued
<1>9. CASE GotSize(p) /\ UNCHANGED q
  <2>1. /\ wpc[p] = "inSize" /\ stdout[p] # <<>> /\ stdout'[p] = Tail(stdout[p])
        /\ qi'[p] = Head(stdout[p]).of /\ heap'[p] = heap[p] \union {qi'[p]}
        /\ wpc'[p] = IF qi'[p].len # 0 THEN "body" ELSE "push"
        /\ UNCHANGED q
    BY <1>9 DEF GotSize, Typed, TypeOK
  <2>2. qi[p] = NoItem /\ q[p] = <<>>
    BY <1>1, <2>1
    DEF Flow, Between, Travelling, Lost, Served, Replying, CutShort, Replied, Drained,
        Half, Whole
  <2>3. \/ Replying(p) /\ stdout[p] = <<SizePart(job[p])>> /\ job[p].len # 0
        \/ CutShort(p) /\ \E r \in Answers(p) : stdout[p] = <<SizePart(r)>> /\ r.len # 0
        \/ Replied(p) /\ \E r \in Answers(p) : stdout[p] = Message(r)
    BY <1>1, <2>1
    DEF Flow, Between, Travelling, Lost, Served, Replying, CutShort, Replied, Drained,
        Half, Whole
  <2>4. ASSUME NEW r, stdout[p] = <<SizePart(r)>>
        PROVE  stdout'[p] = <<>> /\ qi'[p] = r
    BY <2>1, <2>4, Tuples DEF SizePart
  <2>5. ASSUME NEW r, stdout[p] = <<SizePart(r), BodyPart(r)>>
        PROVE  stdout'[p] = <<BodyPart(r)>> /\ qi'[p] = r
    BY <2>1, <2>5, Tuples DEF SizePart
  <2>6. ASSUME Replying(p), stdout[p] = <<SizePart(job[p])>>, job[p].len # 0
        PROVE  Flow(p)' /\ Kept
    <3>1. stdout'[p] = <<>> /\ qi'[p] = job[p]
      BY <2>4, <2>6
    <3>2. wpc'[p] = "body" /\ q'[p] = <<>>
      BY <2>1, <2>2, <2>6, <3>1
    <3>3. Half(p, job[p])'
      BY <1>2, <2>6, <3>1, <3>2 DEF Half
    <3>4. Kept
      BY <1>2, <2>6 DEF Replying, Replied, Resting
    <3> QED
      BY <1>2, <2>6, <3>3, <3>4 DEF Replying, Flow
  <2>7. ASSUME NEW r \in Answers(p), CutShort(p), stdout[p] = <<SizePart(r)>>, r.len # 0
        PROVE  Flow(p)' /\ Kept
    <3>1. stdout'[p] = <<>> /\ qi'[p] = r
      BY <2>4, <2>7
    <3>2. wpc'[p] = "body" /\ q'[p] = <<>>
      BY <2>1, <2>2, <2>7, <3>1
    <3>3. ~Replied(p)
      BY <2>1, <2>2, <2>7, Tuples, OnePart DEF Replied, Whole
    <3>4. ~Replied(p)'
      BY <3>1, <3>2, Tuples DEF Replied, Whole
    <3> QED
      BY <1>2, <2>1, <2>2, <2>7, <3>1, <3>3, <3>4 DEF CutShort, Half, Flow, ChildGone
  <2>8. ASSUME NEW r \in Answers(p), Replied(p), stdout[p] = Message(r)
        PROVE  Flow(p)' /\ Kept
    <3>1. CASE r.len = 0
      <4>1. stdout'[p] = <<>> /\ qi'[p] = r
        BY <2>4, <2>8, <3>1 DEF Message
      <4> QED
        BY <1>2, <2>1, <2>2, <2>8, <3>1, <4>1 DEF Replied, Whole, Flow, Resting
    <3>2. CASE r.len # 0
      <4>1. stdout'[p] = <<BodyPart(r)>> /\ qi'[p] = r
        BY <2>5, <2>8, <3>2 DEF Message
      <4> QED
        BY <1>2, <2>1, <2>2, <2>8, <3>2, <4>1 DEF Replied, Whole, Flow, Resting
    <3> QED
      BY <3>1, <3>2
  <2>9. \E r \in Replies : qi'[p] = r
    BY <2>1, HeadTailTyped, PartFacts DEF Typed, TypeOK
  <2>10. Owned(p)'
    BY <1>1, <1>2, <2>1, <2>2, <2>9, ItemFacts DEF Owned, Queued, Held
  <2> QED
    BY <2>3, <2>6, <2>7, <2>8, <2>10
<1>10. CASE NoSize(p) /\ UNCHANGED q
  <2>1. /\ wpc[p] \in {"size", "inSize"} /\ wpc'[p] = "end"
        /\ "out_r" \notin handles[p] \/ (ChildGone(p) /\ stdout[p] = <<>>)
        /\ UNCHANGED <<stdout, q, qi, heap>>
    BY <1>10 DEF NoSize, ReadFails, Typed, TypeOK
  <2>2. Flow(p)' /\ Kept
    BY <1>1, <1>2, <2>1, Tuples
    DEF Flow, Between, Travelling, Incoming, Lost, Served, Working, Replying, CutShort,
        Replied, Drained, Half, Whole, ChildGone, Resting, Open, Message
  <2> QED
    BY <1>1, <1>2, <2>1, <2>2 DEF Owned, Queued
<1>11. CASE GotBody(p) /\ UNCHANGED q
  <2>1. /\ wpc[p] = "inBody" /\ stdout[p] # <<>> /\ stdout'[p] = Tail(stdout[p])
        /\ wpc'[p] = "push" /\ UNCHANGED <<q, qi, heap>>
    BY <1>11 DEF GotBody, Typed, TypeOK
  <2>2. PICK r \in Answers(p) :
          Replied(p) /\ stdout[p] = <<BodyPart(r)>> /\ qi[p] = r /\ q[p] = <<>>
    BY <1>1, <2>1
    DEF Flow, Between, Travelling, Lost, Served, Replying, CutShort, Replied, Drained,
        Half, Whole
  <2>3. stdout'[p] = <<>>
    BY <2>1, <2>2, Tuples
  <2>4. Flow(p)' /\ Kept
    BY <1>2, <2>1, <2>2, <2>3 DEF Replied, Whole, Flow, Resting
  <2> QED
    BY <1>1, <1>2, <2>1, <2>4 DEF Owned, Queued
<1>12. CASE NoBody(p) /\ UNCHANGED q
  <2>1. /\ wpc[p] \in {"body", "inBody"} /\ wpc'[p] = "end"
        /\ "out_r" \notin handles[p] \/ (ChildGone(p) /\ stdout[p] = <<>>)
        /\ qi'[p] = NoItem /\ heap'[p] = heap[p] \ {qi[p]}
        /\ UNCHANGED <<stdout, q>>
    BY <1>12 DEF NoBody, ReadFails, Typed, TypeOK
  <2>2. PICK r \in Answers(p) :
          CutShort(p) /\ stdout[p] = <<>> /\ qi[p] = r /\ q[p] = <<>>
    BY <1>1, <2>1
    DEF Flow, Between, Travelling, Lost, Served, Replying, CutShort, Replied, Drained,
        Half, Whole, Open, ChildGone
  <2>6. ~Replied(p) /\ ~Replied(p)'
    BY <2>1, <2>2, Tuples DEF Replied, Whole, Message
  <2>3. Flow(p)'
    BY <1>2, <2>1, <2>2 DEF CutShort, Lost, Drained, Flow, ChildGone
  <2>4. r # prev[p] /\ Queued(p) = {} /\ Queued(p)' = {}
    BY <1>1, <2>1, <2>2, ItemFacts, IdRange, Contents
    DEF CutShort, Numbered, Replies, Queued
  <2>5. Owned(p)'
    BY <1>1, <1>2, <2>1, <2>2, <2>4 DEF Owned, Held
  <2> QED
    BY <2>3, <2>5, <2>6
<1>13. CASE WorkerPushes(p)
  <2>1. /\ wpc[p] = "push" /\ wpc'[p] = "size" /\ q'[p] = Append(q[p], qi[p])
        /\ qi'[p] = NoItem /\ UNCHANGED <<heap, stdout>>
    BY <1>13 DEF WorkerPushes, Typed, TypeOK
  <2>2. PICK r \in Answers(p) :
          Replied(p) /\ stdout[p] = <<>> /\ qi[p] = r /\ q[p] = <<>>
    BY <1>1, <2>1
    DEF Flow, Between, Travelling, Lost, Served, Replying, CutShort, Replied, Drained,
        Half, Whole
  <2>3. q'[p] = <<r>>
    BY <2>1, <2>2, Tuples
  <2>4. Flow(p)' /\ Kept
    BY <1>2, <2>1, <2>2, <2>3 DEF Replied, Whole, Flow, Resting
  <2>5. Queued(p) = {} /\ Queued(p)' = {r} /\ r # NoItem
    BY <2>2, <2>3, Contents, ItemFacts DEF Queued
  <2>6. Owned(p)'
    BY <1>1, <1>2, <2>1, <2>2, <2>5 DEF Owned, Held
  <2> QED
    BY <2>4, <2>6
<1>14. CASE WorkerEnds(p)
  <2>1. /\ wpc[p] = "end" /\ wpc'[p] = "done" /\ q'[p] = Append(q[p], EndMark)
        /\ heap'[p] = heap[p] \union {EndMark} /\ UNCHANGED <<qi, stdout>>
    BY <1>14 DEF WorkerEnds, Typed, TypeOK
  <2>2. \/ Drained(p) /\ q[p] = <<>>
        \/ \E r \in Answers(p) :
             Replied(p) /\ stdout[p] = <<>> /\ qi[p] = NoItem /\ q[p] = <<r>>
    BY <1>1, <2>1
    DEF Flow, Between, Travelling, Lost, Served, Replying, CutShort, Replied, Drained,
        Half, Whole
  <2>3. CASE Drained(p) /\ q[p] = <<>>
    <3>1. q'[p] = <<EndMark>>
      BY <2>1, <2>3, Tuples
    <3>2. Drained(p)'
      BY <2>1, <2>3, <3>1 DEF Drained
    <3>3. Flow(p)'
      BY <1>1, <1>2, <2>1, <2>3, <3>2
      DEF Flow, Between, Travelling, Incoming, Lost, Served, Working, Replying, CutShort,
          Replied, Half, Whole, Resting, ChildGone
    <3>5. ~Replied(p) /\ ~Replied(p)'
      BY <2>1, <2>3, <3>1, Tuples DEF Replied, Whole, Message, Drained
    <3>4. Queued(p) = {} /\ Queued(p)' = {EndMark}
      BY <2>3, <3>1, Contents DEF Queued
    <3> QED
      BY <1>1, <1>2, <2>1, <3>3, <3>4, <3>5 DEF Owned
  <2>4. ASSUME NEW r \in Answers(p),
               Replied(p), stdout[p] = <<>>, qi[p] = NoItem, q[p] = <<r>>
        PROVE  Flow(p)' /\ Kept /\ Owned(p)'
    <3>1. q'[p] = <<r, EndMark>>
      BY <2>1, <2>4, AppendPair
    <3>2. Flow(p)' /\ Kept
      BY <1>2, <2>1, <2>4, <3>1 DEF Replied, Whole, Flow, Resting
    <3>3. Queued(p) = {r} /\ Queued(p)' = {r, EndMark}
      BY <2>4, <3>1, Contents DEF Queued
    <3> QED
      BY <1>1, <1>2, <2>1, <3>2, <3>3 DEF Owned
  <2> QED
    BY <2>2, <2>3, <2>4
<1> QED
  BY <1>7, <1>8, <1>9, <1>10, <1>11, <1>12, <1>13, <1>14 DEF Worker, WorkerReads

(* The child takes the request from the one pipe and puts the reply into    *)
(* the other.                                                               *)
LEMMA ChildFlow ==
  ASSUME Typed, LifeInv, FlowInv, NEW p \in Procs, Child(p) \/ ChildLeaves(p)
  PROVE  Here(p)'
<1>1. Life(p) /\ Flow(p) /\ Open(p) /\ Numbered(p) /\ Owned(p)
  BY DEF FlowInv, LifeInv, Here
<1>2. UNCHANGED <<handles, prev, hpc, msg, ret, wpc, qi, q, heap>>
  BY DEF Child, ChildLeaves, hostVars, workerVars
<1>3. Numbered(p)' /\ Owned(p)'
  BY <1>1, <1>2 DEF Numbered, Owned, Queued
<1>4. ASSUME ChildGone(p) => ChildGone(p)', cpc[p] # "none"
      PROVE  Open(p)'
  BY <1>1, <1>2, <1>4 DEF Open
<1> USE DEF Phases
<1>5. CASE ChildReads(p)
  <2>1. /\ stdin[p] # <<>> /\ stdin'[p] = Tail(stdin[p]) /\ UNCHANGED stdout
        /\ \/ /\ cpc[p] \in {"fresh", "idle"} /\ job'[p] = Head(stdin[p]).of
              /\ cpc'[p] = IF Head(stdin[p]).of.len # 0 THEN "body" ELSE "work"
           \/ cpc[p] = "body" /\ cpc'[p] = "work" /\ UNCHANGED job
    BY <1>5 DEF ChildReads, Typed, TypeOK
  <2>2. Travelling(p)
    BY <1>1, <2>1
    DEF Flow, Between, Lost, Served, Working, Replying, CutShort, Replied, Resting
  <2>3. Drained(p)'
    BY <1>2, <2>1, <2>2 DEF Travelling, Drained
  <2>4. CASE cpc[p] \in {"fresh", "idle"} /\ stdin[p] = <<SizePart(msg[p])>>
    <3>1. stdin'[p] = <<>> /\ job'[p] = msg[p]
      BY <2>1, <2>4, Tuples DEF SizePart
    <3>2. msg[p].len # 0 => hpc[p] = "body"
      BY <2>2, <2>4, Tuples DEF Travelling, Incoming, Message
    <3>3. cpc'[p] = IF msg[p].len # 0 THEN "body" ELSE "work"
      BY <2>1, <2>4, Tuples DEF SizePart
    <3>4. msg[p].len # 0 => Flow(p)'
      BY <1>2, <2>3, <3>1, <3>2, <3>3 DEF Travelling, Incoming, Flow
    <3>5. msg[p].len = 0 => Flow(p)'
      BY <1>1, <1>2, <2>2, <2>3, <3>1, <3>3
      DEF Travelling, Served, Working, Flow, Open
    <3> QED
      BY <1>3, <1>4, <2>4, <3>3, <3>4, <3>5 DEF Here, ChildGone
  <2>5. CASE /\ cpc[p] \in {"fresh", "idle"} /\ hpc[p] = "read"
             /\ stdin[p] = <<SizePart(msg[p]), BodyPart(msg[p])>>
             /\ msg[p].len # 0
    <3>1. /\ stdin'[p] = <<BodyPart(msg[p])>> /\ job'[p] = msg[p]
          /\ cpc'[p] = "body"
      BY <2>1, <2>5, Tuples DEF SizePart
    <3>2. Flow(p)'
      BY <1>2, <2>3, <2>5, <3>1 DEF Travelling, Incoming, Flow
    <3> QED
      BY <1>3, <1>4, <2>5, <3>1, <3>2 DEF Here, ChildGone
  <2>6. CASE cpc[p] = "body" /\ job[p] = msg[p] /\ stdin[p] = <<BodyPart(msg[p])>>
    <3>1. stdin'[p] = <<>> /\ job'[p] = msg[p] /\ cpc'[p] = "work"
      BY <2>1, <2>6, Tuples
    <3>2. hpc[p] = "read"
      BY <2>1, <2>2, <2>6 DEF Travelling, Incoming
    <3>3. Flow(p)'
      BY <1>2, <2>3, <3>1, <3>2 DEF Served, Working, Flow
    <3> QED
      BY <1>3, <1>4, <2>6, <3>1, <3>3 DEF Here, ChildGone
  <2> QED
    BY <2>1, <2>2, <2>4, <2>5, <2>6 DEF Travelling, Incoming, Message
<1>6. CASE ChildWorks(p) \/ ChildLogs(p)
  <2>1. /\ cpc[p] \in {"work", "log"} /\ cpc'[p] \in {"log", "reply"}
        /\ UNCHANGED <<job, stdin, stdout>>
    BY <1>6 DEF ChildWorks, ChildLogs, pipeVars, Typed, TypeOK
  <2>2. Flow(p)'
    BY <1>1, <1>2, <2>1
    DEF Flow, Between, Travelling, Incoming, Lost, Served, Working, Replying, CutShort,
        Replied, Resting, ChildGone, Drained
  <2> QED
    BY <1>3, <1>4, <2>1, <2>2 DEF Here, ChildGone
<1>7. CASE ChildReplies(p)
  <2>1. /\ cpc[p] \in {"reply", "replyBody"} /\ UNCHANGED stdin
    BY <1>7 DEF ChildReplies
  <2>2. "out_r" \in handles[p] => wpc[p] \notin {"none", "end", "done"}
    BY <1>1, <2>1 DEF Open, ChildGone, Life
  <2>3. CASE cpc[p] = "reply"
    <3>1. PICK len \in Lens :
            LET answer == [id |-> job[p].id, len |-> len]
            IN  /\ stdout' = [stdout EXCEPT ![p] = Append(@, SizePart(answer))]
                /\ job' = [job EXCEPT ![p] = answer]
                /\ cpc' = [cpc EXCEPT ![p] = IF len # 0 THEN "replyBody" ELSE "idle"]
      BY <1>7, <2>3 DEF ChildReplies, SizePart
    <3>0. PICK answer : answer = [id |-> job[p].id, len |-> len]
      OBVIOUS
    <3>2. /\ stdout'[p] = Append(stdout[p], SizePart(answer)) /\ job'[p] = answer
          /\ cpc'[p] = IF answer.len # 0 THEN "replyBody" ELSE "idle"
      BY <3>0, <3>1 DEF Typed, TypeOK
    <3>3. Served(p)
      BY <1>1, <2>3
      DEF Flow, Between, Travelling, Incoming, Lost, Replying, CutShort, Replied,
          Resting, ChildGone
    <3>4. /\ hpc[p] = "read" /\ stdin[p] = <<>> /\ job[p] = msg[p] /\ msg[p] \in Replies
          /\ stdout[p] = <<>> /\ qi[p] = NoItem /\ wpc[p] \in {"size", "inSize"}
          /\ q[p] = <<>>
      BY <1>1, <2>2, <3>3 DEF Served, Working, Drained, Open, Numbered
    <3>5. answer \in Answers(p)
      BY <3>0, <3>4, ReplyFacts DEF Answers
    <3>6. stdout'[p] = <<SizePart(answer)>>
      BY <3>2, <3>4, Tuples
    <3>7. CASE answer.len # 0
      <4>1. Half(p, answer)'
        BY <1>2, <3>4, <3>6, <3>7 DEF Half
      <4>2. Replying(p)'
        BY <1>2, <2>1, <3>2, <3>4, <3>5, <3>7, <4>1 DEF Replying, Answers
      <4> QED
        BY <1>3, <1>4, <2>3, <3>2, <3>7, <4>2 DEF Here, Flow, ChildGone
    <3>8. CASE answer.len = 0
      <4>1. Whole(p, answer)'
        BY <1>2, <3>4, <3>6, <3>8 DEF Whole, Message
      <4>2. Replied(p)'
        BY <1>2, <2>1, <3>2, <3>4, <3>5, <3>8, <4>1 DEF Replied, Resting, Answers
      <4> QED
        BY <1>3, <1>4, <2>3, <3>2, <3>8, <4>2 DEF Here, Flow, ChildGone
    <3> QED
      BY <3>7, <3>8
  <2>4. CASE cpc[p] = "replyBody"
    <3>1. /\ stdout'[p] = Append(stdout[p], BodyPart(job[p])) /\ cpc'[p] = "idle"
          /\ UNCHANGED job
      BY <1>7, <2>4 DEF ChildReplies, BodyPart, Typed, TypeOK
    <3>2. Replying(p)
      BY <1>1, <2>4
      DEF Flow, Between, Travelling, Incoming, Lost, Served, Working, CutShort, Replied,
          Resting, ChildGone
    <3>3. job[p] \in Answers(p) /\ Half(p, job[p]) /\ hpc[p] = "read" /\ stdin[p] = <<>>
      BY <3>2 DEF Replying
    <3>4. Whole(p, job[p])'
      <4>1. CASE stdout[p] = <<SizePart(job[p])>>
        <5>1. stdout'[p] = <<SizePart(job[p]), BodyPart(job[p])>>
          BY <3>1, <4>1, AppendPair
        <5>2. stdout'[p] = Message(job'[p])
          BY <3>1, <3>3, <5>1 DEF Message, Half
        <5> QED
          BY <1>2, <3>1, <3>3, <4>1, <5>2, Tuples DEF Half, Whole
      <4>2. CASE stdout[p] = <<>>
        <5>1. stdout'[p] = <<BodyPart(job'[p])>>
          BY <3>1, <4>2, Tuples
        <5> QED
          BY <1>2, <3>1, <3>3, <4>2, <5>1, Tuples DEF Half, Whole
      <4> QED
        BY <3>3, <4>1, <4>2 DEF Half
    <3>5. Replied(p)'
      BY <1>2, <2>1, <3>1, <3>3, <3>4 DEF Replied, Resting, Answers
    <3> QED
      BY <1>3, <1>4, <2>4, <3>1, <3>5 DEF Here, Flow, ChildGone
  <2> QED
    BY <2>1, <2>3, <2>4
<1>8. CASE Dies(p) /\ cpc[p] \in Phases
  <2>1. cpc'[p] = "dying" /\ stdin'[p] = <<>> /\ UNCHANGED stdout
    BY <1>8 DEF Dies, Typed, TypeOK
  <2>2. Between(p) => Flow(p)'
    BY <1>2, <2>1 DEF Between, Resting, Drained, Flow
  <2>3. Travelling(p) => Flow(p)'
    BY <1>2, <2>1 DEF Travelling, Lost, Drained, Flow, ChildGone
  <2>4. Served(p) => Flow(p)'
    BY <1>2, <2>1 DEF Served, Lost, Drained, Flow, ChildGone
  <2>5. Replying(p) => Flow(p)'
    <3> HAVE Replying(p)
    <3>1. PICK r \in Answers(p) : Half(p, r)
      BY DEF Replying
    <3>2. Half(p, r)'
      BY <1>2, <2>1, <3>1 DEF Half
    <3>3. r \in Answers(p)'
      BY <1>2 DEF Answers
    <3> QED
      BY <1>2, <2>1, <3>2, <3>3 DEF Replying, CutShort, Flow, ChildGone
  <2>6. Replied(p) => Flow(p)'
    <3> HAVE Replied(p)
    <3>1. PICK r \in Answers(p) : Whole(p, r)
      BY DEF Replied
    <3>2. Whole(p, r)'
      BY <1>2, <2>1, <3>1 DEF Whole
    <3>3. r \in Answers(p)'
      BY <1>2 DEF Answers
    <3> QED
      BY <1>2, <2>1, <3>2, <3>3 DEF Replied, Resting, Flow
  <2>7. Flow(p)'
    BY <1>1, <1>8, <2>2, <2>3, <2>4, <2>5, <2>6 DEF Flow, Lost, CutShort, ChildGone
  <2> QED
    BY <1>3, <1>4, <1>8, <2>1, <2>7 DEF Here, ChildGone
<1>9. CASE ChildExits(p)
  <2>1. cpc[p] = "dying" /\ cpc'[p] = "exited" /\ UNCHANGED <<job, stdin, stdout>>
    BY <1>9 DEF ChildExits, pipeVars, Typed, TypeOK
  <2>2. Flow(p)'
    BY <1>1, <1>2, <2>1
    DEF Flow, Between, Travelling, Incoming, Lost, Served, Working, Replying, CutShort,
        Replied, Resting, ChildGone, Drained, Half, Whole, Answers
  <2> QED
    BY <1>3, <1>4, <2>1, <2>2 DEF Here, ChildGone
<1>10. ChildStops(p) \/ ChildLeaves(p) => Dies(p) /\ cpc[p] \in Phases
  BY ProcessAssumption DEF ChildStops, ChildLeaves
<1> QED
  BY <1>5, <1>6, <1>7, <1>8, <1>9, <1>10 DEF Child

(* A step of one process leaves the others alone. *)
Untouched(x) ==
  /\ handles'[x] = handles[x] /\ q'[x] = q[x] /\ prev'[x] = prev[x]
  /\ heap'[x] = heap[x] /\ hpc'[x] = hpc[x] /\ msg'[x] = msg[x] /\ ret'[x] = ret[x]
  /\ wpc'[x] = wpc[x] /\ qi'[x] = qi[x] /\ cpc'[x] = cpc[x] /\ job'[x] = job[x]
  /\ stdin'[x] = stdin[x] /\ stdout'[x] = stdout[x]

StepOf(p) == Call(p) \/ Host(p) \/ Worker(p) \/ Child(p) \/ ChildLeaves(p)

LEMMA OthersUntouched ==
  ASSUME TypeOK, NEW p \in Procs, StepOf(p), NEW x \in Procs, x # p
  PROVE  Untouched(x)
<1> USE DEF TypeOK, HostGoto, hostVars, workerVars, childVars, pipeVars, Untouched
<1>1. CASE Call(p)
  <2>1. CASE ProcessStart(p)
    BY <2>1 DEF ProcessStart
  <2>2. CASE \E len \in Lens : WriteCall(p, len)
    BY <2>2 DEF WriteCall
  <2>3. CASE FinishCall(p)
    BY <2>3 DEF FinishCall
  <2> QED
    BY <1>1, <2>1, <2>2, <2>3 DEF Call
<1>2. CASE ProcessCloseStderr(p) \/ ProcessRead(p)
  BY <1>2 DEF ProcessCloseStderr, ProcessRead
<1>3. CASE ProcessWrite(p)
  BY <1>3 DEF ProcessWrite, WritePart, WriteFails
<1>4. CASE ProcessFinish(p)
  BY <1>4 DEF ProcessFinish, FinishCloseIn, FinishCloseOut, FinishCloseRest,
              FinishClose, FinishDrain, FinishFree
<1>5. CASE Worker(p)
  <2>1. CASE WorkerReads(p) /\ UNCHANGED q
    BY <1>5, <2>1 DEF Worker, WorkerReads, BeginRead, GotSize, NoSize, GotBody, NoBody
  <2>2. CASE WorkerPushes(p) \/ WorkerEnds(p)
    BY <1>5, <2>2 DEF Worker, WorkerPushes, WorkerEnds
  <2> QED
    BY <1>5, <2>1, <2>2 DEF Worker
<1>6. CASE Child(p) \/ ChildLeaves(p)
  <2>1. UNCHANGED <<handles, q, prev, heap, hpc, msg, ret, wpc, qi>>
    BY <1>6 DEF Child, ChildLeaves
  <2>2. CASE ChildReads(p) \/ ChildWorks(p) \/ ChildLogs(p) \/ ChildExits(p)
    BY <2>1, <2>2 DEF ChildReads, ChildWorks, ChildLogs, ChildExits
  <2>3. CASE ChildReplies(p)
    BY <2>1, <2>3 DEF ChildReplies
  <2>4. CASE Dies(p)
    BY <2>1, <2>4 DEF Dies
  <2> QED
    BY <1>6, <2>2, <2>3, <2>4 DEF Child, ChildStops, ChildLeaves
<1> QED
  BY <1>1, <1>2, <1>3, <1>4, <1>5, <1>6 DEF StepOf, Host

LEMMA UntouchedFlow ==
  ASSUME NEW x \in Procs, Here(x), Untouched(x)
  PROVE  Here(x)'
<1> USE DEF Untouched
<1>1. Flow(x)'
  BY DEF Here, Flow, Between, Travelling, Incoming, Lost, Served, Working, Replying,
         CutShort, Replied, Drained, Half, Whole, ChildGone, Resting, Answers
<1>2. Open(x)' /\ Numbered(x)' /\ Owned(x)'
  BY DEF Here, Open, ChildGone, Numbered, Owned, Queued
<1> QED
  BY <1>1, <1>2 DEF Here

LEMMA NextFlow == IInv /\ FlowInv /\ [Next]_vars => FlowInv'
<1> SUFFICES ASSUME IInv, FlowInv, [Next]_vars PROVE FlowInv'
  OBVIOUS
<1>1. Typed /\ TypeOK /\ LifeInv
  BY DEF IInv, Typed
<1>2. ASSUME NEW p \in Procs, StepOf(p) PROVE FlowInv'
  <2>1. Here(p)'
    BY <1>1, <1>2, CallFlow, WriteFlow, ReadFlow, FinishFlow, WorkerFlow, ChildFlow
    DEF StepOf, Host
  <2>2. \A x \in Procs : x # p => Here(x)'
    BY <1>1, <1>2, OthersUntouched, UntouchedFlow DEF FlowInv
  <2> QED
    BY <2>1, <2>2 DEF FlowInv
<1>3. CASE UNCHANGED vars
  <2>1. \A x \in Procs : Untouched(x)
    BY <1>3 DEF vars, hostVars, workerVars, childVars, pipeVars, Untouched
  <2> QED
    BY <2>1, UntouchedFlow DEF FlowInv
<1> QED
  BY <1>2, <1>3 DEF Next, StepOf

LEMMA FlowInvariant == Spec => [](IInv /\ FlowInv)
<1>1. Init => IInv /\ FlowInv
  BY InitTyped, InitLife, InitFlow DEF IInv
<1>2. IInv /\ FlowInv /\ [Next]_vars => (IInv /\ FlowInv)'
  BY NextIInv, NextFlow
<1> QED
  BY <1>1, <1>2, PTL DEF Spec

-----------------------------------------------------------------------------

(* The reply process_read returns is the one to the request just sent: a    *)
(* reply that an earlier request left behind would have been taken first,   *)
(* and there is none.  It stays allocated.                                  *)
THEOREM ReplyAnswersRequestCorrect == Spec => []ReplyAnswersRequest
<1>1. FlowInv => ReplyAnswersRequest
  <2> SUFFICES ASSUME FlowInv, NEW p \in Procs, ret[p] = "ok"
               PROVE  prev[p].id = msg[p].id /\ prev[p] \in heap[p]
    BY DEF ReplyAnswersRequest
  <2>1. Numbered(p) /\ Owned(p)
    BY DEF FlowInv, Here
  <2> QED
    BY <2>1, ItemFacts DEF Numbered, Owned, Held
<1> QED
  BY <1>1, FlowInvariant, PTL

(* The worker has nothing to queue while a reply is queued, and queues the  *)
(* end mark behind one reply at most: with two slots it never waits.        *)
THEOREM QueueHasRoomCorrect ==
  ASSUME QueueCap >= 2
  PROVE  Spec => []QueueHasRoom
<1>1. FlowInv => QueueHasRoom
  <2> SUFFICES ASSUME FlowInv, NEW p \in Procs, wpc[p] \in {"push", "end"}
               PROVE  Len(q[p]) < QueueCap
    BY DEF QueueHasRoom
  <2>1. q[p] = <<>> \/ \E r : q[p] = <<r>>
    BY DEF FlowInv, Here, Flow, Between, Travelling, Lost, Served, Replying, CutShort,
           Replied, Drained, Half, Whole
  <2>2. ASSUME NEW r, q[p] = <<r>> PROVE Len(q[p]) = 1
    BY <2>2
  <2>3. q[p] = <<>> => Len(q[p]) = 0
    OBVIOUS
  <2>4. (\E r : q[p] = <<r>>) => Len(q[p]) = 1
    BY <2>2
  <2>5. Len(q[p]) = 0 \/ Len(q[p]) = 1
    BY <2>1, <2>3, <2>4
  <2>6. QueueCap \in Int /\ 0 < QueueCap /\ 1 < QueueCap
    BY ProcessAssumption
  <2> QED
    BY <2>5, <2>6
<1> QED
  BY <1>1, FlowInvariant, PTL

(* A worker that has ended has left the end mark in the queue, or the host  *)
(* has taken it, which a host that has sent a request has not: behind it    *)
(* nothing can be sent.                                                     *)
Awaited(p) ==
  /\ wpc[p] = "done" /\ q[p] = <<>> => prev[p] = EndMark \/ hpc[p] \in {"free", "gone"}
  /\ hpc[p] \in {"body", "read"} => prev[p] # EndMark
  /\ hpc[p] \in {"idle", "size", "body", "read"} => "err_r" \notin handles[p]
  /\ cpc[p] = "none" => hpc[p] = "none"

AwaitedInv == \A p \in Procs : Awaited(p)

LEMMA CallAwaited ==
  ASSUME TypeOK, NEW p \in Procs, Awaited(p), Call(p)
  PROVE  Awaited(p)'
<1> USE DEF TypeOK, HostGoto, Awaited
<1>1. CASE ProcessStart(p)
  BY <1>1 DEF ProcessStart
<1>2. CASE (\E len \in Lens : WriteCall(p, len)) \/ FinishCall(p)
  BY <1>2 DEF WriteCall, FinishCall, workerVars, childVars
<1> QED
  BY <1>1, <1>2 DEF Call

LEMMA HostAwaited ==
  ASSUME Typed, LifeInv, FlowInv, NEW p \in Procs, Awaited(p), Host(p)
  PROVE  Awaited(p)'
<1>1. Mark(p) /\ Closed(p) /\ Flow(p) /\ Open(p) /\ TypeOK
  BY DEF LifeInv, FlowInv, Here, Typed
<1>2. UNCHANGED <<wpc, cpc>> /\ hpc[p] # "none"
  BY DEF Host, ProcessCloseStderr, ProcessWrite, WritePart, WriteFails, ProcessRead,
         ProcessFinish, FinishCloseIn, FinishCloseOut, FinishCloseRest, FinishClose,
         FinishDrain, FinishFree, HostGoto, workerVars, childVars
<1> USE DEF TypeOK, HostGoto
<1>3. CASE ProcessCloseStderr(p)
  BY <1>1, <1>2, <1>3 DEF ProcessCloseStderr, Awaited
<1>4. CASE ProcessWrite(p)
  <2>1. hpc[p] \in {"size", "body"} /\ UNCHANGED <<handles, prev, q>>
    BY <1>4 DEF ProcessWrite, WritePart, WriteFails
  <2>2. hpc'[p] \in {"body", "read"} => ChildAlive(p)
    BY <1>1, <1>4 DEF ProcessWrite, WritePart, WriteFails
  <2>3. hpc'[p] \in {"body", "read", "idle"}
    BY <1>1, <1>4 DEF ProcessWrite, WritePart, WriteFails
  <2>4. ChildAlive(p) => prev[p] # EndMark
    BY <1>1, <2>1 DEF Open, Mark, ChildAlive, ChildGone, Phases
  <2> QED
    BY <1>2, <2>1, <2>2, <2>3, <2>4 DEF Awaited
<1>5. CASE ProcessRead(p)
  <2>1. /\ hpc[p] = "read" /\ hpc'[p] = "idle" /\ UNCHANGED handles
        /\ q[p] # <<>> /\ q'[p] = Tail(q[p]) /\ prev'[p] = Head(q[p])
    BY <1>1, <1>5 DEF ProcessRead
  <2>2. wpc[p] = "done" => q[p] = <<EndMark>> \/ \E r : q[p] = <<r, EndMark>>
    BY <1>1, <2>1
    DEF Flow, Between, Travelling, Lost, Served, Replying, CutShort, Replied, Drained,
        Half, Whole
  <2>3. q[p] = <<EndMark>> => prev'[p] = EndMark
    BY <2>1, Tuples
  <2>4. ASSUME NEW r, q[p] = <<r, EndMark>> PROVE q'[p] # <<>>
    BY <2>1, <2>4, Tuples
  <2> QED
    BY <1>2, <2>1, <2>2, <2>3, <2>4 DEF Awaited
<1>6. CASE ProcessFinish(p)
  <2>1. Between(p)
    BY <1>1, <1>6
    DEF ProcessFinish, FinishCloseIn, FinishCloseOut, FinishCloseRest, FinishClose,
        FinishDrain, FinishFree, Flow, Travelling, Lost, Served, Replying, CutShort, Replied
  <2>2. CASE FinishCloseIn(p) \/ FinishCloseOut(p) \/ FinishCloseRest(p)
    BY <1>1, <1>2, <2>2
    DEF FinishCloseIn, FinishCloseOut, FinishCloseRest, FinishClose, Awaited
  <2>3. CASE FinishDrain(p)
    BY <1>1, <1>2, <2>1, <2>3, Tuples DEF FinishDrain, Between, Drained, Awaited
  <2>4. CASE FinishFree(p)
    BY <1>1, <1>2, <2>4 DEF FinishFree, Awaited
  <2> QED
    BY <1>6, <2>2, <2>3, <2>4 DEF ProcessFinish
<1> QED
  BY <1>3, <1>4, <1>5, <1>6 DEF Host

LEMMA OthersAwaited ==
  ASSUME Typed, NEW p \in Procs, Awaited(p), Worker(p) \/ Child(p) \/ ChildLeaves(p)
  PROVE  Awaited(p)'
<1>1. UNCHANGED <<hpc, prev, handles>>
  BY DEF Worker, Child, ChildLeaves, hostVars
<1>2. UNCHANGED <<wpc, q>> \/ wpc'[p] # "done" \/ q'[p] # <<>>
  <2>1. CASE Worker(p)
    <3>1. CASE WorkerReads(p) /\ UNCHANGED q
      BY <3>1 DEF WorkerReads, BeginRead, GotSize, NoSize, GotBody, NoBody, Typed, TypeOK
    <3>2. CASE WorkerPushes(p)
      BY <3>2 DEF WorkerPushes, Typed, TypeOK
    <3>3. CASE WorkerEnds(p)
      <4>1. q'[p] = Append(q[p], EndMark) /\ q[p] \in Seq(Items) /\ EndMark \in Items
        BY <3>3, ItemFacts DEF WorkerEnds, Typed, TypeOK
      <4> QED
        BY <4>1, AppendProperties
    <3> QED
      BY <2>1, <3>1, <3>2, <3>3 DEF Worker
  <2>2. CASE Child(p) \/ ChildLeaves(p)
    BY <2>2 DEF Child, ChildLeaves, workerVars
  <2> QED
    BY <2>1, <2>2
<1>3. UNCHANGED cpc \/ cpc'[p] # "none"
  BY DEF Worker, childVars, Child, ChildReads, ChildWorks, ChildLogs, ChildReplies,
         ChildStops, ChildExits, ChildLeaves, Dies, Typed, TypeOK
<1> QED
  BY <1>1, <1>2, <1>3 DEF Awaited

LEMMA NextAwaited == IInv /\ FlowInv /\ AwaitedInv /\ [Next]_vars => AwaitedInv'
<1> SUFFICES ASSUME IInv, FlowInv, AwaitedInv, [Next]_vars PROVE AwaitedInv'
  OBVIOUS
<1>1. Typed /\ TypeOK /\ LifeInv
  BY DEF IInv, Typed
<1>2. ASSUME NEW x \in Procs, Untouched(x) PROVE Awaited(x)'
  BY <1>2 DEF AwaitedInv, Awaited, Untouched
<1>3. ASSUME NEW p \in Procs, StepOf(p) PROVE AwaitedInv'
  <2>1. Awaited(p)'
    BY <1>1, <1>3, CallAwaited, HostAwaited, OthersAwaited DEF StepOf, AwaitedInv
  <2> QED
    BY <1>1, <1>2, <1>3, <2>1, OthersUntouched DEF AwaitedInv
<1>4. CASE UNCHANGED vars
  BY <1>2, <1>4 DEF vars, hostVars, workerVars, childVars, pipeVars, Untouched, AwaitedInv
<1> QED
  BY <1>3, <1>4 DEF Next, StepOf

LEMMA AwaitedInvariant == Spec => [](IInv /\ FlowInv /\ AwaitedInv)
<1>1. Init => AwaitedInv
  BY ItemFacts DEF Init, AwaitedInv, Awaited
<1> QED
  BY <1>1, NextAwaited, FlowInvariant, PTL DEF Spec

(* A queue that holds nothing has room for an item, and a pipe for a part.  *)
LEMMA EmptyHasRoom == \A s : s = <<>> => Len(s) < QueueCap /\ Len(s) < PipeCap
<1>1. Len(<<>>) = 0
  OBVIOUS
<1> QED
  BY <1>1, ProcessAssumption

(* While the host waits for a queue item, or in CloseHandle for the worker, *)
(* and the queue holds none, the worker or the child can go on.             *)
LEMMA SomebodyFills ==
  ASSUME IInv, FlowInv, AwaitedInv, NEW p \in Procs, q[p] = <<>>,
         hpc[p] \in {"read", "drain"} \/ (hpc[p] = "closeOut" /\ Reading(p))
  PROVE  WorkerCan(p) \/ ChildCan(p) \/ MarkTaken(p)
<1>1. Life(p) /\ Closed(p) /\ Open(p) /\ Flow(p) /\ Awaited(p)
  BY DEF IInv, LifeInv, FlowInv, Here, AwaitedInv
<1>2. Len(q[p]) < QueueCap
  BY EmptyHasRoom
<1>3. wpc[p] # "none"
  BY <1>1 DEF Life
<1>4. wpc[p] = "done" => MarkTaken(p)
  BY <1>1 DEF Awaited, MarkTaken, Reading
<1>5. wpc[p] \in {"size", "body", "push", "end"} => WorkerCan(p)
  BY <1>2 DEF WorkerCan
<1>6. Reading(p) /\ (stdout[p] # <<>> \/ ChildGone(p)) => WorkerCan(p)
  BY DEF WorkerCan
<1>7. CASE Between(p) \/ Travelling(p) \/ Lost(p) \/ Served(p)
  <2> Drained(p)
    BY <1>7 DEF Between, Travelling, Lost, Served
  <2>1. SUFFICES ASSUME wpc[p] = "inSize", ~ChildGone(p) PROVE ChildCan(p)
    BY <1>3, <1>4, <1>5, <1>6 DEF Drained, Reading
  <2>2. stdout[p] = <<>>
    BY DEF Drained
  <2>3. Len(stdout[p]) < PipeCap
    BY <2>2, EmptyHasRoom
  <2>4. CASE hpc[p] \in {"closeOut", "drain"}
    <3>1. cpc[p] \in {"none", "fresh", "idle"} /\ "in_w" \notin handles[p]
      BY <1>1, <1>7, <2>1, <2>4
      DEF Between, Travelling, Lost, Served, Resting, ChildGone, Closed
    <3> QED
      BY <1>1, <2>4, <3>1 DEF ChildCan, Awaited
  <2>5. CASE hpc[p] = "read"
    <3>1. Travelling(p) \/ Served(p)
      BY <1>7, <2>1, <2>5 DEF Between, Lost
    <3>2. Travelling(p) => cpc[p] \in {"fresh", "body", "idle"} /\ stdin[p] # <<>>
      BY <2>5, Tuples DEF Travelling, Incoming, Message
    <3> QED
      BY <1>1, <2>3, <2>5, <3>1, <3>2 DEF Served, Working, ChildCan, Awaited
  <2> QED
    BY <2>4, <2>5
<1>8. CASE Replying(p)
  <2>1. WorkerCan(p) \/ stdout[p] = <<>>
    BY <1>5, <1>6, <1>8, Tuples DEF Replying, Half, Reading
  <2>2. stdout[p] = <<>> => Len(stdout[p]) < PipeCap
    BY EmptyHasRoom
  <2> QED
    BY <1>8, <2>1, <2>2 DEF Replying, ChildCan
<1>9. CASE CutShort(p)
  BY <1>5, <1>6, <1>9 DEF CutShort, Half, Reading
<1>10. CASE Replied(p)
  BY <1>5, <1>6, <1>10, Tuples DEF Replied, Whole, Message, Reading
<1> QED
  BY <1>1, <1>7, <1>8, <1>9, <1>10 DEF Flow

(* While the host waits for room in the pipe to the child, the child reads. *)
LEMMA SomebodyReads ==
  ASSUME IInv, FlowInv, NEW p \in Procs, hpc[p] \in {"size", "body"}
  PROVE  HostCan(p) \/ ChildCan(p)
<1>1. Flow(p)
  BY DEF FlowInv, Here
<1>2. stdin[p] = <<>> => HostCan(p)
  BY EmptyHasRoom DEF HostCan
<1>3. ~ChildAlive(p) => HostCan(p)
  BY DEF HostCan
<1>4. Between(p) => stdin[p] = <<>>
  BY DEF Between, Resting
<1>5. Travelling(p) => stdin[p] = <<>> \/ cpc[p] \in {"fresh", "idle"}
  BY <1>1 DEF Travelling, Incoming
<1>6. cpc[p] \in {"fresh", "idle"} /\ stdin[p] # <<>> => ChildCan(p)
  BY DEF ChildCan
<1> QED
  BY <1>1, <1>2, <1>3, <1>4, <1>5, <1>6
  DEF Flow, Lost, Served, Replying, CutShort, Replied

LEMMA NoWait ==
  ASSUME IInv, FlowInv, AwaitedInv, NEW p \in Procs, hpc[p] \notin {"none", "idle", "gone"}
  PROVE  HostCan(p) \/ WorkerCan(p) \/ ChildCan(p) \/ MarkTaken(p)
<1>1. CASE hpc[p] \in {"size", "body"}
  BY <1>1, SomebodyReads
<1>2. CASE hpc[p] \in {"read", "drain"}
  BY <1>2, SomebodyFills DEF HostCan
<1>3. CASE hpc[p] = "closeOut"
  <2>1. SUFFICES ASSUME Reading(p) PROVE WorkerCan(p) \/ ChildCan(p) \/ MarkTaken(p)
    BY <1>3 DEF HostCan
  <2>2. q[p] = <<>>
    BY <1>3, <2>1
    DEF FlowInv, Here, Flow, Between, Drained, Travelling, Lost, Served, Replying,
        CutShort, Replied, Reading
  <2> QED
    BY <1>3, <2>1, <2>2, SomebodyFills
<1>4. CASE hpc[p] \in {"started", "closeIn", "closeRest", "free"}
  BY <1>4 DEF HostCan
<1> QED
  BY <1>1, <1>2, <1>3, <1>4 DEF IInv, Typed, TypeOK

(* The three actors of a process never wait for each other in a circle,     *)
(* for pipes and queues of any capacity: process_read is always answered,   *)
(* with a reply or the end mark, and process_finish waits in vain for the   *)
(* end mark only if a process_read has consumed it.                         *)
THEOREM NoCircularWaitCorrect == Spec => []NoCircularWait
<1>1. IInv /\ FlowInv /\ AwaitedInv => NoCircularWait
  BY NoWait DEF NoCircularWait
<1> QED
  BY <1>1, AwaitedInvariant, PTL

(* Sets of no, of one and of two elements. *)
LEMMA SmallSets ==
  ASSUME NEW S
  PROVE  /\ S = {} => IsFiniteSet(S) /\ Cardinality(S) = 0
         /\ \A x : S = {x} => IsFiniteSet(S) /\ Cardinality(S) = 1
         /\ \A x, y : x # y /\ S = {x} \union {y} => IsFiniteSet(S) /\ Cardinality(S) = 2
<1>1. S = {} => IsFiniteSet(S) /\ Cardinality(S) = 0
  BY FS_EmptySet, Zenon
<1>2. ASSUME NEW x, S = {x} PROVE IsFiniteSet(S) /\ Cardinality(S) = 1
  BY <1>2, FS_Singleton, Zenon
<1>3. ASSUME NEW x, NEW y, x # y, S = {x} \union {y}
      PROVE  IsFiniteSet(S) /\ Cardinality(S) = 2
  <2>1. IsFiniteSet({x}) /\ Cardinality({x}) = 1 /\ y \notin {x}
    BY <1>3, FS_Singleton, Zenon
  <2>2. /\ IsFiniteSet({x} \union {y})
        /\ Cardinality({x} \union {y}) = Cardinality({x}) + 1
    BY <2>1, FS_AddElement, Zenon
  <2>3. Cardinality({x} \union {y}) = 2
    BY <2>1, <2>2
  <2> QED
    BY <1>3, <2>2, <2>3, Zenon
<1> QED
  BY <1>1, <1>2, <1>3, Zenon

(* What the worker has and what is queued: the reply under way, the end     *)
(* mark, or both; none of it is the item the host keeps.                    *)
LEMMA UnderWay ==
  ASSUME TypeOK, LifeInv, FlowInv, NEW p \in Procs
  PROVE  LET new == Held(qi[p]) \union Queued(p)
         IN  /\ IsFiniteSet(new) /\ new \intersect Held(prev[p]) = {}
             /\ Cardinality(new) = Cardinality(Held(qi[p])) + Len(q[p])
<1> DEFINE new == Held(qi[p]) \union Queued(p)
           Goal == /\ IsFiniteSet(new) /\ new \intersect Held(prev[p]) = {}
                   /\ Cardinality(new) = Cardinality(Held(qi[p])) + Len(q[p])
<1> SUFFICES Goal
  OBVIOUS
<1>1. Mark(p) /\ Flow(p) /\ Numbered(p)
  BY DEF LifeInv, FlowInv, Here
<1>2. \/ qi[p] = NoItem /\ q[p] = <<>>
      \/ qi[p] = NoItem /\ q[p] = <<EndMark>>
      \/ /\ hpc[p] = "read"
         /\ \E r \in Answers(p) :
              \/ qi[p] = r /\ q[p] = <<>>
              \/ qi[p] = NoItem /\ q[p] \in {<<r>>, <<r, EndMark>>}
  BY <1>1
  DEF Flow, Between, Travelling, Lost, Served, Replying, CutShort, Replied, Drained,
      Half, Whole
<1>3. q[p] # <<>> => prev[p] # EndMark
  BY <1>1 DEF Mark
<1>4. qi[p] = NoItem => Held(qi[p]) = {}
  BY DEF Held
<1>5. Held(qi[p]) = {} => Cardinality(Held(qi[p])) = 0
  BY SmallSets, Zenon
<1>6. CASE qi[p] = NoItem /\ q[p] = <<>>
  <2>1. new = {} /\ Len(q[p]) = 0
    BY <1>4, <1>6, Contents DEF Queued
  <2>2. IsFiniteSet(new) /\ Cardinality(new) = 0
    BY <2>1, SmallSets, Zenon
  <2> QED
    BY <1>4, <1>5, <1>6, <2>1, <2>2
<1>7. CASE qi[p] = NoItem /\ q[p] = <<EndMark>>
  <2>1. new = {EndMark} /\ q[p] # <<>>
    BY <1>4, <1>7, Contents, Tuples DEF Queued
  <2>2. Len(q[p]) = 1
    BY <1>7
  <2>3. IsFiniteSet(new) /\ Cardinality(new) = 1
    BY <2>1, SmallSets, Zenon
  <2>4. new \intersect Held(prev[p]) = {}
    BY <1>3, <2>1 DEF Held
  <2>5. Cardinality(Held(qi[p])) = 0
    BY <1>4, <1>5, <1>7
  <2> QED
    BY <2>2, <2>3, <2>4, <2>5
<1>8. ASSUME NEW r \in Answers(p), hpc[p] = "read",
             \/ qi[p] = r /\ q[p] = <<>>
             \/ qi[p] = NoItem /\ q[p] \in {<<r>>, <<r, EndMark>>}
      PROVE  Goal
  <2>1. r \in Replies /\ r # NoItem /\ r # EndMark /\ r # prev[p]
    <3>1. msg[p] # NoItem /\ prev[p].id < msg[p].id
      BY <1>1, <1>8, ItemFacts DEF Numbered
    <3>2. r.id = msg[p].id /\ prev[p].id \in Int
      BY IdRange DEF Answers, TypeOK
    <3> QED
      BY <3>1, <3>2, ItemFacts DEF Answers, Replies
  <2>2. CASE qi[p] = r /\ q[p] = <<>>
    <3>1. Held(qi[p]) = {r} /\ new = {r} /\ Len(q[p]) = 0
      BY <2>1, <2>2, Contents DEF Held, Queued
    <3>2. IsFiniteSet(new) /\ Cardinality(new) = 1 /\ Cardinality(Held(qi[p])) = 1
      BY <3>1, SmallSets, Zenon
    <3>3. new \intersect Held(prev[p]) = {}
      BY <2>1, <3>1 DEF Held
    <3> HIDE DEF new
    <3> QED
      BY <3>1, <3>2, <3>3
  <2>3. CASE qi[p] = NoItem /\ q[p] = <<r>>
    <3>1. new = {r}
      BY <1>4, <2>3, Contents DEF Queued
    <3>2. Len(q[p]) = 1
      BY <2>3
    <3>3. IsFiniteSet(new) /\ Cardinality(new) = 1
      BY <3>1, SmallSets, Zenon
    <3>4. Cardinality(Held(qi[p])) = 0
      BY <1>4, <1>5, <2>3
    <3>5. new \intersect Held(prev[p]) = {}
      BY <2>1, <3>1 DEF Held
    <3> HIDE DEF new
    <3> QED
      BY <3>2, <3>3, <3>4, <3>5
  <2>4. CASE qi[p] = NoItem /\ q[p] = <<r, EndMark>>
    <3>1. new = {r} \union {EndMark}
      BY <1>4, <2>4, Contents DEF Queued
    <3>2. Len(q[p]) = 2 /\ q[p] # <<>>
      BY <2>4
    <3>3. IsFiniteSet(new) /\ Cardinality(new) = 2
      BY <2>1, <3>1, SmallSets, Zenon
    <3>4. Cardinality(Held(qi[p])) = 0
      BY <1>4, <1>5, <2>4
    <3>5. new \intersect Held(prev[p]) = {}
      BY <1>3, <2>1, <3>1, <3>2 DEF Held
    <3> HIDE DEF new
    <3> QED
      BY <3>2, <3>3, <3>4, <3>5
  <2> QED
    BY <1>8, <2>2, <2>3, <2>4
<1> QED
  BY <1>2, <1>6, <1>7, <1>8

(* Every queue item has one owner: none is lost, none is freed twice.       *)
THEOREM OneOwnerCorrect == Spec => []OneOwner
<1>1. IInv /\ FlowInv => OneOwner
  <2> SUFFICES ASSUME IInv, FlowInv, NEW p \in Procs
               PROVE  /\ Owned(p)
                      /\ Cardinality(heap[p])
                           = Cardinality(Held(qi[p])) + Len(q[p])
                               + Cardinality(Held(prev[p]))
    BY DEF OneOwner, Owned
  <2> DEFINE new == Held(qi[p]) \union Queued(p)
  <2>1. TypeOK /\ LifeInv /\ Owned(p)
    BY DEF IInv, Typed, FlowInv, Here
  <2>2. /\ IsFiniteSet(new) /\ new \intersect Held(prev[p]) = {}
        /\ Cardinality(new) = Cardinality(Held(qi[p])) + Len(q[p])
    BY <2>1, UnderWay
  <2>3. IsFiniteSet(Held(prev[p])) /\ Cardinality(Held(prev[p])) \in Nat
    <3>1. Held(prev[p]) = {} \/ Held(prev[p]) = {prev[p]}
      BY DEF Held
    <3>2. IsFiniteSet(Held(prev[p]))
      BY <3>1, SmallSets, Zenon
    <3> QED
      BY <3>2, FS_CardinalityType
  <2> HIDE DEF new
  <2>4. heap[p] = new \union Held(prev[p])
    BY <2>1 DEF Owned, new
  <2>5. Cardinality(heap[p]) = Cardinality(new) + Cardinality(Held(prev[p]))
    <3>1. Cardinality(new) \in Nat /\ Cardinality({}) = 0
      BY <2>2, FS_CardinalityType, FS_EmptySet
    <3>2. Cardinality(heap[p])
            = Cardinality(new) + Cardinality(Held(prev[p])) - Cardinality({})
      BY <2>2, <2>3, <2>4, FS_Union
    <3> QED
      BY <2>3, <3>1, <3>2
  <2> QED
    BY <2>1, <2>2, <2>5
<1> QED
  BY <1>1, FlowInvariant, PTL

-----------------------------------------------------------------------------

(* A process as module Service sees it: what the mapping Seen gives for     *)
(* process p.                                                               *)
Running(p) == Stage(p) # "finished" /\ ChildAlive(p)
HasReply(p) ==
  /\ Stage(p) # "finished"
  /\ msg[p] # NoItem
  /\ \E item \in CompleteReplies(p) : item.id = msg[p].id
Outcome(p) ==
  IF Stage(p) = "finished" \/ ret[p] = "none" THEN "none"
  ELSE IF ret[p] = "ok" THEN "ok" ELSE "failed"

LEMMA Contained ==
  ASSUME NEW s
  PROVE  /\ s = <<>> => {s[i] : i \in 1 .. Len(s)} = {}
         /\ \A a : s = <<a>> => {s[i] : i \in 1 .. Len(s)} = {a}
         /\ \A a, b : s = <<a, b>> => {s[i] : i \in 1 .. Len(s)} = {a, b}
<1>1. CASE s = <<>>
  BY <1>1, Contents
<1>2. ASSUME NEW a, s = <<a>> PROVE {s[i] : i \in 1 .. Len(s)} = {a}
  BY <1>2, Contents
<1>3. ASSUME NEW a, NEW b, s = <<a, b>> PROVE {s[i] : i \in 1 .. Len(s)} = {a, b}
  BY <1>3, Contents
<1> QED
  BY <1>1, <1>2, <1>3, Contents, Zenon

(* A reply to the last request is complete at the last of its points, and   *)
(* after the call that returned it.                                         *)
LEMMA CompleteDrained ==
  ASSUME NEW p \in Procs, Drained(p)
  PROVE  CompleteReplies(p) \subseteq {EndMark, prev[p]} /\ prev[p] \in CompleteReplies(p)
<1>1. {stdout[p][i] : i \in 1 .. Len(stdout[p])} = {}
  BY Contained DEF Drained
<1>2. Queued(p) \subseteq {EndMark}
  BY Contained DEF Drained, Queued
<1>3. wpc[p] # "push"
  BY DEF Drained
<1> QED
  BY <1>1, <1>2, <1>3 DEF CompleteReplies

LEMMA CompleteHalf ==
  ASSUME NEW p \in Procs, NEW r, Half(p, r)
  PROVE  CompleteReplies(p) = {prev[p]}
<1>1. {stdout[p][i] : i \in 1 .. Len(stdout[p])} \subseteq {SizePart(r)}
  BY Contained DEF Half
<1>2. Queued(p) = {} /\ wpc[p] # "push"
  BY Contained DEF Half, Queued
<1>3. SizePart(r).part = "size" /\ SizePart(r).of.len # 0
  BY DEF SizePart, Half
<1> QED
  BY <1>1, <1>2, <1>3 DEF CompleteReplies

LEMMA CompleteWhole ==
  ASSUME NEW p \in Procs, NEW r, Whole(p, r)
  PROVE  r \in CompleteReplies(p)
<1> USE DEF CompleteReplies
<1>1. CASE stdout[p] = Message(r)
  <2>1. CASE r.len = 0
    <3>1. {stdout[p][i] : i \in 1 .. Len(stdout[p])} = {SizePart(r)}
      BY <1>1, <2>1, Contained DEF Message
    <3>2. SizePart(r) \in {stdout[p][i] : i \in 1 .. Len(stdout[p])}
      BY <3>1
    <3>3. SizePart(r).of = r
      BY DEF SizePart
    <3> QED
      BY <2>1, <3>2, <3>3
  <2>2. CASE r.len # 0
    <3>1. {stdout[p][i] : i \in 1 .. Len(stdout[p])} = {SizePart(r), BodyPart(r)}
      BY <1>1, <2>2, Contained DEF Message
    <3>2. BodyPart(r).part = "body" /\ BodyPart(r).of = r
      BY DEF BodyPart
    <3>3. BodyPart(r) \in {stdout[p][i] : i \in 1 .. Len(stdout[p])}
      BY <3>1
    <3> QED
      BY <3>2, <3>3
  <2> QED
    BY <2>1, <2>2
<1>2. CASE stdout[p] = <<BodyPart(r)>>
  <2>1. {stdout[p][i] : i \in 1 .. Len(stdout[p])} = {BodyPart(r)}
    BY <1>2, Contained
  <2>2. BodyPart(r).part = "body" /\ BodyPart(r).of = r
    BY DEF BodyPart
  <2>3. BodyPart(r) \in {stdout[p][i] : i \in 1 .. Len(stdout[p])}
    BY <2>1
  <2> QED
    BY <2>2, <2>3
<1>3. CASE qi[p] = r /\ wpc[p] = "push"
  BY <1>3
<1>4. CASE q[p] = <<r>> \/ q[p] = <<r, EndMark>>
  <2>1. r \in Queued(p)
    BY <1>4, Contained DEF Queued
  <2> QED
    BY <2>1
<1> QED
  BY <1>1, <1>2, <1>3, <1>4 DEF Whole

Shown(p) ==
  /\ hpc[p] = "none" => ~HasReply(p) /\ ret[p] = "none"
  /\ hpc[p] \in {"started", "idle"} => (HasReply(p) <=> ret[p] = "ok")
  /\ hpc[p] \in {"size", "body", "read"} =>
       (HasReply(p) <=> Replied(p)) /\ ret[p] = "none"

LEMMA ReplyIsShown ==
  ASSUME TypeOK, NEW p \in Procs, Here(p)
  PROVE  Shown(p)
<1>1. Flow(p) /\ Numbered(p) /\ prev[p].id \in Int
  BY IdRange DEF Here, TypeOK
<1>2. msg[p] # NoItem => msg[p].id > 0 /\ EndMark.id = 0 /\ msg[p].id \in Int
  BY DEF TypeOK, Replies, EndMark
<1>3. hpc[p] = "none" => ~HasReply(p) /\ ret[p] = "none"
  BY <1>1 DEF Numbered, HasReply
<1>4. ASSUME Drained(p), ret[p] # "ok" PROVE ~HasReply(p)
  BY <1>1, <1>2, <1>4, CompleteDrained DEF HasReply, Numbered
<1>5. ASSUME NEW r, Half(p, r), ret[p] # "ok" PROVE ~HasReply(p)
  BY <1>1, <1>2, <1>5, CompleteHalf DEF HasReply, Numbered
<1>6. ASSUME hpc[p] \in {"started", "idle"}, ret[p] = "ok" PROVE HasReply(p)
  <2>1. prev[p] \in CompleteReplies(p)
    BY <1>1, <1>6, CompleteDrained
    DEF Flow, Between, Travelling, Lost, Served, Replying, CutShort, Replied
  <2>2. prev[p].id = msg[p].id /\ msg[p] # NoItem
    BY <1>1, <1>6, ItemFacts DEF Numbered, Replies, NoItem
  <2> QED
    BY <1>6, <2>1, <2>2 DEF HasReply, Stage
<1>7. ASSUME Replied(p) PROVE HasReply(p)
  <2>1. PICK r \in Answers(p) : Whole(p, r)
    BY <1>7 DEF Replied
  <2>2. r \in CompleteReplies(p) /\ r.id = msg[p].id /\ hpc[p] = "read"
    BY <1>7, <2>1, CompleteWhole DEF Answers, Replied
  <2>3. msg[p] # NoItem
    BY <1>1, <2>2, ItemFacts DEF Numbered
  <2> QED
    BY <2>2, <2>3 DEF HasReply, Stage
<1>8. Drained(p) \/ (\E r : Half(p, r)) \/ Replied(p)
  BY <1>1 DEF Flow, Between, Travelling, Lost, Served, Replying, CutShort
<1>9. hpc[p] \in {"size", "body", "read"} => ret[p] = "none"
  BY <1>1 DEF Numbered
<1>10. hpc[p] \in {"started", "idle"} => Drained(p)
  BY <1>1 DEF Flow, Between, Travelling, Lost, Served, Replying, CutShort, Replied
<1> QED
  BY <1>3, <1>4, <1>5, <1>6, <1>7, <1>8, <1>9, <1>10 DEF Shown

(* The steps of module Service, by what they do to one process. *)
SeenSame(p) ==
  /\ Stage(p)' = Stage(p) /\ Running(p)' = Running(p)
  /\ HasReply(p)' = HasReply(p) /\ Outcome(p)' = Outcome(p)
SeenStart(p) ==
  /\ Stage(p) = "none" /\ Stage(p)' = "ready" /\ Running(p)' = TRUE
  /\ HasReply(p)' = HasReply(p) /\ Outcome(p)' = Outcome(p)
SeenAsk(p) ==
  /\ Stage(p) = "ready" /\ Stage(p)' = "asked" /\ Running(p)' = Running(p)
  /\ HasReply(p)' = FALSE /\ Outcome(p)' = "none"
SeenComplete(p) ==
  /\ Stage(p) = "asked" /\ Running(p) /\ ~HasReply(p)
  /\ Stage(p)' = Stage(p) /\ Running(p)' = Running(p)
  /\ HasReply(p)' = TRUE /\ Outcome(p)' = Outcome(p)
SeenGoDown(p) ==
  /\ Running(p) /\ Running(p)' = FALSE
  /\ Stage(p)' = Stage(p) /\ HasReply(p)' = HasReply(p) /\ Outcome(p)' = Outcome(p)
SeenAnswer(p) ==
  /\ Stage(p) = "asked" /\ Stage(p)' = "ready" /\ HasReply(p) /\ Outcome(p)' = "ok"
  /\ Running(p)' = Running(p) /\ HasReply(p)' = HasReply(p)
SeenFail(p) ==
  /\ Stage(p) = "asked" /\ Stage(p)' = "ready" /\ ~Running(p) /\ ~HasReply(p)
  /\ Outcome(p)' = "failed"
  /\ Running(p)' = Running(p) /\ HasReply(p)' = HasReply(p)
SeenFinish(p) ==
  /\ Stage(p) = "ready" /\ Stage(p)' = "finished" /\ Running(p)' = FALSE
  /\ HasReply(p)' = FALSE /\ Outcome(p)' = "none"
SeenStep(p) ==
  \/ SeenStart(p) \/ SeenAsk(p) \/ SeenComplete(p) \/ SeenGoDown(p)
  \/ SeenAnswer(p) \/ SeenFail(p) \/ SeenFinish(p)

LEMMA SeenStepIsNext ==
  ASSUME NEW p \in Procs, SeenStep(p) \/ SeenSame(p),
         \A x \in Procs : x # p => SeenSame(x)
  PROVE  [Seen!Next]_(Seen!vars)
<1> DEFINE St == [x \in Procs |-> Stage(x)]
           Up == [x \in Procs |-> Running(x)]
           Re == [x \in Procs |-> HasReply(x)]
           Ou == [x \in Procs |-> Outcome(x)]
<1>1. /\ St' = [St EXCEPT ![p] = Stage(p)'] /\ Up' = [Up EXCEPT ![p] = Running(p)']
      /\ Re' = [Re EXCEPT ![p] = HasReply(p)'] /\ Ou' = [Ou EXCEPT ![p] = Outcome(p)']
  BY DEF SeenSame
<1>2. /\ St[p] = Stage(p) /\ Up[p] = Running(p) /\ Re[p] = HasReply(p)
      /\ Ou[p] = Outcome(p)
  OBVIOUS
<1>3. /\ Stage(p)' = Stage(p) => St' = St
      /\ Running(p)' = Running(p) => Up' = Up
      /\ HasReply(p)' = HasReply(p) => Re' = Re
      /\ Outcome(p)' = Outcome(p) => Ou' = Ou
  BY <1>1, <1>2
<1> HIDE DEF St, Up, Re, Ou
<1>4. SeenSame(p) => UNCHANGED <<St, Up, Re, Ou>>
  BY <1>3 DEF SeenSame
<1>5. SeenStart(p) => /\ St[p] = "none" /\ St' = [St EXCEPT ![p] = "ready"]
                      /\ Up' = [Up EXCEPT ![p] = TRUE] /\ UNCHANGED <<Re, Ou>>
  BY <1>1, <1>2, <1>3, Zenon DEF SeenStart
<1>6. SeenAsk(p) => /\ St[p] = "ready" /\ St' = [St EXCEPT ![p] = "asked"]
                    /\ Re' = [Re EXCEPT ![p] = FALSE] /\ Ou' = [Ou EXCEPT ![p] = "none"]
                    /\ UNCHANGED Up
  BY <1>1, <1>2, <1>3, Zenon DEF SeenAsk
<1>7. SeenComplete(p) => /\ St[p] = "asked" /\ Up[p] /\ ~Re[p]
                         /\ Re' = [Re EXCEPT ![p] = TRUE] /\ UNCHANGED <<St, Up, Ou>>
  BY <1>1, <1>2, <1>3, Zenon DEF SeenComplete
<1>8. SeenGoDown(p) => /\ Up[p] /\ Up' = [Up EXCEPT ![p] = FALSE]
                       /\ UNCHANGED <<St, Re, Ou>>
  BY <1>1, <1>2, <1>3, Zenon DEF SeenGoDown
<1>9. SeenAnswer(p) => /\ St[p] = "asked" /\ St' = [St EXCEPT ![p] = "ready"] /\ Re[p]
                       /\ Ou' = [Ou EXCEPT ![p] = "ok"] /\ UNCHANGED <<Up, Re>>
  BY <1>1, <1>2, <1>3, Zenon DEF SeenAnswer
<1>10. SeenFail(p) => /\ St[p] = "asked" /\ St' = [St EXCEPT ![p] = "ready"]
                      /\ ~Up[p] /\ ~Re[p] /\ Ou' = [Ou EXCEPT ![p] = "failed"]
                      /\ UNCHANGED <<Up, Re>>
  BY <1>1, <1>2, <1>3, Zenon DEF SeenFail
<1>11. SeenFinish(p) => /\ St[p] = "ready" /\ St' = [St EXCEPT ![p] = "finished"]
                        /\ Up' = [Up EXCEPT ![p] = FALSE]
                        /\ Re' = [Re EXCEPT ![p] = FALSE]
                        /\ Ou' = [Ou EXCEPT ![p] = "none"]
  BY <1>1, <1>2, <1>3, Zenon DEF SeenFinish
<1> QED
  BY <1>4, <1>5, <1>6, <1>7, <1>8, <1>9, <1>10, <1>11
  DEF SeenStep, Seen!Next, Seen!vars, Seen!Start, Seen!Ask, Seen!Complete, Seen!GoDown,
      Seen!Answer, Seen!Fail, Seen!Finish, Seen!Goto, St, Up, Re, Ou, Running, HasReply,
      Outcome

LEMMA Truths ==
  ASSUME NEW p
  PROVE  /\ Running(p) \in BOOLEAN /\ HasReply(p) \in BOOLEAN
         /\ Running(p)' \in BOOLEAN /\ HasReply(p)' \in BOOLEAN
BY DEF Running, HasReply

(* Each step of a process is one of these, or none. *)
LEMMA CallIsSeen ==
  ASSUME TypeOK, NEW p \in Procs, Here(p), Here(p)', Shown(p), Shown(p)', Call(p)
  PROVE  SeenStep(p) \/ SeenSame(p)
<1> USE DEF Stage, Running, Outcome, ChildAlive
<1>1. CASE ProcessStart(p)
  <2>1. /\ hpc[p] = "none" /\ hpc'[p] = "started" /\ cpc'[p] \in Phases
        /\ ret'[p] = ret[p] /\ msg'[p] = msg[p]
    BY <1>1 DEF ProcessStart, HostGoto, TypeOK, Phases
  <2>2. ret[p] = "none" /\ ~HasReply(p) /\ ~HasReply(p)'
    BY <2>1 DEF Shown
  <2> QED
    BY <2>1, <2>2, Truths DEF SeenStart, SeenStep
<1>2. ASSUME NEW len \in Lens, WriteCall(p, len) PROVE SeenStep(p) \/ SeenSame(p)
  <2>1. /\ hpc[p] = "idle" /\ hpc'[p] = "size" /\ cpc'[p] = cpc[p] /\ ret'[p] = "none"
    BY <1>2 DEF WriteCall, HostGoto, TypeOK, childVars
  <2>2. ~HasReply(p)'
    BY <2>1 DEF Shown, Replied
  <2> QED
    BY <2>1, <2>2 DEF SeenAsk, SeenStep, HasReply
<1>3. CASE FinishCall(p)
  <2>1. hpc[p] = "idle" /\ hpc'[p] = "closeIn"
    BY <1>3 DEF FinishCall, HostGoto, TypeOK
  <2> QED
    BY <2>1 DEF SeenFinish, SeenStep, HasReply
<1> QED
  BY <1>1, <1>2, <1>3 DEF Call

LEMMA WriteIsSeen ==
  ASSUME TypeOK, NEW p \in Procs, Here(p), Here(p)', Shown(p), Shown(p)', ProcessWrite(p)
  PROVE  SeenStep(p) \/ SeenSame(p)
<1> USE DEF Stage, Running, Outcome, ChildAlive
<1>1. /\ hpc[p] \in {"size", "body"}
      /\ UNCHANGED <<msg, q, prev, wpc, qi, cpc, stdout>>
      /\ \/ hpc'[p] \in {"body", "read"} /\ UNCHANGED ret
         \/ hpc'[p] = "idle" /\ ret'[p] = "notSent" /\ ChildGone(p)
  BY DEF ProcessWrite, WritePart, WriteFails, TypeOK, workerVars, childVars
<1>2. HasReply(p)' = HasReply(p)
  BY <1>1 DEF HasReply, CompleteReplies, Queued
<1>3. ret[p] = "none" /\ ~HasReply(p)
  BY <1>1 DEF Shown, Replied
<1>4. CASE hpc'[p] \in {"body", "read"} /\ UNCHANGED ret
  BY <1>1, <1>2, <1>3, <1>4 DEF SeenSame
<1>5. CASE hpc'[p] = "idle" /\ ret'[p] = "notSent" /\ ChildGone(p)
  <2>1. ~Running(p) /\ ~Running(p)'
    BY <1>1, <1>5 DEF ChildGone, Phases
  <2> HIDE DEF Running
  <2> QED
    BY <1>1, <1>2, <1>3, <1>5, <2>1, Truths DEF SeenFail, SeenStep
<1> QED
  BY <1>1, <1>4, <1>5

LEMMA ReadIsSeen ==
  ASSUME TypeOK, LifeInv, NEW p \in Procs, Here(p), Here(p)', Shown(p), Shown(p)',
         ProcessRead(p)
  PROVE  SeenStep(p) \/ SeenSame(p)
<1> USE DEF Stage, Running, Outcome, ChildAlive
<1>1. /\ hpc[p] = "read" /\ hpc'[p] = "idle" /\ UNCHANGED cpc /\ q[p] # <<>>
      /\ ret'[p] = IF Head(q[p]) = EndMark THEN "notReceived" ELSE "ok"
  BY DEF ProcessRead, HostGoto, TypeOK, childVars
<1>2. Flow(p) /\ Open(p)
  BY DEF Here
<1>3. (HasReply(p) <=> Replied(p)) /\ (HasReply(p)' <=> ret'[p] = "ok")
  BY <1>1 DEF Shown
<1>4. CASE Replied(p)
  <2>1. PICK r \in Answers(p) : q[p] = <<r>> \/ q[p] = <<r, EndMark>>
    BY <1>1, <1>4 DEF Replied, Whole
  <2>2. Head(q[p]) = r /\ r # EndMark
    BY <2>1, Tuples, ItemFacts DEF Answers
  <2>3. ret'[p] = "ok" /\ HasReply(p) /\ HasReply(p)'
    BY <1>1, <1>3, <1>4, <2>2
  <2> QED
    BY <1>1, <2>3 DEF SeenAnswer, SeenStep, HasReply
<1>5. CASE ~Replied(p)
  <2>1. q[p] = <<EndMark>> /\ wpc[p] = "done"
    BY <1>1, <1>2, <1>5
    DEF Flow, Between, Travelling, Lost, Served, Replying, CutShort, Drained, Half
  <2>2. ChildGone(p)
    BY <1>1, <1>2, <2>1 DEF Open
  <2>3. ret'[p] = "notReceived"
    BY <1>1, <2>1, Tuples
  <2>4. ~Running(p) /\ ~Running(p)'
    BY <1>1, <2>2 DEF ChildGone, Phases
  <2>5. ~HasReply(p) /\ ~HasReply(p)'
    BY <1>3, <1>5, <2>3
  <2> HIDE DEF Running
  <2> QED
    BY <1>1, <2>3, <2>4, <2>5, Truths DEF SeenFail, SeenStep
<1> QED
  BY <1>4, <1>5

LEMMA FinishIsSeen ==
  ASSUME TypeOK, NEW p \in Procs, Here(p), Here(p)', Shown(p), Shown(p)',
         ProcessFinish(p) \/ ProcessCloseStderr(p)
  PROVE  SeenStep(p) \/ SeenSame(p)
<1> USE DEF Stage, Running, Outcome, ChildAlive
<1>1. CASE ProcessCloseStderr(p)
  <2>1. hpc[p] = "started" /\ hpc'[p] = "idle" /\ UNCHANGED <<cpc, ret>>
    BY <1>1 DEF ProcessCloseStderr, HostGoto, TypeOK, childVars
  <2>2. HasReply(p)' <=> HasReply(p)
    BY <2>1 DEF Shown
  <2> QED
    BY <2>1, <2>2 DEF SeenSame, HasReply
<1>2. CASE ProcessFinish(p)
  <2>1. Stage(p) = "finished" /\ Stage(p)' = "finished"
    BY <1>2 DEF ProcessFinish, FinishCloseIn, FinishCloseOut, FinishCloseRest,
                FinishClose, FinishDrain, FinishFree, HostGoto, TypeOK
  <2> HIDE DEF Stage
  <2> QED
    BY <2>1 DEF SeenSame, HasReply
<1> QED
  BY <1>1, <1>2

LEMMA WorkerIsSeen ==
  ASSUME TypeOK, NEW p \in Procs, Here(p), Here(p)', Shown(p), Shown(p)', Worker(p),
         Replied(p)' <=> Replied(p)
  PROVE  SeenStep(p) \/ SeenSame(p)
<1>1. UNCHANGED <<hpc, ret, cpc>>
  BY DEF Worker, hostVars, childVars
<1>2. HasReply(p)' <=> HasReply(p)
  <2>1. CASE hpc[p] \in {"none", "started", "idle", "size", "body", "read"}
    BY <1>1, <2>1 DEF Shown
  <2>2. CASE hpc[p] \notin {"none", "started", "idle", "size", "body", "read"}
    BY <1>1, <2>2 DEF HasReply, Stage
  <2> QED
    BY <2>1, <2>2
<1> QED
  BY <1>1, <1>2 DEF SeenSame, Stage, Running, ChildAlive, Outcome, HasReply

LEMMA ChildIsSeen ==
  ASSUME TypeOK, NEW p \in Procs, Here(p), Here(p)', Shown(p), Shown(p)',
         Child(p) \/ ChildLeaves(p)
  PROVE  SeenStep(p) \/ SeenSame(p)
<1> USE DEF Stage, Running, Outcome, ChildAlive
<1>1. UNCHANGED <<msg, prev, hpc, ret, wpc, qi, q>>
  BY DEF Child, ChildLeaves, hostVars, workerVars
<1>2. Flow(p) /\ Flow(p)' /\ Open(p)
  BY DEF Here
<1>3. Stage(p)' = Stage(p) /\ Outcome(p)' = Outcome(p)
  BY <1>1
<1>4. UNCHANGED stdout => HasReply(p)' = HasReply(p)
  BY <1>1 DEF HasReply, CompleteReplies, Queued
<1>5. CASE ChildReads(p) \/ ChildWorks(p) \/ ChildLogs(p)
  <2>1. UNCHANGED stdout /\ cpc[p] \in Phases /\ cpc'[p] \in Phases
    BY <1>5 DEF ChildReads, ChildWorks, ChildLogs, pipeVars, Phases, TypeOK
  <2> QED
    BY <1>1, <1>3, <1>4, <2>1 DEF SeenSame
<1>6. CASE ChildReplies(p)
  <2>1. /\ cpc[p] \in {"reply", "replyBody"} /\ cpc'[p] \in {"replyBody", "idle"}
        /\ UNCHANGED stdin
    BY <1>6 DEF ChildReplies, TypeOK
  <2>2. cpc[p] \in Phases /\ cpc'[p] \in Phases
    BY <2>1 DEF Phases
  <2>3. hpc[p] = "read" /\ stdin[p] = <<>> /\ ~Replied(p)
    BY <1>2, <2>1
    DEF Flow, Between, Travelling, Incoming, Lost, Served, Working, Replying, CutShort,
        Replied, Resting, ChildGone
  <2>4. cpc'[p] = "idle" => Replied(p)'
    BY <1>1, <1>2, <2>1, <2>3, Tuples
    DEF Flow, Between, Travelling, Incoming, Lost, Served, Working, Replying, CutShort,
        ChildGone, Message
  <2>5. cpc'[p] = "replyBody" => ~Replied(p)'
    BY DEF Replied, Resting
  <2>6. (HasReply(p) <=> Replied(p)) /\ (HasReply(p)' <=> Replied(p)')
    BY <1>1, <2>3 DEF Shown
  <2>7. Running(p) /\ Running(p)' /\ Stage(p) = "asked"
    BY <1>1, <2>2, <2>3
  <2> HIDE DEF Running, Stage, Outcome
  <2> QED
    BY <1>3, <2>1, <2>3, <2>4, <2>5, <2>6, <2>7 DEF SeenSame, SeenComplete, SeenStep, HasReply
<1>7. CASE Dies(p) /\ cpc[p] \in Phases
  <2>1. UNCHANGED stdout /\ ~ChildAlive(p)'
    BY <1>7 DEF Dies, Phases, TypeOK
  <2> QED
    BY <1>1, <1>3, <1>4, <1>7, <2>1 DEF SeenSame, SeenGoDown, SeenStep
<1>8. CASE ChildExits(p)
  <2>1. UNCHANGED stdout /\ ~ChildAlive(p) /\ ~ChildAlive(p)'
    BY <1>8 DEF ChildExits, pipeVars, Phases, TypeOK
  <2> QED
    BY <1>1, <1>3, <1>4, <2>1 DEF SeenSame
<1>9. ChildStops(p) \/ ChildLeaves(p) => Dies(p) /\ cpc[p] \in Phases
  BY ProcessAssumption DEF ChildStops, ChildLeaves, Phases
<1> QED
  BY <1>5, <1>6, <1>7, <1>8, <1>9 DEF Child

ShownInv == \A p \in Procs : Shown(p)
WholeInv == IInv /\ FlowInv /\ ShownInv

LEMMA NextIsSeen == WholeInv /\ WholeInv' /\ [Next]_vars => [Seen!Next]_(Seen!vars)
<1> SUFFICES ASSUME WholeInv, WholeInv', [Next]_vars PROVE [Seen!Next]_(Seen!vars)
  OBVIOUS
<1>1. Typed /\ TypeOK /\ LifeInv /\ FlowInv
  BY DEF WholeInv, IInv, Typed
<1>2. \A p \in Procs : Here(p) /\ Here(p)' /\ Shown(p) /\ Shown(p)'
  BY DEF WholeInv, FlowInv, ShownInv
<1>3. ASSUME NEW x \in Procs, Untouched(x) PROVE SeenSame(x)
  BY <1>3 DEF Untouched, SeenSame, Stage, Running, ChildAlive, Outcome, HasReply,
              CompleteReplies, Queued
<1>4. ASSUME NEW p \in Procs, StepOf(p) PROVE [Seen!Next]_(Seen!vars)
  <2>1. SeenStep(p) \/ SeenSame(p)
    BY <1>1, <1>2, <1>4, CallIsSeen, WriteIsSeen, ReadIsSeen, FinishIsSeen, WorkerFlow,
       WorkerIsSeen, ChildIsSeen DEF StepOf, Host
  <2>2. \A x \in Procs : x # p => SeenSame(x)
    BY <1>1, <1>3, <1>4, OthersUntouched
  <2> QED
    BY <2>1, <2>2, SeenStepIsNext
<1>5. CASE UNCHANGED vars
  <2>1. \A x \in Procs : Untouched(x)
    BY <1>5 DEF vars, hostVars, workerVars, childVars, pipeVars, Untouched
  <2>2. \A x \in Procs : SeenSame(x)
    BY <1>3, <2>1
  <2> QED
    BY <2>2 DEF SeenSame, Seen!vars, Running, HasReply, Outcome
<1> QED
  BY <1>4, <1>5 DEF Next, StepOf

(* process_write, process_read, the worker and the pipes together are a     *)
(* service: a request is answered at most once, by a reply that was         *)
(* complete, even if the child ended right after it, and it fails only if   *)
(* the child is gone and no reply is.                                       *)
THEOREM ProcessImplementsService == Spec => ImplementsService
<1>1. IInv /\ FlowInv => WholeInv
  BY ReplyIsShown DEF WholeInv, IInv, Typed, FlowInv, ShownInv
<1>2. Init => Seen!Init
  BY DEF Init, Seen!Init, Stage, ChildAlive, Phases
<1> QED
  BY <1>1, <1>2, FlowInvariant, NextIsSeen, PTL DEF Spec, ImplementsService, Seen!Spec
=============================================================================
