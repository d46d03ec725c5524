--------------------------- MODULE ProcessProofs ----------------------------
(***************************************************************************)
(* What TLAPS proves of Process, for any number of processes, any sizes,   *)
(* capacities and bounds, and any child that may leave at any time: the    *)
(* types, the end mark behind every reply, and that process_finish frees   *)
(* the struct only after the worker has ended.                             *)
(***************************************************************************)
EXTENDS Process, SequenceTheorems, TLAPS

(* The three sets a queue item can come from do not meet. *)
LEMMA ItemFacts ==
  /\ EndMark \in Items /\ Replies \subseteq Items
  /\ EndMark # NoItem /\ EndMark \notin Replies /\ NoItem \notin Replies
  /\ NoItem \notin Items
BY DEF EndMark, NoItem, Replies, Items

LEMMA HeadTailTyped ==
  ASSUME NEW S, NEW s \in Seq(S), s # <<>>
  PROVE  Head(s) \in S /\ Tail(s) \in Seq(S)
BY HeadTailProperties

LEMMA AppendTyped ==
  ASSUME NEW S, NEW s \in Seq(S), NEW e \in S
  PROVE  Append(s, e) \in Seq(S)
BY AppendProperties

LEMMA PartFacts ==
  /\ \A x \in Parts : x.of \in Replies
  /\ \A r \in Replies : /\ [part |-> "size", of |-> r] \in Parts
                        /\ [part |-> "body", of |-> r] \in Parts
BY DEF Parts

LEMMA ReplyFacts ==
  \A r \in Replies : \A len \in Lens : [id |-> r.id, len |-> len] \in Replies
BY DEF Replies

(* Whoever is busy with a request, or with a reply, has one at hand. *)
Carried == \A p \in Procs :
  /\ hpc[p] \in {"size", "body"} => msg[p] # NoItem
  /\ cpc[p] \in Phases \ {"fresh", "idle"} => job[p] # NoItem
  /\ wpc[p] \in {"body", "inBody", "push"} => qi[p] # NoItem

Typed == TypeOK /\ Carried

LEMMA InitTyped == Init => Typed
<1> SUFFICES ASSUME Init PROVE Typed
  OBVIOUS
<1>1. \A S : <<>> \in Seq(S)
  BY EmptySeq
<1>2. 0 \in 0 .. PipeCap
  BY ProcessAssumption
<1>3. TypeOK
  BY <1>1, <1>2 DEF Init, TypeOK
<1>4. Carried
  BY DEF Init, Carried, Phases
<1> QED
  BY <1>3, <1>4 DEF Typed

LEMMA CallTyped ==
  ASSUME Typed, NEW p \in Procs, Call(p)
  PROVE  Typed'
<1> USE DEF Typed, TypeOK, Carried, HostGoto, workerVars, childVars, pipeVars
<1>1. CASE ProcessStart(p)
  BY <1>1 DEF ProcessStart, Phases
<1>2. ASSUME NEW len \in Lens, WriteCall(p, len) PROVE Typed'
  <2>1. msg[p].id \in 0 .. MaxCalls
    BY ProcessAssumption DEF Replies, NoItem
  <2>2. [id |-> msg[p].id + 1, len |-> len] \in Replies
    BY <1>2, <2>1, ProcessAssumption DEF WriteCall, Replies
  <2>3. msg' = [msg EXCEPT ![p] = [id |-> msg[p].id + 1, len |-> len]]
    BY <1>2 DEF WriteCall
  <2> QED
    BY <1>2, <2>2, <2>3, ItemFacts DEF WriteCall
<1>3. CASE FinishCall(p)
  BY <1>3 DEF FinishCall
<1> QED
  BY <1>1, <1>2, <1>3 DEF Call

LEMMA HostTyped ==
  ASSUME Typed, NEW p \in Procs, Host(p)
  PROVE  Typed'
<1> USE DEF Typed, TypeOK, Carried, HostGoto, workerVars, childVars, pipeVars
<1>1. CASE ProcessCloseStderr(p)
  BY <1>1 DEF ProcessCloseStderr
<1>2. ASSUME NEW part \in {"size", "body"}, NEW to \in {"body", "read"},
             WritePart(p, part, to), ProcessWrite(p)
      PROVE  Typed'
  <2>1. msg[p] \in Replies
    BY <1>2 DEF WritePart
  <2>2. [part |-> part, of |-> msg[p]] \in Parts
    BY <2>1, PartFacts
  <2>3. Append(stdin[p], [part |-> part, of |-> msg[p]]) \in Seq(Parts)
    BY <2>2, AppendTyped
  <2>4. stdin' \in [Procs -> Seq(Parts)]
    BY <1>2, <2>3 DEF WritePart
  <2> QED
    BY <1>2, <2>1, <2>4, ItemFacts DEF WritePart, ProcessWrite
<1>3. CASE WriteFails(p) /\ ProcessWrite(p)
  BY <1>3 DEF WriteFails, ProcessWrite
<1>4. CASE ProcessRead(p)
  <2>1. Head(q[p]) \in Items /\ Tail(q[p]) \in Seq(Items)
    BY <1>4, HeadTailTyped DEF ProcessRead
  <2> QED
    BY <1>4, <2>1 DEF ProcessRead
<1>5. CASE FinishCloseIn(p) /\ ProcessFinish(p)
  BY <1>5 DEF FinishCloseIn, FinishClose, ProcessFinish
<1>6. CASE FinishCloseOut(p) /\ ProcessFinish(p)
  BY <1>6 DEF FinishCloseOut, FinishClose, ProcessFinish
<1>7. CASE FinishCloseRest(p) /\ ProcessFinish(p)
  BY <1>7 DEF FinishCloseRest, FinishClose, ProcessFinish
<1>8. CASE FinishDrain(p) /\ ProcessFinish(p)
  <2>1. Tail(q[p]) \in Seq(Items)
    BY <1>8, HeadTailTyped DEF FinishDrain
  <2> QED
    BY <1>8, <2>1 DEF FinishDrain, ProcessFinish
<1>9. CASE FinishFree(p) /\ ProcessFinish(p)
  BY <1>9 DEF FinishFree, ProcessFinish
<1>10. ProcessWrite(p) =>
         \/ \E part \in {"size", "body"}, to \in {"body", "read"} :
              WritePart(p, part, to)
         \/ WriteFails(p)
  BY DEF ProcessWrite
<1> QED
  BY <1>1, <1>2, <1>3, <1>4, <1>5, <1>6, <1>7, <1>8, <1>9, <1>10
  DEF Host, ProcessFinish

LEMMA WorkerTyped ==
  ASSUME Typed, NEW p \in Procs, Worker(p)
  PROVE  Typed'
<1> USE DEF Typed, TypeOK, Carried, hostVars, childVars, Worker
<1>1. CASE BeginRead(p, "size", "inSize") /\ UNCHANGED <<stdout, q>>
  BY <1>1 DEF BeginRead
<1>2. CASE BeginRead(p, "body", "inBody") /\ UNCHANGED <<stdout, q>>
  BY <1>2 DEF BeginRead
<1>3. CASE GotSize(p) /\ UNCHANGED q
  <2>1. Head(stdout[p]) \in Parts /\ Tail(stdout[p]) \in Seq(Parts)
    BY <1>3, HeadTailTyped DEF GotSize
  <2>2. Head(stdout[p]).of \in Replies /\ Head(stdout[p]).of \in Items
    BY <2>1, PartFacts, ItemFacts
  <2>3. /\ qi' = [qi EXCEPT ![p] = Head(stdout[p]).of]
        /\ heap' = [heap EXCEPT ![p] = heap[p] \union {Head(stdout[p]).of}]
        /\ \E to \in {"body", "push"} : wpc' = [wpc EXCEPT ![p] = to]
    BY <1>3 DEF GotSize
  <2> QED
    BY <1>3, <2>1, <2>2, <2>3, ItemFacts DEF GotSize
<1>4. CASE NoSize(p) /\ UNCHANGED q
  BY <1>4 DEF NoSize
<1>5. CASE GotBody(p) /\ UNCHANGED q
  <2>1. Tail(stdout[p]) \in Seq(Parts)
    BY <1>5, HeadTailTyped DEF GotBody
  <2> QED
    BY <1>5, <2>1 DEF GotBody
<1>6. CASE NoBody(p) /\ UNCHANGED q
  BY <1>6 DEF NoBody
<1>7. CASE WorkerPushes(p)
  <2>1. qi[p] \in Items
    BY <1>7, ItemFacts DEF WorkerPushes
  <2>2. Append(q[p], qi[p]) \in Seq(Items)
    BY <2>1, AppendTyped
  <2> QED
    BY <1>7, <2>2 DEF WorkerPushes
<1>8. CASE WorkerEnds(p)
  <2>1. Append(q[p], EndMark) \in Seq(Items)
    BY ItemFacts, AppendTyped
  <2> QED
    BY <1>8, <2>1, ItemFacts DEF WorkerEnds
<1> QED
  BY <1>1, <1>2, <1>3, <1>4, <1>5, <1>6, <1>7, <1>8 DEF WorkerReads

(* The part of Typed that the child can change. *)
ChildTypes ==
  /\ cpc \in [Procs -> {"none", "dying", "exited"} \union Phases]
  /\ job \in [Procs -> Replies \union {NoItem}]
  /\ stdin \in [Procs -> Seq(Parts)]
  /\ stdout \in [Procs -> Seq(Parts)]
  /\ stderr \in [Procs -> 0 .. PipeCap]
  /\ \A p \in Procs : cpc[p] \in Phases \ {"fresh", "idle"} => job[p] # NoItem

LEMMA ChildTyped ==
  ASSUME Typed, NEW p \in Procs, Child(p) \/ ChildLeaves(p)
  PROVE  Typed'
<1>1. UNCHANGED <<hostVars, q, heap, workerVars, closeWaits>>
  BY DEF Child, ChildLeaves
<1>2. ChildTypes
  BY DEF Typed, TypeOK, Carried, ChildTypes
<1>3. SUFFICES ChildTypes'
  BY <1>1, <1>3
  DEF Typed, TypeOK, Carried, ChildTypes, hostVars, workerVars, Phases
<1> USE DEF ChildTypes, Phases
<1>4. CASE ChildReads(p)
  <2>1. Head(stdin[p]) \in Parts /\ Tail(stdin[p]) \in Seq(Parts)
    BY <1>2, <1>4, HeadTailTyped DEF ChildReads
  <2>2. Head(stdin[p]).of \in Replies /\ Head(stdin[p]).of # NoItem
    BY <2>1, PartFacts, ItemFacts
  <2>3. stdin' \in [Procs -> Seq(Parts)] /\ UNCHANGED <<stdout, stderr>>
    BY <1>2, <1>4, <2>1 DEF ChildReads
  <2>4. CASE /\ cpc[p] \in {"fresh", "idle"}
             /\ job' = [job EXCEPT ![p] = Head(stdin[p]).of]
             /\ \E to \in {"body", "work"} : cpc' = [cpc EXCEPT ![p] = to]
    BY <1>2, <2>2, <2>3, <2>4
  <2>5. CASE cpc[p] = "body" /\ cpc' = [cpc EXCEPT ![p] = "work"] /\ UNCHANGED job
    BY <1>2, <2>3, <2>5
  <2> QED
    BY <1>4, <2>4, <2>5 DEF ChildReads
<1>5. CASE ChildWorks(p)
  BY <1>2, <1>5 DEF ChildWorks, pipeVars
<1>6. CASE ChildLogs(p)
  <2>1. CASE stderr[p] < PipeCap /\ stderr' = [stderr EXCEPT ![p] = @ + 1]
    <3>1. stderr[p] + 1 \in 0 .. PipeCap
      BY <1>2, <2>1, ProcessAssumption
    <3>2. stderr' \in [Procs -> 0 .. PipeCap]
      BY <1>2, <2>1, <3>1
    <3> QED
      BY <1>2, <1>6, <3>2 DEF ChildLogs
  <2>2. CASE UNCHANGED stderr
    BY <1>2, <1>6, <2>2 DEF ChildLogs
  <2> QED
    BY <1>6, <2>1, <2>2 DEF ChildLogs
<1>7. CASE ChildReplies(p) /\ cpc[p] = "reply"
  <2>1. PICK len \in Lens :
          LET answer == [id |-> job[p].id, len |-> len]
          IN  /\ stdout' = [stdout EXCEPT ![p] =
                              Append(@, [part |-> "size", of |-> answer])]
              /\ job' = [job EXCEPT ![p] = answer]
              /\ cpc' = [cpc EXCEPT ![p] =
                           IF len # 0 THEN "replyBody" ELSE "idle"]
    BY <1>7 DEF ChildReplies
  <2>2. PICK answer \in Replies : answer = [id |-> job[p].id, len |-> len]
    BY <1>2, <1>7, ReplyFacts
  <2>3. Append(stdout[p], [part |-> "size", of |-> answer]) \in Seq(Parts)
    BY <1>2, <2>2, PartFacts, AppendTyped
  <2>4. stdout' \in [Procs -> Seq(Parts)]
    BY <1>2, <2>1, <2>2, <2>3
  <2>5. /\ job' = [job EXCEPT ![p] = answer] /\ answer # NoItem
        /\ \E to \in {"replyBody", "idle"} : cpc' = [cpc EXCEPT ![p] = to]
    BY <2>1, <2>2, ItemFacts
  <2>6. UNCHANGED <<stdin, stderr>>
    BY <1>7 DEF ChildReplies
  <2> QED
    BY <1>2, <2>4, <2>5, <2>6
<1>8. CASE ChildReplies(p) /\ cpc[p] # "reply"
  <2>1. /\ cpc[p] = "replyBody" /\ UNCHANGED <<job, stdin, stderr>>
        /\ cpc' = [cpc EXCEPT ![p] = "idle"]
        /\ stdout' = [stdout EXCEPT ![p] =
                        Append(@, [part |-> "body", of |-> job[p]])]
    BY <1>8 DEF ChildReplies
  <2>2. Append(stdout[p], [part |-> "body", of |-> job[p]]) \in Seq(Parts)
    BY <1>2, <2>1, PartFacts, AppendTyped
  <2> QED
    BY <1>2, <2>1, <2>2
<1>9. CASE Dies(p)
  BY <1>2, <1>9, EmptySeq DEF Dies
<1>10. CASE ChildExits(p)
  BY <1>2, <1>10 DEF ChildExits, pipeVars
<1> QED
  BY <1>4, <1>5, <1>6, <1>7, <1>8, <1>9, <1>10 DEF Child, ChildStops, ChildLeaves

LEMMA StutterTyped ==
  ASSUME Typed, UNCHANGED vars
  PROVE  Typed'
BY DEF Typed, TypeOK, Carried, vars, hostVars, workerVars, childVars, pipeVars

LEMMA NextTyped == Typed /\ [Next]_vars => Typed'
BY CallTyped, HostTyped, WorkerTyped, ChildTyped, StutterTyped DEF Next

LEMMA TypedInvariant == Spec => []Typed
BY InitTyped, NextTyped, PTL DEF Spec

(* Every variable keeps its type: the queue holds items and never NULL, the *)
(* pipes hold parts of requests and replies.                                *)
THEOREM ProcessTypeCorrect == Spec => []TypeOK
BY TypedInvariant, PTL DEF Typed

-----------------------------------------------------------------------------

(* Where the life of the struct and the life of the worker meet.  A worker  *)
(* that has not ended has left no end mark behind; the end mark is the last *)
(* item, in the queue or behind it; process_finish is past its drain only   *)
(* behind the end mark.                                                     *)
Life(p) ==
  /\ mem[p] = "none" <=> hpc[p] = "none"
  /\ mem[p] = "freed" <=> hpc[p] = "gone"
  /\ wpc[p] = "none" <=> hpc[p] = "none"
  /\ wpc[p] = "none" => q[p] = <<>> /\ prev[p] = NoItem

Mark(p) ==
  /\ wpc[p] # "done" =>
       /\ \A i \in 1 .. Len(q[p]) : q[p][i] # EndMark
       /\ prev[p] # EndMark
       /\ hpc[p] \notin {"free", "gone"}
  /\ \A i \in 1 .. Len(q[p]) : q[p][i] = EndMark => i = Len(q[p])
  /\ prev[p] = EndMark \/ hpc[p] \in {"free", "gone"} => q[p] = <<>>

Closed(p) ==
  /\ hpc[p] \in {"closeOut", "closeRest", "drain", "free", "gone"}
       => "in_w" \notin handles[p]
  /\ hpc[p] \in {"closeRest", "drain", "free", "gone"}
       => "out_r" \notin handles[p]
  /\ hpc[p] \in {"drain", "free", "gone"} => handles[p] = {}
  /\ hpc[p] = "gone" => prev[p] = NoItem

LifeInv == \A p \in Procs : Life(p) /\ Mark(p) /\ Closed(p)

LEMMA InitLife == Init => LifeInv
<1> SUFFICES ASSUME Init, NEW p \in Procs PROVE Life(p) /\ Mark(p) /\ Closed(p)
  BY DEF LifeInv
<1>1. Len(<<>>) = 0
  BY EmptySeq
<1> QED
  BY <1>1, ItemFacts DEF Init, Life, Mark, Closed

(* What an end mark does to a queue that has none: it is the last, and the  *)
(* only one.                                                                *)
LEMMA AppendMark ==
  ASSUME NEW s \in Seq(Items), NEW e \in Items,
         \A i \in 1 .. Len(s) : s[i] # EndMark
  PROVE  \A i \in 1 .. Len(Append(s, e)) :
           Append(s, e)[i] = EndMark => i = Len(Append(s, e)) /\ e = EndMark
BY AppendProperties

(* Behind the end mark nothing is left; before it the rest is as it was.    *)
LEMMA TailMark ==
  ASSUME NEW s \in Seq(Items), s # <<>>,
         \A i \in 1 .. Len(s) : s[i] = EndMark => i = Len(s)
  PROVE  /\ \A i \in 1 .. Len(Tail(s)) : Tail(s)[i] = EndMark => i = Len(Tail(s))
         /\ \A i \in 1 .. Len(Tail(s)) : Tail(s)[i] = s[i + 1] /\ i + 1 \in 1 .. Len(s)
         /\ Head(s) = s[1] /\ 1 \in 1 .. Len(s)
         /\ Head(s) = EndMark => Tail(s) = <<>>
<1>1. PICK n \in Nat : n + 1 = Len(s)
  BY EmptySeq
<1>2. Head(s) = s[1] /\ 1 \in 1 .. n + 1
  BY <1>1
<1>3. /\ Tail(s) \in Seq(Items) /\ Len(Tail(s)) = n
      /\ \A i \in 1 .. n : Tail(s)[i] = s[i + 1]
  BY <1>1, HeadTailProperties
<1>4. ASSUME NEW i \in 1 .. n
      PROVE  i + 1 \in 1 .. n + 1 /\ (i + 1 = n + 1 => i = n)
  BY <1>1
<1>5. \A i \in 1 .. n + 1 : s[i] = EndMark => i = n + 1
  BY <1>1
<1>6. \A i \in 1 .. n : Tail(s)[i] = EndMark => i = n
  BY <1>3, <1>4, <1>5
<1>7. Head(s) = EndMark => n = 0
  BY <1>1, <1>2, <1>5
<1>8. Head(s) = EndMark => Tail(s) = <<>>
  BY <1>3, <1>7, EmptySeq
<1> QED
  BY <1>1, <1>2, <1>3, <1>4, <1>6, <1>8

(* A step of one process leaves the others alone. *)
LEMMA OthersLive ==
  ASSUME LifeInv, NEW p \in Procs, NEW x \in Procs, x # p,
         mem'[x] = mem[x], handles'[x] = handles[x], hpc'[x] = hpc[x],
         prev'[x] = prev[x], wpc'[x] = wpc[x], q'[x] = q[x]
  PROVE  Life(x)' /\ Mark(x)' /\ Closed(x)'
BY DEF LifeInv, Life, Mark, Closed

LEMMA HostLife ==
  ASSUME TypeOK, LifeInv, NEW p \in Procs, Host(p) \/ Call(p)
  PROVE  Life(p)' /\ Mark(p)' /\ Closed(p)'
<1>1. Life(p) /\ Mark(p) /\ Closed(p)
  BY DEF LifeInv
<1>2. /\ q[p] \in Seq(Items) /\ q \in [Procs -> Seq(Items)]
      /\ hpc \in [Procs -> {"none", "started", "idle", "size", "body", "read",
                  "closeIn", "closeOut", "closeRest", "drain", "free", "gone"}]
      /\ mem \in [Procs -> {"none", "live", "freed"}]
      /\ handles \in [Procs -> SUBSET HandleFields]
      /\ prev \in [Procs -> Items \union {NoItem}]
      /\ wpc \in [Procs -> {"none", "size", "inSize", "body", "inBody", "push",
                            "end", "done"}]
  BY DEF TypeOK
<1> USE DEF Life, Mark, Closed, HostGoto
<1>3. CASE ProcessStart(p)
  <2>1. Len(<<>>) = 0
    BY EmptySeq
  <2> QED
    BY <1>1, <1>2, <1>3, <2>1, ItemFacts DEF ProcessStart
<1>4. CASE ProcessCloseStderr(p)
  BY <1>1, <1>2, <1>4 DEF ProcessCloseStderr, workerVars
<1>5. ASSUME NEW len \in Lens, WriteCall(p, len)
      PROVE  Life(p)' /\ Mark(p)' /\ Closed(p)'
  BY <1>1, <1>2, <1>5 DEF WriteCall, workerVars
<1>6. CASE ProcessWrite(p)
  <2>1. /\ UNCHANGED <<mem, handles, prev, q, wpc>>
        /\ hpc[p] \in {"size", "body"}
        /\ \E to \in {"body", "read", "idle"} : hpc' = [hpc EXCEPT ![p] = to]
    BY <1>6 DEF ProcessWrite, WritePart, WriteFails, workerVars
  <2> QED
    BY <1>1, <1>2, <2>1
<1>7. CASE ProcessRead(p)
  <2>1. /\ q[p] # <<>> /\ q' = [q EXCEPT ![p] = Tail(q[p])]
        /\ prev' = [prev EXCEPT ![p] = Head(q[p])]
        /\ hpc[p] = "read" /\ hpc' = [hpc EXCEPT ![p] = "idle"]
        /\ UNCHANGED <<mem, handles, wpc>>
    BY <1>7 DEF ProcessRead, workerVars
  <2>2. q'[p] = Tail(q[p]) /\ prev'[p] = Head(q[p])
    BY <1>2, <2>1
  <2> QED
    BY <1>1, <1>2, <2>1, <2>2, TailMark
<1>8. CASE FinishCall(p)
  BY <1>1, <1>2, <1>8 DEF FinishCall, workerVars
<1>9. CASE (FinishCloseIn(p) \/ FinishCloseOut(p)) /\ ProcessFinish(p)
  BY <1>1, <1>2, <1>9
  DEF FinishCloseIn, FinishCloseOut, FinishClose, ProcessFinish, workerVars
<1>10. CASE FinishCloseRest(p) /\ ProcessFinish(p)
  BY <1>1, <1>2, <1>10
  DEF FinishCloseRest, FinishClose, ProcessFinish, workerVars, HandleFields
<1>11. CASE FinishDrain(p) /\ ProcessFinish(p)
  <2>1. /\ q[p] # <<>> /\ q' = [q EXCEPT ![p] = Tail(q[p])]
        /\ hpc[p] = "drain"
        /\ hpc' = [hpc EXCEPT ![p] = IF Head(q[p]) = EndMark THEN "free" ELSE "drain"]
        /\ UNCHANGED <<mem, handles, wpc, prev>>
    BY <1>11 DEF FinishDrain, ProcessFinish, workerVars
  <2>2. q'[p] = Tail(q[p]) /\ prev'[p] # EndMark
    BY <1>1, <1>2, <2>1
  <2>3. CASE Head(q[p]) = EndMark
    BY <1>1, <1>2, <2>1, <2>2, <2>3, TailMark
  <2>4. CASE Head(q[p]) # EndMark
    BY <1>1, <1>2, <2>1, <2>2, <2>4, TailMark
  <2> QED
    BY <2>3, <2>4
<1>12. CASE FinishFree(p) /\ ProcessFinish(p)
  <2>1. /\ hpc[p] = "free" /\ hpc' = [hpc EXCEPT ![p] = "gone"]
        /\ mem' = [mem EXCEPT ![p] = "freed"]
        /\ prev' = [prev EXCEPT ![p] = NoItem]
        /\ UNCHANGED <<handles, q, wpc>>
    BY <1>12 DEF FinishFree, ProcessFinish, workerVars
  <2> QED
    BY <1>1, <1>2, <2>1, ItemFacts
<1> QED
  BY <1>3, <1>4, <1>5, <1>6, <1>7, <1>8, <1>9, <1>10, <1>11, <1>12
  DEF Host, Call, ProcessFinish

LEMMA WorkerLife ==
  ASSUME TypeOK, Carried, LifeInv, NEW p \in Procs, Worker(p)
  PROVE  Life(p)' /\ Mark(p)' /\ Closed(p)'
<1>1. Life(p) /\ Mark(p) /\ Closed(p)
  BY DEF LifeInv
<1>2. /\ q[p] \in Seq(Items) /\ q \in [Procs -> Seq(Items)]
      /\ wpc \in [Procs -> {"none", "size", "inSize", "body", "inBody", "push",
                            "end", "done"}]
      /\ UNCHANGED <<mem, handles, prev, hpc>>
  BY DEF TypeOK, Worker, hostVars
<1> USE DEF Life, Mark, Closed
<1>3. ASSUME UNCHANGED q, wpc[p] \notin {"none", "done"},
             \E to \in {"inSize", "inBody", "body", "push", "end"} :
               wpc' = [wpc EXCEPT ![p] = to]
      PROVE  Life(p)' /\ Mark(p)' /\ Closed(p)'
  BY <1>1, <1>2, <1>3
<1>4. ASSUME NEW e \in Items, wpc[p] \notin {"none", "done"},
             q' = [q EXCEPT ![p] = Append(q[p], e)],
             \/ e # EndMark /\ wpc' = [wpc EXCEPT ![p] = "size"]
             \/ wpc' = [wpc EXCEPT ![p] = "done"]
      PROVE  Life(p)' /\ Mark(p)' /\ Closed(p)'
  <2>1. q'[p] = Append(q[p], e)
    BY <1>2, <1>4
  <2>2. \A i \in 1 .. Len(q[p]) : q[p][i] # EndMark
    BY <1>1, <1>4
  <2>3. \A i \in 1 .. Len(q'[p]) :
          q'[p][i] = EndMark => i = Len(q'[p]) /\ e = EndMark
    BY <1>2, <2>1, <2>2, AppendMark
  <2> QED
    BY <1>1, <1>2, <1>4, <2>3
<1>5. CASE WorkerReads(p) /\ UNCHANGED q
  <2>1. /\ wpc[p] \notin {"none", "done"}
        /\ \E to \in {"inSize", "inBody", "body", "push", "end"} :
             wpc' = [wpc EXCEPT ![p] = to]
    BY <1>5 DEF WorkerReads, BeginRead, GotSize, NoSize, GotBody, NoBody, ReadFails
  <2> QED
    BY <1>3, <1>5, <2>1
<1>6. CASE WorkerPushes(p)
  <2>1. qi[p] \in Items /\ qi[p] # EndMark
    BY <1>6, ItemFacts DEF WorkerPushes, TypeOK, Carried
  <2> QED
    BY <1>4, <1>6, <2>1 DEF WorkerPushes
<1>7. CASE WorkerEnds(p)
  BY <1>4, <1>7, ItemFacts DEF WorkerEnds
<1> QED
  BY <1>5, <1>6, <1>7 DEF Worker

(* Only the process of the step changes. *)
LEMMA StepIsLocal ==
  ASSUME TypeOK, NEW p \in Procs, Call(p) \/ Host(p) \/ Worker(p),
         NEW x \in Procs, x # p
  PROVE  /\ mem'[x] = mem[x] /\ handles'[x] = handles[x] /\ hpc'[x] = hpc[x]
         /\ prev'[x] = prev[x] /\ wpc'[x] = wpc[x] /\ q'[x] = q[x]
<1> USE DEF TypeOK, HostGoto, hostVars, workerVars
<1>1. CASE Call(p)
  BY <1>1 DEF Call, ProcessStart, WriteCall, FinishCall
<1>2. CASE Host(p)
  <2>1. CASE ProcessCloseStderr(p) \/ ProcessRead(p)
    BY <2>1 DEF ProcessCloseStderr, ProcessRead
  <2>2. CASE ProcessWrite(p)
    BY <2>2 DEF ProcessWrite, WritePart, WriteFails
  <2>3. CASE ProcessFinish(p)
    BY <2>3 DEF ProcessFinish, FinishCloseIn, FinishCloseOut, FinishCloseRest,
                FinishClose, FinishDrain, FinishFree
  <2> QED
    BY <1>2, <2>1, <2>2, <2>3 DEF Host
<1>3. CASE Worker(p)
  BY <1>3 DEF Worker, WorkerReads, BeginRead, GotSize, NoSize, GotBody, NoBody,
              WorkerPushes, WorkerEnds
<1> QED
  BY <1>1, <1>2, <1>3

IInv == Typed /\ LifeInv

LEMMA NextIInv == IInv /\ [Next]_vars => IInv'
<1> SUFFICES ASSUME IInv, [Next]_vars PROVE LifeInv'
  BY NextTyped DEF IInv
<1>1. TypeOK /\ Carried /\ LifeInv
  BY DEF IInv, Typed
<1>2. ASSUME NEW p \in Procs, Call(p) \/ Host(p) \/ Worker(p) PROVE LifeInv'
  <2>1. Life(p)' /\ Mark(p)' /\ Closed(p)'
    BY <1>1, <1>2, HostLife, WorkerLife
  <2>2. \A x \in Procs : x # p => Life(x)' /\ Mark(x)' /\ Closed(x)'
    BY <1>1, <1>2, StepIsLocal, OthersLive
  <2> QED
    BY <2>1, <2>2 DEF LifeInv
<1>3. CASE UNCHANGED <<hostVars, q, workerVars>>
  BY <1>1, <1>3 DEF LifeInv, Life, Mark, Closed, hostVars, workerVars
<1>4. \/ UNCHANGED <<hostVars, q, workerVars>>
      \/ \E p \in Procs : Call(p) \/ Host(p) \/ Worker(p)
  BY DEF Next, vars, Child, ChildLeaves
<1> QED
  BY <1>2, <1>3, <1>4

LEMMA InvariantIInv == Spec => []IInv
<1>1. Init => IInv
  BY InitTyped, InitLife DEF IInv
<1> QED
  BY <1>1, NextIInv, PTL DEF Spec

(* The end mark is the last item of a worker that has ended. *)
THEOREM EndMarkCorrect == Spec => []EndMarkIsLast
<1>1. IInv => EndMarkIsLast
  BY DEF IInv, LifeInv, Mark, EndMarkIsLast, Queued
<1> QED
  BY <1>1, InvariantIInv, PTL

(* Draining the queue to the end mark replaces thrd_join: when              *)
(* process_finish frees the struct, the worker has ended, every reply it    *)
(* queued is freed and every handle is closed, wherever worker and child    *)
(* stood when process_finish was called.                                    *)
THEOREM FreedWhenUnusedCorrect == Spec => []FreedWhenUnused
<1>1. IInv => FreedWhenUnused
  BY DEF IInv, LifeInv, Life, Mark, Closed, FreedWhenUnused
<1> QED
  BY <1>1, InvariantIInv, PTL
=============================================================================
