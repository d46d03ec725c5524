----------------------------- MODULE BridgeView -----------------------------
(***************************************************************************)
(* What the one view holds while a call is under way, and what a call      *)
(* takes home: for any number of callers, programs and images, children    *)
(* that may leave at any time, and failures at every step.                 *)
(***************************************************************************)
EXTENDS BridgeProofs

(* The child has not come to its work for the last request yet, or it has   *)
(* done it and its reply is not yet given up.                               *)
Undrawn(p) ==
  \/ hpc[p] = "size"
  \/ hpc[p] \in {"body", "read"} /\ (stdin[p] # <<>> \/ cpc[p] \in {"body", "work"})
Drawn(p) ==
  \/ hpc[p] = "read" /\ (cpc[p] \in {"log", "reply", "replyBody"} \/ Replied(p))
  \/ hpc[p] = "idle" /\ ret[p] = "ok"

LEMMA MessageFacts ==
  ASSUME NEW r, NEW s
  PROVE  /\ Message(r) # <<>> /\ Message(r) # <<BodyPart(s)>>
         /\ <<SizePart(r)>> # <<BodyPart(s)>> /\ <<BodyPart(r)>> # <<>>
<1>1. /\ <<SizePart(r)>>[1] = SizePart(r) /\ <<BodyPart(s)>>[1] = BodyPart(s)
      /\ <<SizePart(r), BodyPart(r)>>[1] = SizePart(r)
  OBVIOUS
<1>2. SizePart(r).part = "size" /\ BodyPart(s).part = "body"
  BY DEF SizePart, BodyPart
<1> QED
  BY <1>1, <1>2, Tuples DEF Message

(* The points of a request exclude one another, as far as it matters here.  *)
LEMMA HalfIsNotWhole ==
  ASSUME NEW p \in Procs, NEW r \in Replies, NEW s \in Replies, Half(p, r)
  PROVE  ~Whole(p, s)
<1>1. r # NoItem /\ s # NoItem
  BY ItemFacts
<1>2. <<SizePart(r)>> # Message(s) \/ s.len = 0
  BY OnePart
<1>3. r = s \/ <<SizePart(r)>> # Message(s)
  BY OnePart
<1>4. /\ Message(s) # <<>> /\ <<SizePart(r)>> # <<BodyPart(s)>> /\ <<BodyPart(s)>> # <<>>
      /\ <<s>> # <<>> /\ <<s, EndMark>> # <<>> /\ <<SizePart(r)>> # <<>>
  BY MessageFacts, Tuples
<1> QED
  BY <1>1, <1>2, <1>3, <1>4 DEF Half, Whole

LEMMA DrainedIsNotWhole ==
  ASSUME NEW p \in Procs, NEW s \in Replies, Drained(p)
  PROVE  ~Whole(p, s)
<1>1. s # NoItem /\ s # EndMark
  BY ItemFacts
<1>2. /\ Message(s) # <<>> /\ <<BodyPart(s)>> # <<>>
      /\ <<s>> # <<>> /\ <<s, EndMark>> # <<>>
  BY MessageFacts, Tuples
<1>3. <<s>> # <<EndMark>> /\ <<s, EndMark>> # <<EndMark>>
  <2>1. Head(<<s>>) = s /\ Head(<<s, EndMark>>) = s /\ Head(<<EndMark>>) = EndMark
    BY Tuples
  <2> QED
    BY <1>1, <2>1
<1> QED
  BY <1>1, <1>2, <1>3 DEF Drained, Whole

(* What a process with a request does on its own, seen from the view.       *)
LEMMA ProcessDraws ==
  ASSUME Typed, LifeInv, FlowInv, NEW p \in Procs,
         Host(p) \/ Worker(p) \/ Child(p) \/ ChildLeaves(p)
  PROVE  /\ Undrawn(p)' => Undrawn(p)
         /\ Drawn(p)' => Drawn(p) \/ (cpc[p] = "work" /\ cpc'[p] \in {"log", "reply"})
         /\ Child(p) /\ cpc[p] = "work" => ~Undrawn(p)' /\ Served(p)
<1>1. /\ Flow(p) /\ Numbered(p) /\ Open(p)
      /\ hpc \in [Procs -> {"none", "started", "idle", "size", "body", "read",
                  "closeIn", "closeOut", "closeRest", "drain", "free", "gone"}]
      /\ cpc \in [Procs -> {"none", "dying", "exited"} \union Phases]
      /\ stdin \in [Procs -> Seq(Parts)] /\ q \in [Procs -> Seq(Items)]
      /\ ret \in [Procs -> {"none", "ok", "notSent", "notReceived"}]
  BY DEF FlowInv, Here, Typed, TypeOK
<1>2. cpc[p] = "work" => Served(p) /\ stdin[p] = <<>>
  BY <1>1 DEF Flow, Between, Travelling, Incoming, Lost, Served, Working, Replying,
              CutShort, Replied, Resting, ChildGone
<1>3. hpc[p] \in {"body", "read"} /\ stdin[p] # <<>> => Travelling(p)
  BY <1>1 DEF Flow, Between, Lost, Served, Working, Replying, CutShort, Replied, Resting
<1>4. hpc[p] \in {"size", "body"} => cpc[p] \notin {"work", "log", "reply", "replyBody"}
  BY <1>1 DEF Flow, Between, Travelling, Incoming, Lost, Served, Working, Replying,
              CutShort, Replied, Resting, ChildGone
<1>5. cpc[p] \in {"log", "reply", "replyBody"} => hpc[p] = "read" /\ stdin[p] = <<>>
  BY <1>1 DEF Flow, Between, Travelling, Incoming, Lost, Served, Working, Replying,
              CutShort, Replied, Resting, ChildGone
<1> USE DEF Undrawn, Drawn
<1>6. Child(p) /\ cpc[p] = "work" => ~Undrawn(p)' /\ Served(p)
  <2>1. Child(p) /\ cpc[p] = "work" => ChildWorks(p) /\ UNCHANGED hostVars
    BY DEF Child, ChildReads, ChildWorks, ChildLogs, ChildReplies, ChildStops, ChildExits
  <2> QED
    BY <1>1, <1>2, <2>1 DEF ChildWorks, hostVars, pipeVars, Served
<1> SUFFICES (Undrawn(p)' => Undrawn(p))
             /\ (Drawn(p)' => Drawn(p) \/ (cpc[p] = "work" /\ cpc'[p] \in {"log", "reply"}))
  BY <1>6
<1>7. CASE Host(p)
  <2>1. UNCHANGED cpc
    BY <1>7 DEF Host, ProcessCloseStderr, ProcessWrite, ProcessRead, ProcessFinish,
                childVars
  <2>2. CASE ProcessCloseStderr(p)
    <3>1. hpc[p] = "started" /\ hpc'[p] = "idle" /\ UNCHANGED ret
      BY <1>1, <2>2 DEF ProcessCloseStderr, HostGoto
    <3> QED
      BY <1>1, <3>1 DEF Numbered
  <2>3. CASE ProcessRead(p)
    <3>1. /\ hpc[p] = "read" /\ hpc'[p] = "idle" /\ q[p] # <<>>
          /\ ret'[p] = IF Head(q[p]) = EndMark THEN "notReceived" ELSE "ok"
      BY <1>1, <2>3 DEF ProcessRead, HostGoto
    <3>2. Replied(p) \/ q[p] = <<EndMark>>
      BY <1>1, <3>1 DEF Flow, Between, Travelling, Lost, Served, Replying, CutShort, Drained,
                        Half
    <3>3. Head(<<EndMark>>) = EndMark
      BY Tuples
    <3> QED
      BY <3>1, <3>2, <3>3
  <2>4. CASE ProcessFinish(p)
    <3>1. hpc'[p] \in Finishing
      BY <1>1, <2>4 DEF ProcessFinish, FinishCloseIn, FinishCloseOut, FinishCloseRest,
                FinishClose, FinishDrain, FinishFree, HostGoto, Finishing
    <3> QED
      BY <3>1 DEF Finishing
  <2>5. CASE WriteFails(p) /\ ProcessWrite(p)
    <3>1. hpc'[p] = "idle" /\ ret'[p] = "notSent"
      BY <1>1, <2>5 DEF WriteFails
    <3> QED
      BY <3>1
  <2>6. ASSUME NEW part \in {"size", "body"}, NEW to \in {"body", "read"},
               WritePart(p, part, to)
        PROVE  (Undrawn(p)' => Undrawn(p)) /\ (Drawn(p)' => Drawn(p))
    <3>1. /\ hpc[p] = part /\ hpc'[p] = to /\ ChildAlive(p)
          /\ stdin'[p] = Append(stdin[p], [part |-> part, of |-> msg[p]])
      BY <1>1, <2>6 DEF WritePart
    <3>2. stdin'[p] # <<>>
      <4>1. [part |-> part, of |-> msg[p]] \in Parts
        BY <1>1, <3>1, PartFacts DEF Numbered
      <4>2. \A e \in Parts : Append(stdin[p], e) # <<>>
        BY <1>1, AppendProperties
      <4> QED
        BY <3>1, <4>1, <4>2
    <3>3. ~Replied(p)'
      BY <3>2 DEF Replied, Resting
    <3>4. Undrawn(p)
      <4>1. ~Lost(p)
        BY <3>1 DEF Lost, ChildAlive, ChildGone, Phases
      <4>2. hpc[p] = "body" => Travelling(p)
        BY <1>1, <4>1 DEF Flow, Between, Served, Replying, CutShort, Replied
      <4>3. Travelling(p) => stdin[p] # <<>> \/ cpc[p] = "body"
        BY <3>1, MessageFacts, Tuples DEF Travelling, Incoming
      <4> QED
        BY <3>1, <4>2, <4>3
    <3> QED
      BY <1>4, <2>1, <3>1, <3>3, <3>4
  <2>7. ProcessWrite(p) =>
          \/ WriteFails(p)
          \/ \E part \in {"size", "body"}, to \in {"body", "read"} : WritePart(p, part, to)
    BY DEF ProcessWrite
  <2> QED
    BY <1>7, <2>2, <2>3, <2>4, <2>5, <2>6, <2>7 DEF Host
<1>8. CASE Worker(p)
  <2>1. UNCHANGED <<hpc, ret, cpc, stdin>> /\ (Replied(p)' <=> Replied(p))
    BY <1>8, WorkerFlow DEF Worker, hostVars, childVars
  <2> QED
    BY <2>1
<1>9. CASE Child(p) \/ ChildLeaves(p)
  <2>1. UNCHANGED <<hpc, ret, msg, q, qi, wpc>>
    BY <1>9 DEF Child, ChildLeaves, hostVars, workerVars
  <2>2. CASE ChildReads(p)
    <3>1. /\ stdin[p] # <<>> /\ cpc'[p] \in {"body", "work"}
          /\ cpc[p] \in {"fresh", "idle", "body"}
      BY <1>1, <2>2 DEF ChildReads
    <3>2. ~Replied(p)'
      BY <3>1 DEF Replied, Resting
    <3> QED
      BY <2>1, <3>1, <3>2
  <2>3. CASE ChildWorks(p)
    BY <1>1, <1>2, <1>9, <2>1, <2>3 DEF ChildWorks, pipeVars, ChildLeaves, Dies
  <2>4. CASE ChildLogs(p)
    BY <1>1, <1>5, <2>1, <2>4 DEF ChildLogs
  <2>5. CASE ChildReplies(p)
    <3>1. cpc[p] \in {"reply", "replyBody"} /\ cpc'[p] \in {"replyBody", "idle"}
          /\ UNCHANGED stdin
      BY <1>1, <2>5 DEF ChildReplies
    <3> QED
      BY <1>5, <2>1, <3>1
  <2>6. CASE Dies(p) \/ ChildExits(p)
    <3>1. /\ cpc'[p] \in {"dying", "exited"} /\ UNCHANGED stdout
          /\ stdin'[p] = <<>> \/ stdin'[p] = stdin[p]
      BY <1>1, <2>6 DEF Dies, ChildExits, pipeVars
    <3>2. ASSUME Replied(p)' PROVE Replied(p) \/ cpc[p] = "replyBody"
      <4>1. PICK s \in Answers(p)' : Whole(p, s)'
        BY <3>2 DEF Replied
      <4>2. hpc[p] = "read" /\ s \in Replies /\ Whole(p, s)
        BY <2>1, <3>1, <3>2, <4>1 DEF Replied, Answers, Whole
      <4>3. ~Drained(p) /\ \A r \in Replies : ~Half(p, r)
        BY <4>2, DrainedIsNotWhole, HalfIsNotWhole
      <4> QED
        BY <1>1, <4>2, <4>3 DEF Flow, Between, Travelling, Lost, Served, Replying, CutShort,
                                Answers
    <3> QED
      BY <1>5, <2>1, <3>1, <3>2
  <2> QED
    BY <1>9, <2>2, <2>3, <2>4, <2>5, <2>6 DEF Child, ChildStops, ChildLeaves
<1> QED
  BY <1>6, <1>7, <1>8, <1>9

-----------------------------------------------------------------------------

(* The variables of a call, the view and the images. *)
Taken ==
  /\ mode \in [Callers -> SUBSET {"r", "w"}]
  /\ code \in [Callers -> Codes]
  /\ reply \in [Callers -> Requests \union {NoRequest}]
  /\ asked \in [Procs -> SUBSET {"r", "w"}]
  /\ view \in [size : Requests \union {NoRequest}, body : Pixels]
  /\ image \in [Callers -> Pixels]
  /\ total \in 0 .. MaxTotal

LEMMA PixelFacts ==
  /\ Blank \in Pixels
  /\ \A r \in Requests : /\ [of |-> r, by |-> "host"] \in Pixels
                          /\ [of |-> r, by |-> "child"] \in Pixels
BY DEF Blank, Pixels

LEMMA InitTaken == BridgeInit => Taken
<1> SUFFICES ASSUME BridgeInit PROVE Taken
  OBVIOUS
<1>1. view \in [size : Requests \union {NoRequest}, body : Pixels]
  BY PixelFacts DEF BridgeInit
<1> QED
  BY <1>1, PixelFacts, BridgeAssumption DEF BridgeInit, Taken, Codes

(* The requests a caller names are requests. *)
LEMMA CallerRequests ==
  ASSUME BridgeInv, NEW p \in Procs
  PROVE  /\ <<p, msg[p].id + 1>> \in Requests
         /\ ret[p] = "ok" => <<p, prev[p].id>> \in Requests /\ prev[p].id = msg[p].id
         /\ cpc[p] = "work" => <<p, job[p].id>> \in Requests /\ job[p] = msg[p]
<1>1. TypeOK /\ Carried /\ Numbered(p) /\ Flow(p) /\ MaxCalls \in Nat
  BY ProcessAssumption DEF BridgeInv, IInv, Typed, FlowInv, Here
<1>2. msg[p].id + 1 \in 1 .. MaxCalls + 1
  <2>1. msg[p] \in Items \union {NoItem}
    BY <1>1 DEF TypeOK, Items
  <2> QED
    BY <1>1, <2>1, IdRange
<1>3. \A r \in Replies : r.id \in 1 .. MaxCalls + 1
  BY <1>1 DEF Replies
<1>4. ret[p] = "ok" => prev[p] \in Replies /\ prev[p].id = msg[p].id
  BY <1>1 DEF Numbered
<1>5. cpc[p] = "work" => job[p] = msg[p] /\ job[p] \in Replies
  BY <1>1 DEF TypeOK, Carried, Phases, Flow, Between, Travelling, Incoming, Lost, Served,
              Working, Replying, CutShort, Replied, Resting, ChildGone
<1> QED
  BY <1>2, <1>3, <1>4, <1>5 DEF Requests

LEMMA CallerTaken ==
  ASSUME BridgeInv, Taken, NEW c \in Callers,
         \/ Caller(c)
         \/ \E e \in Exes, k \in Modes : BridgeCall(c, e, k)
  PROVE  Taken'
<1>1. Pointers
  BY DEF BridgeInv
<1> USE DEF Taken
<1>2. ASSUME NEW e \in Exes, NEW k \in Modes, BridgeCall(c, e, k) PROVE Taken'
  <2>1. k \in SUBSET {"r", "w"} /\ total + 1 \in 0 .. MaxTotal
    BY <1>2, BridgeAssumption DEF BridgeCall
  <2> QED
    BY <1>2, <2>1 DEF BridgeCall
<1>3. CASE Lock(c) \/ Find(c) \/ Remove(c) \/ Start(c) \/ Put(c) \/ PutFails(c) \/ Unlock(c)
  <2>1. UNCHANGED <<mode, code, reply, asked, image, view, total>>
    BY <1>3 DEF Lock, Find, Remove, Start, Put, PutFails, Unlock, callVars
  <2> QED
    BY <2>1
<1>4. CASE StartFails(c) \/ Undone(c) \/ SendFails(c)
  BY <1>4 DEF StartFails, Undone, SendFails, Fail, Codes
<1>5. CASE ShareImage(c)
  <2>1. proc[c] \in Procs
    BY <1>1, <1>5 DEF ShareImage, Goto, Pointers, Operating
  <2>2. NextRequest(c) \in Requests
    BY <2>1, CallerRequests DEF NextRequest
  <2>3. view' \in [size : Requests \union {NoRequest}, body : Pixels]
    BY <1>5, <2>2, PixelFacts DEF ShareImage
  <2> QED
    BY <1>5, <2>3 DEF ShareImage, callVars
<1>6. CASE Send(c)
  BY <1>6 DEF Send
<1>7. CASE Answered(c)
  <2>1. proc[c] \in Procs /\ ret[proc[c]] = "ok"
    BY <1>1, <1>7 DEF Answered, Goto, Pointers, Operating
  <2>2. <<proc[c], prev[proc[c]].id>> \in Requests
    BY <2>1, CallerRequests
  <2>3. view.body \in Pixels
    OBVIOUS
  <2> QED
    BY <1>7, <2>2, <2>3 DEF Answered, Codes
<1>8. CASE PushResult(c)
  BY <1>8, PixelFacts DEF PushResult, Codes
<1> QED
  BY <1>2, <1>3, <1>4, <1>5, <1>6, <1>7, <1>8 DEF Caller

LEMMA NextTaken == BridgeInv /\ Taken /\ [BridgeNext]_allVars => Taken'
<1> SUFFICES ASSUME BridgeInv, Taken, [BridgeNext]_allVars PROVE Taken'
  OBVIOUS
<1>1. ASSUME NEW c \in Callers,
             Caller(c) \/ \E e \in Exes, k \in Modes : BridgeCall(c, e, k)
      PROVE  Taken'
  BY <1>1, CallerTaken
<1>2. CASE UNCHANGED <<callVars, view, total>>
  BY <1>2 DEF Taken, callVars
<1>3. ASSUME NEW p \in Procs, BridgeChild(p) PROVE Taken'
  <2>1. cpc[p] = "work" => <<p, job[p].id>> \in Requests
    BY CallerRequests
  <2>2. view' \in [size : Requests \union {NoRequest}, body : Pixels]
    BY <1>3, <2>1, PixelFacts DEF BridgeChild, ChildDraws, Taken
  <2> QED
    BY <1>3, <2>2 DEF BridgeChild, callVars, Taken
<1>4. ASSUME NEW p \in Procs,
             BridgeHost(p) \/ BridgeWorker(p) \/ BridgeChildLeaves(p)
      PROVE  UNCHANGED <<callVars, view, total>>
  BY <1>4 DEF BridgeHost, BridgeWorker, BridgeChildLeaves, bridgeVars
<1>5. ExitCall \/ Exit \/ UNCHANGED allVars => UNCHANGED <<callVars, view, total>>
  BY DEF ExitCall, Exit, ExitFinish, ExitFree, ExitDone, allVars, bridgeVars
<1> QED
  BY <1>1, <1>2, <1>3, <1>4, <1>5 DEF BridgeNext

LEMMA TakenInvariant == BridgeSpec => [](BridgeInv /\ Taken)
<1>1. BridgeInit => Taken
  BY InitTaken
<1>2. BridgeInv /\ Taken /\ [BridgeNext]_allVars => Taken'
  BY NextTaken
<1> QED
  BY <1>1, <1>2, BridgeInvariant, PTL DEF BridgeSpec

(* Every variable of the bridge keeps its type: a call that operates on a   *)
(* process has one, the view and the images hold pixels of requests.        *)
THEOREM BridgeTypeCorrect == BridgeSpec => []BridgeTypeOK
<1>1. BridgeInv /\ Taken => BridgeTypeOK
  <2> SUFFICES ASSUME BridgeInv, Taken PROVE BridgeTypeOK
    OBVIOUS
  <2>1. TypeOK /\ Pointers /\ Mutex
    BY DEF BridgeInv, IInv, Typed, MapInv
  <2> QED
    BY <2>1 DEF BridgeTypeOK, Taken, Pointers, Looking, Mutex
<1> QED
  BY <1>1, TakenInvariant, PTL

-----------------------------------------------------------------------------

(* What caller c inside, whose process is p, has put into the view or finds *)
(* there.                                                                   *)
Shared(c, p) ==
  /\ bpc[c] = "write" /\ mode[c] # {} => view.size = <<p, msg[p].id + 1>>
  /\ bpc[c] = "write" /\ "r" \in mode[c] =>
       view.body = [of |-> <<p, msg[p].id + 1>>, by |-> "host"]
  /\ bpc[c] = "wait" => asked[p] = mode[c]
  /\ bpc[c] = "wait" /\ mode[c] # {} => view.size = <<p, msg[p].id>>
  /\ bpc[c] = "wait" /\ "r" \in mode[c] /\ Undrawn(p) =>
       view.body = [of |-> <<p, msg[p].id>>, by |-> "host"]
  /\ bpc[c] = "wait" /\ "w" \in mode[c] /\ Drawn(p) =>
       view.body = [of |-> <<p, msg[p].id>>, by |-> "child"]

(* What its call takes home.                                                *)
Home(c, p) ==
  bpc[c] = "unlock" /\ code[c] = "OK" =>
    /\ map[exe[c]] = p /\ ret[p] = "ok" /\ reply[c] = <<p, msg[p].id>>
    /\ image[c] = IF "w" \in mode[c]
                  THEN [of |-> <<p, msg[p].id>>, by |-> "child"] ELSE Blank

(* What a call has that has not been answered.                              *)
Unanswered(c) ==
  /\ bpc[c] \notin {"unlock", "result"} => image[c] = Blank /\ code[c] = "OK"
  /\ bpc[c] = "unlock" /\ code[c] # "OK" => image[c] = Blank
  /\ bpc[c] = "unlock" /\ code[c] = "OK" => exe[c] \in Exes /\ proc[c] \in Procs

ViewInv == \A c \in Callers :
  /\ Unanswered(c)
  /\ \A p \in Procs : proc[c] = p => Shared(c, p) /\ Home(c, p)

LEMMA InitView == BridgeInit => ViewInv
BY DEF BridgeInit, ViewInv, Shared, Home, Unanswered

(* Without a step of the processes nothing happens to a request. *)
LEMMA StillDrawn ==
  ASSUME NEW p \in Procs, Untouched(p)
  PROVE  (Undrawn(p)' <=> Undrawn(p)) /\ (Drawn(p)' <=> Drawn(p))
<1>1. Replied(p)' <=> Replied(p)
  BY DEF Untouched, Replied, Resting, Whole, Answers
<1> QED
  BY <1>1 DEF Undrawn, Drawn, Untouched

(* Whoever steps leaves the others alone: one without the mutex changes     *)
(* nothing but its own variables, and with the mutex nobody else is inside. *)
LEMMA OtherCallers ==
  ASSUME BridgeInv, Taken, ViewInv, NEW c \in Callers, NEW d \in Callers, d # c,
         \/ Caller(c)
         \/ \E e \in Exes, k \in Modes : BridgeCall(c, e, k)
  PROVE  Unanswered(d)' /\ \A p \in Procs : proc'[d] = p => Shared(d, p)' /\ Home(d, p)'
<1>1. /\ Mutex /\ Pointers /\ Unanswered(d)
      /\ \A p \in Procs : proc[d] = p => Shared(d, p) /\ Home(d, p)
  BY DEF BridgeInv, MapInv, ViewInv
<1>2. /\ bpc'[d] = bpc[d]
      /\ bpc[c] \notin {"idle", "lock", "result"} => owner = c
  BY <1>1, CallerMutex
<1>3. /\ image'[d] = image[d] /\ code'[d] = code[d] /\ mode'[d] = mode[d]
      /\ exe'[d] = exe[d] /\ proc'[d] = proc[d] /\ reply'[d] = reply[d]
  BY <1>1 DEF Taken, Pointers, Caller, Lock, Find, Remove, StartFails, Start, Put, PutFails,
         Undone, ShareImage, Send, SendFails, Answered, Unlock, PushResult, BridgeCall,
         Fail, callVars
<1>4. CASE owner = c
  <2>1. bpc[d] \notin {"write", "wait", "unlock"}
    BY <1>1, <1>4 DEF Mutex, Inside
  <2> QED
    BY <1>1, <1>2, <1>3, <2>1 DEF Shared, Home, Unanswered
<1>5. CASE bpc[c] \in {"idle", "lock", "result"}
  <2>1. UNCHANGED <<vars, map, view, asked>>
    BY <1>5 DEF Goto, Caller, Lock, Find, Remove, StartFails, Start, Put, PutFails, Undone,
            ShareImage, Send, SendFails, Answered, Unlock, PushResult, BridgeCall, Fail,
            callVars
  <2> SUFFICES ASSUME NEW p \in Procs, proc[d] = p
               PROVE  Unanswered(d)' /\ Shared(d, p)' /\ Home(d, p)'
    BY <1>1, <1>2, <1>3 DEF Unanswered
  <2>2. UNCHANGED <<msg, ret>> /\ (Undrawn(p)' <=> Undrawn(p)) /\ (Drawn(p)' <=> Drawn(p))
    BY <2>1, StillDrawn DEF vars, hostVars, workerVars, childVars, pipeVars, Untouched
  <2> QED
    BY <1>1, <1>2, <1>3, <2>1, <2>2 DEF Shared, Home, Unanswered
<1> QED
  BY <1>2, <1>4, <1>5

(* The caller's own steps. *)
LEMMA CallerView ==
  ASSUME BridgeInv, Taken, ViewInv, NEW c \in Callers,
         \/ Caller(c)
         \/ \E e \in Exes, k \in Modes : BridgeCall(c, e, k)
  PROVE  Unanswered(c)' /\ \A p \in Procs : proc'[c] = p => Shared(c, p)' /\ Home(c, p)'
<1>1. /\ Pointers /\ Placed(c) /\ Unanswered(c) /\ TypeOK
      /\ \A p \in Procs : proc[c] = p => Shared(c, p) /\ Home(c, p)
  BY DEF BridgeInv, MapInv, ViewInv, IInv, Typed
<1> USE DEF Goto
<1>2. CASE \/ Lock(c) \/ Find(c) \/ Remove(c) \/ Start(c) \/ Put(c) \/ PutFails(c)
           \/ PushResult(c) \/ Unlock(c)
           \/ \E e \in Exes, k \in Modes : BridgeCall(c, e, k)
  <2>1. /\ bpc'[c] \notin {"write", "wait", "unlock"}
        /\ \/ bpc'[c] = "result"
           \/ bpc[c] = "result" /\ image'[c] = Blank /\ code'[c] = "OK"
           \/ bpc[c] \notin {"unlock", "result"} /\ UNCHANGED <<image, code>>
    BY <1>1, <1>2 DEF Lock, Find, Remove, Start, Put, PutFails, PushResult, Unlock,
                      BridgeCall, callVars, Pointers, Taken
  <2> QED
    BY <1>1, <2>1 DEF Shared, Home, Unanswered
<1>3. CASE StartFails(c) \/ Undone(c) \/ SendFails(c)
  <2>1. /\ bpc[c] \notin {"unlock", "result"} /\ bpc'[c] = "unlock"
        /\ UNCHANGED image /\ code'[c] # "OK"
    BY <1>1, <1>3 DEF StartFails, Undone, SendFails, Fail, Pointers, Taken
  <2> QED
    BY <1>1, <2>1 DEF Shared, Home, Unanswered
<1>4. CASE ShareImage(c)
  <2>1. /\ bpc[c] = "image" /\ bpc'[c] = "write" /\ proc[c] \in Procs
        /\ UNCHANGED <<msg, proc, mode, image, code>>
    BY <1>1, <1>4 DEF ShareImage, Pointers, Operating, callVars, vars, hostVars
  <2>2. mode[c] # {} => view'.size = NextRequest(c)
    BY <1>4 DEF ShareImage
  <2>3. "r" \in mode[c] => view'.body = [of |-> NextRequest(c), by |-> "host"]
    BY <1>4 DEF ShareImage
  <2> QED
    BY <1>1, <2>1, <2>2, <2>3 DEF Shared, Home, Unanswered, NextRequest
<1>5. CASE Send(c)
  <2>1. PICK len \in Lens : WriteCall(proc[c], len)
    BY <1>5 DEF Send
  <2>2. /\ bpc[c] = "write" /\ bpc'[c] = "wait" /\ proc[c] \in Procs
        /\ UNCHANGED <<proc, mode, image, code, view>> /\ asked'[proc[c]] = mode[c]
        /\ hpc'[proc[c]] = "size" /\ msg'[proc[c]].id = msg[proc[c]].id + 1
    BY <1>1, <1>5, <2>1 DEF Send, Pointers, Operating, WriteCall, HostGoto, TypeOK, Taken
  <2> QED
    BY <1>1, <2>2 DEF Shared, Home, Unanswered, Drawn
<1>6. CASE Answered(c)
  <2>1. /\ bpc[c] = "wait" /\ bpc'[c] = "unlock" /\ proc[c] \in Procs /\ exe[c] \in Exes
        /\ UNCHANGED <<proc, mode, view, exe, map, msg, ret>>
        /\ hpc[proc[c]] = "idle" /\ ret[proc[c]] = "ok"
        /\ image'[c] = IF "w" \in mode[c] THEN view.body ELSE image[c]
        /\ code'[c] = "OK" /\ reply'[c] = <<proc[c], prev[proc[c]].id>>
    BY <1>1, <1>6 DEF Answered, Pointers, Operating, Looking, vars, hostVars, Taken
  <2>2. prev[proc[c]].id = msg[proc[c]].id
    BY <2>1, CallerRequests
  <2>3. "w" \in mode[c] => view.body = [of |-> <<proc[c], msg[proc[c]].id>>, by |-> "child"]
    BY <1>1, <2>1 DEF Shared, Drawn
  <2>4. map[exe[c]] = proc[c]
    BY <1>1, <2>1 DEF Placed
  <2>5. Unanswered(c)' /\ \A p \in Procs : Shared(c, p)'
    BY <2>1 DEF Unanswered, Shared
  <2>6. image[c] = Blank
    BY <1>1, <2>1 DEF Unanswered
  <2>7. ASSUME NEW p \in Procs, proc'[c] = p PROVE Home(c, p)'
    <3>1. proc[c] = p
      BY <2>1, <2>7
    <3> QED
      BY <2>1, <2>2, <2>3, <2>4, <2>6, <3>1 DEF Home
  <2> QED
    BY <2>5, <2>7
<1> QED
  BY <1>2, <1>3, <1>4, <1>5, <1>6 DEF Caller

(* The steps of the processes: only the child of the process with a request *)
(* touches the view, and its work is what the call waits for.               *)
LEMMA ProcessView ==
  ASSUME BridgeInv, Taken, ViewInv, NEW x \in Procs,
         BridgeHost(x) \/ BridgeWorker(x) \/ BridgeChild(x) \/ BridgeChildLeaves(x)
  PROVE  ViewInv'
<1>1. /\ Pointers /\ TypeOK /\ Typed /\ LifeInv /\ FlowInv /\ Mutex /\ EntryIdle
      /\ \A c \in Callers : Placed(c)
  BY DEF BridgeInv, MapInv, IInv, Typed
<1>2. /\ UNCHANGED <<map, owner, bpc, exe, mode, proc, code, reply, asked, image, exitpc>>
      /\ StepOf(x) /\ (Host(x) \/ Worker(x) \/ Child(x) \/ ChildLeaves(x))
  BY DEF BridgeHost, BridgeWorker, BridgeChild, BridgeChildLeaves, bridgeVars, callVars,
         StepOf
<1>3. /\ Host(x) => hpc[x] # "idle"
      /\ ~Host(x) => UNCHANGED <<hpc, msg, ret>>
      /\ hpc[x] # "free" => msg'[x] = msg[x]
  BY <1>1, <1>2
  DEF Host, ProcessCloseStderr, ProcessWrite, WritePart, WriteFails, ProcessRead,
      ProcessFinish, FinishCloseIn, FinishCloseOut, FinishCloseRest, FinishClose,
      FinishDrain, FinishFree, HostGoto, Worker, Child, ChildLeaves, hostVars
<1>4. \/ UNCHANGED view
      \/ /\ Child(x) /\ cpc[x] = "work" /\ "w" \in asked[x]
         /\ view' = [view EXCEPT !.body = [of |-> <<x, job[x].id>>, by |-> "child"]]
  BY DEF BridgeHost, BridgeWorker, BridgeChild, BridgeChildLeaves, bridgeVars, ChildDraws
<1>5. cpc[x] = "work" => job[x] = msg[x] /\ hpc[x] = "read"
  BY <1>1, CallerRequests
  DEF FlowInv, Here, Flow, Between, Travelling, Incoming, Lost, Served, Working, Replying,
      CutShort, Replied, Resting, ChildGone
<1>6. SUFFICES ASSUME NEW c \in Callers
               PROVE  /\ Unanswered(c)'
                      /\ \A p \in Procs : proc[c] = p => Shared(c, p)' /\ Home(c, p)'
  BY <1>2, <1>6 DEF ViewInv
<1>7. /\ Unanswered(c) /\ Placed(c)
      /\ \A p \in Procs : proc[c] = p => Shared(c, p) /\ Home(c, p)
  BY <1>1 DEF ViewInv
<1>8. SUFFICES ASSUME NEW p \in Procs, proc[c] = p PROVE Shared(c, p)' /\ Home(c, p)'
  BY <1>2, <1>7, <1>8 DEF Unanswered
<1>9. Shared(c, p) /\ Home(c, p)
  BY <1>7, <1>8
<1>10. bpc[c] = "write" => hpc[p] = "idle" /\ UNCHANGED view
  <2>1. bpc[c] = "write" => hpc[p] = "idle" /\ owner = c
    BY <1>1, <1>7, <1>8 DEF Placed, Mutex, Inside
  <2>2. cpc[x] = "work" => bpc[owner] = "wait"
    BY <1>5, BusyIsInside
  <2> QED
    BY <1>4, <1>8, <2>1, <2>2
<1>11. bpc[c] = "unlock" /\ code[c] = "OK" => hpc[p] = "idle"
  <2> SUFFICES ASSUME bpc[c] = "unlock", code[c] = "OK" PROVE hpc[p] = "idle"
    OBVIOUS
  <2>1. map[exe[c]] = p /\ exe[c] \in Exes /\ p # Null
    BY <1>7, <1>8, <1>9, BridgeAssumption DEF Home, Unanswered
  <2>2. \A d \in Callers : bpc[d] \notin {"finish", "wait"}
    BY <1>1 DEF Mutex, Inside
  <2>3. exitpc # "finish"
    BY <1>1 DEF Mutex
  <2> QED
    BY <1>1, <2>1, <2>2, <2>3 DEF EntryIdle
<1>12. bpc[c] = "wait" => hpc[p] # "free" /\ (p # x => UNCHANGED view)
  <2>1. bpc[c] = "wait" => hpc[p] # "free" /\ owner = c
    BY <1>1, <1>7, <1>8 DEF Placed, Mutex, Inside
  <2>2. cpc[x] = "work" => proc[owner] = x
    BY <1>5, BusyIsInside
  <2> QED
    BY <1>4, <1>8, <2>1, <2>2
<1>13. CASE p # x
  <2>1. Untouched(p)
    BY <1>1, <1>2, <1>13, OthersUntouched
  <2>2. msg'[p] = msg[p] /\ ret'[p] = ret[p]
    BY <2>1 DEF Untouched
  <2>3. Undrawn(p)' <=> Undrawn(p)
    BY <2>1, StillDrawn
  <2>4. Drawn(p)' <=> Drawn(p)
    BY <2>1, StillDrawn
  <2>5. Home(c, p)'
    BY <1>2, <1>9, <2>2 DEF Home
  <2>6. Shared(c, p)'
    BY <1>2, <1>9, <1>10, <1>12, <1>13, <2>2, <2>3, <2>4 DEF Shared
  <2> QED
    BY <2>5, <2>6
<1>14. CASE p = x
  <2>1. Home(c, p)'
    BY <1>2, <1>3, <1>9, <1>11, <1>14 DEF Home
  <2>2. CASE bpc[c] = "write"
    BY <1>2, <1>3, <1>9, <1>10, <1>14, <2>1, <2>2 DEF Shared
  <2>3. CASE bpc[c] = "wait"
    <3>1. /\ Undrawn(p)' => Undrawn(p)
          /\ Drawn(p)' => Drawn(p) \/ (cpc[p] = "work" /\ cpc'[p] \in {"log", "reply"})
          /\ Child(p) /\ cpc[p] = "work" => ~Undrawn(p)'
      BY <1>1, <1>2, <1>14, ProcessDraws
    <3>2. msg'[p] = msg[p] /\ view'.size = view.size /\ asked[p] = mode[c]
      BY <1>3, <1>4, <1>9, <1>12, <1>14, <2>3 DEF Shared, Taken
    <3>3. "r" \in mode[c] /\ Undrawn(p)' =>
            view'.body = [of |-> <<p, msg[p].id>>, by |-> "host"]
      BY <1>4, <1>9, <1>14, <2>3, <3>1 DEF Shared
    <3>4. ASSUME cpc[x] = "work", cpc'[x] \in {"log", "reply"}, "w" \in mode[c]
          PROVE  view'.body = [of |-> <<p, msg[p].id>>, by |-> "child"]
      <4>1. BridgeChild(x)
        BY <1>1, <3>4
        DEF BridgeHost, Host, ProcessCloseStderr, ProcessWrite, ProcessRead, ProcessFinish,
            BridgeWorker, Worker, BridgeChildLeaves, ChildLeaves, Dies, childVars, TypeOK
      <4>2. view' = [view EXCEPT !.body = [of |-> <<x, job[x].id>>, by |-> "child"]]
        BY <1>14, <3>2, <3>4, <4>1 DEF BridgeChild, ChildDraws
      <4> QED
        BY <1>5, <1>14, <3>4, <4>2 DEF Taken
    <3>5. "w" \in mode[c] /\ Drawn(p)' =>
            view'.body = [of |-> <<p, msg[p].id>>, by |-> "child"]
      <4>1. ASSUME Drawn(p), "w" \in mode[c]
            PROVE  view'.body = [of |-> <<p, msg[p].id>>, by |-> "child"]
        BY <1>4, <1>5, <1>9, <1>14, <2>3, <4>1 DEF Shared, Taken
      <4> QED
        BY <1>14, <3>1, <3>4, <4>1
    <3> QED
      BY <1>2, <1>9, <2>1, <2>3, <3>2, <3>3, <3>5 DEF Shared
  <2>4. CASE bpc[c] \notin {"write", "wait"}
    BY <1>2, <2>1, <2>4 DEF Shared
  <2> QED
    BY <2>2, <2>3, <2>4
<1> QED
  BY <1>13, <1>14

LEMMA NextView == BridgeInv /\ Taken /\ ViewInv /\ [BridgeNext]_allVars => ViewInv'
<1> SUFFICES ASSUME BridgeInv, Taken, ViewInv, [BridgeNext]_allVars PROVE ViewInv'
  OBVIOUS
<1>1. ASSUME NEW c \in Callers,
             Caller(c) \/ \E e \in Exes, k \in Modes : BridgeCall(c, e, k)
      PROVE  ViewInv'
  BY <1>1, CallerView, OtherCallers DEF ViewInv
<1>2. CASE ExitCall \/ Exit
  <2>1. /\ UNCHANGED <<bpc, callVars>> /\ \A c \in Callers : bpc[c] = "idle"
    BY <1>2 DEF ExitCall, Exit, ExitFinish, ExitFree, ExitDone, bridgeVars, BridgeInv,
                MapInv, Mutex
  <2> QED
    BY <2>1 DEF ViewInv, Unanswered, Shared, Home, callVars
<1>3. CASE UNCHANGED allVars
  <2>1. \A p \in Procs : Untouched(p)
    BY <1>3 DEF allVars, vars, hostVars, workerVars, childVars, pipeVars, Untouched
  <2>2. \A p \in Procs : (Undrawn(p)' <=> Undrawn(p)) /\ (Drawn(p)' <=> Drawn(p))
    BY <2>1, StillDrawn
  <2>3. UNCHANGED <<bridgeVars, msg, ret>>
    BY <1>3 DEF allVars, vars, hostVars
  <2> QED
    BY <2>2, <2>3 DEF ViewInv, Unanswered, Shared, Home, bridgeVars, callVars
<1> QED
  BY <1>1, <1>2, <1>3, ProcessView DEF BridgeNext

(* All that the bridge keeps. *)
WholeBridge == BridgeInv /\ Taken /\ ViewInv

LEMMA WholeBridgeInvariant == BridgeSpec => []WholeBridge
<1>1. BridgeInit => WholeBridge
  BY InitBridge, InitTaken, InitView DEF WholeBridge
<1>2. WholeBridge /\ [BridgeNext]_allVars => WholeBridge'
  BY NextBridgeInv, NextTaken, NextView DEF WholeBridge
<1> QED
  BY <1>1, <1>2, PTL DEF BridgeSpec

(* The size and the pixels in the view are those of the request the child   *)
(* works on, however many children share the view.                          *)
THEOREM ChildSeesItsRequestCorrect == BridgeSpec => []ChildSeesItsRequest
<1>1. WholeBridge => ChildSeesItsRequest
  <2> SUFFICES ASSUME WholeBridge, NEW p \in Procs, cpc[p] = "work"
               PROVE  /\ asked[p] # {} => view.size = <<p, job[p].id>>
                      /\ "r" \in asked[p] =>
                           view.body = [of |-> <<p, job[p].id>>, by |-> "host"]
    BY DEF ChildSeesItsRequest
  <2>1. Here(p)
    BY DEF WholeBridge, BridgeInv, FlowInv
  <2>2. hpc[p] = "read" /\ job[p] = msg[p]
    BY <2>1 DEF Here, Flow, Between, Travelling, Incoming, Lost, Served, Working, Replying,
                CutShort, Replied, Resting, ChildGone
  <2>3. owner \in Callers /\ bpc[owner] = "wait" /\ proc[owner] = p
    BY <2>2, BusyIsInside DEF WholeBridge
  <2>4. Shared(owner, p)
    BY <2>3 DEF WholeBridge, ViewInv
  <2> QED
    BY <2>2, <2>3, <2>4 DEF Shared, Undrawn
<1> QED
  BY <1>1, WholeBridgeInvariant, PTL

(* A call that returns OK has the reply and the image the child made for    *)
(* it, and one that fails has its image as it was: whatever calls failed    *)
(* before, and whichever programs they used.                                *)
THEOREM CallGetsItsAnswerCorrect == BridgeSpec => []CallGetsItsAnswer
<1>1. WholeBridge => CallGetsItsAnswer
  BY DEF WholeBridge, ViewInv, Unanswered, Home, CallGetsItsAnswer, Sent
<1> QED
  BY <1>1, WholeBridgeInvariant, PTL
=============================================================================
