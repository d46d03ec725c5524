---------------------------- MODULE BridgeProofs ----------------------------
(***************************************************************************)
(* Bridge uses struct process as module Process says: each of its steps is *)
(* a step of Process or leaves the processes alone.  What ProcessProofs    *)
(* proves of the processes therefore holds in the bridge, for any number   *)
(* of callers and programs.  From where a caller is follows where its      *)
(* process is, and which processes are in the map; this holds, too, while  *)
(* the library is unloaded (module Unload).  It follows as well that the   *)
(* map is used as ProcessMap says, and that nobody inside is stuck.        *)
(***************************************************************************)
EXTENDS Unload, ProcessFlow

(* Whoever has looked up a program has its path, and whoever operates on a  *)
(* process has a pointer to a struct.                                       *)
Looking == {"lock", "find", "finish", "start", "put", "undo", "image", "write", "wait"}
Operating == {"finish", "put", "undo", "image", "write", "wait"}

Pointers ==
  /\ map \in [Exes -> Procs \union {Null}]
  /\ lost \subseteq Procs
  /\ bpc \in [Callers -> {"idle", "unlock", "result"} \union Looking]
  /\ exe \in [Callers -> Exes \union {Null}]
  /\ proc \in [Callers -> Procs \union {Null}]
  /\ \A c \in Callers : bpc[c] \in Looking => exe[c] \in Exes
  /\ \A c \in Callers : bpc[c] \in Operating => proc[c] \in Procs

LEMMA InitPointers == BridgeInit => Pointers
BY DEF BridgeInit, Pointers, Looking, Operating

(* The steps of a caller. *)
LEMMA CallerPointers ==
  ASSUME Pointers, NEW c \in Callers,
         \/ Caller(c)
         \/ \E e \in Exes, k \in Modes : BridgeCall(c, e, k)
  PROVE  Pointers'
<1> USE DEF Pointers, Looking, Operating, Goto
<1>1. ASSUME NEW e \in Exes, NEW k \in Modes, BridgeCall(c, e, k) PROVE Pointers'
  BY <1>1 DEF BridgeCall
<1>2. CASE Lock(c)
  BY <1>2 DEF Lock, callVars
<1>3. CASE Find(c)
  <2>1. exe[c] \in Exes /\ map[exe[c]] \in Procs \union {Null}
    BY <1>3 DEF Find
  <2> QED
    BY <1>3, <2>1, BridgeAssumption DEF Find
<1>4. CASE Remove(c)
  BY <1>4 DEF Remove, callVars
<1>5. CASE StartFails(c) \/ Undone(c) \/ SendFails(c)
  BY <1>5 DEF StartFails, Undone, SendFails, Fail
<1>6. CASE Start(c)
  BY <1>6 DEF Start
<1>7. CASE Put(c)
  BY <1>7 DEF Put, callVars
<1>10. CASE PutFails(c)
  BY <1>10 DEF PutFails, callVars
<1>8. CASE ShareImage(c) \/ Unlock(c)
  BY <1>8 DEF ShareImage, Unlock, callVars
<1>9. CASE Send(c) \/ Answered(c) \/ PushResult(c)
  BY <1>9 DEF Send, Answered, PushResult
<1> QED
  BY <1>1, <1>2, <1>3, <1>4, <1>5, <1>6, <1>7, <1>8, <1>9, <1>10 DEF Caller

LEMMA NextPointers == Pointers /\ [BridgeNext]_allVars => Pointers'
<1> SUFFICES ASSUME Pointers, [BridgeNext]_allVars PROVE Pointers'
  OBVIOUS
<1>1. ASSUME NEW c \in Callers,
             Caller(c) \/ \E e \in Exes, k \in Modes : BridgeCall(c, e, k)
      PROVE  Pointers'
  BY <1>1, CallerPointers
<1>2. CASE ExitCall \/ Exit
  BY <1>2 DEF Pointers, ExitCall, Exit, ExitFinish, ExitFree, ExitDone, bridgeVars, callVars
<1>3. CASE UNCHANGED <<map, lost, bpc, exe, proc>>
  BY <1>3 DEF Pointers
<1>4. ASSUME NEW p \in Procs,
             BridgeHost(p) \/ BridgeWorker(p) \/ BridgeChild(p) \/ BridgeChildLeaves(p)
      PROVE  UNCHANGED <<map, lost, bpc, exe, proc>>
  BY <1>4 DEF BridgeHost, BridgeWorker, BridgeChild, BridgeChildLeaves, bridgeVars, callVars
<1>5. UNCHANGED allVars => UNCHANGED <<map, lost, bpc, exe, proc>>
  BY DEF allVars, bridgeVars, callVars
<1> QED
  BY <1>1, <1>2, <1>3, <1>4, <1>5 DEF BridgeNext

-----------------------------------------------------------------------------

(* What a caller does to the processes. *)
LEMMA CallerUsesProcess ==
  ASSUME Pointers, NEW c \in Callers,
         \/ Caller(c)
         \/ \E e \in Exes, k \in Modes : BridgeCall(c, e, k)
  PROVE  [Next]_vars
<1> USE DEF Pointers, Looking, Operating, Goto
<1>1. CASE \/ Lock(c) \/ Remove(c) \/ StartFails(c) \/ Put(c) \/ Undone(c)
           \/ ShareImage(c) \/ SendFails(c) \/ Answered(c) \/ Unlock(c) \/ PushResult(c)
           \/ \E e \in Exes, k \in Modes : BridgeCall(c, e, k)
  BY <1>1 DEF Lock, Remove, StartFails, Put, Undone, ShareImage, SendFails, Answered,
              Unlock, PushResult, BridgeCall
<1>2. CASE Find(c)
  <2>1. map[exe[c]] \in Procs \union {Null}
    BY <1>2 DEF Find
  <2>2. UNCHANGED vars \/ (map[exe[c]] \in Procs /\ FinishCall(map[exe[c]]))
    BY <1>2, <2>1 DEF Find
  <2> QED
    BY <2>2 DEF Next, Call
<1>3. CASE Start(c)
  <2>1. \E p \in Procs : ProcessStart(p)
    BY <1>3 DEF Start
  <2> QED
    BY <2>1 DEF Next, Call
<1>4. CASE PutFails(c)
  <2>1. proc[c] \in Procs /\ FinishCall(proc[c])
    BY <1>4 DEF PutFails
  <2> QED
    BY <2>1 DEF Next, Call
<1>5. CASE Send(c)
  <2>1. proc[c] \in Procs /\ \E len \in Lens : WriteCall(proc[c], len)
    BY <1>5 DEF Send
  <2> QED
    BY <2>1 DEF Next, Call
<1> QED
  BY <1>1, <1>2, <1>3, <1>4, <1>5 DEF Caller

LEMMA BridgeUsesProcess == Pointers /\ [BridgeNext]_allVars => [Next]_vars
<1> SUFFICES ASSUME Pointers, [BridgeNext]_allVars PROVE [Next]_vars
  OBVIOUS
<1>1. ASSUME NEW c \in Callers,
             Caller(c) \/ \E e \in Exes, k \in Modes : BridgeCall(c, e, k)
      PROVE  [Next]_vars
  BY <1>1, CallerUsesProcess
<1>2. CASE ExitCall \/ Exit
  <2>1. ASSUME NEW e \in Exes, ExitFinish(e) PROVE [Next]_vars
    <3>1. map[e] \in Procs /\ FinishCall(map[e])
      BY <2>1 DEF ExitFinish, Pointers
    <3> QED
      BY <3>1 DEF Next, Call
  <2> QED
    BY <1>2, <2>1 DEF ExitCall, Exit, ExitFree, ExitDone
<1>3. ASSUME NEW p \in Procs,
             BridgeHost(p) \/ BridgeWorker(p) \/ BridgeChild(p) \/ BridgeChildLeaves(p)
      PROVE  [Next]_vars
  BY <1>3 DEF BridgeHost, BridgeWorker, BridgeChild, BridgeChildLeaves, Next
<1>4. CASE UNCHANGED allVars
  BY <1>4 DEF allVars
<1> QED
  BY <1>1, <1>2, <1>3, <1>4 DEF BridgeNext

(* The bridge calls the operations of each struct process in the order      *)
(* module Process allows, and no two of them at once: however the callers   *)
(* interleave and whatever fails.                                           *)
THEOREM BridgeImplementsProcess == BridgeSpec => Spec
<1>1. BridgeInit => Init /\ Pointers
  BY InitPointers DEF BridgeInit
<1> QED
  BY <1>1, NextPointers, BridgeUsesProcess, PTL DEF BridgeSpec, Spec

(* In the bridge, too, process_finish frees nothing its worker still uses,  *)
(* and the end mark is the last item of a worker that has ended.            *)
THEOREM BridgeFreesWhenUnused == BridgeSpec => [](FreedWhenUnused /\ EndMarkIsLast)
BY BridgeImplementsProcess, FreedWhenUnusedCorrect, EndMarkCorrect, PTL

-----------------------------------------------------------------------------

(* The steps of bridge_call between taking g_mutex and giving it back. *)
Inside == {"find", "finish", "start", "put", "undo", "image", "write", "wait", "unlock"}

(* process_finish is under way, or has returned. *)
Finishing == {"closeIn", "closeOut", "closeRest", "drain", "free", "gone"}

(* Whoever is inside has the mutex, and nobody is once bridge_exit is       *)
(* called.                                                                  *)
Mutex ==
  /\ \A c \in Callers : bpc[c] \in Inside <=> owner = c
  /\ owner \in Callers \union {Nobody}
  /\ exitpc \in {"no", "finish", "done"}
  /\ exitpc # "no" => \A c \in Callers : bpc[c] = "idle"

(* Where the process of a caller is that has the mutex. *)
Placed(c) ==
  /\ bpc[c] \in {"finish", "image", "write", "wait"} => map[exe[c]] = proc[c]
  /\ bpc[c] \in {"start", "put", "undo"} => map[exe[c]] = Null
  /\ bpc[c] \in {"put", "undo"} => (\A e \in Exes : map[e] # proc[c]) /\ proc[c] \notin lost
  /\ bpc[c] \in {"finish", "undo"} => hpc[proc[c]] \in Finishing
  /\ bpc[c] = "put" => hpc[proc[c]] \in {"started", "idle"}
  /\ bpc[c] \in {"image", "write"} => hpc[proc[c]] = "idle"
  /\ bpc[c] = "wait" => hpc[proc[c]] \in {"size", "body", "read", "idle"}

(* The map has every process once, but for those that were dropped; one     *)
(* that is not between two operations is that of the caller inside, or      *)
(* bridge_exit finishes it.                                                 *)
OneEntry == \A d, e \in Exes : d # e /\ map[d] # Null => map[d] # map[e]
EntryIdle == \A e \in Exes : map[e] # Null =>
  \/ hpc[map[e]] = "idle"
  \/ exitpc = "finish" /\ hpc[map[e]] \in Finishing
  \/ \E c \in Callers : bpc[c] \in {"finish", "wait"} /\ proc[c] = map[e]
InMap == \A p \in Procs : hpc[p] \notin {"none", "gone"} =>
  \/ \E e \in Exes : map[e] = p
  \/ \E c \in Callers : bpc[c] \in {"put", "undo"} /\ proc[c] = p
  \/ p \in lost
Dropped == \A p \in lost : hpc[p] = "idle" /\ \A e \in Exes : map[e] # p
Emptied == exitpc = "done" => \A e \in Exes : map[e] = Null

MapInv ==
  /\ Mutex /\ (\A c \in Callers : Placed(c))
  /\ OneEntry /\ EntryIdle /\ InMap /\ Dropped /\ Emptied

LEMMA InitMap == BridgeInit => MapInv
BY BridgeAssumption
DEF BridgeInit, Init, MapInv, Mutex, Placed, OneEntry, EntryIdle, InMap, Dropped, Emptied, Inside

LEMMA CallerMutex ==
  ASSUME Pointers, Mutex, NEW c \in Callers,
         \/ Caller(c)
         \/ \E e \in Exes, k \in Modes : BridgeCall(c, e, k)
  PROVE  /\ Mutex' /\ exitpc = "no" /\ exitpc' = "no"
         /\ bpc[c] \notin {"idle", "lock", "result"} => owner = c
         /\ \A d \in Callers : d # c => bpc'[d] = bpc[d]
<1>1. \E to : bpc' = [bpc EXCEPT ![c] = to]
  BY DEF Caller, Lock, Find, Remove, StartFails, Start, Put, PutFails, Undone, ShareImage,
         Send, SendFails, Answered, Unlock, PushResult, BridgeCall, Fail, Goto
<1>2. \A d \in Callers : d # c => bpc'[d] = bpc[d]
  BY <1>1 DEF Pointers
<1>3. exitpc' = exitpc
  BY DEF Caller, Lock, Find, Remove, StartFails, Start, Put, PutFails, Undone, ShareImage,
         Send, SendFails, Answered, Unlock, PushResult, BridgeCall, Fail
<1>4. exitpc = "no"
  BY DEF Mutex, Caller, Lock, Find, Remove, StartFails, Start, Put, PutFails, Undone,
         ShareImage, Send, SendFails, Answered, Unlock, PushResult, BridgeCall, Fail, Goto
<1>5. \/ bpc[c] \in Inside /\ bpc'[c] \in Inside /\ owner' = owner
      \/ bpc[c] \notin Inside /\ bpc'[c] \notin Inside /\ owner' = owner
      \/ bpc[c] = "lock" /\ bpc'[c] = "find" /\ owner = Nobody /\ owner' = c
      \/ bpc[c] = "unlock" /\ bpc'[c] = "result" /\ owner' = Nobody
  BY DEF Pointers, Inside, Caller, Lock, Find, Remove, StartFails, Start, Put, PutFails,
         Undone, ShareImage, Send, SendFails, Answered, Unlock, PushResult, BridgeCall,
         Fail, Goto
<1>6. bpc[c] \in Inside \union {"idle", "lock", "result"}
  BY DEF Pointers, Looking, Inside
<1> QED
  BY <1>2, <1>3, <1>4, <1>5, <1>6, BridgeAssumption DEF Mutex, Inside

(* A step that gives no process another place keeps the map as it is. *)
LEMMA CallerMap ==
  ASSUME Pointers, TypeOK, MapInv, NEW c \in Callers,
         \/ Caller(c)
         \/ \E e \in Exes, k \in Modes : BridgeCall(c, e, k)
  PROVE  MapInv'
<1>1. /\ Mutex /\ Placed(c) /\ OneEntry /\ EntryIdle /\ InMap /\ Dropped /\ Emptied
      /\ \A d \in Callers : Placed(d)
  BY DEF MapInv
<1>2. /\ Mutex' /\ exitpc = "no" /\ exitpc' = "no"
      /\ bpc[c] \notin {"idle", "lock", "result"} => owner = c
      /\ \A d \in Callers : d # c => bpc'[d] = bpc[d]
  BY <1>1, CallerMutex
<1>3. /\ hpc \in [Procs -> {"none", "started", "idle", "size", "body", "read",
                  "closeIn", "closeOut", "closeRest", "drain", "free", "gone"}]
      /\ map \in [Exes -> Procs \union {Null}] /\ Null \notin Procs
      /\ lost \subseteq Procs
      /\ bpc \in [Callers -> {"idle", "unlock", "result"} \union Looking]
      /\ exe \in [Callers -> Exes \union {Null}]
      /\ proc \in [Callers -> Procs \union {Null}]
      /\ bpc[c] \in Looking => exe[c] \in Exes
      /\ bpc[c] \in Operating => proc[c] \in Procs
  BY BridgeAssumption DEF Pointers, TypeOK
<1>4. ASSUME owner = c
      PROVE  \A d \in Callers : d # c => bpc[d] \notin Inside /\ bpc'[d] \notin Inside
  BY <1>1, <1>2, <1>4 DEF Mutex
<1>5. SUFFICES (\A d \in Callers : Placed(d)') /\ OneEntry' /\ EntryIdle' /\ InMap' /\ Dropped'
  BY <1>2, <1>5 DEF MapInv, Emptied
<1>6. ASSUME owner = c, Placed(c)' PROVE \A d \in Callers : Placed(d)'
  BY <1>4, <1>6 DEF Placed, Inside
<1> USE DEF OneEntry, EntryIdle, InMap, Dropped, Goto, Looking, Operating
<1>7. CASE \/ Lock(c) \/ Unlock(c) \/ PushResult(c)
           \/ \E e \in Exes, k \in Modes : BridgeCall(c, e, k)
  <2>1. /\ UNCHANGED <<map, lost, hpc>>
        /\ bpc[c] \in {"idle", "lock", "unlock", "result"}
        /\ bpc'[c] \in {"idle", "lock", "find", "result"}
        /\ \A d \in Callers : d # c => exe'[d] = exe[d] /\ proc'[d] = proc[d]
    BY <1>3, <1>7 DEF Lock, Unlock, PushResult, BridgeCall, vars, hostVars, callVars
  <2>2. \A d \in Callers : Placed(d)'
    BY <1>1, <1>2, <2>1 DEF Placed
  <2>3. EntryIdle' /\ InMap' /\ Dropped'
    BY <1>1, <1>2, <2>1
  <2> QED
    BY <1>1, <2>1, <2>2, <2>3
<1>8. CASE Find(c)
  <2>1. /\ bpc[c] = "find" /\ owner = c /\ exe[c] \in Exes /\ UNCHANGED <<map, lost, exe>>
        /\ proc'[c] = map[exe[c]]
        /\ \A d \in Callers : d # c => proc'[d] = proc[d]
        /\ \/ map[exe[c]] = Null /\ bpc'[c] = "start" /\ UNCHANGED hpc
           \/ map[exe[c]] # Null /\ bpc'[c] = "image" /\ UNCHANGED hpc
           \/ /\ map[exe[c]] # Null /\ bpc'[c] = "finish"
              /\ hpc' = [hpc EXCEPT ![map[exe[c]]] = "closeIn"]
    BY <1>2, <1>3, <1>8 DEF Find, vars, hostVars, FinishCall, HostGoto
  <2>2. map[exe[c]] # Null => hpc[map[exe[c]]] = "idle"
    BY <1>1, <1>2, <1>4, <2>1 DEF Inside
  <2>3. Placed(c)'
    BY <1>3, <2>1, <2>2 DEF Placed, Finishing
  <2>4. EntryIdle' /\ InMap'
    BY <1>1, <1>2, <1>3, <1>4, <2>1, <2>2 DEF Inside
  <2>5. Dropped'
    BY <1>1, <1>3, <2>1
  <2> QED
    BY <1>1, <1>6, <2>1, <2>3, <2>4, <2>5
<1>9. CASE Remove(c)
  <2>1. /\ bpc[c] = "finish" /\ owner = c /\ exe[c] \in Exes /\ UNCHANGED <<lost, hpc, exe, proc>>
        /\ bpc'[c] = "start" /\ map' = [map EXCEPT ![exe[c]] = Null]
        /\ hpc[proc[c]] = "gone" /\ map[exe[c]] = proc[c]
    BY <1>1, <1>2, <1>3, <1>9 DEF Remove, vars, hostVars, callVars, Placed
  <2>2. Placed(c)'
    BY <1>3, <2>1 DEF Placed
  <2>3. EntryIdle' /\ InMap' /\ OneEntry'
    BY <1>1, <1>2, <1>3, <1>4, <2>1 DEF Inside
  <2>4. Dropped'
    BY <1>1, <1>3, <2>1
  <2> QED
    BY <1>6, <2>1, <2>2, <2>3, <2>4
<1>10. CASE StartFails(c) \/ Undone(c) \/ SendFails(c) \/ Answered(c)
  <2>1. /\ owner = c /\ UNCHANGED <<map, lost, hpc, exe, proc>> /\ bpc'[c] = "unlock"
        /\ \/ bpc[c] = "start"
           \/ bpc[c] = "undo" /\ hpc[proc[c]] = "gone"
           \/ bpc[c] = "wait" /\ hpc[proc[c]] = "idle"
    BY <1>2, <1>3, <1>10
    DEF StartFails, Undone, SendFails, Answered, Fail, vars, hostVars
  <2>2. Placed(c)'
    BY <2>1 DEF Placed
  <2>3. EntryIdle' /\ InMap' /\ Dropped'
    BY <1>1, <1>2, <1>3, <1>4, <2>1 DEF Inside
  <2> QED
    BY <1>1, <1>6, <2>1, <2>2, <2>3
<1>11. CASE Start(c)
  <2>1. PICK p \in Procs : hpc[p] = "none" /\ ProcessStart(p) /\ proc' = [proc EXCEPT ![c] = p]
    BY <1>11 DEF Start
  <2>2. /\ bpc[c] = "start" /\ bpc'[c] = "put" /\ owner = c /\ UNCHANGED <<map, lost, exe>>
        /\ hpc' = [hpc EXCEPT ![p] = "started"] /\ map[exe[c]] = Null
    <3>1. /\ bpc[c] = "start" /\ bpc' = [bpc EXCEPT ![c] = "put"]
          /\ UNCHANGED <<map, lost, exe>>
      BY <1>11 DEF Start
    <3>2. hpc' = [hpc EXCEPT ![p] = "started"]
      BY <2>1 DEF ProcessStart, HostGoto
    <3>3. map[exe[c]] = Null
      BY <1>1, <3>1 DEF Placed
    <3> QED
      BY <1>2, <1>3, <3>1, <3>2, <3>3
  <2>3. \A e \in Exes : map[e] # p
    BY <1>1, <1>2, <1>3, <1>4, <2>1, <2>2 DEF Inside
  <2>6. p \notin lost
    BY <1>1, <2>1
  <2>4. Placed(c)'
    BY <1>3, <2>1, <2>2, <2>3, <2>6 DEF Placed
  <2>5. EntryIdle' /\ InMap'
    BY <1>1, <1>2, <1>3, <1>4, <2>1, <2>2, <2>3 DEF Inside
  <2>7. Dropped'
    BY <1>1, <1>3, <2>2, <2>6
  <2> QED
    BY <1>1, <1>6, <2>2, <2>4, <2>5, <2>7
<1>12. CASE Put(c)
  <2>1. /\ bpc[c] = "put" /\ bpc'[c] = "image" /\ owner = c /\ UNCHANGED <<lost, hpc, exe, proc>>
        /\ map' = [map EXCEPT ![exe[c]] = proc[c]] /\ hpc[proc[c]] = "idle"
        /\ map[exe[c]] = Null /\ (\A e \in Exes : map[e] # proc[c])
        /\ exe[c] \in Exes /\ proc[c] \in Procs /\ proc[c] \notin lost
    BY <1>1, <1>2, <1>3, <1>12 DEF Put, vars, hostVars, callVars, Placed
  <2>2. Placed(c)'
    BY <1>3, <2>1 DEF Placed
  <2>3. EntryIdle' /\ InMap' /\ OneEntry'
    BY <1>1, <1>2, <1>3, <1>4, <2>1 DEF Inside
  <2>4. Dropped'
    BY <1>1, <1>3, <2>1
  <2> QED
    BY <1>6, <2>1, <2>2, <2>3, <2>4
<1>13. CASE PutFails(c)
  <2>1. PICK dropped \in SUBSET {e \in Exes : map[e] # Null} :
          /\ map' = [e \in Exes |-> IF e \in dropped THEN Null ELSE map[e]]
          /\ lost' = lost \union {map[e] : e \in dropped}
    BY <1>13 DEF PutFails
  <2>2. /\ bpc[c] = "put" /\ bpc'[c] = "undo" /\ owner = c /\ UNCHANGED <<exe, proc>>
        /\ hpc' = [hpc EXCEPT ![proc[c]] = "closeIn"] /\ proc[c] \in Procs
        /\ map[exe[c]] = Null /\ (\A e \in Exes : map[e] # proc[c])
        /\ proc[c] \notin lost /\ exe[c] \in Exes
    BY <1>1, <1>2, <1>3, <1>13 DEF PutFails, FinishCall, HostGoto, callVars, Placed
  <2>3. \A e \in Exes : map[e] # Null => hpc[map[e]] = "idle" /\ map[e] \in Procs
    BY <1>1, <1>2, <1>3, <1>4, <2>2 DEF Inside
  <2>4. \A e \in Exes : \/ map'[e] = map[e] /\ e \notin dropped
                        \/ map'[e] = Null /\ e \in dropped
    BY <2>1
  <2>5. \A x \in Procs : x # proc[c] => hpc'[x] = hpc[x]
    BY <1>3, <2>2
  <2>6. Placed(c)'
    BY <1>3, <2>1, <2>2, <2>4 DEF Placed, Finishing
  <2>7. OneEntry'
    BY <1>1, <2>4
  <2>8. EntryIdle'
    BY <1>2, <1>3, <2>2, <2>3, <2>4, <2>5
  <2>9. InMap'
    <3> SUFFICES ASSUME NEW x \in Procs, hpc'[x] \notin {"none", "gone"},
                        x # proc[c], \A e \in Exes : map'[e] # x
                 PROVE  x \in lost'
      BY <2>2 DEF Looking
    <3>1. CASE \E e \in Exes : map[e] = x
      BY <1>3, <2>1, <2>4, <3>1
    <3>2. CASE ~\E e \in Exes : map[e] = x
      <4>1. \A d \in Callers : bpc[d] \in {"put", "undo"} => d = c
        BY <1>4, <2>2 DEF Inside
      <4> QED
        BY <1>1, <2>1, <2>5, <3>2, <4>1
    <3> QED
      BY <3>1, <3>2
  <2>10. Dropped'
    <3> SUFFICES ASSUME NEW x \in lost'
                 PROVE  hpc'[x] = "idle" /\ \A e \in Exes : map'[e] # x
      OBVIOUS
    <3>1. CASE x \in lost
      BY <1>1, <1>3, <2>2, <2>4, <2>5, <3>1 DEF Pointers
    <3>2. CASE x \notin lost
      <4>1. PICK e \in dropped : x = map[e]
        BY <2>1, <3>2
      <4>2. e \in Exes /\ map[e] # Null
        OBVIOUS
      <4> QED
        BY <1>1, <1>3, <2>2, <2>3, <2>4, <2>5, <4>1, <4>2
    <3> QED
      BY <3>1, <3>2
  <2> QED
    BY <1>6, <2>2, <2>6, <2>7, <2>8, <2>9, <2>10
<1>14. CASE ShareImage(c)
  <2>1. /\ bpc[c] = "image" /\ bpc'[c] = "write" /\ owner = c
        /\ UNCHANGED <<map, lost, hpc, exe, proc>>
    BY <1>2, <1>3, <1>14 DEF ShareImage, vars, hostVars, callVars
  <2>2. Placed(c)'
    BY <1>1, <2>1 DEF Placed
  <2>3. EntryIdle' /\ InMap' /\ Dropped'
    BY <1>1, <1>2, <1>3, <1>4, <2>1 DEF Inside
  <2> QED
    BY <1>1, <1>6, <2>1, <2>2, <2>3
<1>15. CASE Send(c)
  <2>1. PICK len \in Lens : WriteCall(proc[c], len)
    BY <1>15 DEF Send
  <2>2. /\ bpc[c] = "write" /\ bpc'[c] = "wait" /\ owner = c /\ UNCHANGED <<map, lost, exe, proc>>
        /\ hpc' = [hpc EXCEPT ![proc[c]] = "size"] /\ proc[c] \in Procs
        /\ map[exe[c]] = proc[c]
    BY <1>1, <1>2, <1>3, <1>15, <2>1 DEF Send, WriteCall, HostGoto, Placed
  <2>3. Placed(c)'
    BY <1>3, <2>2 DEF Placed
  <2>4. EntryIdle' /\ InMap' /\ Dropped'
    BY <1>1, <1>2, <1>3, <1>4, <2>2 DEF Inside
  <2> QED
    BY <1>1, <1>6, <2>2, <2>3, <2>4
<1> QED
  BY <1>7, <1>8, <1>9, <1>10, <1>11, <1>12, <1>13, <1>14, <1>15 DEF Caller

(* What an operation does once it is called: a new process becomes ready, a *)
(* request goes its way, process_finish goes its own.                       *)
LEMMA HostMoves ==
  ASSUME TypeOK, NEW p \in Procs, Host(p)
  PROVE  /\ hpc' = [hpc EXCEPT ![p] = hpc'[p]]
         /\ \/ hpc[p] = "started" /\ hpc'[p] = "idle"
            \/ hpc[p] \in {"size", "body", "read"} /\ hpc'[p] \in {"body", "read", "idle"}
            \/ hpc[p] \in Finishing \ {"gone"} /\ hpc'[p] \in Finishing
<1> USE DEF TypeOK, HostGoto, Finishing
<1>1. CASE ProcessCloseStderr(p)
  BY <1>1 DEF ProcessCloseStderr
<1>2. CASE ProcessWrite(p)
  BY <1>2 DEF ProcessWrite, WritePart, WriteFails
<1>3. CASE ProcessRead(p)
  BY <1>3 DEF ProcessRead
<1>4. CASE ProcessFinish(p)
  BY <1>4 DEF ProcessFinish, FinishCloseIn, FinishCloseOut, FinishCloseRest, FinishClose,
              FinishDrain, FinishFree
<1> QED
  BY <1>1, <1>2, <1>3, <1>4 DEF Host

LEMMA ExitMap ==
  ASSUME Pointers, TypeOK, MapInv, ExitCall \/ Exit
  PROVE  MapInv'
<1>1. /\ Mutex /\ OneEntry /\ EntryIdle /\ InMap /\ Dropped /\ Emptied
      /\ \A c \in Callers : Placed(c)
  BY DEF MapInv
<1>2. UNCHANGED <<bpc, proc, exe, owner>>
  BY DEF ExitCall, Exit, ExitFinish, ExitFree, ExitDone, bridgeVars, callVars
<1>3. \A c \in Callers : bpc[c] = "idle"
  BY <1>1 DEF ExitCall, Exit, ExitFinish, ExitFree, ExitDone, Mutex
<1>4. (\A c \in Callers : Placed(c)') /\ Mutex'
  BY <1>1, <1>2, <1>3
  DEF Placed, Mutex, ExitCall, Exit, ExitFinish, ExitFree, ExitDone, bridgeVars
<1>5. SUFFICES OneEntry' /\ EntryIdle' /\ InMap' /\ Dropped' /\ Emptied'
  BY <1>4, <1>5 DEF MapInv
<1> USE DEF OneEntry, EntryIdle, InMap, Dropped, Emptied
<1>6. CASE ExitCall
  BY <1>1, <1>3, <1>6 DEF ExitCall, vars, hostVars
<1>7. ASSUME NEW e \in Exes, ExitFinish(e)
      PROVE  OneEntry' /\ EntryIdle' /\ InMap' /\ Dropped' /\ Emptied'
  <2>1. /\ exitpc = "finish" /\ exitpc' = "finish" /\ UNCHANGED <<map, lost>>
        /\ map[e] \in Procs /\ hpc[map[e]] = "idle"
        /\ hpc' = [hpc EXCEPT ![map[e]] = "closeIn"]
        /\ hpc \in [Procs -> {"none", "started", "idle", "size", "body", "read",
                  "closeIn", "closeOut", "closeRest", "drain", "free", "gone"}]
    BY <1>7 DEF ExitFinish, FinishCall, HostGoto, bridgeVars, Pointers, TypeOK
  <2> QED
    BY <1>1, <1>2, <1>3, <2>1, BridgeAssumption DEF Pointers, Finishing
<1>8. ASSUME NEW e \in Exes, ExitFree(e)
      PROVE  OneEntry' /\ EntryIdle' /\ InMap' /\ Dropped' /\ Emptied'
  <2>1. /\ exitpc = "finish" /\ exitpc' = "finish" /\ UNCHANGED <<lost, hpc>>
        /\ map[e] # Null /\ hpc[map[e]] = "gone"
        /\ map' = [map EXCEPT ![e] = Null]
        /\ map \in [Exes -> Procs \union {Null}]
    BY <1>8 DEF ExitFree, vars, hostVars, Pointers
  <2>2. Dropped'
    BY <1>1, <2>1, BridgeAssumption DEF Pointers
  <2>3. OneEntry' /\ EntryIdle' /\ InMap' /\ Emptied'
    BY <1>1, <1>2, <1>3, <2>1, BridgeAssumption DEF Finishing
  <2> QED
    BY <2>2, <2>3
<1>9. CASE ExitDone
  BY <1>1, <1>3, <1>9 DEF ExitDone, vars, hostVars
<1> QED
  BY <1>6, <1>7, <1>8, <1>9 DEF Exit

(* An operation of a process leaves the process where its caller is. *)
LEMMA ProcessKeepsMap ==
  ASSUME Pointers, TypeOK, MapInv, NEW p \in Procs,
         BridgeHost(p) \/ BridgeWorker(p) \/ BridgeChild(p) \/ BridgeChildLeaves(p)
  PROVE  MapInv'
<1>1. /\ Mutex /\ OneEntry /\ EntryIdle /\ InMap /\ Dropped /\ Emptied
      /\ \A c \in Callers : Placed(c)
  BY DEF MapInv
<1>2. UNCHANGED <<map, lost, owner, bpc, exe, proc, exitpc>>
  BY DEF BridgeHost, BridgeWorker, BridgeChild, BridgeChildLeaves, bridgeVars, callVars
<1>3. Mutex' /\ OneEntry' /\ Emptied'
  BY <1>1, <1>2 DEF Mutex, OneEntry, Emptied
<1>4. CASE UNCHANGED hpc
  BY <1>1, <1>2, <1>3, <1>4 DEF MapInv, Placed, EntryIdle, InMap, Dropped
<1>5. CASE Host(p)
  <2>1. /\ hpc' = [hpc EXCEPT ![p] = hpc'[p]]
        /\ \/ hpc[p] = "started" /\ hpc'[p] = "idle"
           \/ hpc[p] \in {"size", "body", "read"} /\ hpc'[p] \in {"body", "read", "idle"}
           \/ hpc[p] \in Finishing \ {"gone"} /\ hpc'[p] \in Finishing
        /\ hpc \in [Procs -> {"none", "started", "idle", "size", "body", "read",
                  "closeIn", "closeOut", "closeRest", "drain", "free", "gone"}]
    BY <1>5, HostMoves DEF TypeOK
  <2>2. \A x \in Procs : x # p => hpc'[x] = hpc[x]
    BY <2>1
  <2>3. \A c \in Callers : Placed(c)'
    <3> SUFFICES ASSUME NEW c \in Callers PROVE Placed(c)'
      OBVIOUS
    <3>1. Placed(c) /\ (bpc[c] \in Operating => proc[c] \in Procs)
      BY <1>1 DEF Pointers
    <3>2. CASE proc[c] = p
      BY <1>2, <2>1, <3>1, <3>2 DEF Placed, Finishing
    <3>3. CASE proc[c] # p
      BY <1>2, <2>2, <3>1, <3>3 DEF Placed, Operating
    <3> QED
      BY <3>2, <3>3
  <2>4. \A e \in Exes : map[e] # Null => map[e] \in Procs
    BY DEF Pointers
  <2>5. EntryIdle'
    BY <1>1, <1>2, <2>1, <2>2, <2>4 DEF EntryIdle, Finishing
  <2>6. InMap'
    BY <1>1, <1>2, <2>1, <2>2 DEF InMap, Finishing
  <2>7. Dropped'
    <3>1. p \notin lost
      BY <1>1, <2>1 DEF Dropped, Finishing
    <3> QED
      BY <1>1, <1>2, <2>2, <3>1 DEF Dropped, Pointers
  <2> QED
    BY <1>3, <2>3, <2>5, <2>6, <2>7 DEF MapInv
<1>6. Host(p) \/ UNCHANGED hpc
  BY DEF BridgeHost, BridgeWorker, Worker, BridgeChild, Child, BridgeChildLeaves,
         ChildLeaves, hostVars
<1> QED
  BY <1>4, <1>5, <1>6

LEMMA NextMap == Pointers /\ TypeOK /\ MapInv /\ [BridgeNext]_allVars => MapInv'
<1> SUFFICES ASSUME Pointers, TypeOK, MapInv, [BridgeNext]_allVars PROVE MapInv'
  OBVIOUS
<1>1. CASE UNCHANGED allVars
  BY <1>1
  DEF allVars, vars, hostVars, bridgeVars, callVars, MapInv, Mutex, Placed, OneEntry,
      EntryIdle, InMap, Dropped, Emptied
<1> QED
  BY <1>1, CallerMap, ExitMap, ProcessKeepsMap DEF BridgeNext

(* What the bridge, and the processes in it, keep. *)
BridgeInv == Pointers /\ IInv /\ FlowInv /\ MapInv

LEMMA NextBridgeInv == BridgeInv /\ [BridgeNext]_allVars => BridgeInv'
<1> SUFFICES ASSUME BridgeInv, [BridgeNext]_allVars PROVE BridgeInv'
  OBVIOUS
<1>1. Pointers' /\ [Next]_vars
  BY NextPointers, BridgeUsesProcess DEF BridgeInv
<1>2. IInv' /\ FlowInv'
  BY <1>1, NextIInv, NextFlow DEF BridgeInv
<1>3. MapInv'
  BY NextMap DEF BridgeInv, IInv, Typed
<1> QED
  BY <1>1, <1>2, <1>3 DEF BridgeInv

LEMMA InitBridge == BridgeInit => BridgeInv
BY InitPointers, InitTyped, InitLife, InitFlow, InitMap DEF BridgeInit, BridgeInv, IInv

LEMMA BridgeInvariant == BridgeSpec => []BridgeInv
BY InitBridge, NextBridgeInv, PTL DEF BridgeSpec

(* g_process_map as the bridge uses it: open until bridge_exit has emptied  *)
(* it.  The bridge has no variable for what an operation of the map has     *)
(* returned: each of its steps is one of ProcessMap for one of the results. *)
Returns0 == INSTANCE ProcessMap
              WITH Keys <- Exes, Values <- Procs, None <- Null,
                   entries <- map, open <- exitpc # "done", result <- 0
Returns1 == INSTANCE ProcessMap
              WITH Keys <- Exes, Values <- Procs, None <- Null,
                   entries <- map, open <- exitpc # "done", result <- 1

mapUse == <<map, exitpc # "done">>
MapStep == [Returns0!Next \/ Returns1!Next]_mapUse

LEMMA CallerUsesMap ==
  ASSUME BridgeInv, NEW c \in Callers, Caller(c)
  PROVE  MapStep
<1>a. /\ map \in [Exes -> Procs \union {Null}]
      /\ bpc[c] \in Looking => exe[c] \in Exes
      /\ bpc[c] \in Operating => proc[c] \in Procs
      /\ exitpc # "no" => bpc[c] = "idle"
      /\ Placed(c)
      /\ Null \notin Procs
  BY BridgeAssumption DEF BridgeInv, Pointers, MapInv, Mutex
<1>1. CASE Put(c)
  <2>1. /\ bpc[c] = "put" /\ exitpc' = exitpc
        /\ map' = [map EXCEPT ![exe[c]] = proc[c]]
    BY <1>1 DEF Put, Goto
  <2>2. /\ exe[c] \in Exes /\ proc[c] \in Procs /\ exitpc # "done"
        /\ map[exe[c]] = Null
    BY <2>1, <1>a DEF Looking, Operating, Placed
  <2>3. Returns0!Add(exe[c], proc[c])
    BY <2>1, <2>2 DEF Returns0!Add
  <2> QED
    BY <2>2, <2>3 DEF Returns0!Next, MapStep
<1>2. CASE Remove(c)
  <2>1. /\ bpc[c] = "finish" /\ exitpc' = exitpc
        /\ map' = [map EXCEPT ![exe[c]] = Null]
    BY <1>2 DEF Remove, Goto
  <2>2. /\ exe[c] \in Exes /\ proc[c] \in Procs /\ exitpc # "done"
        /\ map[exe[c]] = proc[c]
    BY <2>1, <1>a DEF Looking, Operating, Placed
  <2>3. Returns0!Delete(exe[c])
    BY <2>1, <2>2, <1>a DEF Returns0!Delete
  <2> QED
    BY <2>2, <2>3 DEF Returns0!Next, MapStep
<1>3. CASE PutFails(c)
  <2>1. PICK dropped \in SUBSET {e \in Exes : map[e] # Null} :
          map' = [e \in Exes |-> IF e \in dropped THEN Null ELSE map[e]]
    BY <1>3 DEF PutFails
  <2>2. exitpc # "done" /\ exitpc' = exitpc
    BY <1>3, <1>a DEF PutFails, Goto
  <2>3. Returns1!AddFails
    BY <1>a, <2>1, <2>2 DEF Returns1!AddFails
  <2> QED
    BY <2>3 DEF Returns1!Next, MapStep
<1>4. CASE \/ Lock(c) \/ Find(c) \/ Start(c) \/ StartFails(c)
           \/ Undone(c) \/ ShareImage(c) \/ Send(c) \/ SendFails(c) \/ Answered(c)
           \/ Unlock(c) \/ PushResult(c)
  <2>1. map' = map /\ exitpc' = exitpc
    BY <1>4
    DEF Lock, Find, Start, StartFails, Undone, Fail, ShareImage, Send,
        SendFails, Answered, Unlock, PushResult, callVars
  <2> QED
    BY <2>1 DEF mapUse, MapStep
<1> QED
  BY <1>1, <1>2, <1>3, <1>4 DEF Caller

LEMMA ExitUsesMap ==
  ASSUME BridgeInv, Exit
  PROVE  MapStep
<1>a. map \in [Exes -> Procs \union {Null}]
  BY DEF BridgeInv, Pointers
<1>1. ASSUME NEW e \in Exes, ExitFinish(e) PROVE UNCHANGED mapUse
  BY <1>1 DEF ExitFinish, bridgeVars, mapUse
<1>2. ASSUME NEW e \in Exes, ExitFree(e) PROVE Returns0!Delete(e)
  BY <1>2, <1>a DEF ExitFree, Returns0!Delete
<1>3. ASSUME ExitDone PROVE Returns0!Clear
  <2>1. map' = [e \in Exes |-> Null]
    BY <1>3, <1>a DEF ExitDone
  <2> QED
    BY <1>3, <2>1 DEF ExitDone, Returns0!Clear
<1> QED
  BY <1>1, <1>2, <1>3 DEF Exit, Returns0!Next, MapStep

LEMMA BridgeStepsMap == BridgeInv /\ [BridgeNext]_allVars => MapStep
<1> SUFFICES ASSUME BridgeInv, [BridgeNext]_allVars PROVE MapStep
  OBVIOUS
<1>1. CASE \/ UNCHANGED allVars
           \/ \E c \in Callers, e \in Exes, m \in Modes : BridgeCall(c, e, m)
           \/ \E p \in Procs : \/ BridgeHost(p) \/ BridgeWorker(p)
                               \/ BridgeChild(p) \/ BridgeChildLeaves(p)
  <2>1. map' = map /\ exitpc' = exitpc
    BY <1>1
    DEF allVars, bridgeVars, BridgeCall, BridgeHost, BridgeWorker, BridgeChild,
        BridgeChildLeaves
  <2> QED
    BY <2>1 DEF mapUse, MapStep
<1>2. CASE ExitCall
  <2>1. map' = map /\ (exitpc # "done")' = (exitpc # "done")
    BY <1>2 DEF ExitCall
  <2> QED
    BY <2>1 DEF mapUse, MapStep
<1> QED
  BY <1>1, <1>2, CallerUsesMap, ExitUsesMap DEF BridgeNext

(* bridge_call and bridge_exit use g_process_map as ProcessMap says one     *)
(* may, which is what HashMap implements: a program gets a process only     *)
(* while it has none, only an entry that is there is removed, and nothing   *)
(* is put in the map once bridge_exit has emptied it, whatever the callers  *)
(* and the failures.  All the map may do is allowed for: the addition that  *)
(* fails, with the entries it drops, is the put that fails in bridge_call.  *)
THEOREM BridgeUsesProcessMap ==
  BridgeSpec =>
    Returns0!Init /\ [][Returns0!Next \/ Returns1!Next]_<<map, exitpc # "done">>
<1>1. BridgeInit => Returns0!Init
  BY DEF BridgeInit, Returns0!Init
<1>2. MapStep => [Returns0!Next \/ Returns1!Next]_<<map, exitpc # "done">>
  BY DEF MapStep, mapUse
<1> QED
  BY <1>1, <1>2, BridgeInvariant, BridgeStepsMap, PTL DEF BridgeSpec

-----------------------------------------------------------------------------

(* Whichever step of bridge_call fails, the map is exact when it returns: a *)
(* struct process is in it once, or it is freed, or it is one of those a    *)
(* failing hashmap_put has dropped, which stay as they are.                 *)
THEOREM MapIsExactCorrect == BridgeSpec => []MapIsExact
<1>1. BridgeInv => MapIsExact
  <2> SUFFICES ASSUME BridgeInv, owner = Nobody, exitpc = "no" PROVE MapIsExact
    BY DEF MapIsExact
  <2>1. Mutex /\ OneEntry /\ EntryIdle /\ InMap /\ Dropped
    BY DEF BridgeInv, MapInv
  <2>2. \A c \in Callers : bpc[c] \notin Inside
    BY <2>1, BridgeAssumption DEF Mutex
  <2>3. \A e \in Exes : map[e] # Null => hpc[map[e]] = "idle" /\ map[e] \in Procs
    BY <2>1, <2>2 DEF EntryIdle, Inside, BridgeInv, Pointers
  <2>4. \A p \in Procs :
          hpc[p] \notin {"none", "gone"} => (\E e \in Exes : map[e] = p) \/ p \in lost
    BY <2>1, <2>2 DEF InMap, Inside
  <2>5. \A p \in Procs : mem[p] = "live" <=> hpc[p] \notin {"none", "gone"}
    BY DEF BridgeInv, IInv, Typed, TypeOK, LifeInv, Life
  <2>6. \A p \in Procs : (\E e \in Exes : map[e] = p) \/ p \in lost => hpc[p] = "idle"
    BY <2>1, <2>3, BridgeAssumption DEF Dropped
  <2>7. \A e \in Exes : map[e] # Null => map[e] \notin lost
    BY <2>1 DEF Dropped
  <2>8. \A p \in Procs :
          mem[p] = "live" <=> (\E e \in Exes : map[e] = p) \/ p \in lost
    BY <2>4, <2>5, <2>6
  <2> QED
    BY <2>1, <2>3, <2>7, <2>8 DEF MapIsExact, OneEntry, Dropped
<1> QED
  BY <1>1, BridgeInvariant, PTL

(* A process whose host is at a request is that of the caller inside.       *)
LEMMA BusyIsInside ==
  ASSUME BridgeInv, NEW p \in Procs, hpc[p] \in {"size", "body", "read"}
  PROVE  owner \in Callers /\ bpc[owner] = "wait" /\ proc[owner] = p
<1>1. /\ Mutex /\ EntryIdle /\ InMap /\ Pointers /\ p \notin lost
      /\ \A c \in Callers : Placed(c)
  BY DEF BridgeInv, MapInv, Dropped
<1>2. \A c \in Callers : bpc[c] \in {"put", "undo"} => proc[c] # p
  BY <1>1 DEF Placed, Finishing
<1>3. PICK e \in Exes : map[e] = p
  BY <1>1, <1>2 DEF InMap
<1>4. PICK c \in Callers : bpc[c] \in {"finish", "wait"} /\ proc[c] = p
  BY <1>1, <1>3, BridgeAssumption DEF EntryIdle, Finishing
<1>5. bpc[c] = "wait"
  BY <1>1, <1>4 DEF Placed, Finishing
<1> QED
  BY <1>1, <1>4, <1>5 DEF Mutex, Inside

(* One view is enough: the mutex is held from before the request until the  *)
(* reply is there, and a child without a request does nothing.              *)
THEOREM OneChildAtWorkCorrect == BridgeSpec => []OneChildAtWork
<1>1. BridgeInv => OneChildAtWork
  <2> SUFFICES ASSUME BridgeInv PROVE OneChildAtWork
    OBVIOUS
  <2> DEFINE Busy == {p \in Procs : cpc[p] \in Phases \ {"fresh", "idle"}}
  <2>1. ASSUME NEW p \in Busy PROVE proc[owner] = p
    <3>1. Here(p) /\ p \in Procs
      BY DEF BridgeInv, FlowInv
    <3>2. hpc[p] \in {"body", "read"}
      BY <3>1 DEF Here, Flow, Between, Resting, Travelling, Lost, Served, Replying,
                  CutShort, Replied, Phases
    <3> QED
      BY <3>1, <3>2, BusyIsInside
  <2>2. Busy = {} \/ Busy = {proc[owner]}
    BY <2>1
  <2>3. Cardinality(Busy) = 0 \/ Cardinality(Busy) = 1
    BY <2>2, SmallSets, Zenon
  <2>4. Cardinality(Busy) <= 1
    BY <2>3
  <2> QED
    BY <2>4 DEF OneChildAtWork
<1> QED
  BY <1>1, BridgeInvariant, PTL

-----------------------------------------------------------------------------

(* Unloading is what Bridge does, unless the host process ends: then the    *)
(* workers are gone.                                                        *)
UnloadInv ==
  /\ why # "end" => BridgeInv
  /\ why = "end" => exitpc # "no"

LEMMA UnloadUsesBridge ==
  [UnloadNext]_unloadVars => ([BridgeNext]_allVars /\ why' \in {why, "free"}) \/ HostEnds
<1> SUFFICES ASSUME [UnloadNext]_unloadVars
             PROVE  ([BridgeNext]_allVars /\ why' \in {why, "free"}) \/ HostEnds
  OBVIOUS
<1>1. CASE \E c \in Callers :
             \/ \E e \in Exes, k \in Modes :
                  <<c, e>> \in Uses /\ BridgeCall(c, e, k) /\ UNCHANGED threadVars
             \/ UnloadCaller(c)
  BY <1>1 DEF UnloadCaller, threadVars, BridgeNext
<1>2. CASE FreeLibrary \/ UnloadExit
  BY <1>2 DEF FreeLibrary, UnloadExit, threadVars, BridgeNext
<1>3. ASSUME NEW p \in Procs,
             \/ ThreadBegins(p) \/ ThreadEnds(p)
             \/ UnloadHost(p) \/ UnloadWorker(p) \/ UnloadChild(p)
             \/ BridgeChildLeaves(p) /\ UNCHANGED threadVars
      PROVE  [BridgeNext]_allVars /\ why' = why
  BY <1>3 DEF ThreadBegins, ThreadEnds, UnloadHost, UnloadWorker, UnloadChild, threadVars,
              BridgeNext
<1>4. CASE UNCHANGED unloadVars
  BY <1>4 DEF unloadVars, threadVars
<1> QED
  BY <1>1, <1>2, <1>3, <1>4 DEF UnloadNext

LEMMA NextUnloadInv == UnloadInv /\ [UnloadNext]_unloadVars => UnloadInv'
<1> SUFFICES ASSUME UnloadInv, [UnloadNext]_unloadVars PROVE UnloadInv'
  OBVIOUS
<1>1. exitpc' = "no" => exitpc = "no" /\ why' = why
  <2>1. ASSUME NEW c \in Callers,
               Caller(c) \/ \E e \in Exes, k \in Modes : BridgeCall(c, e, k)
        PROVE  UNCHANGED exitpc
    BY <2>1 DEF Caller, Lock, Find, Remove, StartFails, Start, Put, PutFails, Undone,
                ShareImage, Send, SendFails, Answered, Unlock, PushResult, BridgeCall, Fail
  <2>2. ExitCall \/ Exit => (exitpc' = "no" => exitpc = "no")
    BY DEF ExitCall, Exit, ExitFinish, ExitFree, ExitDone, bridgeVars
  <2>3. ASSUME NEW p \in Procs,
               BridgeHost(p) \/ BridgeWorker(p) \/ BridgeChild(p) \/ BridgeChildLeaves(p)
        PROVE  UNCHANGED exitpc
    BY <2>3 DEF BridgeHost, BridgeWorker, BridgeChild, BridgeChildLeaves, bridgeVars
  <2>4. [BridgeNext]_allVars => (exitpc' = "no" => exitpc = "no")
    BY <2>1, <2>2, <2>3 DEF BridgeNext, allVars, bridgeVars
  <2>5. FreeLibrary \/ HostEnds => exitpc' = "finish"
    BY DEF FreeLibrary, ExitCall, HostEnds
  <2>6. FreeLibrary \/ HostEnds \/ why' = why
    BY DEF UnloadNext, UnloadCaller, UnloadExit, ThreadBegins, ThreadEnds, UnloadHost,
           UnloadWorker, UnloadChild, threadVars, unloadVars
  <2> QED
    BY <2>4, <2>5, <2>6, UnloadUsesBridge
<1>2. why' = "end" => exitpc' # "no"
  BY <1>1 DEF UnloadInv
<1>3. CASE HostEnds
  BY <1>2, <1>3 DEF HostEnds, UnloadInv
<1>4. CASE [BridgeNext]_allVars /\ why' \in {why, "free"}
  <2>1. why = "end" => why' = why
    <3>1. FreeLibrary => exitpc = "no"
      BY DEF FreeLibrary, ExitCall
    <3>2. FreeLibrary \/ HostEnds \/ why' = why
      BY DEF UnloadNext, UnloadCaller, UnloadExit, ThreadBegins, ThreadEnds, UnloadHost,
             UnloadWorker, UnloadChild, threadVars, unloadVars
    <3>3. HostEnds => why' = "end"
      BY DEF HostEnds
    <3> QED
      BY <3>1, <3>2, <3>3 DEF UnloadInv
  <2>2. why' # "end" => BridgeInv'
    BY <1>4, <2>1, NextBridgeInv DEF UnloadInv
  <2> QED
    BY <1>2, <2>2 DEF UnloadInv
<1> QED
  BY <1>3, <1>4, UnloadUsesBridge

(* When FreeLibrary unmaps the library no worker is inside read_worker,     *)
(* though none is joined: bridge_exit has finished all processes, and       *)
(* process_finish returns only behind the end mark.  The workers of the     *)
(* processes a failing hashmap_put has dropped are left out: bridge_exit    *)
(* does not know of them, and they may still be reading.                    *)
THEOREM UnmappedWhenUnusedCorrect == UnloadSpec => []UnmappedWhenUnused
<1>1. UnloadInit => UnloadInv
  BY InitBridge DEF UnloadInit, UnloadInv
<1>2. UnloadInv => UnmappedWhenUnused
  <2> SUFFICES ASSUME UnloadInv, why = "free", exitpc = "done", NEW p \in Procs \ lost
               PROVE  wpc[p] \in {"none", "done"}
    BY DEF UnmappedWhenUnused
  <2>1. /\ Mutex /\ InMap /\ Emptied /\ Pointers /\ Life(p) /\ Mark(p)
    BY DEF UnloadInv, BridgeInv, MapInv, IInv, LifeInv
  <2>2. (\A e \in Exes : map[e] = Null) /\ \A c \in Callers : bpc[c] = "idle"
    BY <2>1 DEF Mutex, Emptied
  <2>3. hpc[p] \in {"none", "gone"}
    BY <2>1, <2>2, BridgeAssumption DEF InMap
  <2> QED
    BY <2>1, <2>3 DEF Life, Mark
<1> QED
  BY <1>1, <1>2, NextUnloadInv, PTL DEF UnloadSpec
-----------------------------------------------------------------------------

(* What the next step of a caller, of bridge_exit and of a process waits    *)
(* for.                                                                     *)
CallerCan(c) ==
  \/ bpc[c] \in {"start", "image", "unlock", "result"}
  \/ bpc[c] = "lock" /\ owner = Nobody
  \/ bpc[c] = "find" /\ map[exe[c]] = Null
  \/ bpc[c] = "find" /\ (process_isrunning(map[exe[c]]) \/ hpc[map[exe[c]]] = "idle")
  \/ bpc[c] \in {"finish", "undo"} /\ hpc[proc[c]] = "gone"
  \/ bpc[c] = "put" /\ hpc[proc[c]] = "idle"
  \/ bpc[c] = "write" /\ hpc[proc[c]] = "idle" /\ msg[proc[c]].id < MaxCalls
  \/ bpc[c] = "wait" /\ hpc[proc[c]] = "idle" /\ ret[proc[c]] # "none"

ExitCan ==
  /\ exitpc = "finish"
  /\ \/ \A e \in Exes : map[e] # Null => hpc[map[e]] = "idle"
     \/ \E e \in Exes : map[e] # Null /\ hpc[map[e]] = "gone"

GoesOn(p) ==
  \/ HostCan(p) \/ ChildCan(p)
  \/ p \in begun /\ WorkerCan(p)
  \/ p \notin begun /\ wpc[p] = "size" /\ LoaderLockFree

(* Whoever waits waits for somebody who can go on: a caller for the mutex,  *)
(* whose owner is inside bridge_call; for an operation of its process, of   *)
(* which the host, the worker or the child can go on; and so does           *)
(* bridge_exit, under the lock of the loader.  The exceptions are the end   *)
(* marks that never come, and the bound of the model on requests.           *)
NobodyIsStuck ==
  /\ \A c \in Callers : bpc[c] # "idle" =>
       \/ CallerCan(c)
       \/ bpc[c] = "lock" /\ owner \in Callers \ {c} /\ bpc[owner] \in Inside
       \/ /\ bpc[c] \in {"put", "finish", "undo", "wait"}
          /\ GoesOn(proc[c]) \/ MarkNeverComes(proc[c])
       \/ bpc[c] = "write" /\ msg[proc[c]].id = MaxCalls
  /\ exitpc = "finish" =>
       \/ ExitCan
       \/ \E e \in Exes :
            /\ map[e] # Null /\ hpc[map[e]] \in Finishing \ {"gone"}
            /\ GoesOn(map[e]) \/ MarkNeverComes(map[e])

(* A request that is over has an outcome. *)
Settled == \A c \in Callers :
  bpc[c] = "wait" /\ hpc[proc[c]] = "idle" => ret[proc[c]] # "none"

LEMMA NextSettled == BridgeInv /\ Settled /\ [BridgeNext]_allVars => Settled'
<1> SUFFICES ASSUME BridgeInv, Settled, [BridgeNext]_allVars, NEW x \in Callers,
                    bpc'[x] = "wait", hpc'[proc'[x]] = "idle"
             PROVE  ret'[proc'[x]] # "none"
  BY DEF Settled
<1>1. Pointers /\ TypeOK /\ Mutex /\ Placed(x)
  BY DEF BridgeInv, MapInv, IInv, Typed
<1>2. CASE UNCHANGED allVars
  BY <1>2 DEF allVars, vars, hostVars, bridgeVars, callVars, Settled
<1>3. ASSUME NEW c \in Callers,
             Caller(c) \/ \E e \in Exes, k \in Modes : BridgeCall(c, e, k)
      PROVE  ret'[proc'[x]] # "none"
  <2>1. CASE x = c
    <3>1. Send(c)
      BY <1>1, <1>3, <2>1
      DEF Caller, Lock, Find, Remove, StartFails, Start, Put, PutFails, Undone, ShareImage,
          SendFails, Answered, Unlock, PushResult, BridgeCall, Fail, Goto, Pointers, Looking
    <3>2. proc' = proc /\ proc[c] \in Procs /\ bpc[c] = "write"
      BY <1>1, <3>1 DEF Send, Goto, Pointers, Operating
    <3>3. hpc'[proc[c]] = "size"
      BY <1>1, <3>1, <3>2 DEF Send, WriteCall, HostGoto, TypeOK
    <3> QED
      BY <2>1, <3>2, <3>3
  <2>2. CASE x # c
    <3>1. bpc[x] = "wait" /\ (bpc[c] \notin {"idle", "lock", "result"} => owner = c)
      BY <1>1, <1>3, <2>2, CallerMutex
    <3>2. owner = x
      BY <1>1, <3>1 DEF Mutex, Inside
    <3>3. UNCHANGED <<hpc, ret>> /\ proc'[x] = proc[x]
      BY <1>1, <1>3, <2>2, <3>1, <3>2
      DEF Caller, Lock, Find, Remove, StartFails, Start, Put, PutFails, Undone, ShareImage,
          Send, SendFails, Answered, Unlock, PushResult, BridgeCall, Fail, Goto, Pointers,
          callVars, vars, hostVars
    <3> QED
      BY <3>1, <3>3 DEF Settled
  <2> QED
    BY <2>1, <2>2
<1>4. CASE ExitCall \/ Exit
  <2>1. (\A c \in Callers : bpc[c] = "idle") /\ UNCHANGED bpc
    BY <1>1, <1>4
    DEF ExitCall, Exit, ExitFinish, ExitFree, ExitDone, Mutex, bridgeVars
  <2> QED
    BY <2>1
<1>5. ASSUME NEW p \in Procs,
             BridgeHost(p) \/ BridgeWorker(p) \/ BridgeChild(p) \/ BridgeChildLeaves(p)
      PROVE  ret'[proc'[x]] # "none"
  <2>1. UNCHANGED <<bpc, proc>> /\ bpc[x] = "wait" /\ proc[x] \in Procs
    BY <1>1, <1>5 DEF BridgeHost, BridgeWorker, BridgeChild, BridgeChildLeaves, bridgeVars,
                      callVars, Pointers, Operating
  <2>2. CASE UNCHANGED <<hpc, ret>>
    BY <2>1, <2>2 DEF Settled
  <2>3. CASE Host(p) /\ p # proc[x]
    <3>1. hpc'[proc[x]] = hpc[proc[x]] /\ ret'[proc[x]] = ret[proc[x]]
      BY <1>1, <2>1, <2>3, OthersUntouched DEF StepOf, Untouched
    <3> QED
      BY <2>1, <3>1 DEF Settled
  <2>4. CASE Host(p) /\ p = proc[x]
    <3>1. hpc[p] \in {"size", "body", "read", "idle"}
      BY <1>1, <2>1, <2>4 DEF Placed
    <3>2. ProcessWrite(p) \/ ProcessRead(p)
      BY <2>4, <3>1 DEF Host, ProcessCloseStderr, ProcessFinish, FinishCloseIn, FinishCloseOut,
                        FinishCloseRest, FinishClose, FinishDrain, FinishFree, HostGoto
    <3>3. ProcessWrite(p) /\ hpc'[p] = "idle" => ret'[p] = "notSent"
      BY <1>1 DEF ProcessWrite, WritePart, WriteFails, TypeOK
    <3>4. ProcessRead(p) => ret'[p] \in {"notReceived", "ok"}
      BY <1>1 DEF ProcessRead, TypeOK
    <3> QED
      BY <2>1, <2>4, <3>2, <3>3, <3>4
  <2>5. UNCHANGED <<hpc, ret>> \/ Host(p)
    BY <1>5 DEF BridgeHost, BridgeWorker, Worker, BridgeChild, Child, BridgeChildLeaves,
                ChildLeaves, hostVars
  <2> QED
    BY <2>2, <2>3, <2>4, <2>5
<1> QED
  BY <1>2, <1>3, <1>4, <1>5 DEF BridgeNext

(* When the host process has ended a queue holds the end mark or nothing,   *)
(* and nobody fills it.                                                     *)
Ended(p) ==
  /\ wpc[p] \in {"none", "done"}
  /\ q[p] \in {<<>>, <<EndMark>>}
  /\ wpc[p] = "done" /\ q[p] = <<>> => prev[p] = EndMark \/ hpc[p] \in {"free", "gone"}

(* What holds while the library is unloaded, whatever the reason, and what  *)
(* holds for one of the reasons.                                            *)
WaitInv ==
  /\ Pointers /\ Typed /\ MapInv
  /\ \A p \in Procs : wpc[p] \notin {"none", "size"} => p \in begun
  /\ why # "end" => AwaitedInv /\ Settled
  /\ why = "end" => \A p \in Procs : Ended(p)

LEMMA InitWait == UnloadInit => WaitInv
<1> SUFFICES ASSUME UnloadInit PROVE WaitInv
  OBVIOUS
<1>1. Pointers /\ Typed /\ MapInv
  BY InitPointers, InitTyped, InitMap DEF UnloadInit, BridgeInit
<1>2. AwaitedInv
  BY ItemFacts DEF UnloadInit, BridgeInit, Init, AwaitedInv, Awaited
<1> QED
  BY <1>1, <1>2 DEF UnloadInit, BridgeInit, Init, WaitInv, Settled

(* A worker is past its first read only if its thread has begun. *)
LEMMA NextBegun ==
  ASSUME Pointers, TypeOK, [UnloadNext]_unloadVars, NEW x \in Procs,
         wpc[x] \notin {"none", "size"} => x \in begun
  PROVE  wpc'[x] \notin {"none", "size"} => x \in begun'
<1>1. begun \subseteq begun'
  BY DEF UnloadNext, UnloadCaller, FreeLibrary, HostEnds, UnloadExit, ThreadBegins,
         ThreadEnds, UnloadHost, UnloadWorker, UnloadChild, threadVars, unloadVars
<1>2. ASSUME NEW c \in Callers,
             Caller(c) \/ \E e \in Exes, k \in Modes : BridgeCall(c, e, k)
      PROVE  wpc'[x] \in {wpc[x], "size"}
  <2>1. CASE Start(c)
    <3>1. PICK p \in Procs : ProcessStart(p)
      BY <2>1 DEF Start
    <3> QED
      BY <3>1 DEF ProcessStart, TypeOK
  <2>2. CASE ~Start(c)
    BY <1>2, <2>2
    DEF Caller, Lock, Find, Remove, StartFails, Put, PutFails, Undone, ShareImage, Send,
        SendFails, Answered, Unlock, PushResult, BridgeCall, FinishCall, WriteCall, vars,
        workerVars
  <2> QED
    BY <2>1, <2>2
<1>3. FreeLibrary \/ UnloadExit => UNCHANGED wpc
  BY DEF FreeLibrary, ExitCall, UnloadExit, Exit, ExitFinish, ExitFree, ExitDone, FinishCall,
         vars, workerVars
<1>4. HostEnds => wpc'[x] \in {wpc[x], "none"}
  BY DEF HostEnds
<1>5. ASSUME NEW p \in Procs, UnloadWorker(p) PROVE wpc'[x] = wpc[x] \/ x \in begun
  <2>1. p \in begun /\ Worker(p)
    BY <1>5 DEF UnloadWorker, BridgeWorker
  <2>2. x # p => wpc'[x] = wpc[x]
    BY <2>1, OthersUntouched DEF StepOf, Untouched
  <2> QED
    BY <2>1, <2>2
<1>6. ASSUME NEW p \in Procs,
             \/ ThreadBegins(p) \/ ThreadEnds(p) \/ UnloadHost(p) \/ UnloadChild(p)
             \/ BridgeChildLeaves(p)
      PROVE  UNCHANGED wpc
  BY <1>6 DEF ThreadBegins, ThreadEnds, UnloadHost, BridgeHost, Host, ProcessCloseStderr,
              ProcessWrite, ProcessRead, ProcessFinish, UnloadChild, BridgeChild, Child,
              BridgeChildLeaves, ChildLeaves, allVars, vars, workerVars
<1>7. UNCHANGED unloadVars => UNCHANGED wpc
  BY DEF unloadVars, allVars, vars, workerVars
<1>8. wpc'[x] \in {wpc[x], "size", "none"} \/ x \in begun
  <2>1. (\E c \in Callers :
           \/ \E e \in Exes, k \in Modes :
                <<c, e>> \in Uses /\ BridgeCall(c, e, k) /\ UNCHANGED threadVars
           \/ UnloadCaller(c)) => wpc'[x] \in {wpc[x], "size"}
    BY <1>2 DEF UnloadCaller
  <2> QED
    BY <2>1, <1>3, <1>4, <1>5, <1>6, <1>7 DEF UnloadNext
<1> QED
  BY <1>1, <1>8

(* Once bridge_exit is called no process is between two operations of a     *)
(* request.                                                                 *)
LEMMA ExitFinishes ==
  ASSUME Pointers, MapInv, exitpc # "no", NEW p \in Procs, hpc[p] \notin {"none", "gone"}
  PROVE  hpc[p] \in {"idle"} \union Finishing
<1>1. /\ Mutex /\ EntryIdle /\ InMap /\ Dropped
      /\ \A c \in Callers : bpc[c] = "idle"
  BY DEF MapInv, Mutex
<1>2. CASE p \in lost
  BY <1>1, <1>2 DEF Dropped
<1>3. CASE p \notin lost
  <2>1. PICK e \in Exes : map[e] = p
    BY <1>1, <1>3 DEF InMap
  <2> QED
    BY <1>1, <2>1, BridgeAssumption DEF EntryIdle
<1> QED
  BY <1>2, <1>3

LEMMA NextEnded ==
  ASSUME WaitInv, why = "end", exitpc # "no", [BridgeNext]_allVars
  PROVE  \A p \in Procs : Ended(p)'
<1> SUFFICES ASSUME NEW x \in Procs PROVE Ended(x)'
  OBVIOUS
<1>1. Pointers /\ TypeOK /\ MapInv /\ Mutex /\ \A p \in Procs : Ended(p)
  BY DEF WaitInv, Typed, MapInv
<1>2. CASE UNCHANGED <<wpc, q, prev>> /\ (hpc[x] \in {"free", "gone"} => hpc'[x] = hpc[x])
  BY <1>1, <1>2 DEF Ended
<1>3. CASE UNCHANGED allVars
  BY <1>2, <1>3 DEF allVars, vars, hostVars, workerVars
<1>4. CASE ExitCall \/ Exit
  <2>1. ASSUME NEW e \in Exes, ExitFinish(e)
        PROVE  /\ UNCHANGED <<wpc, q, prev>>
               /\ hpc[x] \in {"free", "gone"} => hpc'[x] = hpc[x]
    <3>1. map[e] \in Procs /\ FinishCall(map[e])
      BY <1>1, <2>1 DEF ExitFinish, Pointers
    <3> QED
      BY <1>1, <3>1 DEF FinishCall, HostGoto, TypeOK, workerVars
  <2> QED
    BY <1>2, <1>4, <2>1 DEF ExitCall, Exit, ExitFree, ExitDone, vars, hostVars, workerVars
<1>5. ASSUME NEW p \in Procs,
             BridgeHost(p) \/ BridgeWorker(p) \/ BridgeChild(p) \/ BridgeChildLeaves(p)
      PROVE  Ended(x)'
  <2>1. CASE x # p
    <3>1. Untouched(x)
      BY <1>1, <1>5, <2>1, OthersUntouched
      DEF BridgeHost, BridgeWorker, BridgeChild, BridgeChildLeaves, StepOf
    <3> QED
      BY <1>1, <3>1 DEF Untouched, Ended
  <2>2. CASE BridgeChild(p) \/ BridgeChildLeaves(p)
    BY <1>2, <2>2 DEF BridgeChild, Child, BridgeChildLeaves, ChildLeaves, hostVars, workerVars
  <2>3. ~BridgeWorker(p)
    BY <1>1 DEF Ended, BridgeWorker, Worker, WorkerReads, BeginRead, GotSize, NoSize, GotBody,
                NoBody, ReadFails, WorkerPushes, WorkerEnds
  <2>4. CASE BridgeHost(p) /\ x = p
    <3>1. hpc[p] \in {"idle", "none"} \union Finishing /\ Host(p)
      BY <1>1, <2>4, ExitFinishes DEF BridgeHost, Finishing
    <3>2. ProcessFinish(p)
      BY <3>1 DEF Finishing, Host, ProcessCloseStderr, ProcessWrite, WritePart, WriteFails,
                  ProcessRead, HostGoto
    <3>3. UNCHANGED wpc
      BY <3>2 DEF ProcessFinish, workerVars
    <3>4. CASE FinishCloseIn(p) \/ FinishCloseOut(p) \/ FinishCloseRest(p)
      BY <1>1, <2>4, <3>3, <3>4
      DEF FinishCloseIn, FinishCloseOut, FinishCloseRest, FinishClose, HostGoto, Ended
    <3>5. CASE FinishDrain(p)
      <4>1. q[p] = <<EndMark>>
        BY <1>1, <3>5 DEF FinishDrain, Ended
      <4>2. q'[p] = <<>> /\ hpc'[p] = "free"
        BY <1>1, <3>5, <4>1, Tuples DEF FinishDrain, TypeOK
      <4> QED
        BY <1>1, <2>4, <3>3, <4>2 DEF Ended
    <3>6. CASE FinishFree(p)
      <4>1. UNCHANGED q /\ hpc'[p] = "gone"
        BY <1>1, <3>6 DEF FinishFree, HostGoto, TypeOK
      <4> QED
        BY <1>1, <2>4, <3>3, <4>1 DEF Ended
    <3> QED
      BY <3>2, <3>4, <3>5, <3>6 DEF ProcessFinish
  <2> QED
    BY <1>5, <2>1, <2>2, <2>3, <2>4
<1>6. ASSUME NEW c \in Callers,
             Caller(c) \/ \E e \in Exes, k \in Modes : BridgeCall(c, e, k)
      PROVE  FALSE
  BY <1>1, <1>6, CallerMutex
<1> QED
  BY <1>3, <1>4, <1>5, <1>6 DEF BridgeNext

LEMMA EndOfHost ==
  ASSUME UnloadInv, WaitInv, HostEnds
  PROVE  Pointers' /\ Typed' /\ MapInv' /\ \A p \in Procs : Ended(p)'
<1>1. /\ exitpc = "no" /\ why # "end" /\ BridgeInv /\ AwaitedInv /\ Typed
      /\ \A c \in Callers : bpc[c] = "idle"
  BY DEF UnloadInv, WaitInv, HostEnds
<1>2. /\ UNCHANGED <<hostVars, q, heap, qi, childVars, pipeVars, closeWaits, map, owner,
                     lost, bpc, callVars>>
      /\ wpc' = [p \in Procs |-> IF wpc[p] = "done" THEN "done" ELSE "none"]
      /\ exitpc' = "finish"
  BY DEF HostEnds
<1>3. Pointers'
  BY <1>1, <1>2 DEF BridgeInv, Pointers, callVars
<1>4. TypeOK'
  BY <1>1, <1>2 DEF Typed, TypeOK, hostVars, childVars, pipeVars
<1>5. Carried'
  BY <1>1, <1>2 DEF Typed, Carried, hostVars, childVars
<1>6. MapInv'
  BY <1>1, <1>2
  DEF BridgeInv, MapInv, Mutex, Placed, OneEntry, EntryIdle, InMap, Dropped, Emptied,
      hostVars, callVars
<1>7. ASSUME NEW p \in Procs PROVE Ended(p)'
  <2>1. hpc[p] \in {"none", "idle", "gone"}
    <3>1. InMap /\ EntryIdle /\ Dropped
      BY <1>1 DEF BridgeInv, MapInv
    <3>2. hpc[p] \notin {"none", "gone"} => (\E e \in Exes : map[e] = p) \/ p \in lost
      BY <1>1, <3>1 DEF InMap
    <3> QED
      BY <1>1, <3>1, <3>2, BridgeAssumption DEF EntryIdle, Dropped
  <2>2. Drained(p) /\ Awaited(p)
    BY <1>1, <2>1 DEF BridgeInv, FlowInv, Here, Flow, Between, Travelling, Lost, Served,
                      Replying, CutShort, Replied, AwaitedInv
  <2>3. wpc'[p] = IF wpc[p] = "done" THEN "done" ELSE "none"
    BY <1>2
  <2> QED
    BY <1>2, <2>2, <2>3 DEF Drained, Awaited, Ended, hostVars
<1> QED
  BY <1>3, <1>4, <1>5, <1>6, <1>7 DEF Typed

LEMMA NextWait == UnloadInv /\ UnloadInv' /\ WaitInv /\ [UnloadNext]_unloadVars => WaitInv'
<1> SUFFICES ASSUME UnloadInv, UnloadInv', WaitInv, [UnloadNext]_unloadVars PROVE WaitInv'
  OBVIOUS
<1>1. \A p \in Procs : wpc'[p] \notin {"none", "size"} => p \in begun'
  BY NextBegun DEF WaitInv, Typed
<1>2. CASE HostEnds
  <2>1. why' = "end"
    BY <1>2 DEF HostEnds
  <2> QED
    BY <1>1, <1>2, <2>1, EndOfHost DEF WaitInv
<1>3. CASE [BridgeNext]_allVars /\ why' \in {why, "free"}
  <2>1. Pointers' /\ Typed' /\ MapInv'
    BY <1>3, NextPointers, BridgeUsesProcess, NextTyped, NextMap DEF WaitInv, Typed
  <2>2. why = "end" => why' = why
    <3>1. FreeLibrary => exitpc = "no"
      BY DEF FreeLibrary, ExitCall
    <3>2. FreeLibrary \/ HostEnds \/ why' = why
      BY DEF UnloadNext, UnloadCaller, UnloadExit, ThreadBegins, ThreadEnds, UnloadHost,
             UnloadWorker, UnloadChild, threadVars, unloadVars
    <3>3. HostEnds => why' = "end"
      BY DEF HostEnds
    <3> QED
      BY <3>1, <3>2, <3>3 DEF UnloadInv
  <2>3. why' # "end" => AwaitedInv' /\ Settled'
    <3>1. SUFFICES ASSUME why # "end" PROVE AwaitedInv' /\ Settled'
      BY <2>2
    <3>2. BridgeInv /\ AwaitedInv /\ Settled
      BY <3>1 DEF UnloadInv, WaitInv
    <3> QED
      BY <1>3, <3>2, NextAwaited, NextSettled, BridgeUsesProcess DEF BridgeInv
  <2>4. why' = "end" => \A p \in Procs : Ended(p)'
    <3>1. why' = "end" => why = "end" /\ exitpc # "no"
      BY <1>3 DEF UnloadInv
    <3> QED
      BY <1>3, <3>1, NextEnded
  <2> QED
    BY <1>1, <2>1, <2>3, <2>4 DEF WaitInv
<1> QED
  BY <1>2, <1>3, UnloadUsesBridge

LEMMA WaitInvariant == UnloadSpec => [](UnloadInv /\ WaitInv)
<1>1. UnloadInit => UnloadInv /\ WaitInv
  BY InitBridge, InitWait DEF UnloadInit, UnloadInv
<1> QED
  BY <1>1, NextUnloadInv, NextWait, PTL DEF UnloadSpec

(* An operation of a process goes on, or waits for an end mark in vain.     *)
LEMMA OperationGoesOn ==
  ASSUME UnloadInv, WaitInv, NEW p \in Procs, hpc[p] \notin {"none", "idle", "gone"},
         exitpc # "no" => hpc[p] \in Finishing
  PROVE  GoesOn(p) \/ MarkNeverComes(p)
<1>1. TypeOK /\ (wpc[p] \notin {"none", "size"} => p \in begun)
  BY DEF WaitInv, Typed
<1>2. CASE why = "end"
  <2>1. exitpc # "no" /\ hpc[p] \in Finishing \ {"gone"} /\ Ended(p)
    BY <1>2 DEF UnloadInv, WaitInv
  <2>2. hpc[p] # "drain" => HostCan(p)
    BY <2>1 DEF Finishing, Ended, HostCan, Reading
  <2>3. hpc[p] = "drain" /\ q[p] # <<>> => HostCan(p)
    BY DEF HostCan
  <2>4. hpc[p] = "drain" /\ q[p] = <<>> => MarkNeverComes(p)
    BY <2>1 DEF Ended, MarkNeverComes
  <2> QED
    BY <2>2, <2>3, <2>4 DEF GoesOn
<1>3. CASE why # "end"
  <2>1. IInv /\ FlowInv /\ AwaitedInv /\ Life(p)
    BY <1>3 DEF UnloadInv, WaitInv, BridgeInv, IInv, LifeInv
  <2>2. HostCan(p) \/ WorkerCan(p) \/ ChildCan(p) \/ MarkTaken(p)
    BY <2>1, NoWait
  <2>3. MarkTaken(p) => MarkNeverComes(p)
    BY DEF MarkTaken, MarkNeverComes
  <2>4. CASE p \in begun
    BY <2>2, <2>3, <2>4 DEF GoesOn
  <2>5. CASE p \notin begun
    <3>1. wpc[p] = "size"
      BY <1>1, <2>1, <2>5 DEF Life
    <3>2. CASE LoaderLockFree
      BY <2>5, <3>1, <3>2 DEF GoesOn
    <3>3. CASE ~LoaderLockFree
      <4>1. hpc[p] \in Finishing \ {"gone"}
        BY <3>3 DEF LoaderLockFree
      <4>2. hpc[p] # "drain" \/ q[p] # <<>> => HostCan(p)
        BY <3>1, <4>1 DEF HostCan, Finishing, Reading
      <4>3. hpc[p] = "drain" /\ q[p] = <<>> => MarkNeverComes(p)
        BY <2>5, <3>3 DEF MarkNeverComes
      <4> QED
        BY <4>2, <4>3 DEF GoesOn
    <3> QED
      BY <3>2, <3>3
  <2> QED
    BY <2>4, <2>5
<1> QED
  BY <1>2, <1>3

(* Of a caller. *)
LEMMA CallerGoesOn ==
  ASSUME UnloadInv, WaitInv, NEW c \in Callers, bpc[c] # "idle"
  PROVE  \/ CallerCan(c)
         \/ bpc[c] = "lock" /\ owner \in Callers \ {c} /\ bpc[owner] \in Inside
         \/ /\ bpc[c] \in {"put", "finish", "undo", "wait"}
            /\ GoesOn(proc[c]) \/ MarkNeverComes(proc[c])
         \/ bpc[c] = "write" /\ msg[proc[c]].id = MaxCalls
<1>1. /\ Pointers /\ Mutex /\ Placed(c) /\ EntryIdle /\ TypeOK
  BY DEF WaitInv, MapInv, Typed
<1>2. exitpc = "no" /\ why # "end" /\ Settled
  BY <1>1 DEF Mutex, UnloadInv, WaitInv
<1>3. bpc[c] \in {"lock", "result"} \union Inside
  BY <1>1 DEF Pointers, Looking, Inside
<1>4. bpc[c] \in {"put", "finish", "undo", "wait", "write"} => proc[c] \in Procs
  BY <1>1 DEF Pointers, Operating
<1>5. CASE bpc[c] = "lock"
  BY <1>1, <1>5 DEF Mutex, CallerCan, Inside
<1>6. CASE bpc[c] \in {"start", "image", "unlock", "result"}
  BY <1>6 DEF CallerCan
<1>7. CASE bpc[c] = "find"
  <2>1. \A d \in Callers : bpc[d] \notin {"finish", "wait"}
    BY <1>1, <1>7 DEF Mutex, Inside
  <2>2. exe[c] \in Exes
    BY <1>1, <1>7 DEF Pointers, Looking
  <2>3. map[exe[c]] # Null => hpc[map[exe[c]]] = "idle"
    BY <1>1, <1>2, <2>1, <2>2 DEF EntryIdle
  <2> QED
    BY <1>7, <2>3 DEF CallerCan
<1>8. CASE bpc[c] = "write"
  <2>1. hpc[proc[c]] = "idle"
    BY <1>1, <1>8 DEF Placed
  <2>2. msg[proc[c]] \in Replies \union {NoItem}
    BY <1>1, <1>4, <1>8 DEF TypeOK
  <2>3. msg[proc[c]].id \in 0 .. MaxCalls
    BY <2>2, ItemFacts, ProcessAssumption DEF Replies, NoItem
  <2>4. MaxCalls \in Nat
    BY ProcessAssumption
  <2>5. msg[proc[c]].id < MaxCalls \/ msg[proc[c]].id = MaxCalls
    BY <2>3, <2>4
  <2> QED
    BY <1>8, <2>1, <2>5 DEF CallerCan
<1>9. CASE bpc[c] \in {"put", "finish", "undo", "wait"}
  <2>1. hpc[proc[c]] = "idle" => CallerCan(c)
    BY <1>1, <1>2, <1>9 DEF Placed, Finishing, Settled, CallerCan
  <2>2. hpc[proc[c]] = "gone" => CallerCan(c)
    BY <1>1, <1>9 DEF Placed, CallerCan
  <2>3. hpc[proc[c]] # "none"
    BY <1>1, <1>9 DEF Placed, Finishing
  <2> QED
    BY <1>2, <1>4, <1>9, <2>1, <2>2, <2>3, OperationGoesOn
<1> QED
  BY <1>3, <1>5, <1>6, <1>7, <1>8, <1>9 DEF Inside

(* Nobody waits for nothing: g_mutex is given back on every path, no wait   *)
(* on pipes, queues, mutex, map and the lock of the loader closes a circle, *)
(* and DllMain and the callers can stop for good only at an end mark that   *)
(* never comes.                                                             *)
THEOREM NobodyIsStuckCorrect == UnloadSpec => []NobodyIsStuck
<1>1. UnloadInv /\ WaitInv => NobodyIsStuck
  <2> SUFFICES ASSUME UnloadInv, WaitInv, exitpc = "finish", ~ExitCan
               PROVE  \E e \in Exes :
                        /\ map[e] # Null /\ hpc[map[e]] \in Finishing \ {"gone"}
                        /\ GoesOn(map[e]) \/ MarkNeverComes(map[e])
    BY CallerGoesOn DEF NobodyIsStuck
  <2>1. Pointers /\ MapInv
    BY DEF WaitInv
  <2>2. PICK e \in Exes : map[e] # Null /\ hpc[map[e]] # "idle"
    BY DEF ExitCan
  <2>3. map[e] \in Procs /\ hpc[map[e]] # "gone"
    BY <2>1, <2>2 DEF Pointers, ExitCan
  <2>4. hpc[map[e]] \in Finishing
    BY <2>1, <2>2 DEF MapInv, EntryIdle, Mutex
  <2>5. GoesOn(map[e]) \/ MarkNeverComes(map[e])
    BY <2>2, <2>3, <2>4, OperationGoesOn DEF Finishing
  <2> QED
    BY <2>2, <2>3, <2>4, <2>5
<1> QED
  BY <1>1, WaitInvariant, PTL
=============================================================================
