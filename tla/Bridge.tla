------------------------------- MODULE Bridge -------------------------------
(***************************************************************************)
(* src/src/bridge.c, and the use lua_bridge_call of src/src/luamain.c      *)
(* makes of its result: callers send requests to programs.  bridge_call    *)
(* holds g_mutex from its first step to its last, finds the process of the *)
(* program in g_process_map, finishes it if it has exited, starts one if   *)
(* there is none, puts the image into the memory shared with all children, *)
(* sends the request, waits for the reply and takes the image back.        *)
(* bridge_exit finishes all processes.                                     *)
(*                                                                         *)
(* The processes are those of module Process, whose actions the steps here *)
(* are built from: this module decides only which operation is called on   *)
(* which process and when.  Module Process models what happens inside.     *)
(***************************************************************************)
EXTENDS Process

CONSTANTS
  Callers,   (* threads that call bridge_call                              *)
  Exes,      (* paths of programs, the keys of g_process_map               *)
  Uses,      (* <<c, e>>: caller c calls program e                         *)
  Modes,     (* kinds of calls: subsets of {"r", "w"}; {} has no call_mem  *)
  Null,      (* no struct process, no path: outside the map or a call      *)
  Nobody,    (* owner of a free mutex                                      *)
  MaxTotal   (* bound: calls of bridge_call in one behaviour               *)

ASSUME BridgeAssumption ==
  /\ Uses \subseteq Callers \X Exes
  /\ Modes \subseteq SUBSET {"r", "w"}
  /\ Null \notin Procs \union Exes
  /\ Nobody \notin Callers
  /\ MaxTotal \in Nat

VARIABLES
  map,       (* g_process_map: the process of each program                 *)
  lost,      (* the processes whose entries a put that failed has dropped:  *)
             (* allocated, but nothing in the program refers to them       *)
  owner,     (* g_mutex                                                    *)
  bpc,       (* where each caller is                                       *)
  exe, mode, (* per caller: exe_path and mem->mode                         *)
  proc,      (* per caller: hmv->value or p                                *)
  code,      (* per caller: the ECALL_ value                               *)
  reply,     (* per caller: what r points to                               *)
  asked,     (* per process: the mode of the request it was last sent      *)
  view,      (* g_view: the size written for a request, the body           *)
  image,     (* per caller: mem->buf                                       *)
  exitpc,    (* bridge_exit                                                *)
  total      (* calls so far                                               *)

callVars == <<exe, mode, proc, code, reply, asked, image>>
bridgeVars == <<map, lost, owner, bpc, callVars, view, exitpc, total>>
allVars == <<vars, bridgeVars>>

(* A request, and what a part of the view or an image holds: the data put   *)
(* there by the host or by the child for a request; the image comes before  *)
(* the request, so one may be there for a request beyond the bound.         *)
Requests == Procs \X (1 .. MaxCalls + 1)
NoRequest == <<Null, 0>>
Pixels == [of : Requests \union {NoRequest}, by : {"host", "child"}]
Blank == [of |-> NoRequest, by |-> "host"]

BridgeInit ==
  /\ Init
  /\ map = [e \in Exes |-> Null]
  /\ lost = {}
  /\ owner = Nobody
  /\ bpc = [c \in Callers |-> "idle"]
  /\ exe = [c \in Callers |-> Null]
  /\ mode = [c \in Callers |-> {}]
  /\ proc = [c \in Callers |-> Null]
  /\ code = [c \in Callers |-> "OK"]
  /\ reply = [c \in Callers |-> NoRequest]
  /\ asked = [p \in Procs |-> {}]
  /\ view = [size |-> NoRequest, body |-> Blank]
  /\ image = [c \in Callers |-> Blank]
  /\ exitpc = "no"
  /\ total = 0

Goto(c, from, to) ==
  /\ bpc[c] = from
  /\ bpc' = [bpc EXCEPT ![c] = to]

(* The request the caller is about to send, and the one it has sent. *)
NextRequest(c) == <<proc[c], msg[proc[c]].id + 1>>
Sent(c) == <<proc[c], msg[proc[c]].id>>

-----------------------------------------------------------------------------

(* lua_bridge_call calls bridge_call. *)
BridgeCall(c, e, m) ==
  /\ Goto(c, "idle", "lock")
  /\ exitpc = "no"
  /\ total < MaxTotal
  /\ total' = total + 1
  /\ exe' = [exe EXCEPT ![c] = e]
  /\ mode' = [mode EXCEPT ![c] = m]
  /\ UNCHANGED <<vars, map, lost, owner, proc, code, reply, asked, image, view, exitpc>>

(* Mutant: nobody waits for the mutex. *)
DoesNotLock(c) ==
  /\ Goto(c, "lock", "find")
  /\ owner' = c
  /\ UNCHANGED <<vars, map, lost, callVars, view, exitpc, total>>

Lock(c) ==
  /\ Goto(c, "lock", "find")
  /\ owner = Nobody
  /\ owner' = c
  /\ UNCHANGED <<vars, map, lost, callVars, view, exitpc, total>>

(* hashmap_get, and process_finish if the process has exited. *)
Find(c) ==
  /\ bpc[c] = "find"
  /\ proc' = [proc EXCEPT ![c] = map[exe[c]]]
  /\ LET p == map[exe[c]]
     IN  \/ /\ p = Null
            /\ Goto(c, "find", "start")
            /\ UNCHANGED vars
         \/ /\ p # Null /\ process_isrunning(p)
            /\ Goto(c, "find", "image")
            /\ UNCHANGED vars
         \/ /\ p # Null /\ ~process_isrunning(p)
            /\ Goto(c, "find", "finish")
            /\ FinishCall(p)
  /\ UNCHANGED <<map, lost, owner, exe, mode, code, reply, asked, image, view, exitpc, total>>

(* Mutant: the entry stays in the map. *)
KeepsEntry(c) ==
  /\ Goto(c, "finish", "start")
  /\ hpc[proc[c]] = "gone"
  /\ UNCHANGED <<vars, map, lost, owner, callVars, view, exitpc, total>>

(* process_finish has returned: hashmap_remove. *)
Remove(c) ==
  /\ Goto(c, "finish", "start")
  /\ hpc[proc[c]] = "gone"
  /\ map' = [map EXCEPT ![exe[c]] = Null]
  /\ UNCHANGED <<vars, lost, owner, callVars, view, exitpc, total>>

Fail(c, from, why) ==
  /\ Goto(c, from, "unlock")
  /\ code' = [code EXCEPT ![c] = why]
  /\ UNCHANGED <<map, lost, owner, exe, mode, proc, reply, asked, image, view, exitpc, total>>

(* The path is not converted, or process_start returns NULL. *)
StartFails(c) ==
  \E why \in {"FAILED_TO_CONVERT_EXE_PATH", "FAILED_TO_START_PROCESS"} :
    Fail(c, "start", why) /\ UNCHANGED vars

(* process_start returns a struct; process_close_stderr follows. *)
Start(c) ==
  /\ Goto(c, "start", "put")
  /\ \E p \in Procs : hpc[p] = "none"
  /\ LET p == CHOOSE p \in Procs : hpc[p] = "none"
     IN  ProcessStart(p) /\ proc' = [proc EXCEPT ![c] = p]
  /\ UNCHANGED <<map, lost, owner, exe, mode, code, reply, asked, image, view, exitpc, total>>

Put(c) ==
  /\ Goto(c, "put", "image")
  /\ hpc[proc[c]] = "idle"
  /\ map' = [map EXCEPT ![exe[c]] = proc[c]]
  /\ UNCHANGED <<vars, lost, owner, callVars, view, exitpc, total>>

(* hashmap_put fails: the new process is finished.  If it failed while one  *)
(* table grew into another, entries of other programs are dropped with the  *)
(* tables; module HashMap shows how.                                        *)
PutFails(c) ==
  /\ Goto(c, "put", "undo")
  /\ FinishCall(proc[c])
  /\ \E dropped \in SUBSET {e \in Exes : map[e] # Null} :
       /\ map' = [e \in Exes |-> IF e \in dropped THEN Null ELSE map[e]]
       /\ lost' = lost \union {map[e] : e \in dropped}
  /\ UNCHANGED <<owner, callVars, view, exitpc, total>>

Undone(c) ==
  /\ Fail(c, "undo", "FAILED_TO_START_PROCESS")
  /\ hpc[proc[c]] = "gone"
  /\ UNCHANGED vars

(* Mutant: only the size is written. *)
SharesSize(c) ==
  /\ Goto(c, "image", "write")
  /\ view' = IF mode[c] = {} THEN view ELSE [view EXCEPT !.size = NextRequest(c)]
  /\ UNCHANGED <<vars, map, lost, owner, callVars, exitpc, total>>

(* A call with an image writes its size, and its pixels if the child is to  *)
(* read them.                                                               *)
ShareImage(c) ==
  /\ Goto(c, "image", "write")
  /\ view' = IF mode[c] = {} THEN view
             ELSE [size |-> NextRequest(c),
                   body |-> IF "r" \in mode[c]
                            THEN [of |-> NextRequest(c), by |-> "host"]
                            ELSE view.body]
  /\ UNCHANGED <<vars, map, lost, owner, callVars, exitpc, total>>

Send(c) ==
  /\ Goto(c, "write", "wait")
  /\ \E len \in Lens : WriteCall(proc[c], len)
  /\ asked' = [asked EXCEPT ![proc[c]] = mode[c]]
  /\ UNCHANGED <<map, lost, owner, exe, mode, proc, code, reply, image, view, exitpc, total>>

(* Mutant: the image is copied back all the same.                           *)
CopiesOnFailure(c) ==
  /\ Goto(c, "wait", "unlock")
  /\ ret[proc[c]] \in {"notSent", "notReceived"}
  /\ hpc[proc[c]] = "idle"
  /\ code' = [code EXCEPT ![c] = "FAILED_TO_SEND_COMMAND"]
  /\ image' = [image EXCEPT ![c] = IF "w" \in mode[c] THEN view.body ELSE @]
  /\ UNCHANGED <<vars, map, lost, owner, exe, mode, proc, reply, asked, view, exitpc, total>>

(* process_write or process_read has failed.  The process stays in the map. *)
SendFails(c) ==
  /\ \/ Fail(c, "wait", "FAILED_TO_SEND_COMMAND") /\ ret[proc[c]] = "notSent"
     \/ Fail(c, "wait", "FAILED_TO_RECEIVE_COMMAND") /\ ret[proc[c]] = "notReceived"
  /\ hpc[proc[c]] = "idle"
  /\ UNCHANGED vars

(* Mutant: the end mark is taken for a reply. *)
TakesEndMark(c) ==
  /\ Goto(c, "wait", "unlock")
  /\ hpc[proc[c]] = "idle"
  /\ ret[proc[c]] \in {"ok", "notReceived"}
  /\ image' = [image EXCEPT ![c] = IF "w" \in mode[c] THEN view.body ELSE @]
  /\ reply' = [reply EXCEPT ![c] = <<proc[c], prev[proc[c]].id>>]
  /\ code' = [code EXCEPT ![c] = "OK"]
  /\ UNCHANGED <<vars, map, lost, owner, exe, mode, proc, asked, view, exitpc, total>>

(* process_read has returned a reply: the pixels are copied back, r points  *)
(* into previous_queue_item.                                                *)
Answered(c) ==
  /\ Goto(c, "wait", "unlock")
  /\ hpc[proc[c]] = "idle"
  /\ ret[proc[c]] = "ok"
  /\ image' = [image EXCEPT ![c] = IF "w" \in mode[c] THEN view.body ELSE @]
  /\ reply' = [reply EXCEPT ![c] = <<proc[c], prev[proc[c]].id>>]
  /\ code' = [code EXCEPT ![c] = "OK"]
  /\ UNCHANGED <<vars, map, lost, owner, exe, mode, proc, asked, view, exitpc, total>>

Unlock(c) ==
  /\ Goto(c, "unlock", "result")
  /\ owner' = Nobody
  /\ UNCHANGED <<vars, map, lost, callVars, view, exitpc, total>>

(* lua_bridge_call pushes the bytes r points to, or raises an error; its    *)
(* variables go out of scope.                                               *)
PushResult(c) ==
  /\ Goto(c, "result", "idle")
  /\ exe' = [exe EXCEPT ![c] = Null]
  /\ mode' = [mode EXCEPT ![c] = {}]
  /\ proc' = [proc EXCEPT ![c] = Null]
  /\ code' = [code EXCEPT ![c] = "OK"]
  /\ reply' = [reply EXCEPT ![c] = NoRequest]
  /\ image' = [image EXCEPT ![c] = Blank]
  /\ UNCHANGED <<vars, map, lost, owner, asked, view, exitpc, total>>

Caller(c) ==
  \/ Lock(c) \/ Find(c) \/ Remove(c) \/ Start(c) \/ StartFails(c)
  \/ Put(c) \/ PutFails(c) \/ Undone(c) \/ ShareImage(c) \/ Send(c)
  \/ SendFails(c) \/ Answered(c) \/ Unlock(c) \/ PushResult(c)

-----------------------------------------------------------------------------

(* bridge_exit, called when the library is unloaded and nobody is inside    *)
(* bridge_call: it takes the mutex, never to give it back.                  *)
ExitCall ==
  /\ exitpc = "no"
  /\ \A c \in Callers : bpc[c] = "idle"
  /\ exitpc' = "finish"
  /\ UNCHANGED <<vars, map, lost, owner, bpc, callVars, view, total>>

(* delete_all_callback, for the next entry ... *)
ExitFinish(e) ==
  /\ exitpc = "finish"
  /\ map[e] # Null
  /\ \A d \in Exes : map[d] # Null => hpc[map[d]] = "idle"
  /\ FinishCall(map[e])
  /\ UNCHANGED bridgeVars

(* ... which is freed when process_finish has returned. *)
ExitFree(e) ==
  /\ exitpc = "finish"
  /\ map[e] # Null
  /\ hpc[map[e]] = "gone"
  /\ map' = [map EXCEPT ![e] = Null]
  /\ UNCHANGED <<vars, lost, owner, bpc, callVars, view, exitpc, total>>

ExitDone ==
  /\ exitpc = "finish"
  /\ \A e \in Exes : map[e] = Null
  /\ exitpc' = "done"
  /\ UNCHANGED <<vars, map, lost, owner, bpc, callVars, view, total>>

Exit == (\E e \in Exes : ExitFinish(e) \/ ExitFree(e)) \/ ExitDone

-----------------------------------------------------------------------------

(* At work a child writes the pixels of a request that asks for them.       *)
ChildDraws(p) ==
  view' = IF cpc[p] = "work" /\ "w" \in asked[p]
          THEN [view EXCEPT !.body = [of |-> <<p, job[p].id>>, by |-> "child"]]
          ELSE view

BridgeHost(p) == Host(p) /\ UNCHANGED bridgeVars
BridgeWorker(p) == Worker(p) /\ UNCHANGED bridgeVars
BridgeChild(p) ==
  /\ Child(p)
  /\ ChildDraws(p)
  /\ UNCHANGED <<map, lost, owner, bpc, callVars, exitpc, total>>
BridgeChildLeaves(p) == ChildLeaves(p) /\ UNCHANGED bridgeVars

BridgeNext ==
  \/ \E c \in Callers :
       \/ \E e \in Exes, m \in Modes : <<c, e>> \in Uses /\ BridgeCall(c, e, m)
       \/ Caller(c)
  \/ ExitCall \/ Exit
  \/ \E p \in Procs :
       BridgeHost(p) \/ BridgeWorker(p) \/ BridgeChild(p) \/ BridgeChildLeaves(p)

BridgeSpec == BridgeInit /\ [][BridgeNext]_allVars

(* Every thread that can run does, and the children follow the protocol.    *)
(* A caller waits for the mutex only as long as a bounded number of calls   *)
(* takes, so weak fairness is enough for it.                                *)
BridgeFairness ==
  /\ \A c \in Callers : WF_allVars(Caller(c))
  /\ WF_allVars(Exit)
  /\ \A p \in Procs : /\ WF_allVars(BridgeHost(p))
                      /\ WF_allVars(BridgeWorker(p))
                      /\ WF_allVars(BridgeChild(p))

BridgeFairSpec == BridgeSpec /\ BridgeFairness

-----------------------------------------------------------------------------

Codes == {"OK", "FAILED_TO_CONVERT_EXE_PATH", "FAILED_TO_START_PROCESS",
          "FAILED_TO_SEND_COMMAND", "FAILED_TO_RECEIVE_COMMAND"}

BridgeTypeOK ==
  /\ TypeOK
  /\ map \in [Exes -> Procs \union {Null}]
  /\ lost \subseteq Procs
  /\ owner \in Callers \union {Nobody}
  /\ bpc \in [Callers -> {"idle", "lock", "find", "finish", "start", "put", "undo",
                          "image", "write", "wait", "unlock", "result"}]
  /\ exe \in [Callers -> Exes \union {Null}]
  /\ mode \in [Callers -> SUBSET {"r", "w"}]
  /\ proc \in [Callers -> Procs \union {Null}]
  /\ code \in [Callers -> Codes]
  /\ reply \in [Callers -> Requests \union {NoRequest}]
  /\ asked \in [Procs -> SUBSET {"r", "w"}]
  /\ view \in [size : Requests \union {NoRequest}, body : Pixels]
  /\ image \in [Callers -> Pixels]
  /\ exitpc \in {"no", "finish", "done"}
  /\ total \in 0 .. MaxTotal

(* Outside bridge_call every struct process is in the map, once, alive and  *)
(* between two operations, whichever of the steps failed: no process is     *)
(* finished twice or used after process_finish, and none is lost but those  *)
(* whose entries a failing hashmap_put has dropped.  They are not touched   *)
(* again.                                                                   *)
MapIsExact ==
  owner = Nobody /\ exitpc = "no" =>
    /\ \A p \in Procs :
         mem[p] = "live" <=> (\E e \in Exes : map[e] = p) \/ p \in lost
    /\ \A d, e \in Exes : d # e /\ map[d] # Null => map[d] # map[e]
    /\ \A e \in Exes : map[e] # Null => map[e] \notin lost /\ hpc[map[e]] = "idle"
    /\ \A p \in lost : hpc[p] = "idle"

(* However many children run, at most one is between the first byte of a    *)
(* request and the last byte of its reply: they all share one view.         *)
OneChildAtWork ==
  Cardinality({p \in Procs : cpc[p] \in Phases \ {"fresh", "idle"}}) <= 1

(* A child at work finds in the view the size and the pixels that belong to *)
(* the request it serves.                                                   *)
ChildSeesItsRequest == \A p \in Procs :
  cpc[p] = "work" =>
    /\ asked[p] # {} => view.size = <<p, job[p].id>>
    /\ "r" \in asked[p] => view.body = [of |-> <<p, job[p].id>>, by |-> "host"]

(* A call that returns OK has the reply, and if it asked for it the image,  *)
(* that the child made for this very request; a call that fails leaves the  *)
(* image as it was.                                                         *)
CallGetsItsAnswer == \A c \in Callers :
  bpc[c] = "unlock" =>
    /\ code[c] = "OK" => reply[c] = Sent(c)
    /\ image[c] = IF code[c] = "OK" /\ "w" \in mode[c]
                  THEN [of |-> Sent(c), by |-> "child"] ELSE Blank

(* A program that has exited is started again by the next call.             *)
NextCallRestarts == \A c \in Callers :
  (bpc[c] = "find" /\ map[exe[c]] # Null /\ ~process_isrunning(map[exe[c]]))
    ~> bpc[c] = "start"
=============================================================================
