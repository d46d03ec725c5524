------------------------------ MODULE Process -------------------------------
(***************************************************************************)
(* struct process of src/src/process.c: a child program, the two pipes     *)
(* that carry requests and replies, the thread that reads the replies      *)
(* (read_worker) and the operations the bridge calls (process_write,       *)
(* process_read, process_isrunning, process_finish).                       *)
(*                                                                         *)
(* Three actors share a struct process p.  The host is the one thread that *)
(* holds g_mutex of bridge.c.  The worker is read_worker.  The child is    *)
(* the program of the user, modelled from the protocol of README.md: it    *)
(* reads a size and a body, it may log to stderr, it writes a size and a   *)
(* body, and it ends when its stdin does; it may also end on its own, in   *)
(* the phases the constant MayLeave names.                                 *)
(*                                                                         *)
(* The queue between worker and host is the buffer of module Fifo, which   *)
(* module Queue implements: one worker puts and one host takes.  A pipe    *)
(* holds PipeCap writes; a write to a pipe that nobody can read fails, a   *)
(* read of an empty pipe that nobody can write fails.                      *)
(***************************************************************************)
EXTENDS Integers, Sequences, FiniteSets

CONSTANTS
  Procs,     (* the structs process_start returns, one for each start      *)
  Lens,      (* lengths of requests and replies                            *)
  QueueCap,  (* slots of queue_items; process_start passes 2               *)
  PipeCap,   (* bound: writes a pipe takes before the writer blocks        *)
  MaxCalls,  (* bound: requests per process                                *)
  MayLeave   (* the phases in which a child may end on its own             *)

Phases == {"fresh", "body", "work", "log", "reply", "replyBody", "idle"}

ASSUME ProcessAssumption ==
  /\ Lens \subseteq Nat
  /\ QueueCap \in Nat \ {0}
  /\ PipeCap \in Nat \ {0}
  /\ MaxCalls \in Nat
  /\ MayLeave \subseteq Phases

VARIABLES
  mem,        (* the struct itself: "none", "live" or "freed"              *)
  handles,    (* its handle fields that are not INVALID_HANDLE_VALUE       *)
  q,          (* the queue                                                 *)
  prev,       (* previous_queue_item                                       *)
  heap,       (* the queue items allocated and not yet freed               *)
  hpc, msg,   (* host: where it is, and the request it last sent           *)
  ret,        (* host: the outcome of the last request                     *)
  wpc, qi,    (* worker: where it is, and its local qi                     *)
  cpc, job,   (* child: its phase, and the request it serves               *)
  stdin, stdout, stderr,   (* what is written and not yet read             *)
  closeWaits  (* whether CloseHandle waits for a ReadFile under way        *)

hostVars == <<mem, handles, prev, hpc, msg, ret>>
workerVars == <<wpc, qi>>
childVars == <<cpc, job>>
pipeVars == <<stdin, stdout, stderr>>
vars == <<hostVars, q, heap, workerVars, childVars, pipeVars, closeWaits>>

(* A queue_item, by the request it answers.  Its buf is NULL if and only if *)
(* nothing follows the header, len <= 0.                                    *)
Replies == [id : 1 .. MaxCalls, len : Lens]
EndMark == [id |-> 0, len |-> -1]   (* what the worker queues at its end    *)
NoItem == [id |-> 0, len |-> 0]     (* NULL                                 *)
Items == Replies \union {EndMark}

(* What one WriteFile puts into a pipe. *)
Parts == [part : {"size", "body"}, of : Replies]

HandleFields == {"in_w", "out_r", "err_r", "process"}

Init ==
  /\ mem = [p \in Procs |-> "none"]
  /\ handles = [p \in Procs |-> {}]
  /\ q = [p \in Procs |-> <<>>]
  /\ prev = [p \in Procs |-> NoItem]
  /\ heap = [p \in Procs |-> {}]
  /\ hpc = [p \in Procs |-> "none"]
  /\ msg = [p \in Procs |-> NoItem]
  /\ ret = [p \in Procs |-> "none"]
  /\ wpc = [p \in Procs |-> "none"]
  /\ qi = [p \in Procs |-> NoItem]
  /\ cpc = [p \in Procs |-> "none"]
  /\ job = [p \in Procs |-> NoItem]
  /\ stdin = [p \in Procs |-> <<>>]
  /\ stdout = [p \in Procs |-> <<>>]
  /\ stderr = [p \in Procs |-> 0]
  /\ closeWaits \in BOOLEAN

ChildAlive(p) == cpc[p] \in Phases
ChildGone(p) == cpc[p] \in {"dying", "exited"}

(* The worker is inside ReadFile. *)
Reading(p) == wpc[p] \in {"inSize", "inBody"}

(* The pipe behind the stdout of the child can still be read: ReadFile      *)
(* keeps it open although the handle was closed.                            *)
Readable(p) == "out_r" \in handles[p] \/ Reading(p)

(* WaitForSingleObject(self->process, 0) == WAIT_TIMEOUT *)
process_isrunning(p) == cpc[p] # "exited"

-----------------------------------------------------------------------------
(* The worker: read_worker.  A read is two steps, ReadFile called with the  *)
(* handle found in self->out_r, and ReadFile returned.                      *)

BeginRead(p, from, to) ==
  /\ wpc[p] = from
  /\ "out_r" \in handles[p]
  /\ wpc' = [wpc EXCEPT ![p] = to]
  /\ UNCHANGED <<qi, heap>>

(* Mutant: that the child is gone ends the read, whatever the pipe holds.   *)
FailsWithChild(p, before, inside) ==
  \/ wpc[p] = before /\ "out_r" \notin handles[p]
  \/ wpc[p] = inside /\ ChildGone(p)

(* Either way the read failed: the handle is closed, or the pipe is broken. *)
ReadFails(p, before, inside) ==
  \/ wpc[p] = before /\ "out_r" \notin handles[p]
  \/ wpc[p] = inside /\ ChildGone(p) /\ stdout[p] = <<>>

GotSize(p) ==
  /\ wpc[p] = "inSize"
  /\ stdout[p] # <<>>
  /\ stdout' = [stdout EXCEPT ![p] = Tail(@)]
  /\ LET item == Head(stdout[p]).of
     IN  /\ qi' = [qi EXCEPT ![p] = item]
         /\ heap' = [heap EXCEPT ![p] = @ \union {item}]
         /\ wpc' = [wpc EXCEPT ![p] = IF item.len # 0 THEN "body" ELSE "push"]

NoSize(p) ==
  /\ ReadFails(p, "size", "inSize")
  /\ wpc' = [wpc EXCEPT ![p] = "end"]
  /\ UNCHANGED <<qi, heap, stdout>>

GotBody(p) ==
  /\ wpc[p] = "inBody"
  /\ stdout[p] # <<>>
  /\ stdout' = [stdout EXCEPT ![p] = Tail(@)]
  /\ wpc' = [wpc EXCEPT ![p] = "push"]
  /\ UNCHANGED <<qi, heap>>

(* Mutants: a reply that is cut short is freed but pushed all the same, or  *)
(* it is not freed.                                                         *)
PushesCutBody(p) ==
  /\ ReadFails(p, "body", "inBody")
  /\ heap' = [heap EXCEPT ![p] = @ \ {qi[p]}]
  /\ qi' = [qi EXCEPT ![p] = NoItem]
  /\ wpc' = [wpc EXCEPT ![p] = "push"]
  /\ UNCHANGED stdout

LeaksCutBody(p) ==
  /\ ReadFails(p, "body", "inBody")
  /\ qi' = [qi EXCEPT ![p] = NoItem]
  /\ wpc' = [wpc EXCEPT ![p] = "end"]
  /\ UNCHANGED <<heap, stdout>>

NoBody(p) ==
  /\ ReadFails(p, "body", "inBody")
  /\ heap' = [heap EXCEPT ![p] = @ \ {qi[p]}]
  /\ qi' = [qi EXCEPT ![p] = NoItem]
  /\ wpc' = [wpc EXCEPT ![p] = "end"]
  /\ UNCHANGED stdout

WorkerReads(p) ==
  \/ (BeginRead(p, "size", "inSize") \/ BeginRead(p, "body", "inBody"))
     /\ UNCHANGED stdout
  \/ GotSize(p) \/ NoSize(p)
  \/ GotBody(p) \/ NoBody(p)

WorkerPushes(p) ==
  /\ wpc[p] = "push"
  /\ Len(q[p]) < QueueCap
  /\ q' = [q EXCEPT ![p] = Append(@, qi[p])]
  /\ qi' = [qi EXCEPT ![p] = NoItem]
  /\ wpc' = [wpc EXCEPT ![p] = "size"]
  /\ UNCHANGED <<heap, stdout>>

(* Mutant: the worker goes back to its loop after the end mark. *)
LoopsAfterEnd(p) ==
  /\ wpc[p] = "end"
  /\ Len(q[p]) < QueueCap
  /\ heap' = [heap EXCEPT ![p] = @ \union {EndMark}]
  /\ q' = [q EXCEPT ![p] = Append(@, EndMark)]
  /\ wpc' = [wpc EXCEPT ![p] = "size"]
  /\ UNCHANGED <<qi, stdout>>

(* The label error: the end mark is allocated and pushed, the thread ends.  *)
WorkerEnds(p) ==
  /\ wpc[p] = "end"
  /\ Len(q[p]) < QueueCap
  /\ heap' = [heap EXCEPT ![p] = @ \union {EndMark}]
  /\ q' = [q EXCEPT ![p] = Append(@, EndMark)]
  /\ wpc' = [wpc EXCEPT ![p] = "done"]
  /\ UNCHANGED <<qi, stdout>>

Worker(p) ==
  /\ \/ WorkerReads(p) /\ UNCHANGED q
     \/ WorkerPushes(p)
     \/ WorkerEnds(p)
  /\ UNCHANGED <<hostVars, childVars, stdin, stderr, closeWaits>>

-----------------------------------------------------------------------------
(* The child. *)

ChildReads(p) ==
  /\ stdin[p] # <<>>
  /\ stdin' = [stdin EXCEPT ![p] = Tail(@)]
  /\ \/ /\ cpc[p] \in {"fresh", "idle"}
        /\ job' = [job EXCEPT ![p] = Head(stdin[p]).of]
        /\ cpc' = [cpc EXCEPT ![p] =
                     IF Head(stdin[p]).of.len # 0 THEN "body" ELSE "work"]
     \/ /\ cpc[p] = "body"
        /\ cpc' = [cpc EXCEPT ![p] = "work"]
        /\ UNCHANGED job
  /\ UNCHANGED <<stdout, stderr>>

ChildWorks(p) ==
  /\ cpc[p] = "work"
  /\ \E next \in {"log", "reply"} : cpc' = [cpc EXCEPT ![p] = next]
  /\ UNCHANGED <<job, pipeVars>>

(* A line for stderr: it waits for room while somebody may read it, and is  *)
(* lost once nobody can.                                                    *)
ChildLogs(p) ==
  /\ cpc[p] = "log"
  /\ \/ /\ "err_r" \in handles[p]
        /\ stderr[p] < PipeCap
        /\ stderr' = [stderr EXCEPT ![p] = @ + 1]
     \/ /\ "err_r" \notin handles[p]
        /\ UNCHANGED stderr
  /\ cpc' = [cpc EXCEPT ![p] = "reply"]
  /\ UNCHANGED <<job, stdin, stdout>>

ChildReplies(p) ==
  /\ Readable(p)
  /\ Len(stdout[p]) < PipeCap
  /\ \/ /\ cpc[p] = "reply"
        /\ \E len \in Lens :
             LET answer == [id |-> job[p].id, len |-> len]
             IN  /\ stdout' = [stdout EXCEPT ![p] =
                                 Append(@, [part |-> "size", of |-> answer])]
                 /\ job' = [job EXCEPT ![p] = answer]
                 /\ cpc' = [cpc EXCEPT ![p] =
                              IF len # 0 THEN "replyBody" ELSE "idle"]
     \/ /\ cpc[p] = "replyBody"
        /\ stdout' = [stdout EXCEPT ![p] =
                        Append(@, [part |-> "body", of |-> job[p]])]
        /\ cpc' = [cpc EXCEPT ![p] = "idle"]
        /\ UNCHANGED job
  /\ UNCHANGED <<stdin, stderr>>

(* The process rundown closes the ends of the pipes; only later is the      *)
(* process handle signalled.                                                *)
Dies(p) ==
  /\ cpc' = [cpc EXCEPT ![p] = "dying"]
  /\ job' = [job EXCEPT ![p] = NoItem]
  /\ stdin' = [stdin EXCEPT ![p] = <<>>]
  /\ UNCHANGED <<stdout, stderr>>

(* The child ends because its stdin ended or its stdout cannot be written.  *)
ChildStops(p) ==
  /\ \/ /\ cpc[p] \in {"fresh", "body", "idle"}
        /\ stdin[p] = <<>>
        /\ "in_w" \notin handles[p]
     \/ cpc[p] \in {"reply", "replyBody"} /\ ~Readable(p)
  /\ Dies(p)

ChildLeaves(p) ==
  /\ cpc[p] \in MayLeave
  /\ Dies(p)
  /\ UNCHANGED <<hostVars, q, heap, workerVars, closeWaits>>

ChildExits(p) ==
  /\ cpc[p] = "dying"
  /\ cpc' = [cpc EXCEPT ![p] = "exited"]
  /\ UNCHANGED <<job, pipeVars>>

Child(p) ==
  /\ \/ ChildReads(p) \/ ChildWorks(p) \/ ChildLogs(p) \/ ChildReplies(p)
     \/ ChildStops(p) \/ ChildExits(p)
  /\ UNCHANGED <<hostVars, q, heap, workerVars, closeWaits>>

-----------------------------------------------------------------------------
(* The host. *)

HostGoto(p, from, to) ==
  /\ hpc[p] = from
  /\ hpc' = [hpc EXCEPT ![p] = to]

(* process_start, when all its calls succeed. *)
ProcessStart(p) ==
  /\ HostGoto(p, "none", "started")
  /\ mem' = [mem EXCEPT ![p] = "live"]
  /\ handles' = [handles EXCEPT ![p] = HandleFields]
  /\ wpc' = [wpc EXCEPT ![p] = "size"]
  /\ cpc' = [cpc EXCEPT ![p] = "fresh"]
  /\ UNCHANGED <<prev, msg, ret, q, heap, qi, job, pipeVars, closeWaits>>

(* Mutant: stderr is kept open.                                             *)
KeepsStderr(p) ==
  /\ HostGoto(p, "started", "idle")
  /\ UNCHANGED <<mem, handles, prev, msg, ret, q, heap, workerVars, childVars,
                 pipeVars, closeWaits>>

(* process_close_stderr, which the bridge calls on each new process.        *)
ProcessCloseStderr(p) ==
  /\ HostGoto(p, "started", "idle")
  /\ handles' = [handles EXCEPT ![p] = @ \ {"err_r"}]
  /\ UNCHANGED <<mem, prev, msg, ret, q, heap, workerVars, childVars, pipeVars,
                 closeWaits>>

(* process_write is called with the next request. *)
WriteCall(p, len) ==
  /\ HostGoto(p, "idle", "size")
  /\ msg[p].id < MaxCalls
  /\ msg' = [msg EXCEPT ![p] = [id |-> @.id + 1, len |-> len]]
  /\ ret' = [ret EXCEPT ![p] = "none"]
  /\ UNCHANGED <<mem, handles, prev, q, heap, workerVars, childVars, pipeVars,
                 closeWaits>>

(* One write() of process_write: the size, then the body; writing a body of *)
(* no bytes calls nothing.                                                  *)
WritePart(p, part, to) ==
  /\ hpc[p] = part
  /\ ChildAlive(p)
  /\ Len(stdin[p]) < PipeCap
  /\ stdin' = [stdin EXCEPT ![p] = Append(@, [part |-> part, of |-> msg[p]])]
  /\ hpc' = [hpc EXCEPT ![p] = to]
  /\ UNCHANGED ret

(* WriteFile fails once the child has closed its end. *)
WriteFails(p) ==
  /\ hpc[p] \in {"size", "body"}
  /\ ChildGone(p)
  /\ hpc' = [hpc EXCEPT ![p] = "idle"]
  /\ ret' = [ret EXCEPT ![p] = "notSent"]
  /\ UNCHANGED stdin

(* Mutant: the bridge returns without reading the reply. *)
WritesOnly(p) ==
  /\ \/ WritePart(p, "size", IF msg[p].len # 0 THEN "body" ELSE "idle")
     \/ WritePart(p, "body", "read")
     \/ WriteFails(p)
  /\ UNCHANGED <<mem, handles, prev, msg, q, heap, workerVars, childVars, stdout,
                 stderr, closeWaits>>

ProcessWrite(p) ==
  /\ \/ WritePart(p, "size", IF msg[p].len # 0 THEN "body" ELSE "read")
     \/ WritePart(p, "body", "read")
     \/ WriteFails(p)
  /\ UNCHANGED <<mem, handles, prev, msg, q, heap, workerVars, childVars, stdout,
                 stderr, closeWaits>>

(* process_read: wait for an item, keep it as previous_queue_item in place  *)
(* of the one before, and tell the end mark from a reply.                   *)
ProcessRead(p) ==
  /\ HostGoto(p, "read", "idle")
  /\ q[p] # <<>>
  /\ heap' = [heap EXCEPT ![p] = @ \ {prev[p]}]
  /\ prev' = [prev EXCEPT ![p] = Head(q[p])]
  /\ q' = [q EXCEPT ![p] = Tail(@)]
  /\ ret' = [ret EXCEPT ![p] = IF Head(q[p]) = EndMark THEN "notReceived" ELSE "ok"]
  /\ UNCHANGED <<mem, handles, msg, workerVars, childVars, pipeVars, closeWaits>>

FinishCall(p) ==
  /\ HostGoto(p, "idle", "closeIn")
  /\ UNCHANGED <<mem, handles, prev, msg, ret, q, heap, workerVars, childVars,
                 pipeVars, closeWaits>>

FinishClose(p, from, closed, to) ==
  /\ HostGoto(p, from, to)
  /\ handles' = [handles EXCEPT ![p] = @ \ closed]
  /\ UNCHANGED <<mem, prev, msg, ret, q, heap>>

(* Mutant: stdin of the child stays open. *)
KeepsStdin(p) == FinishClose(p, "closeIn", {}, "closeOut")

(* process_finish: close the handles, one after the other ... *)
FinishCloseIn(p) == FinishClose(p, "closeIn", {"in_w"}, "closeOut")

FinishCloseOut(p) ==
  /\ ~(closeWaits /\ Reading(p))
  /\ FinishClose(p, "closeOut", {"out_r"}, "closeRest")

FinishCloseRest(p) == FinishClose(p, "closeRest", {"err_r", "process"}, "drain")

(* Mutant: the queue is emptied as far as it is filled, and nobody waits    *)
(* for the worker, as in the code that is commented out.                    *)
DrainsWithoutWaiting(p) ==
  /\ hpc[p] = "drain"
  /\ IF q[p] = <<>>
     THEN /\ hpc' = [hpc EXCEPT ![p] = "free"]
          /\ UNCHANGED <<q, heap>>
     ELSE /\ heap' = [heap EXCEPT ![p] = @ \ {Head(q[p])}]
          /\ q' = [q EXCEPT ![p] = Tail(@)]
          /\ UNCHANGED hpc
  /\ UNCHANGED <<mem, handles, prev, msg, ret>>

(* ... then free what the worker queues up to the end mark, which tells     *)
(* that the worker is past its last use of the struct ...                   *)
FinishDrain(p) ==
  /\ hpc[p] = "drain"
  /\ q[p] # <<>>
  /\ heap' = [heap EXCEPT ![p] = @ \ {Head(q[p])}]
  /\ q' = [q EXCEPT ![p] = Tail(@)]
  /\ hpc' = [hpc EXCEPT ![p] = IF Head(q[p]) = EndMark THEN "free" ELSE "drain"]
  /\ UNCHANGED <<mem, handles, prev, msg, ret>>

(* ... and free the last reply, the queue and the struct.                   *)
FinishFree(p) ==
  /\ HostGoto(p, "free", "gone")
  /\ heap' = [heap EXCEPT ![p] = @ \ {prev[p]}]
  /\ prev' = [prev EXCEPT ![p] = NoItem]
  /\ mem' = [mem EXCEPT ![p] = "freed"]
  /\ msg' = [msg EXCEPT ![p] = NoItem]
  /\ ret' = [ret EXCEPT ![p] = "none"]
  /\ UNCHANGED <<handles, q>>

ProcessFinish(p) ==
  /\ \/ FinishCloseIn(p) \/ FinishCloseOut(p) \/ FinishCloseRest(p)
     \/ FinishDrain(p) \/ FinishFree(p)
  /\ UNCHANGED <<workerVars, childVars, pipeVars, closeWaits>>

-----------------------------------------------------------------------------

(* What the host does once it has called an operation. *)
Host(p) == ProcessCloseStderr(p) \/ ProcessWrite(p) \/ ProcessRead(p) \/ ProcessFinish(p)

(* What it may call, in the order of bridge_call_core: a new process has    *)
(* its stderr closed, a request that was sent is read for.                  *)
Call(p) ==
  \/ ProcessStart(p)
  \/ \E len \in Lens : WriteCall(p, len)
  \/ FinishCall(p)

Next == \E p \in Procs :
  Call(p) \/ Host(p) \/ Worker(p) \/ Child(p) \/ ChildLeaves(p)

Spec == Init /\ [][Next]_vars

(* The operating system runs every thread, and a child that follows the     *)
(* protocol goes on reading, working and answering.  Nobody has to call an  *)
(* operation and no child has to leave.                                     *)
Fairness == \A p \in Procs :
  WF_vars(Host(p)) /\ WF_vars(Worker(p)) /\ WF_vars(Child(p))

FairSpec == Spec /\ Fairness

-----------------------------------------------------------------------------

TypeOK ==
  /\ mem \in [Procs -> {"none", "live", "freed"}]
  /\ handles \in [Procs -> SUBSET HandleFields]
  /\ q \in [Procs -> Seq(Items)]
  /\ prev \in [Procs -> Items \union {NoItem}]
  /\ heap \in [Procs -> SUBSET Items]
  /\ hpc \in [Procs -> {"none", "started", "idle", "size", "body", "read",
                        "closeIn", "closeOut", "closeRest", "drain", "free", "gone"}]
  /\ msg \in [Procs -> Replies \union {NoItem}]
  /\ ret \in [Procs -> {"none", "ok", "notSent", "notReceived"}]
  /\ wpc \in [Procs -> {"none", "size", "inSize", "body", "inBody", "push",
                        "end", "done"}]
  /\ qi \in [Procs -> Replies \union {NoItem}]
  /\ cpc \in [Procs -> {"none", "dying", "exited"} \union Phases]
  /\ job \in [Procs -> Replies \union {NoItem}]
  /\ stdin \in [Procs -> Seq(Parts)]
  /\ stdout \in [Procs -> Seq(Parts)]
  /\ stderr \in [Procs -> 0 .. PipeCap]
  /\ closeWaits \in BOOLEAN

Queued(p) == {q[p][i] : i \in 1 .. Len(q[p])}
Held(item) == {item} \ {NoItem}

(* Every allocated item has exactly one owner, the worker, the queue or     *)
(* previous_queue_item, and nobody owns an item that was freed: no item is  *)
(* leaked, freed twice or used after it was freed.                          *)
OneOwner == \A p \in Procs :
  /\ heap[p] = Held(qi[p]) \union Queued(p) \union Held(prev[p])
  /\ Cardinality(heap[p])
       = Cardinality(Held(qi[p])) + Len(q[p]) + Cardinality(Held(prev[p]))

(* The end mark is queued once, behind every reply, by a worker that will   *)
(* not touch the struct again: process_finish may rely on it.               *)
EndMarkIsLast == \A p \in Procs :
  /\ wpc[p] # "done" => EndMark \notin Queued(p) \union {prev[p]}
  /\ \A i \in 1 .. Len(q[p]) : q[p][i] = EndMark => i = Len(q[p])
  /\ prev[p] = EndMark => q[p] = <<>>

(* process_finish detaches the worker and never joins it, yet frees the     *)
(* queue and the struct the worker uses only when the worker has ended, and *)
(* it leaves no item and no handle behind.                                  *)
FreedWhenUnused == \A p \in Procs :
  mem[p] = "freed" =>
    wpc[p] = "done" /\ q[p] = <<>> /\ prev[p] = NoItem /\ handles[p] = {}

(* The reply process_read hands out answers the request that was just sent, *)
(* whatever was cut short or failed before, and it stays allocated until    *)
(* the next request or process_finish.                                      *)
ReplyAnswersRequest == \A p \in Procs :
  ret[p] = "ok" /\ mem[p] = "live" =>
    prev[p].id = msg[p].id /\ prev[p] \in heap[p]

(* The two slots of queue_items are enough: with one request at a time the  *)
(* worker never finds the queue full, so it never waits while the host      *)
(* waits for it.                                                            *)
QueueHasRoom == \A p \in Procs :
  wpc[p] \in {"push", "end"} => Len(q[p]) < QueueCap

(* What the next step of the host, of the worker and of the child waits for. *)
HostCan(p) ==
  \/ hpc[p] \in {"started", "closeIn", "closeRest", "free"}
  \/ hpc[p] \in {"size", "body"} /\ (ChildAlive(p) => Len(stdin[p]) < PipeCap)
  \/ hpc[p] \in {"read", "drain"} /\ q[p] # <<>>
  \/ hpc[p] = "closeOut" /\ ~(closeWaits /\ Reading(p))

WorkerCan(p) ==
  \/ wpc[p] \in {"size", "body"}
  \/ Reading(p) /\ (stdout[p] # <<>> \/ ChildGone(p))
  \/ wpc[p] \in {"push", "end"} /\ Len(q[p]) < QueueCap

ChildCan(p) ==
  \/ cpc[p] \in {"fresh", "body", "idle"} /\ (stdin[p] # <<>> \/ "in_w" \notin handles[p])
  \/ cpc[p] \in {"work", "dying"}
  \/ cpc[p] = "log" /\ ("err_r" \in handles[p] => stderr[p] < PipeCap)
  \/ cpc[p] \in {"reply", "replyBody"} /\ (Readable(p) => Len(stdout[p]) < PipeCap)

(* process_finish waits for an end mark that process_read has taken.        *)
MarkTaken(p) == hpc[p] = "drain" /\ q[p] = <<>> /\ prev[p] = EndMark

(* Host, worker and child of a process never all wait for each other: while *)
(* the host is inside an operation one of the three can go on, whatever the *)
(* pipes and the queue hold and however CloseHandle behaves, unless the end *)
(* mark was taken before process_finish.                                    *)
NoCircularWait == \A p \in Procs :
  hpc[p] \notin {"none", "idle", "gone"} =>
    HostCan(p) \/ WorkerCan(p) \/ ChildCan(p) \/ MarkTaken(p)

(* process_finish returns if no process_read has consumed the end mark, and *)
(* it leaves no child behind.                                               *)
FinishReturns == \A p \in Procs :
  (hpc[p] = "closeIn" /\ prev[p] # EndMark)
    ~> (mem[p] = "freed" /\ cpc[p] = "exited")

(* The process as the bridge sees it.  A reply is complete when its last    *)
(* byte is in the pipe, in the worker, in the queue or in the hands of the  *)
(* host.                                                                    *)
Stage(p) ==
  CASE hpc[p] = "none" -> "none"
    [] hpc[p] \in {"started", "idle"} -> "ready"
    [] hpc[p] \in {"size", "body", "read"} -> "asked"
    [] OTHER -> "finished"

CompleteReplies(p) ==
  {part.of : part \in {s \in {stdout[p][i] : i \in 1 .. Len(stdout[p])} :
                         s.part = "body" \/ s.of.len = 0}}
    \union {item \in {qi[p]} : wpc[p] = "push"}
    \union Queued(p) \union {prev[p]}

Seen == INSTANCE Service WITH
  state <- [p \in Procs |-> Stage(p)],
  up <- [p \in Procs |-> Stage(p) # "finished" /\ ChildAlive(p)],
  replied <- [p \in Procs |->
                /\ Stage(p) # "finished"
                /\ msg[p] # NoItem
                /\ \E item \in CompleteReplies(p) : item.id = msg[p].id],
  result <- [p \in Procs |->
               IF Stage(p) = "finished" \/ ret[p] = "none" THEN "none"
               ELSE IF ret[p] = "ok" THEN "ok" ELSE "failed"]

(* process_write and process_read act as one request that is answered at    *)
(* most once: a reply that is complete reaches the host even if the child   *)
(* ends right after it, and a call fails for want of a reply only.          *)
ImplementsService == Seen!Spec

(* In addition a request is answered, or fails, wherever the child ends: no *)
(* wait of host, worker and child on the pipes and on the queue closes a    *)
(* circle.                                                                  *)
ImplementsFairService == Seen!FairSpec
=============================================================================
