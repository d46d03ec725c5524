------------------------------- MODULE Unload -------------------------------
(***************************************************************************)
(* DLL_PROCESS_DETACH: DllMain of src/src/luamain.c calls bridge_exit when *)
(* the host unloads the library and when the host process ends.            *)
(*                                                                         *)
(* While DllMain runs its thread holds the lock of the loader, which       *)
(* Windows also takes to start a thread and to end one.  A worker whose    *)
(* thread was created but has not begun cannot begin any more, and one     *)
(* that has returned from read_worker stays until DllMain is done.  When   *)
(* the host process ends all other threads are gone before DllMain is      *)
(* called.  This module adds the two ends of a worker thread to Bridge.    *)
(***************************************************************************)
EXTENDS Bridge

CONSTANT Reasons   (* for DLL_PROCESS_DETACH: "free", "end"                *)

ASSUME UnloadAssumption == Reasons \subseteq {"free", "end"}

VARIABLES
  begun,      (* processes whose worker has come to read_worker            *)
  returned,   (* processes whose worker thread has ended                   *)
  why         (* "no", or why DllMain was called                           *)

threadVars == <<begun, returned, why>>
unloadVars == <<allVars, threadVars>>

UnloadInit == BridgeInit /\ begun = {} /\ returned = {} /\ why = "no"

LoaderLockFree == exitpc # "finish"

(* The thread of _beginthreadex comes to impl_thrd_routine. *)
ThreadBegins(p) ==
  /\ wpc[p] = "size"
  /\ p \notin begun
  /\ LoaderLockFree
  /\ begun' = begun \union {p}
  /\ UNCHANGED <<allVars, returned, why>>

(* read_worker and impl_thrd_routine have returned; the thread ends. *)
ThreadEnds(p) ==
  /\ wpc[p] = "done"
  /\ p \notin returned
  /\ LoaderLockFree
  /\ returned' = returned \union {p}
  /\ UNCHANGED <<allVars, begun, why>>

UnloadWorker(p) ==
  /\ p \in begun
  /\ BridgeWorker(p)
  /\ UNCHANGED threadVars

(* Mutant: the worker is joined, as in the line that is commented out.      *)
thrd_join(p) == p \in returned

(* process_finish does not wait for the thread.                             *)
thrd_detach(p) == TRUE

UnloadHost(p) ==
  /\ hpc[p] = "closeRest" => thrd_detach(p)
  /\ BridgeHost(p)
  /\ UNCHANGED threadVars

UnloadChild(p) == BridgeChild(p) /\ UNCHANGED threadVars
UnloadCaller(c) == Caller(c) /\ UNCHANGED threadVars
UnloadExit == Exit /\ UNCHANGED threadVars

(* FreeLibrary: the worker threads go on. *)
FreeLibrary ==
  /\ "free" \in Reasons
  /\ ExitCall
  /\ why' = "free"
  /\ UNCHANGED <<begun, returned>>

(* The end of the host process: the worker threads are gone. *)
HostEnds ==
  /\ "end" \in Reasons
  /\ exitpc = "no"
  /\ \A c \in Callers : bpc[c] = "idle"
  /\ exitpc' = "finish"
  /\ why' = "end"
  /\ wpc' = [p \in Procs |-> IF wpc[p] = "done" THEN "done" ELSE "none"]
  /\ UNCHANGED <<hostVars, q, heap, qi, childVars, pipeVars, closeWaits, map, lost,
                 owner, bpc, callVars, view, total, begun, returned>>

UnloadNext ==
  \/ \E c \in Callers :
       \/ \E e \in Exes, m \in Modes :
            <<c, e>> \in Uses /\ BridgeCall(c, e, m) /\ UNCHANGED threadVars
       \/ UnloadCaller(c)
  \/ FreeLibrary \/ HostEnds \/ UnloadExit
  \/ \E p \in Procs :
       \/ ThreadBegins(p) \/ ThreadEnds(p)
       \/ UnloadHost(p) \/ UnloadWorker(p) \/ UnloadChild(p)
       \/ BridgeChildLeaves(p) /\ UNCHANGED threadVars

UnloadSpec == UnloadInit /\ [][UnloadNext]_unloadVars

(* As in Bridge; in addition a thread that was created begins, and ends,    *)
(* when the loader lets it.                                                 *)
UnloadFairSpec ==
  /\ UnloadSpec
  /\ \A c \in Callers : WF_unloadVars(UnloadCaller(c))
  /\ WF_unloadVars(UnloadExit)
  /\ \A p \in Procs : /\ WF_unloadVars(ThreadBegins(p))
                      /\ WF_unloadVars(ThreadEnds(p))
                      /\ WF_unloadVars(UnloadHost(p))
                      /\ WF_unloadVars(UnloadWorker(p))
                      /\ WF_unloadVars(UnloadChild(p))

-----------------------------------------------------------------------------

(* When the code of the library is unmapped by FreeLibrary no worker has a  *)
(* statement of read_worker left but its return, although none was joined;  *)
(* this holds for workers of processes that died long ago as well, but not  *)
(* for those of processes a failing hashmap_put has dropped: bridge_exit    *)
(* does not find them.                                                      *)
UnmappedWhenUnused ==
  why = "free" /\ exitpc = "done" =>
    \A p \in Procs \ lost : wpc[p] \in {"none", "done"}

(* process_finish waits for an end mark nobody will queue: a process_read   *)
(* has taken it, its worker is gone with the host process, or its worker    *)
(* has not begun and cannot begin while DllMain runs.                       *)
MarkNeverComes(p) ==
  /\ hpc[p] = "drain"
  /\ q[p] = <<>>
  /\ \/ prev[p] = EndMark
     \/ wpc[p] = "none"
     \/ p \notin begun /\ ~LoaderLockFree

(* These are the only ways in which a call, or DllMain, does not return:    *)
(* g_mutex is given back on every path, and the lock of the loader, which   *)
(* DllMain holds, keeps the workers from ending but not from queueing their *)
(* end marks.  bridge_exit leaves no struct process but those a failing     *)
(* hashmap_put has dropped.                                                 *)
EverybodyReturns ==
  []<> \/ /\ \A c \in Callers : bpc[c] = "idle"
          /\ \/ exitpc = "no"
             \/ exitpc = "done" /\ \A p \in Procs : mem[p] = "live" => p \in lost
       \/ \E p \in Procs : MarkNeverComes(p)
=============================================================================
