---------------------------- MODULE ProcessStart ----------------------------
(***************************************************************************)
(* process_start of src/src/process.c, with build_environment_strings,     *)
(* get_working_directory and queue_init: what each call acquires, and what *)
(* is released again when one of the later calls fails.  Module Process    *)
(* has it as one action that succeeds; here every call it makes may fail.  *)
(*                                                                         *)
(* The function runs MaxStarts times, one run after the other since the    *)
(* bridge holds g_mutex.  A handle or an allocation is <<n, name>>: what   *)
(* run n keeps in the variable of that name.  Handles that an earlier run  *)
(* returned in its struct process stay open.                               *)
(***************************************************************************)
EXTENDS Naturals

CONSTANT MaxStarts   (* bound: calls of process_start                      *)

ASSUME StartAssumption == MaxStarts \in Nat \ {0}

VARIABLES
  n,        (* which run it is                                             *)
  pc,       (* the call it is about to make                                *)
  held,     (* its local variables that are not INVALID_HANDLE_VALUE and   *)
            (* not NULL                                                    *)
  owned,    (* all handles that are open and all allocations               *)
  pi,       (* whether pi has been initialised                             *)
  why,      (* the call that failed                                        *)
  twice,    (* the variables released when what they name was not there    *)
  inherits  (* the handles each child has inherited                        *)

vars == <<n, pc, held, owned, pi, why, twice, inherits>>

Temporary == {"in_w_tmp", "out_r_tmp", "err_r_tmp"}
ChildEnds == {"in_r", "out_w", "err_w"}
HostEnds == {"in_w", "out_r", "err_r"}

(* CreatePipe is passed bInheritHandle TRUE, DuplicateHandle FALSE.         *)
Inheritable == Temporary \union ChildEnds

Strings == {"env", "path", "dir"}
QueueParts == {"q", "mtx", "cnd", "cnd2"}

(* A mtx_t and a cnd_t are a critical section and a native condition        *)
(* variable, which are no handles.                                          *)
Handles == Inheritable \union HostEnds \union {"hThread", "hProcess", "thread"}

(* What the struct process of a successful run refers to.  pack is the      *)
(* argument of the worker, which frees it.                                  *)
Returned == HostEnds \union {"hProcess", "r", "thread", "pack"} \union QueueParts

Names == Inheritable \union HostEnds \union Strings \union Returned
         \union {"envstr", "pathcopy", "hThread"}

Mine(names) == {n} \X names

Init ==
  /\ n = 1
  /\ pc = "pipeIn"
  /\ held = {}
  /\ owned = {}
  /\ pi = "garbage"
  /\ why = "none"
  /\ twice = {}
  /\ inherits = [k \in 1 .. MaxStarts |-> {}]

Goto(from, to) ==
  /\ pc = from
  /\ pc' = to

Acquire(names) ==
  /\ held' = held \union names
  /\ owned' = owned \union Mine(names)
  /\ UNCHANGED twice

Release(names) ==
  /\ held' = held \ names
  /\ owned' = owned \ Mine(names)
  /\ twice' = twice \union (Mine(names) \ owned)

(* A call that acquires something or fails; what a failure undoes at once   *)
(* comes before the label cleanup.                                          *)
Succeed(from, names, to) ==
  /\ Goto(from, to)
  /\ Acquire(names)
  /\ UNCHANGED <<n, pi, why, inherits>>

Fail(from, undo) ==
  /\ Goto(from, "cleanup")
  /\ why' = from
  /\ Release(undo)
  /\ UNCHANGED <<n, pi, inherits>>

Try(from, names, undo, to) == Succeed(from, names, to) \/ Fail(from, undo)

Drop(from, names, to) ==
  /\ Goto(from, to)
  /\ Release(names)
  /\ UNCHANGED <<n, pi, why, inherits>>

-----------------------------------------------------------------------------

CreatePipes ==
  \/ Try("pipeIn", {"in_r", "in_w_tmp"}, {}, "pipeOut")
  \/ Try("pipeOut", {"out_r_tmp", "out_w"}, {}, "pipeErr")
  \/ Try("pipeErr", {"err_r_tmp", "err_w"}, {}, "dupIn")

DuplicateEnds ==
  \/ Try("dupIn", {"in_w"}, {}, "dupOut")
  \/ Try("dupOut", {"out_r"}, {}, "dupErr")
  \/ Try("dupErr", {"err_r"}, {}, "tmp")

(* Mutant: they stay open. *)
KeepsTemporary == Drop("tmp", {}, "envstr")

CloseTemporary == Drop("tmp", Temporary, "envstr")

(* GetEnvironmentStringsW, calloc, FreeEnvironmentStringsW. *)
build_environment_strings ==
  \/ Try("envstr", {"envstr"}, {}, "env")
  \/ Try("env", {"env"}, {"envstr"}, "envDone")
  \/ Drop("envDone", {"envstr"}, "path")

CopyPath == Try("path", {"path"}, {}, "pathcopy")

(* The copy of the program's name, the length of its full path, and the     *)
(* full path, which must not end with a directory.  The allocation of dir   *)
(* is not checked; it is taken to succeed.                                  *)
get_working_directory ==
  \/ Try("pathcopy", {"pathcopy"}, {}, "dirlen")
  \/ Try("dirlen", {}, {"pathcopy"}, "dir")
  \/ Succeed("dir", {"dir"}, "full")
  \/ Try("full", {}, {"dir", "pathcopy"}, "dirDone")
  \/ Drop("dirDone", {"pathcopy"}, "create")

(* pi is set, and with it both handles when CreateProcessW succeeds.        *)
CreateProcessW ==
  /\ pi' = "set"
  /\ \/ /\ Goto("create", "settle")
        /\ Acquire({"hThread", "hProcess"})
        /\ inherits' = [inherits EXCEPT ![n] = {h \in owned : h[2] \in Inheritable}]
        /\ UNCHANGED why
     \/ /\ Goto("create", "cleanup")
        /\ why' = "create"
        /\ UNCHANGED <<held, owned, twice, inherits>>
  /\ UNCHANGED n

(* Mutant: the host keeps the end of stdout the child writes to. *)
KeepsOutW ==
  Drop("settle", (Strings \union {"hThread"} \union ChildEnds) \ {"out_w"}, "struct")

CloseChildEnds ==
  Drop("settle", Strings \union {"hThread"} \union ChildEnds, "struct")

(* Mutant: pi.hProcess is not set to INVALID_HANDLE_VALUE once it is closed. *)
KeepsHProcess ==
  \/ Succeed("struct", {"r"}, "q")
  \/ /\ Goto("struct", "cleanup")
     /\ owned' = owned \ Mine({"hProcess"})
     /\ why' = "struct"
     /\ UNCHANGED <<n, held, pi, twice, inherits>>

(* The struct, the queue and the worker; a failure closes hProcess.         *)
MakeStruct == Try("struct", {"r"}, {"hProcess"}, "q")

queue_init ==
  \/ Try("q", {"q"}, {"r", "hProcess"}, "mtx")
  \/ Try("mtx", {"mtx"}, {"q", "r", "hProcess"}, "cnd")
  \/ Try("cnd", {"cnd"}, {"mtx", "q", "r", "hProcess"}, "cnd2")
  \/ Try("cnd2", {"cnd2"}, {"cnd", "mtx", "q", "r", "hProcess"}, "pack")

(* thrd_create allocates pack, and starts the thread or leaves pack behind. *)
CreateThread ==
  \/ Try("pack", {"pack"}, QueueParts \union {"r", "hProcess"}, "thread")
  \/ Try("thread", {"thread"}, QueueParts \union {"r", "hProcess"}, "started")

-----------------------------------------------------------------------------

(* The label cleanup: the strings ... *)
FreeStrings == Drop("cleanup", Strings \intersect held, "pi")

(* ... the two handles in pi, unless they are INVALID_HANDLE_VALUE.  Where  *)
(* pi was never initialised each of them is what the stack holds: that      *)
(* value, one that is no handle or no longer one, or any handle that is     *)
(* open, be it of an earlier run or an end of this run's own pipes.         *)
CloseGarbage(x) ==
  \/ UNCHANGED <<owned, twice>>
  \/ twice' = twice \union Mine({x}) /\ UNCHANGED owned
  \/ \E h \in owned : /\ h[2] \in Handles
                      /\ owned' = owned \ {h}
                      /\ UNCHANGED twice

CloseOfPi(x, from, to) ==
  /\ Goto(from, to)
  /\ \/ pi = "set" /\ Release({x} \intersect held)
     \/ pi = "garbage" /\ CloseGarbage(x) /\ UNCHANGED held
  /\ UNCHANGED <<n, pi, why, inherits>>

ClosePi == CloseOfPi("hThread", "pi", "pi2") \/ CloseOfPi("hProcess", "pi2", "handles")

(* ... and the ends of the pipes. *)
CloseEnds == Drop("handles", (Inheritable \union HostEnds) \intersect held, "failed")

CallAgain ==
  /\ pc \in {"started", "failed"}
  /\ n < MaxStarts
  /\ n' = n + 1
  /\ pc' = "pipeIn"
  /\ held' = {}
  /\ pi' = "garbage"
  /\ why' = "none"
  /\ UNCHANGED <<owned, twice, inherits>>

Next ==
  \/ CreatePipes \/ DuplicateEnds \/ CloseTemporary
  \/ build_environment_strings \/ CopyPath \/ get_working_directory
  \/ CreateProcessW \/ CloseChildEnds \/ MakeStruct \/ queue_init \/ CreateThread
  \/ FreeStrings \/ ClosePi \/ CloseEnds
  \/ CallAgain

Spec == Init /\ [][Next]_vars

-----------------------------------------------------------------------------

Steps == {"pipeIn", "pipeOut", "pipeErr", "dupIn", "dupOut", "dupErr", "tmp",
          "envstr", "env", "envDone", "path", "pathcopy", "dirlen", "dir", "full",
          "dirDone", "create", "settle", "struct", "q", "mtx", "cnd", "cnd2",
          "pack", "thread", "started", "cleanup", "pi", "pi2", "handles", "failed"}

TypeOK ==
  /\ n \in 1 .. MaxStarts
  /\ pc \in Steps
  /\ held \subseteq Names
  /\ owned \subseteq (1 .. MaxStarts) \X Names
  /\ pi \in {"garbage", "set"}
  /\ why \in Steps \union {"none"}
  /\ twice \subseteq (1 .. MaxStarts) \X Names
  /\ inherits \in [1 .. MaxStarts -> SUBSET ((1 .. MaxStarts) \X Names)]

(* What the current run has and has not released yet. *)
Left == {h[2] : h \in {h \in owned : h[1] = n}}

(* process_start returns a struct with all it needs and nothing else, so    *)
(* that the host keeps no end of the child and learns when the child ends;  *)
(* or it returns NULL and has released all it acquired, whichever call      *)
(* failed.  The one exception is the pack of a thread that was not created. *)
AllOrNothing ==
  /\ pc = "started" => Left = Returned
  /\ pc = "failed" => Left \subseteq {"pack"}

(* Whichever call fails, a run closes and frees only what is open and       *)
(* allocated, as long as it has not jumped over the initialisation of pi:   *)
(* with pi uninitialised its cleanup may close what is no handle, and an    *)
(* end of a pipe a second time.                                             *)
NothingReleasedTwice ==
  [][pi = "set" \/ pc \notin {"pi", "pi2", "handles"} => twice' = twice]_vars

(* A child inherits its own ends of its own three pipes.  With an end of    *)
(* the host it would never see the end of its stdin, with an end of another *)
(* child it would keep that child's worker from seeing the end of its       *)
(* stdout.                                                                  *)
ChildInheritsItsEnds ==
  \A k \in 1 .. MaxStarts : inherits[k] \in {{}, {k} \X ChildEnds}

(* The path of a directory, for which GetFullPathNameW finds no file name,  *)
(* makes process_start fail and does no harm to anything else, such as the  *)
(* processes that were started before.                                      *)
DirectoryIsHarmless ==
  [][why = "full" => \A h \in owned : h[1] # n => h \in owned']_vars
=============================================================================
