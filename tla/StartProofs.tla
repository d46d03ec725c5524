---------------------------- MODULE StartProofs -----------------------------
(***************************************************************************)
(* What TLAPS proves of ProcessStart, for any number of calls of           *)
(* process_start, each of whose calls may fail: it returns all or nothing, *)
(* releases nothing twice but behind an uninitialised pi, and the child    *)
(* inherits the ends of its own pipes.  The argument is a table of what    *)
(* the function holds at each place, and of what may be left at each place *)
(* of the cleanup.                                                         *)
(***************************************************************************)
EXTENDS ProcessStart, TLAPS

Ends == ChildEnds \union HostEnds

(* What a run that nothing has failed in holds when it is about to make the *)
(* call s.                                                                  *)
Holds(s) ==
  CASE s = "pipeIn" -> {}
    [] s = "pipeOut" -> {"in_r", "in_w_tmp"}
    [] s = "pipeErr" -> {"in_r", "in_w_tmp", "out_r_tmp", "out_w"}
    [] s = "dupIn" -> Inheritable
    [] s = "dupOut" -> Inheritable \union {"in_w"}
    [] s = "dupErr" -> Inheritable \union {"in_w", "out_r"}
    [] s = "tmp" -> Inheritable \union HostEnds
    [] s = "envstr" -> Ends
    [] s = "env" -> Ends \union {"envstr"}
    [] s = "envDone" -> Ends \union {"envstr", "env"}
    [] s = "path" -> Ends \union {"env"}
    [] s = "pathcopy" -> Ends \union {"env", "path"}
    [] s \in {"dirlen", "dir"} -> Ends \union {"env", "path", "pathcopy"}
    [] s \in {"full", "dirDone"} -> Ends \union Strings \union {"pathcopy"}
    [] s = "create" -> Ends \union Strings
    [] s = "settle" -> Ends \union Strings \union {"hThread", "hProcess"}
    [] s = "struct" -> HostEnds \union {"hProcess"}
    [] s = "q" -> HostEnds \union {"hProcess", "r"}
    [] s = "mtx" -> HostEnds \union {"hProcess", "r", "q"}
    [] s = "cnd" -> HostEnds \union {"hProcess", "r", "q", "mtx"}
    [] s = "cnd2" -> HostEnds \union {"hProcess", "r", "q", "mtx", "cnd"}
    [] s = "pack" -> HostEnds \union {"hProcess", "r"} \union QueueParts
    [] s = "thread" -> HostEnds \union {"hProcess", "r", "pack"} \union QueueParts
    [] OTHER -> Returned

WayOut == {"cleanup", "pi", "pi2", "handles", "failed"}

PiHandles == {"hThread", "hProcess"}

(* What may be left to release at each place of the cleanup; pack stays.    *)
Leaves(s) ==
  CASE s = "cleanup" -> Inheritable \union HostEnds \union {"pack"} \union PiHandles \union Strings
    [] s = "pi" -> Inheritable \union HostEnds \union {"pack"} \union PiHandles
    [] s = "pi2" -> Inheritable \union HostEnds \union {"pack", "hProcess"}
    [] s = "handles" -> Inheritable \union HostEnds \union {"pack"}
    [] OTHER -> {"pack"}

(* Behind an uninitialised pi the cleanup may close anything. *)
Astray == pi = "garbage" /\ pc \in {"pi2", "handles", "failed"}

(* The variables that are set are what the run has open or allocated, not   *)
(* counting what was closed astray ...                                      *)
HeldIsOwned == \A x \in Names :
  /\ <<n, x>> \in owned => x \in held
  /\ x \in held /\ ~Astray => <<n, x>> \in owned

(* ... and the earlier runs have left at most what they returned.           *)
EarlierReturned == \A h \in owned : h[1] # n => h[1] < n /\ h[2] \in Returned

HeldFits ==
  IF pc \in WayOut THEN held \subseteq Leaves(pc) ELSE held = Holds(pc)

PiIsSet == held \intersect PiHandles # {} => pi = "set"

StartInv ==
  /\ TypeOK
  /\ HeldIsOwned
  /\ EarlierReturned
  /\ HeldFits
  /\ PiIsSet
  /\ ChildInheritsItsEnds

(* What the theorem about releases says of one step. *)
ReleasesOnce ==
  pi = "set" \/ pc \notin {"pi", "pi2", "handles"} => twice' = twice

LEMMA InitStartInv == Init => StartInv
<1> SUFFICES ASSUME Init PROVE StartInv
  OBVIOUS
<1>1. /\ n = 1 /\ pc = "pipeIn" /\ held = {} /\ owned = {} /\ pi = "garbage"
      /\ why = "none" /\ twice = {} /\ inherits = [k \in 1 .. MaxStarts |-> {}]
      /\ 1 \in 1 .. MaxStarts
  BY StartAssumption DEF Init
<1>2. TypeOK
  BY <1>1 DEF TypeOK, Steps
<1>3. HeldFits
  BY <1>1 DEF HeldFits, Holds, WayOut
<1> QED
  BY <1>1, <1>2, <1>3
  DEF StartInv, HeldIsOwned, EarlierReturned, PiIsSet,
      ChildInheritsItsEnds

-----------------------------------------------------------------------------

(* The pairs of the current run are told apart by their names. *)
LEMMA MinePairs ==
  ASSUME TypeOK, NEW names \in SUBSET Names
  PROVE  /\ Mine(names) \subseteq (1 .. MaxStarts) \X Names
         /\ \A x \in Names : <<n, x>> \in Mine(names) <=> x \in names
         /\ \A h \in Mine(names) : h[1] = n /\ h[2] \in names
BY DEF Mine, TypeOK

(* A call that succeeds leads on along the table ... *)
LEMMA SucceedStep ==
  ASSUME StartInv, NEW from, NEW to \in Steps \ WayOut, NEW names \in SUBSET Names,
         from \notin WayOut, names \intersect PiHandles = {},
         Holds(to) = Holds(from) \union names, Succeed(from, names, to)
  PROVE  StartInv' /\ ReleasesOnce
<1>1. /\ pc = from /\ pc' = to
      /\ held' = held \union names /\ owned' = owned \union Mine(names)
      /\ UNCHANGED <<n, pi, why, twice, inherits>>
  BY DEF Succeed, Goto, Acquire
<1>2. /\ Mine(names) \subseteq (1 .. MaxStarts) \X Names
      /\ \A x \in Names : <<n, x>> \in Mine(names) <=> x \in names
      /\ \A h \in Mine(names) : h[1] = n /\ h[2] \in names
  BY MinePairs DEF StartInv
<1>3. TypeOK'
  BY <1>1, <1>2 DEF StartInv, TypeOK
<1>7. ~Astray /\ ~Astray'
  BY <1>1 DEF Astray, WayOut
<1>4. HeldIsOwned' /\ EarlierReturned'
  BY <1>1, <1>2, <1>7 DEF StartInv, HeldIsOwned, EarlierReturned
<1>5. HeldFits'
  BY <1>1 DEF StartInv, HeldFits
<1>6. PiIsSet'
  BY <1>1 DEF StartInv, PiIsSet
<1> QED
  BY <1>1, <1>3, <1>4, <1>5, <1>6
  DEF StartInv, ReleasesOnce, ChildInheritsItsEnds

(* ... and so does a release of what is held; *)
LEMMA ReleaseStep ==
  ASSUME StartInv, NEW names \in SUBSET Names, names \subseteq held,
         pc' \in Steps, HeldFits', Release(names), pc # "failed",
         Astray => Astray', UNCHANGED <<n, pi, inherits>>,
         why' \in Steps \union {"none"}
  PROVE  StartInv' /\ ReleasesOnce
<1>1. /\ held' = held \ names /\ owned' = owned \ Mine(names)
      /\ twice' = twice \union (Mine(names) \ owned)
  BY DEF Release
<1>2. /\ Mine(names) \subseteq (1 .. MaxStarts) \X Names
      /\ \A x \in Names : <<n, x>> \in Mine(names) <=> x \in names
      /\ \A h \in Mine(names) : h[1] = n /\ h[2] \in names
  BY MinePairs DEF StartInv
<1>3. ~Astray => Mine(names) \subseteq owned
  <2> SUFFICES ASSUME ~Astray, NEW h \in Mine(names) PROVE h \in owned
    OBVIOUS
  <2>1. h = <<n, h[2]>> /\ h[2] \in names
    BY DEF Mine
  <2> QED
    BY <2>1 DEF StartInv, HeldIsOwned
<1>4. TypeOK'
  BY <1>1, <1>2 DEF StartInv, TypeOK
<1>5. HeldIsOwned' /\ EarlierReturned'
  <2>1. ASSUME NEW x \in Names, <<n, x>> \in owned' PROVE x \in held'
    BY <1>1, <1>2, <2>1 DEF StartInv, HeldIsOwned
  <2>2. ASSUME NEW x \in Names, x \in held', ~Astray' PROVE <<n, x>> \in owned'
    BY <1>1, <1>2, <2>2 DEF StartInv, HeldIsOwned
  <2> QED
    BY <1>1, <2>1, <2>2 DEF StartInv, HeldIsOwned, EarlierReturned
<1>6. PiIsSet'
  BY <1>1 DEF StartInv, PiIsSet
<1>7. ReleasesOnce
  BY <1>1, <1>3 DEF ReleasesOnce, Astray
<1>8. ChildInheritsItsEnds'
  BY DEF StartInv, ChildInheritsItsEnds
<1> QED
  BY <1>4, <1>5, <1>6, <1>7, <1>8 DEF StartInv

LEMMA DropStep ==
  ASSUME StartInv, NEW from, NEW to \in Steps \ WayOut, NEW names \in SUBSET Names,
         from \notin WayOut, names \subseteq Holds(from),
         Holds(to) = Holds(from) \ names, Drop(from, names, to)
  PROVE  StartInv' /\ ReleasesOnce
<1>1. /\ pc = from /\ pc' = to /\ held' = held \ names /\ Release(names)
      /\ UNCHANGED <<n, pi, why, inherits>>
  BY DEF Drop, Goto, Release
<1>2. held = Holds(from)
  BY <1>1 DEF StartInv, HeldFits
<1>3. HeldFits'
  BY <1>1, <1>2 DEF HeldFits
<1>4. ~Astray /\ pc # "failed"
  BY <1>1 DEF Astray, WayOut
<1> QED
  BY <1>1, <1>2, <1>3, <1>4, ReleaseStep DEF StartInv, TypeOK

(* a call that fails undoes what is not in the cleanup. *)
LEMMA FailStep ==
  ASSUME StartInv, NEW from \in Steps \ WayOut, NEW undo \in SUBSET Names,
         undo \subseteq Holds(from), Holds(from) \ undo \subseteq Leaves("cleanup"),
         Fail(from, undo)
  PROVE  StartInv' /\ ReleasesOnce
<1>1. /\ pc = from /\ pc' = "cleanup" /\ held' = held \ undo /\ Release(undo)
      /\ UNCHANGED <<n, pi, inherits>> /\ why' = from
  BY DEF Fail, Goto, Release
<1>2. held = Holds(from)
  BY <1>1 DEF StartInv, HeldFits
<1>3. HeldFits'
  BY <1>1, <1>2 DEF HeldFits, WayOut
<1>4. "cleanup" \in Steps
  BY DEF Steps
<1>5. ~Astray /\ pc # "failed"
  BY <1>1 DEF Astray, WayOut
<1>6. why' \in Steps \union {"none"}
  BY <1>1
<1> QED
  BY <1>1, <1>2, <1>3, <1>4, <1>5, <1>6, ReleaseStep

LEMMA TryStep ==
  ASSUME StartInv, NEW from \in Steps \ WayOut, NEW to \in Steps \ WayOut,
         NEW names \in SUBSET Names, NEW undo \in SUBSET Names,
         names \intersect PiHandles = {},
         Holds(to) = Holds(from) \union names,
         undo \subseteq Holds(from), Holds(from) \ undo \subseteq Leaves("cleanup"),
         Try(from, names, undo, to)
  PROVE  StartInv' /\ ReleasesOnce
<1>1. CASE Succeed(from, names, to)
  BY <1>1, SucceedStep
<1>2. CASE Fail(from, undo)
  BY <1>2, FailStep
<1> QED
  BY <1>1, <1>2 DEF Try

(* The rows of the table, call by call. *)
LEMMA PipesStep == ASSUME StartInv, CreatePipes PROVE StartInv' /\ ReleasesOnce
<1> USE DEF Holds, Leaves, Names, Inheritable, HostEnds, ChildEnds, Temporary,
            PiHandles, Steps, WayOut
<1>1. CASE Try("pipeIn", {"in_r", "in_w_tmp"}, {}, "pipeOut")
  BY <1>1, TryStep
<1>2. CASE Try("pipeOut", {"out_r_tmp", "out_w"}, {}, "pipeErr")
  BY <1>2, TryStep
<1>3. CASE Try("pipeErr", {"err_r_tmp", "err_w"}, {}, "dupIn")
  BY <1>3, TryStep
<1> QED
  BY <1>1, <1>2, <1>3 DEF CreatePipes

LEMMA DuplicateStep == ASSUME StartInv, DuplicateEnds PROVE StartInv' /\ ReleasesOnce
<1> USE DEF Holds, Leaves, Names, Inheritable, HostEnds, ChildEnds, Temporary,
            PiHandles, Steps, WayOut
<1>1. CASE Try("dupIn", {"in_w"}, {}, "dupOut")
  BY <1>1, TryStep
<1>2. CASE Try("dupOut", {"out_r"}, {}, "dupErr")
  BY <1>2, TryStep
<1>3. CASE Try("dupErr", {"err_r"}, {}, "tmp")
  BY <1>3, TryStep
<1> QED
  BY <1>1, <1>2, <1>3 DEF DuplicateEnds

LEMMA TemporaryStep == ASSUME StartInv, CloseTemporary PROVE StartInv' /\ ReleasesOnce
<1>1. /\ Temporary \in SUBSET Names /\ "envstr" \in Steps \ WayOut /\ "tmp" \notin WayOut
      /\ Temporary \subseteq Holds("tmp")
      /\ Holds("envstr") = Holds("tmp") \ Temporary
  BY DEF Holds, Names, Inheritable, HostEnds, ChildEnds, Temporary, Ends, Steps, WayOut
<1> QED
  BY <1>1, DropStep DEF CloseTemporary

LEMMA EnvironmentStep ==
  ASSUME StartInv, build_environment_strings \/ CopyPath PROVE StartInv' /\ ReleasesOnce
<1> USE DEF Holds, Leaves, Names, Inheritable, HostEnds, ChildEnds, Temporary, Ends,
            PiHandles, Steps, WayOut, Strings
<1>1. CASE Try("envstr", {"envstr"}, {}, "env")
  BY <1>1, TryStep
<1>2. CASE Try("env", {"env"}, {"envstr"}, "envDone")
  BY <1>2, TryStep
<1>3. CASE Drop("envDone", {"envstr"}, "path")
  BY <1>3, DropStep
<1>4. CASE Try("path", {"path"}, {}, "pathcopy")
  BY <1>4, TryStep
<1> QED
  BY <1>1, <1>2, <1>3, <1>4 DEF build_environment_strings, CopyPath

LEMMA DirectoryStep ==
  ASSUME StartInv, get_working_directory PROVE StartInv' /\ ReleasesOnce
<1> USE DEF Holds, Leaves, Names, Inheritable, HostEnds, ChildEnds, Temporary, Ends,
            PiHandles, Steps, WayOut, Strings
<1>1. CASE Try("pathcopy", {"pathcopy"}, {}, "dirlen")
  BY <1>1, TryStep
<1>2. CASE Try("dirlen", {}, {"pathcopy"}, "dir")
  BY <1>2, TryStep
<1>3. CASE Succeed("dir", {"dir"}, "full")
  BY <1>3, SucceedStep
<1>4. CASE Try("full", {}, {"dir", "pathcopy"}, "dirDone")
  BY <1>4, TryStep
<1>5. CASE Drop("dirDone", {"pathcopy"}, "create")
  BY <1>5, DropStep
<1> QED
  BY <1>1, <1>2, <1>3, <1>4, <1>5 DEF get_working_directory

(* Of all the handles that are open the child's ends alone are inheritable. *)
LEMMA CreateStep == ASSUME StartInv, CreateProcessW PROVE StartInv' /\ ReleasesOnce
<1>1. /\ pc = "create" /\ pi' = "set" /\ UNCHANGED n
      /\ held = Ends \union Strings /\ ~Astray /\ ~Astray'
  BY DEF CreateProcessW, Goto, StartInv, HeldFits, WayOut, Holds, Astray
<1>2. CASE /\ Goto("create", "settle")
           /\ Acquire(PiHandles)
           /\ inherits' = [inherits EXCEPT ![n] = {h \in owned : h[2] \in Inheritable}]
           /\ UNCHANGED why
  <2>1. /\ PiHandles \in SUBSET Names
        /\ held' = held \union PiHandles /\ owned' = owned \union Mine(PiHandles)
        /\ pc' = "settle" /\ UNCHANGED <<twice, why>>
    BY <1>2 DEF Acquire, Goto, PiHandles, Names, Returned
  <2>2. /\ Mine(PiHandles) \subseteq (1 .. MaxStarts) \X Names
        /\ \A x \in Names : <<n, x>> \in Mine(PiHandles) <=> x \in PiHandles
        /\ \A h \in Mine(PiHandles) : h[1] = n /\ h[2] \in PiHandles
    BY <2>1, MinePairs DEF StartInv
  <2>3. {h \in owned : h[2] \in Inheritable} = {n} \X ChildEnds
    <3>1. ASSUME NEW h \in owned, h[2] \in Inheritable
          PROVE  h = <<n, h[2]>> /\ h[2] \in ChildEnds
      <4>1. /\ h \in (1 .. MaxStarts) \X Names
            /\ h[1] # n => h[2] \in Returned
        BY DEF StartInv, TypeOK, EarlierReturned
      <4>2. h[2] \notin Returned
        BY <3>1 DEF Inheritable, Temporary, ChildEnds, Returned, HostEnds, QueueParts
      <4>3. h = <<n, h[2]>>
        BY <4>1, <4>2
      <4>4. h[2] \in Ends \union Strings
        BY <1>1, <4>1, <4>3 DEF StartInv, HeldIsOwned
      <4> QED
        BY <3>1, <4>3, <4>4
        DEF Inheritable, Temporary, ChildEnds, HostEnds, Strings, Ends
    <3>2. ASSUME NEW x \in ChildEnds
          PROVE  <<n, x>> \in owned /\ x \in Inheritable
      BY <1>1 DEF StartInv, HeldIsOwned, Ends, Names, Inheritable
    <3> QED
      BY <3>1, <3>2
  <2>4. inherits' = [inherits EXCEPT ![n] = {n} \X ChildEnds]
    BY <1>2, <2>3
  <2>5. ChildInheritsItsEnds'
    BY <2>4 DEF StartInv, ChildInheritsItsEnds, TypeOK
  <2>6. {n} \X ChildEnds \subseteq (1 .. MaxStarts) \X Names
    BY DEF StartInv, TypeOK, Names, Inheritable
  <2>7. TypeOK'
    BY <1>1, <2>1, <2>2, <2>4, <2>6 DEF StartInv, TypeOK, Steps
  <2>8. HeldIsOwned' /\ EarlierReturned'
    BY <1>1, <2>1, <2>2 DEF StartInv, HeldIsOwned, EarlierReturned
  <2>9. HeldFits'
    BY <1>1, <2>1 DEF HeldFits, WayOut, Holds, PiHandles
  <2> QED
    BY <1>1, <2>1, <2>5, <2>7, <2>8, <2>9
    DEF StartInv, PiIsSet, ReleasesOnce
<1>3. CASE /\ Goto("create", "cleanup")
           /\ why' = "create"
           /\ UNCHANGED <<held, owned, twice, inherits>>
  <2>1. TypeOK'
    BY <1>1, <1>3 DEF StartInv, TypeOK, Steps, Goto
  <2>2. HeldFits'
    BY <1>1, <1>3 DEF HeldFits, WayOut, Leaves, Goto, Ends, Strings, Inheritable
  <2> QED
    BY <1>1, <1>3, <2>1, <2>2
    DEF StartInv, HeldIsOwned, EarlierReturned, PiIsSet, ReleasesOnce,
        ChildInheritsItsEnds
<1> QED
  BY <1>2, <1>3 DEF CreateProcessW, PiHandles

LEMMA SettleStep == ASSUME StartInv, CloseChildEnds PROVE StartInv' /\ ReleasesOnce
<1> DEFINE Closed == Strings \union {"hThread"} \union ChildEnds
<1>1. /\ Closed \in SUBSET Names /\ "struct" \in Steps \ WayOut /\ "settle" \notin WayOut
      /\ Closed \subseteq Holds("settle")
      /\ Holds("struct") = Holds("settle") \ Closed
  BY DEF Holds, Names, Inheritable, HostEnds, ChildEnds, Strings, Ends, Steps, WayOut
<1>2. Drop("settle", Closed, "struct")
  BY DEF CloseChildEnds
<1> HIDE DEF Closed
<1> QED
  BY <1>1, <1>2, DropStep

LEMMA StructStep == ASSUME StartInv, MakeStruct \/ queue_init PROVE StartInv' /\ ReleasesOnce
<1> USE DEF Holds, Leaves, Names, Returned, HostEnds, PiHandles, Steps, WayOut, QueueParts
<1>1. CASE Try("struct", {"r"}, {"hProcess"}, "q")
  BY <1>1, TryStep
<1>2. CASE Try("q", {"q"}, {"r", "hProcess"}, "mtx")
  BY <1>2, TryStep
<1>3. CASE Try("mtx", {"mtx"}, {"q", "r", "hProcess"}, "cnd")
  BY <1>3, TryStep
<1>4. CASE Try("cnd", {"cnd"}, {"mtx", "q", "r", "hProcess"}, "cnd2")
  BY <1>4, TryStep
<1>5. CASE Try("cnd2", {"cnd2"}, {"cnd", "mtx", "q", "r", "hProcess"}, "pack")
  BY <1>5, TryStep
<1> QED
  BY <1>1, <1>2, <1>3, <1>4, <1>5 DEF MakeStruct, queue_init

LEMMA ThreadStep == ASSUME StartInv, CreateThread PROVE StartInv' /\ ReleasesOnce
<1> USE DEF Holds, Leaves, Names, Returned, HostEnds, PiHandles, Steps, WayOut, QueueParts
<1>1. CASE Try("pack", {"pack"}, QueueParts \union {"r", "hProcess"}, "thread")
  BY <1>1, TryStep
<1>2. CASE Try("thread", {"thread"}, QueueParts \union {"r", "hProcess"}, "started")
  BY <1>2, TryStep
<1> QED
  BY <1>1, <1>2 DEF CreateThread

-----------------------------------------------------------------------------

LEMMA CleanupStep ==
  ASSUME StartInv, FreeStrings \/ CloseEnds PROVE StartInv' /\ ReleasesOnce
<1>1. CASE FreeStrings
  <2>1. /\ pc = "cleanup" /\ pc' = "pi" /\ Release(Strings \intersect held)
        /\ UNCHANGED <<n, pi, why, inherits>>
    BY <1>1 DEF FreeStrings, Drop, Goto
  <2>2. held \subseteq Leaves("cleanup") /\ held' = held \ Strings
    BY <2>1 DEF StartInv, HeldFits, WayOut, Release
  <2>3. HeldFits' /\ pc' \in Steps /\ why' \in Steps \union {"none"}
    BY <2>1, <2>2 DEF HeldFits, WayOut, Leaves, Steps, StartInv, TypeOK
  <2>4. ~Astray
    BY <2>1 DEF Astray
  <2>5. Strings \intersect held \in SUBSET Names /\ Strings \intersect held \subseteq held
    BY DEF Names
  <2> QED
    BY <2>1, <2>3, <2>4, <2>5, ReleaseStep
<1>2. CASE CloseEnds
  <2> DEFINE Closed == (Inheritable \union HostEnds) \intersect held
  <2>1. /\ pc = "handles" /\ pc' = "failed" /\ Release(Closed)
        /\ UNCHANGED <<n, pi, why, inherits>>
    BY <1>2 DEF CloseEnds, Drop, Goto
  <2>2. held \subseteq Leaves("handles") /\ held' = held \ Closed
    BY <2>1 DEF StartInv, HeldFits, WayOut, Release
  <2>3. HeldFits' /\ pc' \in Steps /\ why' \in Steps \union {"none"}
    BY <2>1, <2>2 DEF HeldFits, WayOut, Leaves, Steps, StartInv, TypeOK
  <2>4. Closed \in SUBSET Names /\ Closed \subseteq held
    BY DEF Names
  <2>5. Astray => Astray'
    BY <2>1 DEF Astray
  <2> HIDE DEF Closed
  <2> QED
    BY <2>1, <2>3, <2>4, <2>5, ReleaseStep
<1> QED
  BY <1>1, <1>2

(* A handle in pi is closed: one the run holds, or one astray.              *)
LEMMA CloseOfPiStep ==
  ASSUME StartInv, NEW x \in PiHandles, NEW from, NEW to,
         <<from, to>> \in {<<"pi", "pi2">>, <<"pi2", "handles">>},
         Leaves(from) \ {x} = Leaves(to), CloseOfPi(x, from, to)
  PROVE  StartInv' /\ ReleasesOnce
<1>1. /\ pc = from /\ pc' = to /\ UNCHANGED <<n, pi, why, inherits>>
      /\ held \subseteq Leaves(from)
      /\ pc' \in Steps /\ why' \in Steps \union {"none"}
  BY DEF CloseOfPi, Goto, StartInv, HeldFits, WayOut, Steps, TypeOK
<1>2. CASE pi = "set" /\ Release({x} \intersect held)
  <2>1. held' = held \ {x}
    BY <1>2 DEF Release
  <2>2. HeldFits'
    BY <1>1, <2>1 DEF HeldFits, WayOut
  <2>3. /\ {x} \intersect held \in SUBSET Names /\ {x} \intersect held \subseteq held
        /\ ~Astray
    BY <1>2 DEF Names, Returned, PiHandles, Astray
  <2> QED
    BY <1>1, <1>2, <2>2, <2>3, ReleaseStep
<1>3. CASE pi = "garbage" /\ CloseGarbage(x) /\ UNCHANGED held
  <2>1. held \intersect PiHandles = {}
    BY <1>3 DEF StartInv, PiIsSet
  <2>2. HeldFits'
    BY <1>1, <1>3, <2>1 DEF HeldFits, WayOut
  <2>3. owned' \subseteq owned /\ twice' \subseteq twice \union Mine({x}) /\ Astray'
    BY <1>1, <1>3 DEF CloseGarbage, Astray
  <2>4. Mine({x}) \subseteq (1 .. MaxStarts) \X Names
    BY MinePairs DEF StartInv, PiHandles, Names, Returned
  <2>5. TypeOK'
    BY <1>1, <1>3, <2>3, <2>4 DEF StartInv, TypeOK
  <2>6. HeldIsOwned' /\ EarlierReturned'
    BY <1>1, <1>3, <2>3 DEF StartInv, HeldIsOwned, EarlierReturned
  <2>7. ReleasesOnce
    BY <1>1, <1>3 DEF ReleasesOnce
  <2> QED
    BY <1>1, <1>3, <2>1, <2>2, <2>5, <2>6, <2>7
    DEF StartInv, PiIsSet, ChildInheritsItsEnds
<1> QED
  BY <1>2, <1>3 DEF CloseOfPi

LEMMA ClosePiStep == ASSUME StartInv, ClosePi PROVE StartInv' /\ ReleasesOnce
<1> USE DEF Leaves, PiHandles, Inheritable, Temporary, HostEnds, ChildEnds
<1>1. CASE CloseOfPi("hThread", "pi", "pi2")
  BY <1>1, CloseOfPiStep
<1>2. CASE CloseOfPi("hProcess", "pi2", "handles")
  BY <1>2, CloseOfPiStep
<1> QED
  BY <1>1, <1>2 DEF ClosePi

(* What this run leaves is what it returned, and the next one begins. *)
LEMMA AgainStep == ASSUME StartInv, CallAgain PROVE StartInv' /\ ReleasesOnce
<1>1. /\ pc \in {"started", "failed"} /\ n' = n + 1 /\ n' \in 1 .. MaxStarts
      /\ pc' = "pipeIn" /\ held' = {} /\ pi' = "garbage" /\ why' = "none"
      /\ UNCHANGED <<owned, twice, inherits>> /\ ReleasesOnce
  BY StartAssumption DEF CallAgain, StartInv, TypeOK, ReleasesOnce
<1>2. held \subseteq Returned
  BY <1>1 DEF StartInv, HeldFits, WayOut, Leaves, Holds, Returned
<1>3. ASSUME NEW h \in owned PROVE h[1] < n' /\ h[2] \in Returned
  <2>1. h \in (1 .. MaxStarts) \X Names /\ n \in 1 .. MaxStarts
    BY DEF StartInv, TypeOK
  <2>2. CASE h[1] = n
    <3>1. <<n, h[2]>> \in owned /\ h[2] \in Names
      BY <2>1, <2>2
    <3> QED
      BY <1>1, <1>2, <2>1, <2>2, <3>1 DEF StartInv, HeldIsOwned
  <2>3. CASE h[1] # n
    BY <1>1, <2>1, <2>3 DEF StartInv, EarlierReturned
  <2> QED
    BY <2>2, <2>3
<1>4. TypeOK'
  BY <1>1 DEF StartInv, TypeOK, Steps
<1>5. EarlierReturned'
  BY <1>1, <1>3 DEF EarlierReturned
<1>6. HeldIsOwned'
  <2> SUFFICES ASSUME NEW x \in Names, <<n', x>> \in owned PROVE FALSE
    BY <1>1 DEF HeldIsOwned
  <2>1. <<n', x>>[1] < n'
    BY <1>3
  <2> QED
    BY <1>1, <2>1
<1>7. HeldFits'
  BY <1>1 DEF HeldFits, WayOut, Holds
<1> QED
  BY <1>1, <1>4, <1>5, <1>6, <1>7
  DEF StartInv, PiIsSet, ChildInheritsItsEnds

LEMMA NextStartInv == StartInv /\ [Next]_vars => StartInv' /\ [ReleasesOnce]_vars
<1> SUFFICES ASSUME StartInv, [Next]_vars PROVE StartInv' /\ [ReleasesOnce]_vars
  OBVIOUS
<1>1. CASE UNCHANGED vars
  BY <1>1
  DEF vars, StartInv, TypeOK, HeldIsOwned, Astray, EarlierReturned, HeldFits, PiIsSet,
      ChildInheritsItsEnds
<1> QED
  BY <1>1, PipesStep, DuplicateStep, TemporaryStep, EnvironmentStep, DirectoryStep,
     CreateStep, SettleStep, StructStep, ThreadStep, CleanupStep, ClosePiStep, AgainStep
  DEF Next

LEMMA StartInvariant == Spec => []StartInv
BY InitStartInv, NextStartInv, PTL DEF Spec

(* Whichever of its calls fails, process_start leaves nothing behind but    *)
(* the pack of a thread that was not created; and when none fails, what it  *)
(* leaves is exactly what its struct process refers to.                     *)
THEOREM AllOrNothingCorrect == Spec => []AllOrNothing
<1>1. StartInv => AllOrNothing
  <2> SUFFICES ASSUME StartInv PROVE AllOrNothing
    OBVIOUS
  <2>1. Left \subseteq held
    <3>1. ASSUME NEW h \in owned, h[1] = n PROVE h[2] \in held
      <4>1. h = <<n, h[2]>> /\ h[2] \in Names
        BY <3>1 DEF StartInv, TypeOK
      <4> QED
        BY <4>1 DEF StartInv, HeldIsOwned
    <3> QED
      BY <3>1 DEF Left
  <2>2. ASSUME pc = "started" PROVE held \subseteq Left
    <3>1. ~Astray
      BY <2>2 DEF Astray
    <3>2. ASSUME NEW x \in held
          PROVE  <<n, x>> \in owned /\ <<n, x>>[1] = n /\ <<n, x>>[2] = x
      BY <3>1 DEF StartInv, TypeOK, HeldIsOwned
    <3> QED
      BY <3>2 DEF Left
  <2> QED
    BY <2>1, <2>2 DEF StartInv, HeldFits, AllOrNothing, WayOut, Leaves, Holds
<1> QED
  BY <1>1, StartInvariant, PTL

(* Wherever pi has been initialised, and on the way out before it is looked *)
(* at, no path closes or frees what is not there.  The paths that jump over *)
(* the initialisation are not covered: what their cleanup closes is up to   *)
(* the stack.                                                               *)
THEOREM NothingReleasedTwiceCorrect == Spec => NothingReleasedTwice
<1>1. [ReleasesOnce]_vars =>
        [pi = "set" \/ pc \notin {"pi", "pi2", "handles"} => twice' = twice]_vars
  BY DEF ReleasesOnce
<1> QED
  BY <1>1, StartInvariant, NextStartInv, PTL DEF Spec, NothingReleasedTwice

(* However many children were started before, and whichever starts failed,  *)
(* a child inherits the three ends of its own pipes and nothing else.       *)
THEOREM ChildInheritsItsEndsCorrect == Spec => []ChildInheritsItsEnds
BY StartInvariant, PTL DEF StartInv
=============================================================================
