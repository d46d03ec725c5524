------------------------------ MODULE LuaCall -------------------------------
(***************************************************************************)
(* lua_bridge_call of src/src/luamain.c, with bridge_init and bridge_exit  *)
(* of src/src/bridge.c: what happens between a script and bridge_call.     *)
(* The first call initialises the library.  The arguments are taken from   *)
(* the Lua stack, the image from the arguments or from the object obj of   *)
(* AviUtl, and after bridge_call the image may go back to obj.             *)
(*                                                                         *)
(* The stack is a sequence of values and its index has the meaning of the  *)
(* C API of Lua: from the bottom if positive, from the top if negative.    *)
(* Pointers that the code takes from the stack are good only as long as    *)
(* the value is on the stack.  Each Lua function that is called, obj.xxx,  *)
(* may raise an error, which leaves lua_bridge_call at once.               *)
(***************************************************************************)
EXTENDS Integers, Sequences

CONSTANTS
  ArgLists,   (* lists of arguments that scripts call with                 *)
  Sizes,      (* what obj.w, obj.h and obj.getinfo say: numbers            *)
  MaxCalls    (* bound: calls in one behaviour                             *)

(* A Lua value: its type, the letters of a string, the value of a number.   *)
LuaValues ==
  [type : {"nil", "string", "number", "table", "userdata"},
   letters : SUBSET STRING, number : Int]
Value(type, letters, number) == [type |-> type, letters |-> letters, number |-> number]
Nil == Value("nil", {}, 0)
Str(letters) == Value("string", letters, 0)
Num(n) == Value("number", {}, n)
Obj == Value("table", {}, 0)        (* the global obj                       *)
Pixels == Value("userdata", {}, 0)  (* an image                             *)

ASSUME LuaCallAssumption ==
  /\ ArgLists \subseteq Seq(LuaValues)
  /\ Sizes \subseteq Int
  /\ MaxCalls \in Nat

(* The C API of Lua. *)
At(s, i) ==
  IF i < 0 THEN s[Len(s) + 1 + i]
  ELSE IF i <= Len(s) THEN s[i] ELSE Nil
Pop(s, n) == SubSeq(s, 1, Len(s) - n)
lua_isstring(v) == v.type \in {"string", "number"}
lua_tointeger(v) == v.number
lua_topointer(v) == IF v.type \in {"table", "userdata"} THEN v ELSE Nil

VARIABLES
  args,          (* what the script passed                                 *)
  stack,         (* the Lua stack of the call                              *)
  pc,            (* where the call is                                      *)
  m,             (* struct call_mem and the pointers taken with it         *)
  put,           (* the value handed to obj.putpixeldata                   *)
  outcome,       (* how the last call ended                                *)
  calls,         (* calls so far                                           *)
  initialized,
  live,          (* what bridge_init acquired and nobody released          *)
  g              (* the globals of bridge.c: what they refer to            *)

callVars == <<args, stack, m, put, calls>>
initVars == <<initialized, live, g>>
vars == <<callVars, pc, outcome, initVars>>

(* No call_mem: bridge_call gets NULL. *)
NoMem == [mode |-> {}, exe |-> Nil, buf |-> Nil, image |-> Nil, width |-> 0, height |-> 0]

(* What bridge_init acquires, numbered by the call that did. *)
Kinds == {"map", "mutex", "file", "view"}
Resources == [kind : Kinds, by : 1 .. MaxCalls]
New(kind) == [kind |-> kind, by |-> calls]

Init ==
  /\ args = <<>>
  /\ stack = <<>>
  /\ pc = "idle"
  /\ m = NoMem
  /\ put = Nil
  /\ outcome = "none"
  /\ calls = 0
  /\ initialized = FALSE
  /\ live = {}
  /\ g = {}

Goto(from, to) == pc = from /\ pc' = to

(* luaL_error, or an error raised by a Lua function that was called. *)
Raise(from, why) ==
  /\ Goto(from, "idle")
  /\ outcome' = why

-----------------------------------------------------------------------------

Call(list) ==
  /\ Goto("idle", IF initialized THEN "arguments" ELSE "info")
  /\ calls < MaxCalls
  /\ calls' = calls + 1
  /\ args' = list
  /\ stack' = list
  /\ m' = NoMem
  /\ put' = Nil
  /\ outcome' = "none"
  /\ UNCHANGED initVars

(* obj.getinfo("image_max") leaves obj and two numbers, or raises an error. *)
GetInfo ==
  \/ /\ Goto("info", "map")
     /\ \E w, h \in Sizes : stack' = stack \o <<Obj, Num(w), Num(h)>>
     /\ UNCHANGED <<args, m, put, calls, outcome, initVars>>
  \/ Raise("info", "lua") /\ UNCHANGED <<callVars, initVars>>

(* bridge_init: check the size, make the map and the mutex ...  A map that  *)
(* cannot be made takes the place of the one before it all the same.        *)
InitMap ==
  /\ \/ /\ Goto("map", "file")
        /\ lua_tointeger(At(stack, -2)) > 0
        /\ lua_tointeger(At(stack, -1)) > 0
        /\ live' = live \union {New("map"), New("mutex")}
        /\ g' = {r \in g : r.kind \notin {"map", "mutex"}} \union {New("map"), New("mutex")}
        /\ UNCHANGED outcome
     \/ /\ Raise("map", "not initialized")
        /\ g' \in {g, {r \in g : r.kind # "map"}}
        /\ UNCHANGED live
  /\ UNCHANGED <<callVars, initialized>>

(* Mutant: a failure is not seen. *)
IgnoresFailure ==
  /\ \/ /\ Goto("file", "view")
        /\ live' = live \union {New("file")}
     \/ Goto("file", "set") /\ UNCHANGED live
  /\ UNCHANGED <<callVars, outcome, initialized, g>>

(* ... the file mapping ... *)
InitFile ==
  /\ \/ /\ Goto("file", "view")
        /\ live' = live \union {New("file")}
        /\ UNCHANGED outcome
     \/ Raise("file", "not initialized") /\ UNCHANGED live
  /\ UNCHANGED <<callVars, initialized, g>>

(* Mutant: the file mapping stays open. *)
KeepsFile ==
  /\ \/ /\ Goto("view", "set")
        /\ live' = live \union {New("view")}
        /\ g' = g \union {New("file"), New("view")}
        /\ UNCHANGED outcome
     \/ /\ Raise("view", "not initialized")
        /\ UNCHANGED <<live, g>>
  /\ UNCHANGED <<callVars, initialized>>

(* ... and the view, without which the file is closed. *)
InitView ==
  /\ \/ /\ Goto("view", "set")
        /\ live' = live \union {New("view")}
        /\ g' = g \union {New("file"), New("view")}
        /\ UNCHANGED outcome
     \/ /\ Raise("view", "not initialized")
        /\ live' = live \ {New("file")}
        /\ UNCHANGED g
  /\ UNCHANGED <<callVars, initialized>>

(* The two numbers are popped; obj stays. *)
SetInitialized ==
  /\ Goto("set", "arguments")
  /\ stack' = Pop(stack, 2)
  /\ initialized' = TRUE
  /\ UNCHANGED <<args, m, put, calls, outcome, live, g>>

-----------------------------------------------------------------------------

(* The mode: which of the letters r, w and p the third value has. *)
ModeOf(s) == IF lua_isstring(At(s, 3)) THEN At(s, 3).letters ELSE {}

(* How the call goes on: without an image, with that of obj, or with that   *)
(* of the arguments.                                                        *)
Source(s) ==
  IF ModeOf(s) \intersect {"r", "w"} = {} THEN "none"
  ELSE IF "p" \in ModeOf(s) THEN "arguments" ELSE "obj"

(* Mutant: the size of the image is not looked at. *)
ChecksPointer(s) == lua_topointer(At(s, 4)) # Nil

(* The image of the arguments is there. *)
ImageIsValid(s) ==
  /\ lua_topointer(At(s, 4)) # Nil
  /\ lua_tointeger(At(s, 5)) # 0
  /\ lua_tointeger(At(s, 6)) # 0

(* What the values on the stack ask for: an error, or a call_mem.           *)
Reads(s) ==
  IF ~lua_isstring(At(s, 1)) THEN [next |-> "invalid exe path", m |-> NoMem]
  ELSE IF Source(s) = "arguments" /\ ~ImageIsValid(s)
  THEN [next |-> "invalid arguments", m |-> NoMem]
  ELSE [next |-> Source(s),
        m |-> [mode |-> IF Source(s) = "none" THEN {} ELSE ModeOf(s),
               exe |-> At(s, 1),
               buf |-> IF lua_isstring(At(s, 2)) THEN At(s, 2) ELSE Nil,
               image |-> IF Source(s) = "arguments"
                         THEN lua_topointer(At(s, 4)) ELSE Nil,
               width |-> IF Source(s) = "arguments"
                         THEN lua_tointeger(At(s, 5)) ELSE 0,
               height |-> IF Source(s) = "arguments"
                          THEN lua_tointeger(At(s, 6)) ELSE 0]]

ReadArguments ==
  /\ \/ /\ Reads(stack).next \in {"invalid exe path", "invalid arguments"}
        /\ Raise("arguments", Reads(stack).next)
        /\ UNCHANGED m
     \/ /\ Reads(stack).next \in {"none", "arguments", "obj"}
        /\ Goto("arguments", IF Reads(stack).next = "obj" THEN "size" ELSE "call")
        /\ m' = Reads(stack).m
        /\ UNCHANGED outcome
  /\ UNCHANGED <<args, stack, put, calls, initVars>>

(* obj, obj.w and obj.h are pushed and the two numbers popped again.        *)
CheckSize ==
  /\ \E w, h \in Sizes :
       LET pushed == stack \o <<Obj, Num(w), Num(h)>>
           empty == lua_tointeger(At(pushed, -1)) = 0 \/ lua_tointeger(At(pushed, -2)) = 0
       IN  \/ empty /\ Raise("size", "has no image") /\ UNCHANGED stack
           \/ Raise("size", "lua") /\ UNCHANGED stack
           \/ /\ ~empty
              /\ Goto("size", "pixels")
              /\ stack' = Pop(pushed, 2)
              /\ UNCHANGED outcome
  /\ UNCHANGED <<args, m, put, calls, initVars>>

(* obj.getpixeldata leaves the image, the width and the height; popped of   *)
(* them are popped again.                                                   *)
TakeImage(popped) ==
  \/ /\ Goto("pixels", "call")
     /\ \E w, h \in Sizes :
          LET pushed == stack \o <<Pixels, Num(w), Num(h)>>
          IN  /\ m' = [m EXCEPT !.image = lua_topointer(At(pushed, -3)),
                                !.width = lua_tointeger(At(pushed, -2)),
                                !.height = lua_tointeger(At(pushed, -1))]
              /\ stack' = Pop(pushed, popped)
     /\ UNCHANGED <<args, put, calls, outcome, initVars>>
  \/ Raise("pixels", "lua") /\ UNCHANGED <<callVars, initVars>>

(* Mutants: the height alone is popped, or the image too. *)
PopsOne == TakeImage(1)
PopsThree == TakeImage(3)

(* The image stays on the stack, above obj. *)
GetPixelData == TakeImage(2)

-----------------------------------------------------------------------------

Has(kind) == \E r \in g : r.kind = kind
Codes == {"FAILED_TO_CONVERT_EXE_PATH", "FAILED_TO_START_PROCESS",
          "FAILED_TO_SEND_COMMAND", "FAILED_TO_RECEIVE_COMMAND"}
PutsBack == "w" \in m.mode /\ "p" \notin m.mode

(* bridge_call, whose steps are in module Bridge: an ECALL_ value.          *)
BridgeCall ==
  /\ \/ Goto("call", IF PutsBack THEN "put" ELSE "push") /\ Has("view") /\ UNCHANGED outcome
     \/ \E code \in IF Has("view") THEN Codes ELSE {"NOT_INITIALIZED"} :
          Raise("call", code)
  /\ UNCHANGED <<callVars, initVars>>

(* obj.putpixeldata, found in the second value from the top, is called with *)
(* a copy of the first.                                                     *)
PutPixelData ==
  /\ \/ /\ Goto("put", "push")
        /\ At(stack, -2) = Obj
        /\ put' = At(stack, -1)
        /\ UNCHANGED outcome
     \/ Raise("put", "lua") /\ UNCHANGED put
  /\ UNCHANGED <<args, stack, m, calls, initVars>>

(* The reply is pushed and returned. *)
PushReply ==
  /\ Goto("push", "idle")
  /\ outcome' = "OK"
  /\ UNCHANGED <<callVars, initVars>>

(* DllMain, at DLL_PROCESS_DETACH: bridge_exit, if there is something to    *)
(* exit from.  The library is gone.                                         *)
Detach ==
  /\ Goto("idle", "unloaded")
  /\ live' = IF initialized THEN live \ g ELSE live
  /\ g' = IF initialized THEN {} ELSE g
  /\ UNCHANGED <<callVars, outcome, initialized>>

InsideCall ==
  \/ GetInfo \/ InitMap \/ InitFile \/ InitView \/ SetInitialized
  \/ ReadArguments \/ CheckSize \/ GetPixelData
  \/ BridgeCall \/ PutPixelData \/ PushReply

Next ==
  \/ \E list \in ArgLists : Call(list)
  \/ InsideCall
  \/ Detach

Spec == Init /\ [][Next]_vars

-----------------------------------------------------------------------------

(* The first call leaves obj on the stack, right behind the arguments,      *)
(* where a call with fewer arguments than it reads finds it.  It is taken   *)
(* for no argument: the first call does what a later one does.              *)
FirstCallIsLikeOthers == pc = "arguments" => Reads(stack) = Reads(args)

(* While bridge_call uses the pointers to the path, the data and the image  *)
(* their values are on the stack, where the garbage collector finds them.   *)
Anchored ==
  pc = "call" =>
    \A v \in {m.exe, m.buf, m.image} \ {Nil} : \E i \in 1 .. Len(stack) : stack[i] = v

(* Where the code expects obj and the image below the top of the stack they *)
(* are, and a call that returns has handed to obj.putpixeldata the image    *)
(* that bridge_call wrote to, if the mode is to write and the image is that *)
(* of obj, and otherwise nothing.                                           *)
ImageGoesBack ==
  /\ pc = "put" => At(stack, -2) = Obj /\ At(stack, -1) = m.image
  /\ outcome = "OK" => put = IF PutsBack THEN Pixels ELSE Nil

(* initialized says that a call can use the view, as long as the library is *)
(* there: no call finds the library not initialised, whatever failed before.*)
ReadyOnceInitialized ==
  /\ initialized /\ pc # "unloaded" => \A kind \in Kinds : Has(kind)
  /\ outcome # "NOT_INITIALIZED"

(* An attempt to initialise that failed leaves no file and no view behind,  *)
(* nor does the library.  It does leave its map: the next attempt makes a   *)
(* new one over it.                                                         *)
LeaksMapsOnly ==
  pc \in {"idle", "unloaded"} =>
    \A r \in live : r \in g \/ r.kind \in {"map", "mutex"}
=============================================================================
