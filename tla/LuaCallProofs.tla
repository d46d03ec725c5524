--------------------------- MODULE LuaCallProofs ----------------------------
(***************************************************************************)
(* What TLAPS proves of LuaCall, for every list of arguments, every size   *)
(* and any number of calls: that the first call does what later ones do,   *)
(* that the pointers taken from the Lua stack stay good, that the image    *)
(* goes back to obj, and what initialising, failing to, and exiting leave. *)
(* The argument is what each place of lua_bridge_call has on the stack.    *)
(***************************************************************************)
EXTENDS LuaCall, SequenceTheorems, TLAPS

On(s, v) == \E i \in 1 .. Len(s) : s[i] = v

LEMMA Made ==
  /\ Nil \in LuaValues /\ Obj \in LuaValues /\ Pixels \in LuaValues
  /\ \A x \in Int : Num(x) \in LuaValues
BY DEF Nil, Obj, Pixels, Num, Value, LuaValues

(* Three values pushed, read from the top, and the upper two popped again.  *)
LEMMA Pushed ==
  ASSUME NEW s \in Seq(LuaValues), NEW a \in LuaValues,
         NEW w \in Sizes, NEW h \in Sizes
  PROVE  /\ (s \o <<a, Num(w), Num(h)>>) \in Seq(LuaValues)
         /\ At(s \o <<a, Num(w), Num(h)>>, -1) = Num(h)
         /\ At(s \o <<a, Num(w), Num(h)>>, -2) = Num(w)
         /\ At(s \o <<a, Num(w), Num(h)>>, -3) = a
         /\ Pop(s \o <<a, Num(w), Num(h)>>, 2) = Append(s, a)
<1>a. PICK b \in LuaValues, c \in LuaValues : b = Num(w) /\ c = Num(h)
  BY Made, LuaCallAssumption
<1>b. PICK t : t = s \o <<a, b, c>>
  OBVIOUS
<1>1. /\ <<a, b, c>> \in Seq(LuaValues) /\ Len(<<a, b, c>>) = 3
      /\ <<a, b, c>>[1] = a /\ <<a, b, c>>[2] = b /\ <<a, b, c>>[3] = c
  OBVIOUS
<1>2. Len(s) \in Nat
  BY LenProperties
<1>3. /\ t \in Seq(LuaValues) /\ Len(t) = Len(s) + 3
      /\ \A i \in 1 .. Len(s) + 3 :
           t[i] = IF i <= Len(s) THEN s[i] ELSE <<a, b, c>>[i - Len(s)]
  BY <1>1, <1>b, ConcatProperties
<1>4. t[Len(s) + 1] = a /\ t[Len(s) + 2] = b /\ t[Len(s) + 3] = c
  <2>1. /\ Len(s) + 1 \in 1 .. Len(s) + 3 /\ ~ (Len(s) + 1 <= Len(s))
        /\ Len(s) + 1 - Len(s) = 1
        /\ Len(s) + 2 \in 1 .. Len(s) + 3 /\ ~ (Len(s) + 2 <= Len(s))
        /\ Len(s) + 2 - Len(s) = 2
        /\ Len(s) + 3 \in 1 .. Len(s) + 3 /\ ~ (Len(s) + 3 <= Len(s))
        /\ Len(s) + 3 - Len(s) = 3
    BY <1>2
  <2> QED
    BY <1>1, <1>3, <2>1
<1>5. At(t, -1) = c /\ At(t, -2) = b /\ At(t, -3) = a
  <2>1. /\ Len(t) + 1 + (-1) = Len(s) + 3 /\ Len(t) + 1 + (-2) = Len(s) + 2
        /\ Len(t) + 1 + (-3) = Len(s) + 1
    BY <1>2, <1>3
  <2> QED
    BY <1>4, <2>1 DEF At
<1>6. Pop(t, 2) = Append(s, a)
  <2>1. Len(t) - 2 = Len(s) + 1 /\ Len(s) + 1 \in Int /\ 1 <= Len(s) + 1
        /\ (Len(s) + 1) - 1 + 1 = Len(s) + 1
    BY <1>2, <1>3
  <2>2. \A i \in 1 .. Len(s) + 1 : t[i] \in LuaValues
    BY <1>2, <1>3, ElementOfSeq
  <2>3. /\ SubSeq(t, 1, Len(s) + 1) \in Seq(LuaValues)
        /\ Len(SubSeq(t, 1, Len(s) + 1)) = Len(s) + 1
        /\ \A i \in 1 .. Len(s) + 1 : SubSeq(t, 1, Len(s) + 1)[i] = t[1 + i - 1]
    BY <2>1, <2>2, SubSeqProperties
  <2>4. /\ Append(s, a) \in Seq(LuaValues) /\ Len(Append(s, a)) = Len(s) + 1
        /\ \A i \in 1 .. Len(s) + 1 :
             Append(s, a)[i] = IF i <= Len(s) THEN s[i] ELSE a
    BY AppendProperties
  <2>5. ASSUME NEW i \in 1 .. Len(s) + 1
        PROVE  SubSeq(t, 1, Len(s) + 1)[i] = Append(s, a)[i]
    <3>1. 1 + i - 1 = i /\ (i <= Len(s) \/ i = Len(s) + 1) /\ i \in 1 .. Len(s) + 3
      BY <1>2
    <3> QED
      BY <1>2, <1>3, <1>4, <2>3, <2>4, <3>1
  <2>6. SubSeq(t, 1, Len(s) + 1) = Append(s, a)
    BY <2>3, <2>4, <2>5, SeqEqual
  <2> QED
    BY <2>1, <2>6 DEF Pop
<1> QED
  BY <1>a, <1>b, <1>3, <1>5, <1>6

(* A value appended is the top; what was below it stays. *)
LEMMA Appended ==
  ASSUME NEW s \in Seq(LuaValues), NEW a \in LuaValues
  PROVE  /\ Append(s, a) \in Seq(LuaValues) /\ Append(s, a) # <<>>
         /\ At(Append(s, a), -1) = a
         /\ s # <<>> => At(Append(s, a), -2) = At(s, -1)
         /\ On(Append(s, a), a)
         /\ \A v : On(s, v) => On(Append(s, a), v)
         /\ \A i \in Int : i > 0 =>
              At(Append(s, a), i) = IF i = Len(s) + 1 THEN a ELSE At(s, i)
<1>1. /\ Append(s, a) \in Seq(LuaValues) /\ Len(Append(s, a)) = Len(s) + 1
      /\ \A i \in 1 .. Len(s) + 1 :
           Append(s, a)[i] = IF i <= Len(s) THEN s[i] ELSE a
      /\ Len(s) \in Nat
  BY AppendProperties, LenProperties
<1>2. Append(s, a)[Len(s) + 1] = a /\ Len(s) + 1 \in 1 .. Len(s) + 1
  BY <1>1
<1>3. At(Append(s, a), -1) = a
  <2>1. Len(s) + 1 + 1 + (-1) = Len(s) + 1
    BY <1>1
  <2> QED
    BY <1>1, <1>2, <2>1 DEF At
<1>6. ASSUME s # <<>> PROVE At(Append(s, a), -2) = At(s, -1)
  <2>1. Len(s) # 0
    BY <1>6, EmptySeq
  <2>2. /\ Len(s) \in 1 .. Len(s) + 1 /\ Len(s) + 1 + 1 + (-2) = Len(s)
        /\ Len(s) + 1 + (-1) = Len(s) /\ Len(s) <= Len(s)
    BY <1>1, <2>1
  <2> QED
    BY <1>1, <2>2 DEF At
<1>7. Append(s, a) # <<>>
  BY <1>1, EmptySeq
<1>4. ASSUME NEW v, On(s, v) PROVE On(Append(s, a), v)
  <2>1. PICK i \in 1 .. Len(s) : s[i] = v
    BY <1>4 DEF On
  <2>2. i \in 1 .. Len(s) + 1 /\ i <= Len(s)
    BY <1>1
  <2> QED
    BY <1>1, <2>1, <2>2 DEF On
<1>5. ASSUME NEW i \in Int, i > 0
      PROVE  At(Append(s, a), i) = IF i = Len(s) + 1 THEN a ELSE At(s, i)
  <2>1. ~ (i < 0) /\ (i <= Len(s) + 1 => i \in 1 .. Len(s) + 1)
        /\ (i <= Len(s) + 1 <=> i <= Len(s) \/ i = Len(s) + 1)
        /\ ~ (Len(s) + 1 <= Len(s))
    BY <1>1, <1>5
  <2> QED
    BY <1>1, <1>2, <2>1 DEF At
<1> QED
  BY <1>1, <1>2, <1>3, <1>4, <1>5, <1>6, <1>7 DEF On

(* A positive index finds a value that is on the stack, or Nil. *)
LEMMA Found ==
  ASSUME NEW s \in Seq(LuaValues), NEW i \in Int, i > 0
  PROVE  /\ At(s, i) \in LuaValues
         /\ At(s, i) = Nil \/ On(s, At(s, i))
<1>1. Len(s) \in Nat
  BY LenProperties
<1>2. CASE i <= Len(s)
  <2>1. i \in 1 .. Len(s) /\ At(s, i) = s[i]
    BY <1>1, <1>2 DEF At
  <2> QED
    BY <2>1, ElementOfSeq DEF On
<1>3. CASE ~ (i <= Len(s))
  BY <1>1, <1>3, Made DEF At
<1> QED
  BY <1>2, <1>3

-----------------------------------------------------------------------------

Mems == [mode : SUBSET STRING, exe : LuaValues, buf : LuaValues, image : LuaValues,
         width : Int, height : Int]

(* What reading the arguments yields: pointers to values on the stack, or   *)
(* NULL; and the image of obj is asked for unless there is nothing to write *)
(* back to it.                                                              *)
LEMMA ReadsWhatIsThere ==
  ASSUME NEW s \in Seq(LuaValues)
  PROVE  /\ Reads(s).m \in Mems
         /\ Reads(s).next \in {"invalid exe path", "invalid arguments",
                               "none", "arguments", "obj"}
         /\ Reads(s).next \in {"none", "arguments"} =>
              ~ ("w" \in Reads(s).m.mode /\ "p" \notin Reads(s).m.mode)
         /\ \A v \in {Reads(s).m.exe, Reads(s).m.buf, Reads(s).m.image} :
              v = Nil \/ On(s, v)
<1>1. \A i \in 1 .. 6 : At(s, i) \in LuaValues /\ (At(s, i) = Nil \/ On(s, At(s, i)))
  BY Found
<1>2. At(s, 1) \in LuaValues /\ (At(s, 1) = Nil \/ On(s, At(s, 1)))
  BY <1>1
<1>3. At(s, 2) \in LuaValues /\ (At(s, 2) = Nil \/ On(s, At(s, 2)))
  BY <1>1
<1>4. /\ lua_topointer(At(s, 4)) \in LuaValues
      /\ lua_topointer(At(s, 4)) = Nil \/ On(s, lua_topointer(At(s, 4)))
  BY <1>1, Made DEF lua_topointer
<1>5. lua_tointeger(At(s, 5)) \in Int /\ lua_tointeger(At(s, 6)) \in Int
  BY <1>1 DEF lua_tointeger, LuaValues
<1>6. ModeOf(s) \in SUBSET STRING
  BY <1>1 DEF ModeOf, LuaValues
<1>7. /\ Source(s) \in {"none", "arguments", "obj"}
      /\ Source(s) = "arguments" => "p" \in ModeOf(s)
  BY DEF Source
<1> HIDE DEF LuaValues
<1>8. NoMem \in Mems /\ NoMem.mode = {} /\ NoMem.exe = Nil /\ NoMem.buf = Nil
      /\ NoMem.image = Nil
  BY Made DEF NoMem, Mems
<1>9. CASE ~ lua_isstring(At(s, 1)) \/ (Source(s) = "arguments" /\ ~ ImageIsValid(s))
  BY <1>8, <1>9 DEF Reads
<1>10. CASE ~ (~ lua_isstring(At(s, 1)) \/ (Source(s) = "arguments" /\ ~ ImageIsValid(s)))
  <2>1. /\ Reads(s).next = Source(s)
        /\ Reads(s).m = [mode |-> IF Source(s) = "none" THEN {} ELSE ModeOf(s),
               exe |-> At(s, 1),
               buf |-> IF lua_isstring(At(s, 2)) THEN At(s, 2) ELSE Nil,
               image |-> IF Source(s) = "arguments"
                         THEN lua_topointer(At(s, 4)) ELSE Nil,
               width |-> IF Source(s) = "arguments"
                         THEN lua_tointeger(At(s, 5)) ELSE 0,
               height |-> IF Source(s) = "arguments"
                          THEN lua_tointeger(At(s, 6)) ELSE 0]
    BY <1>10 DEF Reads
  <2>2. Reads(s).m \in Mems
    BY <2>1, <1>2, <1>3, <1>4, <1>5, <1>6, Made DEF Mems
  <2>3. \A v \in {Reads(s).m.exe, Reads(s).m.buf, Reads(s).m.image} :
          v = Nil \/ On(s, v)
    BY <2>1, <1>2, <1>3, <1>4
  <2>4. Reads(s).m.mode = IF Source(s) = "none" THEN {} ELSE ModeOf(s)
    BY <2>1
  <2>5. /\ Reads(s).next \in {"none", "arguments", "obj"}
        /\ Reads(s).next = "none" => "w" \notin Reads(s).m.mode
        /\ Reads(s).next = "arguments" => "p" \in Reads(s).m.mode
    BY <2>1, <2>4, <1>7
  <2> QED
    BY <2>2, <2>3, <2>5
<1> QED
  BY <1>9, <1>10

(* obj behind the arguments is taken for none of them. *)
LEMMA SameReads ==
  ASSUME NEW s \in Seq(LuaValues)
  PROVE  Reads(Append(s, Obj)) = Reads(s)
<1> DEFINE t == Append(s, Obj)
<1>1. Len(s) \in Nat
  BY LenProperties
<1>2. ASSUME NEW i \in 1 .. 6
      PROVE  /\ At(t, i) = IF i = Len(s) + 1 THEN Obj ELSE At(s, i)
             /\ i > Len(s) => At(s, i) = Nil
  BY <1>1, Appended, Made DEF At
<1>3. \A i \in 1 .. 6 : At(t, i) = At(s, i) \/ (At(t, i) = Obj /\ At(s, i) = Nil)
  BY <1>1, <1>2
<1>4. /\ ~ lua_isstring(Obj) /\ ~ lua_isstring(Nil)
      /\ lua_tointeger(Obj) = 0 /\ lua_tointeger(Nil) = 0
      /\ lua_topointer(Nil) = Nil
  BY DEF Obj, Nil, Value, lua_isstring, lua_tointeger, lua_topointer
<1>5. At(t, 4) = At(s, 4) \/ (At(t, 5) = Nil /\ At(s, 5) = Nil)
  <2>1. CASE Len(s) + 1 = 4
    <3>1. 5 \in 1 .. 6 /\ 5 # Len(s) + 1 /\ 5 > Len(s)
      BY <1>1, <2>1
    <3> QED
      BY <1>2, <3>1
  <2>2. CASE ~ (Len(s) + 1 = 4)
    <3>1. 4 \in 1 .. 6 /\ 4 # Len(s) + 1
      BY <1>1, <2>2
    <3> QED
      BY <1>2, <3>1
  <2> QED
    BY <2>1, <2>2
<1>6. /\ At(t, 1) = At(s, 1) \/ (At(t, 1) = Obj /\ At(s, 1) = Nil)
      /\ At(t, 2) = At(s, 2) \/ (At(t, 2) = Obj /\ At(s, 2) = Nil)
      /\ At(t, 3) = At(s, 3) \/ (At(t, 3) = Obj /\ At(s, 3) = Nil)
      /\ At(t, 4) = At(s, 4) \/ (At(t, 4) = Obj /\ At(s, 4) = Nil)
      /\ At(t, 5) = At(s, 5) \/ (At(t, 5) = Obj /\ At(s, 5) = Nil)
      /\ At(t, 6) = At(s, 6) \/ (At(t, 6) = Obj /\ At(s, 6) = Nil)
  BY <1>3
<1> HIDE DEF t
<1>7. /\ lua_isstring(At(t, 1)) <=> lua_isstring(At(s, 1))
      /\ lua_isstring(At(s, 1)) => At(t, 1) = At(s, 1)
      /\ lua_isstring(At(t, 2)) <=> lua_isstring(At(s, 2))
      /\ lua_isstring(At(s, 2)) => At(t, 2) = At(s, 2)
  BY <1>4, <1>6
<1>8. ModeOf(t) = ModeOf(s)
  BY <1>4, <1>6 DEF ModeOf
<1>9. Source(t) = Source(s)
  BY <1>8 DEF Source
<1>10. /\ ImageIsValid(t) <=> ImageIsValid(s)
       /\ ImageIsValid(s) => /\ At(t, 4) = At(s, 4) /\ At(t, 5) = At(s, 5)
                             /\ At(t, 6) = At(s, 6)
  BY <1>4, <1>5, <1>6 DEF ImageIsValid
<1>11. Reads(t) = Reads(s)
  <2>1. CASE ~ lua_isstring(At(s, 1)) \/ (Source(s) = "arguments" /\ ~ ImageIsValid(s))
    BY <2>1, <1>7, <1>9, <1>10 DEF Reads
  <2>2. CASE ~ (~ lua_isstring(At(s, 1)) \/ (Source(s) = "arguments" /\ ~ ImageIsValid(s)))
    BY <2>2, <1>7, <1>8, <1>9, <1>10 DEF Reads
  <2> QED
    BY <2>1, <2>2
<1> QED
  BY <1>11 DEF t

-----------------------------------------------------------------------------

Initializing == {"info", "map", "file", "view", "set"}
Working == {"arguments", "size", "pixels", "call", "put", "push"}
Outside == {"idle", "unloaded"}

CallTypeOK ==
  /\ args \in Seq(LuaValues)
  /\ stack \in Seq(LuaValues)
  /\ m \in Mems
  /\ pc \in Initializing \union Working \union Outside

(* What is on the stack: the arguments, with what the first call has pushed *)
(* or left, ...                                                             *)
StackFits ==
  /\ pc = "info" => stack = args
  /\ pc \in {"map", "file", "view", "set"} =>
       \E w, h \in Sizes : stack = args \o <<Obj, Num(w), Num(h)>>
  /\ pc = "arguments" => stack = args \/ stack = Append(args, Obj)

(* ... what the pointers refer to, ...                                      *)
PointersGood ==
  pc \in {"size", "pixels", "call"} =>
    \A v \in {m.exe, m.buf, m.image} : v = Nil \/ On(stack, v)

(* ... and on the way to obj.putpixeldata, obj below the image.             *)
ImageOnTop ==
  /\ At(stack, -2) = Obj
  /\ At(stack, -1) = Pixels
  /\ m.image = Pixels

TopFits ==
  /\ pc = "pixels" => stack # <<>> /\ At(stack, -1) = Obj
  /\ pc = "call" => (PutsBack => ImageOnTop)
  /\ pc = "put" => PutsBack /\ ImageOnTop

PutFits ==
  /\ pc \in Initializing \union {"arguments", "size", "pixels", "call", "put"} => put = Nil
  /\ pc = "push" \/ outcome = "OK" => put = IF PutsBack THEN Pixels ELSE Nil
  /\ outcome = "OK" => pc \in Outside

(* How far bridge_init has come. *)
InitFits ==
  /\ pc \in Initializing => ~ initialized
  /\ pc \in Working => initialized
  /\ initialized /\ pc # "unloaded" => \A kind \in Kinds : Has(kind)
  /\ pc \in {"file", "view", "set"} => Has("map") /\ Has("mutex")
  /\ pc = "set" => Has("file") /\ Has("view")
  /\ outcome # "NOT_INITIALIZED"

LiveFits ==
  \A x \in live : \/ x \in g
                  \/ x.kind \in {"map", "mutex"}
                  \/ pc = "view" /\ x = New("file")

LuaInv ==
  /\ CallTypeOK
  /\ StackFits
  /\ PointersGood
  /\ TopFits
  /\ PutFits
  /\ InitFits
  /\ LiveFits

(* A step that leaves lua_bridge_call with an error. *)
LEMMA RaiseStep ==
  ASSUME LuaInv, NEW from \in Initializing \union Working, NEW why,
         Raise(from, why), why \notin {"OK", "NOT_INITIALIZED"},
         UNCHANGED <<callVars, initialized>>, initialized => UNCHANGED g,
         \A x \in live' : x \in g' \/ x.kind \in {"map", "mutex"}
  PROVE  LuaInv'
<1>1. /\ pc = from /\ pc' = "idle" /\ outcome' = why
      /\ UNCHANGED <<args, stack, m, put, initialized, calls>>
      /\ initialized => UNCHANGED g
  BY DEF Raise, Goto, callVars
<1>2. CallTypeOK'
  BY <1>1 DEF LuaInv, CallTypeOK, Outside
<1>3. StackFits' /\ PointersGood' /\ TopFits'
  BY <1>1 DEF StackFits, PointersGood, TopFits
<1>4. PutFits'
  BY <1>1 DEF PutFits, Initializing, Working, Outside
<1>5. InitFits'
  BY <1>1 DEF LuaInv, InitFits, Initializing, Working, Has
<1>6. LiveFits'
  BY <1>1 DEF LiveFits
<1> QED
  BY <1>2, <1>3, <1>4, <1>5, <1>6 DEF LuaInv

LEMMA CallStep ==
  ASSUME LuaInv, NEW list \in ArgLists, Call(list)
  PROVE  LuaInv'
<1>1. /\ pc = "idle" /\ pc' = IF initialized THEN "arguments" ELSE "info"
      /\ args' = list /\ stack' = list /\ m' = NoMem /\ put' = Nil
      /\ outcome' = "none" /\ UNCHANGED <<initialized, live, g>>
  BY DEF Call, Goto, initVars
<1>2. CallTypeOK'
  <2>1. NoMem \in Mems
    BY Made DEF NoMem, Mems
  <2> QED
    BY <1>1, <2>1, LuaCallAssumption DEF CallTypeOK, Initializing, Working
<1>3. StackFits' /\ PointersGood' /\ TopFits'
  BY <1>1 DEF StackFits, PointersGood, TopFits
<1>4. PutFits'
  BY <1>1 DEF PutFits, Outside
<1>5. InitFits'
  BY <1>1 DEF LuaInv, InitFits, Initializing, Working, Has
<1>6. LiveFits'
  BY <1>1 DEF LuaInv, LiveFits
<1> QED
  BY <1>2, <1>3, <1>4, <1>5, <1>6 DEF LuaInv

LEMMA GetInfoStep == ASSUME LuaInv, GetInfo PROVE LuaInv'
<1>1. CASE Raise("info", "lua") /\ UNCHANGED <<callVars, initVars>>
  <2>1. \A x \in live' : x \in g \/ x.kind \in {"map", "mutex"}
    BY <1>1 DEF LuaInv, LiveFits, initVars, Raise, Goto
  <2> QED
    BY <1>1, <2>1, RaiseStep DEF Initializing, initVars
<1>2. CASE /\ Goto("info", "map")
           /\ \E w, h \in Sizes : stack' = stack \o <<Obj, Num(w), Num(h)>>
           /\ UNCHANGED <<args, m, put, calls, outcome, initVars>>
  <2>1. /\ pc = "info" /\ pc' = "map" /\ stack = args
        /\ UNCHANGED <<args, m, put, calls, outcome, initialized, live, g>>
    BY <1>2 DEF Goto, initVars, LuaInv, StackFits
  <2>2. PICK w \in Sizes, h \in Sizes : stack' = args \o <<Obj, Num(w), Num(h)>>
    BY <1>2, <2>1
  <2>3. stack' \in Seq(LuaValues)
    BY <2>2, Pushed, Made DEF LuaInv, CallTypeOK
  <2>4. CallTypeOK'
    BY <2>1, <2>3 DEF LuaInv, CallTypeOK, Initializing
  <2>5. StackFits'
    BY <2>1, <2>2 DEF StackFits
  <2>6. PointersGood' /\ TopFits'
    BY <2>1 DEF PointersGood, TopFits
  <2>7. PutFits'
    BY <2>1 DEF LuaInv, PutFits, Outside, Initializing
  <2>8. InitFits'
    BY <2>1 DEF LuaInv, InitFits, Initializing, Working, Has
  <2>9. LiveFits'
    BY <2>1 DEF LuaInv, LiveFits
  <2> QED
    BY <2>4, <2>5, <2>6, <2>7, <2>8, <2>9 DEF LuaInv
<1> QED
  BY <1>1, <1>2 DEF GetInfo

(* The steps of bridge_init change nothing but what it has acquired. *)
LEMMA InitStepFits ==
  ASSUME LuaInv, pc \in {"map", "file", "view"}, pc' \in {"file", "view", "set"},
         UNCHANGED <<callVars, outcome, initialized>>
  PROVE  CallTypeOK' /\ StackFits' /\ PointersGood' /\ TopFits' /\ PutFits'
<1>1. UNCHANGED <<args, stack, m, put, outcome, initialized>>
  BY DEF callVars
<1>2. CallTypeOK'
  BY <1>1 DEF LuaInv, CallTypeOK, Initializing
<1>3. StackFits'
  BY <1>1 DEF LuaInv, StackFits
<1>4. PointersGood' /\ TopFits'
  BY DEF PointersGood, TopFits
<1>5. PutFits'
  BY <1>1 DEF LuaInv, PutFits, Initializing, Outside
<1> QED
  BY <1>2, <1>3, <1>4, <1>5

LEMMA InitMapStep == ASSUME LuaInv, InitMap PROVE LuaInv'
<1>1. CASE /\ Raise("map", "not initialized")
           /\ g' \in {g, {x \in g : x.kind # "map"}}
           /\ UNCHANGED live
  <2>1. \A x \in live' : x \in g' \/ x.kind \in {"map", "mutex"}
    BY <1>1 DEF LuaInv, LiveFits, Raise, Goto
  <2>2. ~initialized
    BY <1>1 DEF LuaInv, InitFits, Initializing, Raise, Goto
  <2> QED
    BY <1>1, <2>1, <2>2, RaiseStep DEF Initializing, InitMap
<1>2. CASE /\ Goto("map", "file")
           /\ live' = live \union {New("map"), New("mutex")}
           /\ g' = {x \in g : x.kind \notin {"map", "mutex"}}
                     \union {New("map"), New("mutex")}
           /\ UNCHANGED outcome
  <2>1. /\ pc = "map" /\ pc' = "file" /\ UNCHANGED <<callVars, outcome, initialized>>
    BY <1>2 DEF Goto, InitMap
  <2>2. CallTypeOK' /\ StackFits' /\ PointersGood' /\ TopFits' /\ PutFits'
    BY <2>1, InitStepFits
  <2>3. New("map").kind = "map" /\ New("mutex").kind = "mutex"
    BY DEF New
  <2>4. /\ Has("map")' /\ Has("mutex")'
        /\ New("map") \in g' /\ New("mutex") \in g'
    BY <1>2, <2>3 DEF Has
  <2>5. InitFits'
    BY <2>1, <2>4 DEF LuaInv, InitFits, Initializing, Working
  <2>6. LiveFits'
    BY <1>2, <2>1, <2>3 DEF LuaInv, LiveFits
  <2> QED
    BY <2>2, <2>5, <2>6 DEF LuaInv
<1> QED
  BY <1>1, <1>2 DEF InitMap

LEMMA InitFileStep == ASSUME LuaInv, InitFile PROVE LuaInv'
<1>1. CASE Raise("file", "not initialized") /\ UNCHANGED live
  <2>1. \A x \in live' : x \in g \/ x.kind \in {"map", "mutex"}
    BY <1>1 DEF LuaInv, LiveFits, Raise, Goto
  <2> QED
    BY <1>1, <2>1, RaiseStep DEF Initializing, InitFile
<1>2. CASE /\ Goto("file", "view")
           /\ live' = live \union {New("file")}
           /\ UNCHANGED outcome
  <2>1. /\ pc = "file" /\ pc' = "view"
        /\ UNCHANGED <<callVars, outcome, initialized, g, calls>>
    BY <1>2 DEF Goto, InitFile, callVars
  <2>2. CallTypeOK' /\ StackFits' /\ PointersGood' /\ TopFits' /\ PutFits'
    BY <2>1, InitStepFits
  <2>3. InitFits'
    BY <2>1 DEF LuaInv, InitFits, Initializing, Working, Has
  <2>4. LiveFits'
    BY <1>2, <2>1 DEF LuaInv, LiveFits, New
  <2> QED
    BY <2>2, <2>3, <2>4 DEF LuaInv
<1> QED
  BY <1>1, <1>2 DEF InitFile

LEMMA InitViewStep == ASSUME LuaInv, InitView PROVE LuaInv'
<1>1. CASE /\ Raise("view", "not initialized")
           /\ live' = live \ {New("file")}
           /\ UNCHANGED g
  <2>1. \A x \in live' : x \in g \/ x.kind \in {"map", "mutex"}
    BY <1>1 DEF LuaInv, LiveFits
  <2> QED
    BY <1>1, <2>1, RaiseStep DEF Initializing, InitView
<1>2. CASE /\ Goto("view", "set")
           /\ live' = live \union {New("view")}
           /\ g' = g \union {New("file"), New("view")}
           /\ UNCHANGED outcome
  <2>1. /\ pc = "view" /\ pc' = "set" /\ UNCHANGED <<callVars, outcome, initialized>>
    BY <1>2 DEF Goto, InitView
  <2>2. CallTypeOK' /\ StackFits' /\ PointersGood' /\ TopFits' /\ PutFits'
    BY <2>1, InitStepFits
  <2>3. New("file").kind = "file" /\ New("view").kind = "view"
    BY DEF New
  <2>4. Has("file")' /\ Has("view")' /\ (Has("map") => Has("map")')
        /\ (Has("mutex") => Has("mutex")')
    BY <1>2, <2>3 DEF Has
  <2>5. InitFits'
    BY <2>1, <2>4 DEF LuaInv, InitFits, Initializing, Working
  <2>6. LiveFits'
    BY <1>2, <2>1 DEF LuaInv, LiveFits
  <2> QED
    BY <2>2, <2>5, <2>6 DEF LuaInv
<1> QED
  BY <1>1, <1>2 DEF InitView

LEMMA SetInitializedStep == ASSUME LuaInv, SetInitialized PROVE LuaInv'
<1>1. /\ pc = "set" /\ pc' = "arguments" /\ initialized' = TRUE
      /\ stack' = Pop(stack, 2) /\ UNCHANGED <<args, m, put, outcome, live, g, calls>>
  BY DEF SetInitialized, Goto
<1>2. PICK w \in Sizes, h \in Sizes : stack = args \o <<Obj, Num(w), Num(h)>>
  BY <1>1 DEF LuaInv, StackFits
<1>3. args \in Seq(LuaValues)
  BY DEF LuaInv, CallTypeOK
<1>4. stack' = Append(args, Obj)
  BY <1>1, <1>2, <1>3, Pushed, Made
<1>5. CallTypeOK'
  <2>1. stack' \in Seq(LuaValues)
    BY <1>3, <1>4, Appended, Made
  <2> QED
    BY <1>1, <2>1 DEF LuaInv, CallTypeOK, Working
<1>6. StackFits'
  BY <1>1, <1>4 DEF StackFits
<1>7. PointersGood' /\ TopFits'
  BY <1>1 DEF PointersGood, TopFits
<1>8. PutFits'
  BY <1>1 DEF LuaInv, PutFits, Initializing, Outside
<1>9. InitFits'
  <2>1. \A kind \in Kinds : Has(kind)
    BY <1>1 DEF LuaInv, InitFits, Kinds
  <2> QED
    BY <1>1, <2>1 DEF LuaInv, InitFits, Initializing, Working, Has
<1>10. LiveFits'
  BY <1>1 DEF LuaInv, LiveFits
<1> QED
  BY <1>5, <1>6, <1>7, <1>8, <1>9, <1>10 DEF LuaInv

-----------------------------------------------------------------------------

(* A step of an initialised call, up to bridge_call. *)
LEMMA WorkStepFits ==
  ASSUME LuaInv, pc \in {"arguments", "size", "pixels"},
         pc' \in {"size", "pixels", "call"},
         UNCHANGED <<put, outcome, calls, initVars>>
  PROVE  StackFits' /\ PutFits' /\ InitFits' /\ LiveFits'
<1>1. UNCHANGED <<put, outcome, initialized, live, g, calls>>
  BY DEF initVars
<1>2. StackFits'
  BY DEF StackFits
<1>3. PutFits'
  BY <1>1 DEF LuaInv, PutFits, Initializing, Outside
<1>4. InitFits'
  BY <1>1 DEF LuaInv, InitFits, Initializing, Working, Has
<1>5. LiveFits'
  BY <1>1 DEF LuaInv, LiveFits
<1> QED
  BY <1>2, <1>3, <1>4, <1>5

(* An error in such a step. *)
LEMMA WorkRaises ==
  ASSUME LuaInv, NEW from \in Working, NEW why, Raise(from, why),
         why \notin {"OK", "NOT_INITIALIZED"}, UNCHANGED <<callVars, initVars>>
  PROVE  LuaInv'
<1>1. \A x \in live' : x \in g \/ x.kind \in {"map", "mutex"}
  BY DEF LuaInv, LiveFits, initVars, Raise, Goto, Working
<1> QED
  BY <1>1, RaiseStep DEF initVars

LEMMA ReadArgumentsStep == ASSUME LuaInv, ReadArguments PROVE LuaInv'
<1>a. stack \in Seq(LuaValues) /\ UNCHANGED <<args, stack, put, calls, initVars>>
  BY DEF LuaInv, CallTypeOK, ReadArguments
<1>1. CASE /\ Reads(stack).next \in {"invalid exe path", "invalid arguments"}
           /\ Raise("arguments", Reads(stack).next)
           /\ UNCHANGED m
  BY <1>1, <1>a, WorkRaises DEF Working, callVars
<1>2. CASE /\ Reads(stack).next \in {"none", "arguments", "obj"}
           /\ Goto("arguments", IF Reads(stack).next = "obj" THEN "size" ELSE "call")
           /\ m' = Reads(stack).m
           /\ UNCHANGED outcome
  <2>1. /\ pc = "arguments" /\ pc' \in {"size", "call"} /\ m' = Reads(stack).m
        /\ pc' = "call" => Reads(stack).next \in {"none", "arguments"}
    BY <1>2 DEF Goto
  <2>2. StackFits' /\ PutFits' /\ InitFits' /\ LiveFits'
    BY <1>2, <1>a, <2>1, WorkStepFits
  <2>3. CallTypeOK'
    BY <1>a, <2>1, ReadsWhatIsThere DEF LuaInv, CallTypeOK, Working
  <2>4. PointersGood'
    <3>1. \A v \in {m'.exe, m'.buf, m'.image} : v = Nil \/ On(stack, v)
      BY <1>a, <2>1, ReadsWhatIsThere
    <3> QED
      BY <1>a, <3>1 DEF PointersGood
  <2>5. TopFits'
    <3>1. pc' = "call" => ~ PutsBack'
      BY <1>a, <2>1, ReadsWhatIsThere DEF PutsBack
    <3> QED
      BY <2>1, <3>1 DEF TopFits
  <2> QED
    BY <2>2, <2>3, <2>4, <2>5 DEF LuaInv
<1> QED
  BY <1>1, <1>2 DEF ReadArguments

LEMMA CheckSizeStep == ASSUME LuaInv, CheckSize PROVE LuaInv'
<1>a. /\ stack \in Seq(LuaValues) /\ m \in Mems
      /\ UNCHANGED <<args, m, put, calls, initVars>>
  BY DEF LuaInv, CallTypeOK, CheckSize
<1>1. PICK w \in Sizes, h \in Sizes :
        \/ \E why \in {"has no image", "lua"} : Raise("size", why) /\ UNCHANGED stack
        \/ /\ Goto("size", "pixels")
           /\ stack' = Pop(stack \o <<Obj, Num(w), Num(h)>>, 2)
           /\ UNCHANGED outcome
  BY DEF CheckSize
<1>2. CASE \E why \in {"has no image", "lua"} : Raise("size", why) /\ UNCHANGED stack
  BY <1>2, <1>a, WorkRaises DEF Working, callVars
<1>3. CASE /\ Goto("size", "pixels")
           /\ stack' = Pop(stack \o <<Obj, Num(w), Num(h)>>, 2)
           /\ UNCHANGED outcome
  <2>1. pc = "size" /\ pc' = "pixels" /\ stack' = Append(stack, Obj)
    BY <1>3, <1>a, Pushed, Made DEF Goto
  <2>2. StackFits' /\ PutFits' /\ InitFits' /\ LiveFits'
    BY <1>3, <1>a, <2>1, WorkStepFits
  <2>3. /\ stack' \in Seq(LuaValues) /\ stack' # <<>> /\ At(stack', -1) = Obj
        /\ \A v : On(stack, v) => On(stack', v)
    BY <1>a, <2>1, Appended, Made
  <2>4. CallTypeOK'
    BY <1>a, <2>1, <2>3 DEF LuaInv, CallTypeOK, Working
  <2>5. PointersGood'
    <3>1. \A v \in {m.exe, m.buf, m.image} : v = Nil \/ On(stack', v)
      BY <2>1, <2>3 DEF LuaInv, PointersGood
    <3> QED
      BY <1>a, <3>1 DEF PointersGood
  <2>6. TopFits'
    BY <2>1, <2>3 DEF TopFits
  <2> QED
    BY <2>2, <2>4, <2>5, <2>6 DEF LuaInv
<1> QED
  BY <1>1, <1>2, <1>3

LEMMA GetPixelDataStep == ASSUME LuaInv, GetPixelData PROVE LuaInv'
<1>1. CASE Raise("pixels", "lua") /\ UNCHANGED <<callVars, initVars>>
  BY <1>1, WorkRaises DEF Working
<1>2. CASE /\ Goto("pixels", "call")
           /\ \E w, h \in Sizes :
                LET pushed == stack \o <<Pixels, Num(w), Num(h)>>
                IN  /\ m' = [m EXCEPT !.image = lua_topointer(At(pushed, -3)),
                                      !.width = lua_tointeger(At(pushed, -2)),
                                      !.height = lua_tointeger(At(pushed, -1))]
                    /\ stack' = Pop(pushed, 2)
           /\ UNCHANGED <<args, put, calls, outcome, initVars>>
  <2>a. stack \in Seq(LuaValues) /\ m \in Mems
    BY DEF LuaInv, CallTypeOK
  <2>1. PICK w \in Sizes, h \in Sizes :
          LET pushed == stack \o <<Pixels, Num(w), Num(h)>>
          IN  /\ m' = [m EXCEPT !.image = lua_topointer(At(pushed, -3)),
                                !.width = lua_tointeger(At(pushed, -2)),
                                !.height = lua_tointeger(At(pushed, -1))]
              /\ stack' = Pop(pushed, 2)
    BY <1>2
  <2>2. w \in Int /\ h \in Int
    BY LuaCallAssumption
  <2>3. /\ lua_topointer(Pixels) = Pixels /\ lua_tointeger(Num(w)) = w
        /\ lua_tointeger(Num(h)) = h
    BY DEF lua_topointer, lua_tointeger, Pixels, Num, Value
  <2>b. /\ At(stack \o <<Pixels, Num(w), Num(h)>>, -1) = Num(h)
        /\ At(stack \o <<Pixels, Num(w), Num(h)>>, -2) = Num(w)
        /\ At(stack \o <<Pixels, Num(w), Num(h)>>, -3) = Pixels
        /\ Pop(stack \o <<Pixels, Num(w), Num(h)>>, 2) = Append(stack, Pixels)
    BY <2>a, Pushed, Made
  <2>4. /\ m' = [m EXCEPT !.image = Pixels, !.width = w, !.height = h]
        /\ stack' = Append(stack, Pixels)
    BY <2>1, <2>3, <2>b
  <2>5. /\ m'.image = Pixels /\ m'.exe = m.exe /\ m'.buf = m.buf /\ m' \in Mems
    BY <2>a, <2>2, <2>4, Made DEF Mems
  <2>6. pc = "pixels" /\ pc' = "call" /\ UNCHANGED <<args, put, outcome, calls, initVars>>
    BY <1>2 DEF Goto
  <2>7. StackFits' /\ PutFits' /\ InitFits' /\ LiveFits'
    BY <2>6, WorkStepFits
  <2>8. stack # <<>> /\ At(stack, -1) = Obj
    BY <2>6 DEF LuaInv, TopFits
  <2>9. /\ stack' \in Seq(LuaValues) /\ At(stack', -1) = Pixels /\ At(stack', -2) = Obj
        /\ On(stack', Pixels) /\ \A v : On(stack, v) => On(stack', v)
    BY <2>a, <2>4, <2>8, Appended, Made
  <2>10. CallTypeOK'
    BY <2>5, <2>6, <2>9 DEF LuaInv, CallTypeOK, Working
  <2>11. PointersGood'
    <3>1. \A v \in {m.exe, m.buf} : v = Nil \/ On(stack, v)
      BY <2>6 DEF LuaInv, PointersGood
    <3>2. \A v \in {m'.exe, m'.buf, m'.image} : v = Nil \/ On(stack', v)
      BY <2>5, <2>9, <3>1
    <3> QED
      BY <3>2 DEF PointersGood
  <2>12. TopFits'
    BY <2>5, <2>6, <2>9 DEF TopFits, ImageOnTop
  <2> QED
    BY <2>7, <2>10, <2>11, <2>12 DEF LuaInv
<1> QED
  BY <1>1, <1>2 DEF GetPixelData, TakeImage

-----------------------------------------------------------------------------

(* bridge_call fails, but never because the library is not initialised.     *)
LEMMA BridgeCallStep == ASSUME LuaInv, BridgeCall PROVE LuaInv'
<1>a. UNCHANGED <<callVars, initVars>>
  BY DEF BridgeCall
<1>b. pc = "call" => Has("view")
  BY DEF LuaInv, InitFits, Working, Kinds
<1>1. CASE \E code \in IF Has("view") THEN Codes ELSE {"NOT_INITIALIZED"} :
             Raise("call", code)
  <2>1. PICK code \in Codes : Raise("call", code)
    BY <1>1, <1>b DEF Raise, Goto
  <2>2. code \notin {"OK", "NOT_INITIALIZED"}
    BY DEF Codes
  <2> QED
    BY <1>a, <2>1, <2>2, WorkRaises DEF Working
<1>2. CASE /\ Goto("call", IF PutsBack THEN "put" ELSE "push")
           /\ UNCHANGED outcome
  <2>1. /\ pc = "call" /\ pc' = IF PutsBack THEN "put" ELSE "push"
        /\ UNCHANGED <<args, stack, m, put, calls, outcome, initialized, live, g>>
    BY <1>2, <1>a DEF Goto, callVars, initVars
  <2>2. CallTypeOK'
    BY <2>1 DEF LuaInv, CallTypeOK, Working
  <2>3. StackFits' /\ PointersGood'
    BY <2>1 DEF StackFits, PointersGood
  <2>4. TopFits'
    BY <2>1 DEF LuaInv, TopFits, ImageOnTop, PutsBack
  <2>5. PutFits'
    BY <2>1 DEF LuaInv, PutFits, PutsBack, Outside, Initializing
  <2>6. InitFits'
    BY <2>1 DEF LuaInv, InitFits, Initializing, Working, Has
  <2>7. LiveFits'
    BY <2>1 DEF LuaInv, LiveFits
  <2> QED
    BY <2>2, <2>3, <2>4, <2>5, <2>6, <2>7 DEF LuaInv
<1> QED
  BY <1>1, <1>2 DEF BridgeCall

LEMMA PutPixelDataStep == ASSUME LuaInv, PutPixelData PROVE LuaInv'
<1>a. UNCHANGED <<args, stack, m, calls, initVars>>
  BY DEF PutPixelData
<1>1. CASE Raise("put", "lua") /\ UNCHANGED put
  BY <1>1, <1>a, WorkRaises DEF Working, callVars
<1>2. CASE /\ Goto("put", "push")
           /\ put' = At(stack, -1)
           /\ UNCHANGED outcome
  <2>1. /\ pc = "put" /\ pc' = "push" /\ put' = At(stack, -1)
        /\ UNCHANGED <<args, stack, m, calls, outcome, initialized, live, g>>
    BY <1>2, <1>a DEF Goto, initVars
  <2>2. PutsBack /\ put' = Pixels
    BY <2>1 DEF LuaInv, TopFits, ImageOnTop
  <2>3. CallTypeOK'
    BY <2>1 DEF LuaInv, CallTypeOK, Working
  <2>4. StackFits' /\ PointersGood' /\ TopFits'
    BY <2>1 DEF StackFits, PointersGood, TopFits
  <2>5. PutFits'
    BY <2>1, <2>2 DEF LuaInv, PutFits, PutsBack, Outside, Initializing
  <2>6. InitFits'
    BY <2>1 DEF LuaInv, InitFits, Initializing, Working, Has
  <2>7. LiveFits'
    BY <2>1 DEF LuaInv, LiveFits
  <2> QED
    BY <2>3, <2>4, <2>5, <2>6, <2>7 DEF LuaInv
<1> QED
  BY <1>1, <1>2 DEF PutPixelData

LEMMA PushReplyStep == ASSUME LuaInv, PushReply PROVE LuaInv'
<1>1. /\ pc = "push" /\ pc' = "idle" /\ outcome' = "OK"
      /\ UNCHANGED <<args, stack, m, put, calls, initialized, live, g>>
  BY DEF PushReply, Goto, callVars, initVars
<1>2. CallTypeOK'
  BY <1>1 DEF LuaInv, CallTypeOK, Outside
<1>3. StackFits' /\ PointersGood' /\ TopFits'
  BY <1>1 DEF StackFits, PointersGood, TopFits
<1>4. PutFits'
  BY <1>1 DEF LuaInv, PutFits, PutsBack, Outside, Initializing
<1>5. InitFits'
  BY <1>1 DEF LuaInv, InitFits, Initializing, Working, Has
<1>6. LiveFits'
  BY <1>1 DEF LuaInv, LiveFits
<1> QED
  BY <1>2, <1>3, <1>4, <1>5, <1>6 DEF LuaInv

LEMMA DetachStep == ASSUME LuaInv, Detach PROVE LuaInv'
<1>1. /\ pc = "idle" /\ pc' = "unloaded"
      /\ live' = IF initialized THEN live \ g ELSE live
      /\ g' = IF initialized THEN {} ELSE g
      /\ UNCHANGED <<args, stack, m, put, calls, outcome, initialized>>
  BY DEF Detach, Goto, callVars
<1>2. CallTypeOK'
  BY <1>1 DEF LuaInv, CallTypeOK, Outside
<1>3. StackFits' /\ PointersGood' /\ TopFits'
  BY <1>1 DEF StackFits, PointersGood, TopFits
<1>4. PutFits'
  BY <1>1 DEF LuaInv, PutFits, PutsBack, Outside, Initializing
<1>5. InitFits'
  BY <1>1 DEF LuaInv, InitFits, Initializing, Working
<1>6. LiveFits'
  BY <1>1 DEF LuaInv, LiveFits
<1> QED
  BY <1>2, <1>3, <1>4, <1>5, <1>6 DEF LuaInv

LEMMA InitLuaInv == Init => LuaInv
<1> SUFFICES ASSUME Init PROVE LuaInv
  OBVIOUS
<1>1. /\ args = <<>> /\ stack = <<>> /\ pc = "idle" /\ m = NoMem /\ put = Nil
      /\ outcome = "none" /\ initialized = FALSE /\ live = {} /\ g = {}
  BY DEF Init
<1>2. NoMem \in Mems /\ NoMem.mode = {}
  BY Made DEF NoMem, Mems
<1>3. CallTypeOK
  BY <1>1, <1>2 DEF CallTypeOK, Outside
<1>4. StackFits /\ PointersGood /\ TopFits /\ LiveFits
  BY <1>1 DEF StackFits, PointersGood, TopFits, LiveFits
<1>5. PutFits /\ InitFits
  BY <1>1 DEF PutFits, InitFits, Initializing, Working, Outside
<1> QED
  BY <1>3, <1>4, <1>5 DEF LuaInv

LEMMA NextLuaInv == LuaInv /\ [Next]_vars => LuaInv'
<1> SUFFICES ASSUME LuaInv, [Next]_vars PROVE LuaInv'
  OBVIOUS
<1>1. CASE UNCHANGED vars
  <2>1. UNCHANGED <<args, stack, m, put, calls, pc, outcome, initialized, live, g>>
    BY <1>1 DEF vars, callVars, initVars
  <2>2. CallTypeOK' /\ StackFits' /\ PointersGood' /\ PutFits'
    BY <2>1 DEF LuaInv, CallTypeOK, StackFits, PointersGood, PutFits, PutsBack
  <2>3. TopFits'
    BY <2>1 DEF LuaInv, TopFits, ImageOnTop, PutsBack
  <2>4. InitFits' /\ LiveFits'
    BY <2>1 DEF LuaInv, InitFits, LiveFits, Has, New
  <2> QED
    BY <2>2, <2>3, <2>4 DEF LuaInv
<1> QED
  BY <1>1, CallStep, GetInfoStep, InitMapStep, InitFileStep, InitViewStep,
     SetInitializedStep, ReadArgumentsStep, CheckSizeStep, GetPixelDataStep,
     BridgeCallStep, PutPixelDataStep, PushReplyStep, DetachStep
  DEF Next, InsideCall

LEMMA LuaInvariant == Spec => []LuaInv
BY InitLuaInv, NextLuaInv, PTL DEF Spec

(* The obj that initialising leaves behind the arguments is taken for none  *)
(* of them, whatever list a script passes: the first call does what any     *)
(* later one would do.                                                      *)
THEOREM FirstCallIsLikeOthersCorrect == Spec => []FirstCallIsLikeOthers
<1>1. LuaInv => FirstCallIsLikeOthers
  BY SameReads DEF LuaInv, CallTypeOK, StackFits, FirstCallIsLikeOthers
<1> QED
  BY <1>1, LuaInvariant, PTL

(* No pointer that bridge_call is passed outlives its value on the stack.   *)
THEOREM AnchoredCorrect == Spec => []Anchored
<1>1. LuaInv => Anchored
  BY DEF LuaInv, PointersGood, Anchored, On
<1> QED
  BY <1>1, LuaInvariant, PTL

(* Where obj.putpixeldata is looked up, obj and the image are in the places *)
(* the code counts on, and a call that returns has put back exactly what it *)
(* should.                                                                  *)
THEOREM ImageGoesBackCorrect == Spec => []ImageGoesBack
<1>1. LuaInv => ImageGoesBack
  BY DEF LuaInv, TopFits, PutFits, ImageOnTop, ImageGoesBack
<1> QED
  BY <1>1, LuaInvariant, PTL

(* Whatever attempts to initialise have failed, initialized is set only     *)
(* when everything is there: no call is told that it is not.                *)
THEOREM ReadyOnceInitializedCorrect == Spec => []ReadyOnceInitialized
<1>1. LuaInv => ReadyOnceInitialized
  BY DEF LuaInv, InitFits, ReadyOnceInitialized
<1> QED
  BY <1>1, LuaInvariant, PTL

(* However often initialising fails, and when the library goes, nothing but *)
(* maps and mutexes of failed attempts is left behind.                      *)
THEOREM LeaksMapsOnlyCorrect == Spec => []LeaksMapsOnly
<1>1. LuaInv => LeaksMapsOnly
  BY DEF LuaInv, LiveFits, LeaksMapsOnly
<1> QED
  BY <1>1, LuaInvariant, PTL
=============================================================================
