----------------------------- MODULE MCLuaCall ------------------------------
(* Instances of LuaCall for TLC.                                             *)
EXTENDS LuaCall

(* Complete calls with every mode, and each with arguments missing behind or *)
(* of another type.                                                          *)
Exe == Str({"e"})
Data == Str({"d"})
Modes == SUBSET {"r", "w", "p"}

Complete ==
  {<<Exe, Data, Str(mode), image, Num(w), Num(h)>> :
     mode \in Modes, image \in {Nil, Pixels}, w, h \in {0, 2}}

Shorter == UNION {{SubSeq(list, 1, n) : list \in Complete} : n \in 0 .. 5}

Odd ==
  {<<Obj>>, <<Nil, Data>>, <<Exe, Nil, Str({"r"})>>, <<Exe, Obj, Str({"w"})>>,
   <<Exe, Data, Num(1), Pixels>>, <<Exe, Data, Obj>>}

AllArgLists == Complete \union Shorter \union Odd

SomeSizes == {-1, 0, 1, 2}
=============================================================================
