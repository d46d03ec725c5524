----------------------------- MODULE ProcessMap -----------------------------
(***************************************************************************)
(* What src/src/bridge.c expects of g_process_map: a map from the path of  *)
(* a program to the struct hash_map_value allocated for it.  An entry is   *)
(* added for a path that has none, and the addition may fail; an entry is  *)
(* removed; at the end the map is emptied and not used again.              *)
(*                                                                         *)
(* The promise is as weak as hashmap.h makes it: an addition that fails    *)
(* may drop other entries; nothing else does, and a failure is reported.   *)
(* Module HashMap models that file and implements this one.                *)
(***************************************************************************)
EXTENDS Naturals

CONSTANTS
  Keys,    (* paths of programs                                            *)
  Values,  (* addresses of structs hash_map_value                          *)
  None     (* NULL: no entry                                               *)

VARIABLES
  entries,
  open,    (* FALSE once the map has been emptied for good                 *)
  result   (* what the last operation returned, 0 for success              *)

vars == <<entries, open, result>>

Init ==
  /\ entries = [k \in Keys |-> None]
  /\ open = TRUE
  /\ result = 0

Add(k, v) ==
  /\ open
  /\ entries[k] = None
  /\ entries' = [entries EXCEPT ![k] = v]
  /\ UNCHANGED open
  /\ result' = 0

AddFails ==
  /\ open
  /\ entries' \in [Keys -> Values \union {None}]
  /\ \A k \in Keys : entries'[k] \in {entries[k], None}
  /\ UNCHANGED open
  /\ result' = 1

Delete(k) ==
  /\ open
  /\ entries[k] # None
  /\ entries' = [entries EXCEPT ![k] = None]
  /\ UNCHANGED open
  /\ result' = 0

Clear ==
  /\ open /\ open' = FALSE
  /\ entries' = [k \in Keys |-> None]
  /\ result' = 0

Next ==
  \/ \E k \in Keys : (\E v \in Values : Add(k, v)) \/ Delete(k)
  \/ AddFails
  \/ Clear

Spec == Init /\ [][Next]_vars
=============================================================================
