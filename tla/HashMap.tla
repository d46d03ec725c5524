------------------------------ MODULE HashMap -------------------------------
(***************************************************************************)
(* src/src/hashmap.h, used by src/src/bridge.c as g_process_map: a table   *)
(* with open addressing.  The entry of a key lies at most MaxChain - 1     *)
(* slots behind the slot its hash names; a new entry for which there is no *)
(* room there makes hashmap_put move everything to a table twice the size, *)
(* with hashmap_put, which may have to grow that table in turn.            *)
(*                                                                         *)
(* The tables of the nested calls of hashmap_put form a stack: tables[1]   *)
(* is g_process_map and tables[i + 1] the new_hash of the call that fills  *)
(* tables[i].  puts are the entries these calls are to place.  When both   *)
(* stacks are equally high the innermost call looks for a slot, when there *)
(* is a table more it moves the entries of the last but one to the last.   *)
(*                                                                         *)
(* The bridge puts only keys that have no entry.  The bytes of a key lie   *)
(* in the struct hash_map_value of its entry, so freeing the one frees the *)
(* other.                                                                  *)
(***************************************************************************)
EXTENDS Naturals, Sequences, FiniteSets

CONSTANTS
  Keys,      (* paths of programs                                          *)
  Values,    (* addresses malloc may return for a struct hash_map_value    *)
  None,      (* NULL, and the contents of a slot that is not in_use        *)
  Hashes,    (* the hash functions to consider, [Keys -> Nat]: the 32 bits *)
             (* of crc32, mixed and multiplied                             *)
  MaxChain,  (* HASHMAP_MAX_CHAIN_LENGTH                                   *)
  FirstSize, (* the size bridge_init passes to hashmap_create              *)
  MaxSize    (* bound: no memory for a larger table                        *)

ASSUME HashMapAssumption ==
  /\ Hashes \subseteq [Keys -> Nat]
  /\ MaxChain \in Nat \ {0}
  /\ FirstSize \in Nat \ {0}
  /\ MaxSize \in Nat
  /\ None \notin Keys \union Values \union [key : Keys, data : Values]

VARIABLES
  hash,    (* the hash function; never changes                             *)
  tables,  (* the stack of struct hashmap_s                                *)
  puts,    (* the stack of entries to be put                               *)
  heap,    (* the structs hash_map_value allocated and not freed           *)
  lost,    (* those among them that were in a table given up               *)
  result   (* what the bridge was last returned                           *)

vars == <<hash, tables, puts, heap, lost, result>>

Entries == [key : Keys, data : Values]

(* A struct hashmap_s: slots.in_use is slot # None. *)
Table(size) == [slot |-> [i \in 0 .. size - 1 |-> None], size |-> 0]
TableSize(t) == Cardinality(DOMAIN t.slot)

(* The slots where the entry of a key may lie, the nearest first. *)
Chain == 0 .. MaxChain - 1

(* hashmap_hash_helper_int_helper, and the linear probing from there on.    *)
At(t, k, i) == (hash[k] + i) % TableSize(t)

Nearest(S) == CHOOSE i \in S : \A j \in S : i <= j

Matches(t, k) ==
  {i \in Chain : t.slot[At(t, k, i)] # None /\ t.slot[At(t, k, i)].key = k}
Vacant(t, k) == {i \in Chain : t.slot[At(t, k, i)] = None}

(* Mutant: the search ends at the first slot that is not in use. *)
GetStopsAtGap(t, k) ==
  LET near == {i \in Matches(t, k) : \A j \in Vacant(t, k) : i < j}
  IN  IF near = {} THEN None ELSE t.slot[At(t, k, Nearest(near))].data

hashmap_get(t, k) ==
  IF Matches(t, k) = {} THEN None
  ELSE t.slot[At(t, k, Nearest(Matches(t, k)))].data

(* hashmap_hash_helper: where in its chain a key goes; the empty set when   *)
(* the table has to grow.                                                   *)
Place(t, k) ==
  IF t.size >= TableSize(t) THEN {}
  ELSE IF Matches(t, k) # {} THEN {Nearest(Matches(t, k))}
  ELSE IF Vacant(t, k) # {} THEN {Nearest(Vacant(t, k))}
  ELSE {}

Store(t, i, entry) ==
  [slot |-> [t.slot EXCEPT ![i] = entry],
   size |-> IF t.slot[i] = None THEN t.size + 1 ELSE t.size]

(* Mutant: size is reduced twice. *)
BlankTwice(t, i) == [slot |-> [t.slot EXCEPT ![i] = None], size |-> t.size - 2]

Blank(t, i) == [slot |-> [t.slot EXCEPT ![i] = None], size |-> t.size - 1]

InUse(t) == {i \in DOMAIN t.slot : t.slot[i] # None}
DataIn(t) == {t.slot[i].data : i \in InUse(t)}

Top == Len(tables)
Idle == Top = 1 /\ puts = <<>>
Probing == Top > 0 /\ Len(puts) = Top
Moving == Top > 0 /\ Len(puts) = Top - 1 /\ puts # <<>>

-----------------------------------------------------------------------------

Init ==
  /\ hash \in Hashes
  /\ tables = <<Table(FirstSize)>>
  /\ puts = <<>>
  /\ heap = {}
  /\ lost = {}
  /\ result = 0

(* bridge_call_core has found no entry: it allocates one and calls          *)
(* hashmap_put.                                                             *)
Put(k) ==
  /\ Idle
  /\ hashmap_get(tables[1], k) = None
  /\ \E v \in Values \ heap :
       /\ heap' = heap \union {v}
       /\ puts' = <<[key |-> k, data |-> v]>>
  /\ UNCHANGED <<hash, tables, lost, result>>

(* Mutant: hashmap_iterate_pairs does not clear the old slot. *)
KeepsOldSlot ==
  /\ Probing
  /\ LET e == puts[Top]
         t == tables[Top]
     IN  \E i \in Place(t, e.key) :
           tables' = [tables EXCEPT ![Top] = Store(t, At(t, e.key, i), e)]
  /\ puts' = SubSeq(puts, 1, Top - 1)
  /\ result' = IF Top = 1 THEN 0 ELSE result
  /\ UNCHANGED <<hash, heap, lost>>

(* A call of hashmap_put has a slot for its entry and returns 0.  The       *)
(* outermost returns to the bridge, any other to hashmap_rehash_iterator,   *)
(* for which hashmap_iterate_pairs clears the old slot, the first in use.   *)
PutPlaces ==
  /\ Probing
  /\ LET e == puts[Top]
         t == tables[Top]
     IN  \E i \in Place(t, e.key) :
           LET placed == Store(t, At(t, e.key, i), e)
           IN  tables' = IF Top = 1 THEN <<placed>>
                         ELSE [tables EXCEPT
                                 ![Top] = placed,
                                 ![Top - 1] = Blank(@, Nearest(InUse(@)))]
  /\ puts' = SubSeq(puts, 1, Top - 1)
  /\ result' = IF Top = 1 THEN 0 ELSE result
  /\ UNCHANGED <<hash, heap, lost>>

NoPlace == Place(tables[Top], puts[Top].key) = {}

(* Mutant: the new table is as large as the old. *)
GrowsNot ==
  /\ Probing /\ NoPlace
  /\ tables' = Append(tables, Table(TableSize(tables[Top])))
  /\ UNCHANGED <<hash, puts, heap, lost, result>>

(* hashmap_rehash_helper creates a table twice the size ... *)
Grow ==
  /\ Probing /\ NoPlace
  /\ 2 * TableSize(tables[Top]) <= MaxSize
  /\ tables' = Append(tables, Table(2 * TableSize(tables[Top])))
  /\ UNCHANGED <<hash, puts, heap, lost, result>>

(* ... puts the entries of the old one into it, one after the other ... *)
Move ==
  /\ Moving
  /\ InUse(tables[Top - 1]) # {}
  /\ LET old == tables[Top - 1]
     IN  puts' = Append(puts, old.slot[Nearest(InUse(old))])
  /\ UNCHANGED <<hash, tables, heap, lost, result>>

(* Mutant: the new table is dropped, and the old one, now empty, is kept.   *)
KeepsOldTable ==
  /\ Moving
  /\ InUse(tables[Top - 1]) = {}
  /\ tables' = SubSeq(tables, 1, Top - 1)
  /\ UNCHANGED <<hash, puts, heap, lost, result>>

(* ... and replaces the old one by it. *)
Replace ==
  /\ Moving
  /\ InUse(tables[Top - 1]) = {}
  /\ tables' = Append(SubSeq(tables, 1, Top - 2), tables[Top])
  /\ UNCHANGED <<hash, puts, heap, lost, result>>

(* No memory for a new table: every nested call returns 1, and the bridge   *)
(* frees the entry it wanted to put.  Entries that were moved to a new      *)
(* table are gone with it.                                                  *)
PutFails ==
  /\ Probing /\ NoPlace
  /\ tables' = <<tables[1]>>
  /\ puts' = <<>>
  /\ heap' = heap \ {puts[1].data}
  /\ lost' = lost \union UNION {DataIn(tables[l]) : l \in 2 .. Top}
  /\ result' = 1
  /\ UNCHANGED hash

(* hashmap_remove of a key that has an entry, which is freed. *)
Remove(k) ==
  /\ Idle
  /\ Matches(tables[1], k) # {}
  /\ LET t == tables[1]
         i == At(t, k, Nearest(Matches(t, k)))
     IN  /\ tables' = <<Blank(t, i)>>
         /\ heap' = heap \ {t.slot[i].data}
  /\ result' = 0
  /\ UNCHANGED <<hash, puts, lost>>

(* hashmap_iterate calls a function on the entries in use, and goes on      *)
(* while it returns non-zero.  delete_all_callback, which bridge_exit       *)
(* passes, frees the entry and returns 1.  hashmap_destroy frees the table. *)
(* Mutant: the callback returns 0.                                          *)
returns_zero == 0

delete_all_callback == 1

IterateAndDestroy ==
  /\ Idle
  /\ LET t == tables[1]
         visited == IF delete_all_callback # 0 \/ InUse(t) = {} THEN InUse(t)
                    ELSE {Nearest(InUse(t))}
     IN  /\ heap' = heap \ {t.slot[i].data : i \in visited}
         /\ result' = IF delete_all_callback # 0 \/ visited = {} THEN 0 ELSE 1
  /\ tables' = <<>>
  /\ UNCHANGED <<hash, puts, lost>>

Next ==
  \/ \E k \in Keys : Put(k) \/ Remove(k)
  \/ PutPlaces \/ Grow \/ Move \/ Replace \/ PutFails
  \/ IterateAndDestroy

Spec == Init /\ [][Next]_vars

(* A call of hashmap_put goes on until it returns. *)
PutStep == PutPlaces \/ Grow \/ Move \/ Replace \/ PutFails

FairSpec == Spec /\ WF_vars(PutStep)

-----------------------------------------------------------------------------

TypeOK ==
  /\ hash \in Hashes
  /\ \A l \in 1 .. Top :
       /\ tables[l].slot \in [0 .. TableSize(tables[l]) - 1 -> Entries \union {None}]
       /\ TableSize(tables[l]) > 0
       /\ tables[l].size \in Nat
  /\ puts \in Seq(Entries)
  /\ heap \subseteq Values /\ lost \subseteq heap
  /\ result \in {0, 1}
  /\ Idle \/ Probing \/ Moving \/ (Top = 0 /\ puts = <<>>)

Stored(k) == {l \in 1 .. Top : \E i \in InUse(tables[l]) : tables[l].slot[i].key = k}

(* Whatever was put and removed before, hashmap_get finds each entry that   *)
(* is in the table, although a removal leaves a gap in the chains of        *)
(* others, and size is the number of entries.                               *)
GetFindsAll == \A l \in 1 .. Top :
  LET t == tables[l]
  IN  /\ \A i \in InUse(t) : hashmap_get(t, t.slot[i].key) = t.slot[i].data
      /\ t.size = Cardinality(InUse(t))

(* While tables grow into one another no entry is in two of them, and the   *)
(* key of every entry, which lies in its struct hash_map_value, can be read *)
(* for a comparison.                                                        *)
OneLiveCopy == \A k \in Keys :
  /\ Cardinality(Stored(k)) <= 1
  /\ \A l \in Stored(k) : hashmap_get(tables[l], k) \in heap

(* bridge_exit frees every struct hash_map_value but those that a failed    *)
(* growth has dropped: no entry escapes hashmap_iterate.                    *)
AllFreedAtExit == Top = 0 => heap = lost

(* Growing ends. *)
PutReturns == puts # <<>> ~> puts = <<>>

Contents == [k \in Keys |->
  IF Stored(k) = {} THEN None
  ELSE hashmap_get(tables[CHOOSE l \in Stored(k) : TRUE], k)]

Abstract == INSTANCE ProcessMap WITH entries <- Contents, open <- Top > 0

(* hashmap_put, hashmap_remove and hashmap_iterate do to the map what their *)
(* names say.                                                               *)
ImplementsMap == Abstract!Spec
=============================================================================
