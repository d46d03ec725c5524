--------------------------- MODULE HashMapProofs ----------------------------
(***************************************************************************)
(* What TLAPS proves of HashMap, for every set of keys, every hash         *)
(* function, every length of the chains and every size: hashmap_get finds  *)
(* every entry, no entry is doubled or dropped while tables grow into one  *)
(* another, all is freed in the end, the whole implements ProcessMap, and  *)
(* no table overflows.                                                     *)
(***************************************************************************)
EXTENDS HashMap, FiniteSetTheorems, SequenceTheorems, WellFoundedInduction,
        TLAPS

(* The nearest of some slots is one of them. *)
LEMMA NearestOf ==
  ASSUME NEW S \in SUBSET Nat, S # {}
  PROVE  Nearest(S) \in S
<1> DEFINE T == {0 .. x : x \in S}
           R == StrictSubsetOrdering(Nat)
<1>1. T \subseteq FiniteSubsetsOf(Nat) /\ T # {}
  <2>1. \A x \in Nat : 0 .. x \in SUBSET Nat /\ IsFiniteSet(0 .. x)
    BY FS_Interval
  <2> QED
    BY <2>1 DEF FiniteSubsetsOf
<1>2. IsWellFoundedOn(R, FiniteSubsetsOf(Nat))
  BY FS_StrictSubsetOrderingWellFounded
<1> HIDE DEF T, R
<1>3. PICK A \in T : \A B \in T : ~ (<<B, A>> \in R)
  BY <1>1, <1>2, WFMin
<1>4. PICK x \in S : A = 0 .. x
  BY DEF T
<1>5. ASSUME NEW y \in S, y < x PROVE FALSE
  <2>1. 0 .. y \in T
    BY DEF T
  <2>2. /\ 0 .. y \in SUBSET Nat /\ 0 .. x \in SUBSET Nat
        /\ 0 .. y \subseteq 0 .. x /\ x \in 0 .. x /\ x \notin 0 .. y
    BY <1>5
  <2>3. <<0 .. y, 0 .. x>> \in R
    BY <2>2 DEF R, StrictSubsetOrdering
  <2> QED
    BY <1>3, <1>4, <2>1, <2>3
<1>6. \E i \in S : \A j \in S : i <= j
  BY <1>5
<1> QED
  BY <1>6 DEF Nearest

-----------------------------------------------------------------------------

(* A struct hashmap_s with n slots. *)
TableOf(n) == [slot : [0 .. n - 1 -> Entries \union {None}], size : Nat]
Tables == UNION {TableOf(n) : n \in Nat \ {0}}

LEMMA TableHasSize ==
  ASSUME NEW n \in Nat \ {0}, NEW t \in TableOf(n)
  PROVE  /\ DOMAIN t.slot = 0 .. n - 1
         /\ TableSize(t) = n
         /\ InUse(t) \subseteq 0 .. n - 1
         /\ IsFiniteSet(InUse(t))
         /\ t \in Tables
<1>1. DOMAIN t.slot = 0 .. n - 1
  BY DEF TableOf
<1>2. IsFiniteSet(0 .. n - 1) /\ Cardinality(0 .. n - 1) = n
  BY FS_Interval
<1>3. InUse(t) \subseteq 0 .. n - 1
  BY <1>1 DEF InUse
<1>4. IsFiniteSet(InUse(t))
  BY <1>2, <1>3, FS_Subset
<1> QED
  BY <1>1, <1>2, <1>3, <1>4 DEF TableSize, Tables

LEMMA TableIsOf ==
  ASSUME NEW t \in Tables
  PROVE  TableSize(t) \in Nat \ {0} /\ t \in TableOf(TableSize(t))
<1>1. PICK n \in Nat \ {0} : t \in TableOf(n)
  BY DEF Tables
<1> QED
  BY <1>1, TableHasSize

NoneIsNoEntry == None \notin Entries
LEMMA NoneFits == NoneIsNoEntry
BY HashMapAssumption DEF Entries, NoneIsNoEntry

(* What lies in a table, whatever the order. *)
EntriesIn(t) == {t.slot[i] : i \in InUse(t)}

(* The slot j places behind the one that the hash of k names. *)
SlotOf(f, t, k, j) == (f[k] + j) % TableSize(t)

(* Every entry lies in the chain of its key, no two have one key or one     *)
(* address, and size counts them.                                           *)
Sound(f, t) ==
  /\ t \in Tables
  /\ \A i \in InUse(t) : \E j \in Chain : i = SlotOf(f, t, t.slot[i].key, j)
  /\ \A i, j \in InUse(t) :
       t.slot[i].key = t.slot[j].key \/ t.slot[i].data = t.slot[j].data => i = j
  /\ t.size = Cardinality(InUse(t))

LEMMA SoundFacts ==
  ASSUME NEW f, NEW t, Sound(f, t)
  PROVE  /\ InUse(t) \subseteq Nat
         /\ \A i \in InUse(t) : t.slot[i] \in Entries
         /\ EntriesIn(t) \subseteq Entries
<1>1. TableSize(t) \in Nat \ {0} /\ t \in TableOf(TableSize(t))
  BY TableIsOf DEF Sound
<1>2. InUse(t) \subseteq 0 .. TableSize(t) - 1
  BY <1>1, TableHasSize
<1>3. \A i \in InUse(t) : t.slot[i] \in Entries
  BY <1>1, <1>2 DEF TableOf, InUse
<1> QED
  BY <1>1, <1>2, <1>3 DEF EntriesIn

(* A new table. *)
LEMMA EmptySound ==
  ASSUME NEW f, NEW n \in Nat \ {0}
  PROVE  Sound(f, Table(n)) /\ EntriesIn(Table(n)) = {} /\ TableSize(Table(n)) = n
<1>1. Table(n) \in TableOf(n)
  BY DEF Table, TableOf
<1>2. TableSize(Table(n)) = n /\ Table(n) \in Tables
  BY <1>1, TableHasSize
<1>3. InUse(Table(n)) = {}
  BY DEF InUse, Table
<1>4. Table(n).size = Cardinality(InUse(Table(n)))
  BY <1>3, FS_EmptySet DEF Table
<1> QED
  BY <1>2, <1>3, <1>4 DEF Sound, EntriesIn

(* An entry whose key and address are new, stored in a vacant slot of its   *)
(* chain, is added to the table ...                                         *)
LEMMA StoreSound ==
  ASSUME NEW f, NEW t, Sound(f, t), NEW e \in Entries, NEW j \in Chain,
         f[e.key] \in Nat,
         NEW i, i = SlotOf(f, t, e.key, j), t.slot[i] = None,
         \A d \in EntriesIn(t) : d.key # e.key /\ d.data # e.data
  PROVE  /\ Sound(f, Store(t, i, e))
         /\ EntriesIn(Store(t, i, e)) = EntriesIn(t) \union {e}
         /\ TableSize(Store(t, i, e)) = TableSize(t)
<1> DEFINE n == TableSize(t)
           u == Store(t, i, e)
<1>1. n \in Nat \ {0} /\ t \in TableOf(n)
  BY TableIsOf DEF Sound
<1>2. i \in 0 .. n - 1
  <2>1. f[e.key] + j \in Nat /\ n \in Nat \ {0}
    BY <1>1, HashMapAssumption DEF Chain
  <2>2. (f[e.key] + j) % n \in 0 .. n - 1
    BY <2>1
  <2> QED
    BY <2>2 DEF SlotOf
<1>3. /\ InUse(t) \subseteq 0 .. n - 1 /\ IsFiniteSet(InUse(t)) /\ i \notin InUse(t)
      /\ DOMAIN t.slot = 0 .. n - 1
  BY <1>1, TableHasSize DEF InUse
<1>4. u = [slot |-> [t.slot EXCEPT ![i] = e], size |-> t.size + 1]
  BY DEF Store
<1>5. t.size \in Nat /\ t.slot \in [0 .. n - 1 -> Entries \union {None}]
  BY <1>1 DEF TableOf
<1>6. u \in TableOf(n)
  BY <1>2, <1>4, <1>5 DEF TableOf
<1>7. TableSize(u) = n /\ u \in Tables
  BY <1>1, <1>6, TableHasSize
<1>a. u.slot = [t.slot EXCEPT ![i] = e] /\ u.size = t.size + 1
  BY <1>4
<1> HIDE DEF u
<1>8. /\ \A x \in 0 .. n - 1 : u.slot[x] = IF x = i THEN e ELSE t.slot[x]
      /\ DOMAIN u.slot = 0 .. n - 1 /\ u.size = t.size + 1
  BY <1>2, <1>5, <1>a
<1>9. InUse(u) = InUse(t) \union {i}
  BY <1>2, <1>3, <1>8, NoneFits DEF InUse, NoneIsNoEntry
<1>10. u.size = Cardinality(InUse(u))
  <2>1. Cardinality(InUse(t) \union {i}) = Cardinality(InUse(t)) + 1
    BY <1>3, FS_AddElement
  <2> QED
    BY <1>8, <1>9, <2>1 DEF Sound
<1>11. /\ u.slot[i] = e
       /\ \A x \in InUse(t) : u.slot[x] = t.slot[x]
  BY <1>2, <1>3, <1>8
<1> HIDE DEF u, n
<1>12. EntriesIn(u) = EntriesIn(t) \union {e}
  BY <1>9, <1>11 DEF EntriesIn
<1>13. \A x \in InUse(u) : \E y \in Chain : x = SlotOf(f, u, u.slot[x].key, y)
  <2>1. i = SlotOf(f, u, u.slot[i].key, j)
    BY <1>7, <1>11 DEF SlotOf, n
  <2>2. ASSUME NEW x \in InUse(t)
        PROVE  \E y \in Chain : x = SlotOf(f, u, u.slot[x].key, y)
    BY <1>7, <1>11 DEF SlotOf, n, Sound
  <2> QED
    BY <1>9, <2>1, <2>2
<1>14. ASSUME NEW x \in InUse(u), NEW y \in InUse(u),
              u.slot[x].key = u.slot[y].key \/ u.slot[x].data = u.slot[y].data
       PROVE  x = y
  <2>1. \A z \in InUse(t) : u.slot[z].key # e.key /\ u.slot[z].data # e.data
    BY <1>11 DEF EntriesIn
  <2> QED
    BY <1>9, <1>11, <1>14, <2>1 DEF Sound
<1> QED
  BY <1>7, <1>10, <1>12, <1>13, <1>14 DEF Sound, u, n

(* ... and one that is cleared is gone from it. *)
LEMMA BlankSound ==
  ASSUME NEW f, NEW t, Sound(f, t), NEW i \in InUse(t)
  PROVE  /\ Sound(f, Blank(t, i))
         /\ EntriesIn(Blank(t, i)) = EntriesIn(t) \ {t.slot[i]}
         /\ TableSize(Blank(t, i)) = TableSize(t)
<1> DEFINE n == TableSize(t)
           u == Blank(t, i)
<1>1. n \in Nat \ {0} /\ t \in TableOf(n)
  BY TableIsOf DEF Sound
<1>3. /\ InUse(t) \subseteq 0 .. n - 1 /\ IsFiniteSet(InUse(t))
      /\ DOMAIN t.slot = 0 .. n - 1
  BY <1>1, TableHasSize
<1>4. u = [slot |-> [t.slot EXCEPT ![i] = None], size |-> t.size - 1]
  BY DEF Blank
<1>5. t.size \in Nat /\ t.slot \in [0 .. n - 1 -> Entries \union {None}]
  BY <1>1 DEF TableOf
<1>6. t.size = Cardinality(InUse(t)) /\ t.size # 0
  BY <1>3, FS_EmptySet DEF Sound
<1>7. t.size - 1 \in Nat
  BY <1>5, <1>6
<1>8. u \in TableOf(n)
  BY <1>3, <1>4, <1>5, <1>7 DEF TableOf
<1>9. TableSize(u) = n /\ u \in Tables
  BY <1>1, <1>8, TableHasSize
<1>a. u.slot = [t.slot EXCEPT ![i] = None] /\ u.size = t.size - 1
  BY <1>4
<1> HIDE DEF u
<1>10. /\ \A x \in 0 .. n - 1 : u.slot[x] = IF x = i THEN None ELSE t.slot[x]
       /\ DOMAIN u.slot = 0 .. n - 1 /\ u.size = t.size - 1
  BY <1>3, <1>5, <1>a
<1>11. InUse(u) = InUse(t) \ {i}
  BY <1>3, <1>10 DEF InUse
<1>12. u.size = Cardinality(InUse(u))
  BY <1>3, <1>6, <1>10, <1>11, FS_RemoveElement
<1>13. \A x \in InUse(u) : u.slot[x] = t.slot[x]
  BY <1>3, <1>10, <1>11
<1> HIDE DEF u, n
<1>14. EntriesIn(u) = EntriesIn(t) \ {t.slot[i]}
  <2>1. \A x \in InUse(u) : x # i /\ x \in InUse(t) /\ t.slot[x] # t.slot[i]
    BY <1>11 DEF Sound
  <2> QED
    BY <1>11, <1>13, <2>1 DEF EntriesIn
<1>15. \A x \in InUse(u) : \E y \in Chain : x = SlotOf(f, u, u.slot[x].key, y)
  BY <1>9, <1>11, <1>13 DEF SlotOf, n, Sound
<1>16. \A x, y \in InUse(u) :
         u.slot[x].key = u.slot[y].key \/ u.slot[x].data = u.slot[y].data => x = y
  BY <1>11, <1>13 DEF Sound
<1> QED
  BY <1>9, <1>12, <1>14, <1>15, <1>16 DEF Sound, u, n

LEMMA SoundEntries ==
  ASSUME NEW f, NEW t, Sound(f, t),
         NEW d \in EntriesIn(t), NEW e \in EntriesIn(t),
         d.key = e.key \/ d.data = e.data
  PROVE  d = e
BY DEF Sound, EntriesIn

(* hashmap_get finds what is in a sound table and nothing else. *)
LEMMA GetSound ==
  ASSUME hash \in [Keys -> Nat], NEW t, Sound(hash, t), NEW k \in Keys
  PROVE  /\ \A e \in EntriesIn(t) : e.key = k => hashmap_get(t, k) = e.data
         /\ Matches(t, k) # {} <=> \E e \in EntriesIn(t) : e.key = k
         /\ Matches(t, k) # {} => At(t, k, Nearest(Matches(t, k))) \in InUse(t)
                                  /\ t.slot[At(t, k, Nearest(Matches(t, k)))].key = k
<1>1. TableSize(t) \in Nat \ {0} /\ t \in TableOf(TableSize(t))
  BY TableIsOf DEF Sound
<1>2. DOMAIN t.slot = 0 .. TableSize(t) - 1
  BY <1>1, TableHasSize
<1>3. ASSUME NEW j \in Chain
      PROVE  At(t, k, j) \in DOMAIN t.slot
  <2>1. hash[k] + j \in Nat
    BY HashMapAssumption DEF Chain
  <2>2. (hash[k] + j) % TableSize(t) \in 0 .. TableSize(t) - 1
    BY <1>1, <2>1
  <2> QED
    BY <1>2, <2>2 DEF At
<1>4. Matches(t, k) \subseteq Chain /\ Matches(t, k) \in SUBSET Nat
  BY HashMapAssumption DEF Matches, Chain
<1>5. ASSUME NEW j \in Matches(t, k)
      PROVE  At(t, k, j) \in InUse(t) /\ t.slot[At(t, k, j)].key = k
  BY <1>3 DEF Matches, InUse
<1>6. ASSUME NEW e \in EntriesIn(t), e.key = k
      PROVE  Matches(t, k) # {}
  <2>1. PICK i \in InUse(t) : e = t.slot[i]
    BY DEF EntriesIn
  <2>2. PICK j \in Chain : i = SlotOf(hash, t, k, j)
    BY <1>6, <2>1 DEF Sound
  <2>3. i = At(t, k, j)
    BY <2>2 DEF SlotOf, At
  <2> QED
    BY <1>6, <2>1, <2>3 DEF Matches, InUse
<1>7. ASSUME Matches(t, k) # {}
      PROVE  Nearest(Matches(t, k)) \in Matches(t, k)
  BY <1>4, <1>7, NearestOf
<1>8. ASSUME Matches(t, k) # {}
      PROVE  /\ At(t, k, Nearest(Matches(t, k))) \in InUse(t)
             /\ t.slot[At(t, k, Nearest(Matches(t, k)))].key = k
             /\ t.slot[At(t, k, Nearest(Matches(t, k)))] \in EntriesIn(t)
  BY <1>5, <1>7, <1>8 DEF EntriesIn
<1>9. ASSUME NEW e \in EntriesIn(t), e.key = k
      PROVE  hashmap_get(t, k) = e.data
  <2>1. t.slot[At(t, k, Nearest(Matches(t, k)))] = e
    BY <1>6, <1>8, <1>9, SoundEntries
  <2> QED
    BY <1>6, <1>9, <2>1 DEF hashmap_get
<1> QED
  BY <1>6, <1>8, <1>9

(* The slot that hashmap_put finds for a new key is vacant. *)
LEMMA PlaceVacant ==
  ASSUME hash \in [Keys -> Nat], NEW t, Sound(hash, t), NEW k \in Keys,
         \A e \in EntriesIn(t) : e.key # k,
         NEW j \in Place(t, k)
  PROVE  j \in Chain /\ t.slot[At(t, k, j)] = None
<1>1. Matches(t, k) = {}
  BY GetSound
<1>2. Vacant(t, k) \in SUBSET Nat
  BY HashMapAssumption DEF Vacant, Chain
<1>3. Vacant(t, k) # {} /\ j = Nearest(Vacant(t, k))
  BY <1>1 DEF Place
<1>4. j \in Vacant(t, k)
  BY <1>2, <1>3, NearestOf
<1> QED
  BY <1>4 DEF Vacant

-----------------------------------------------------------------------------

(* The entry that hashmap_iterate_pairs moves next. *)
First(t) == t.slot[Nearest(InUse(t))]

MapTypeOK ==
  /\ hash \in Hashes
  /\ tables \in Seq(Tables)
  /\ puts \in Seq(Entries)
  /\ heap \subseteq Values
  /\ lost \subseteq heap
  /\ result \in {0, 1}

(* As many calls of hashmap_put as tables, or one less. *)
Nested ==
  \/ Top = 0 /\ Len(puts) = 0
  \/ Top > 0 /\ (Len(puts) = Top \/ Len(puts) = Top - 1)

AllSound == \A l \in 1 .. Top : Sound(hash, tables[l])

(* No two entries in all tables have one key or one address. *)
Apart ==
  \A l, n \in 1 .. Top : \A d \in EntriesIn(tables[l]), e \in EntriesIn(tables[n]) :
    d.key = e.key \/ d.data = e.data => l = n /\ d = e

(* The outermost hashmap_put is called with an entry that no table has ...  *)
NewEntry ==
  puts # <<>> =>
    \A l \in 1 .. Top : \A e \in EntriesIn(tables[l]) :
      e.key # puts[1].key /\ e.data # puts[1].data

(* ... and each nested one with that which is moved out of its table. *)
BeingMoved ==
  \A l \in 1 .. Len(puts) - 1 :
    InUse(tables[l]) # {} /\ puts[l + 1] = First(tables[l])

(* What an entry refers to is allocated and not lost, ...                   *)
Allocated ==
  /\ \A l \in 1 .. Top : \A e \in EntriesIn(tables[l]) : e.data \in heap \ lost
  /\ puts # <<>> => puts[1].data \in heap \ lost

(* ... and what is allocated and not lost has an entry. *)
Accounted ==
  \A v \in heap \ lost :
    \/ \E l \in 1 .. Top : \E e \in EntriesIn(tables[l]) : v = e.data
    \/ puts # <<>> /\ v = puts[1].data

MapInv ==
  /\ MapTypeOK
  /\ Nested
  /\ AllSound
  /\ Apart
  /\ NewEntry
  /\ BeingMoved
  /\ Allocated
  /\ Accounted

LEMMA HashIsFunction ==
  ASSUME MapInv
  PROVE  hash \in [Keys -> Nat]
BY HashMapAssumption DEF MapInv, MapTypeOK

LEMMA InitMapInv == Init => MapInv
<1> SUFFICES ASSUME Init PROVE MapInv
  OBVIOUS
<1>1. /\ Sound(hash, Table(FirstSize)) /\ EntriesIn(Table(FirstSize)) = {}
  BY EmptySound, HashMapAssumption
<1>2. Table(FirstSize) \in Tables
  BY <1>1 DEF Sound
<1>3. Top = 1 /\ Len(puts) = 0 /\ tables[1] = Table(FirstSize)
  BY DEF Init, Top
<1>4. MapTypeOK
  BY <1>2 DEF Init, MapTypeOK
<1>5. \A l \in 1 .. Top : l = 1 /\ EntriesIn(tables[l]) = {} /\ Sound(hash, tables[l])
  BY <1>1, <1>3
<1>6. Nested
  BY <1>3 DEF Nested
<1>7. AllSound /\ Apart /\ NewEntry
  BY <1>5 DEF AllSound, Apart, NewEntry, Init
<1>8. BeingMoved
  BY <1>3 DEF BeingMoved
<1>9. Allocated /\ Accounted
  BY <1>5 DEF Allocated, Accounted, Init
<1> QED
  BY <1>4, <1>6, <1>7, <1>8, <1>9 DEF MapInv

(* What a nested hashmap_put is called with is the entry that its caller is *)
(* moving. *)
LEMMA MovedEntry ==
  ASSUME MapInv, Probing, Top > 1
  PROVE  /\ Nearest(InUse(tables[Top - 1])) \in InUse(tables[Top - 1])
         /\ puts[Top] = tables[Top - 1].slot[Nearest(InUse(tables[Top - 1]))]
         /\ puts[Top] \in EntriesIn(tables[Top - 1])
<1>1. Top \in Nat /\ Len(puts) = Top /\ Top - 1 \in 1 .. Len(puts) - 1
      /\ Top - 1 \in 1 .. Top /\ Top = (Top - 1) + 1
  BY DEF MapInv, MapTypeOK, Probing, Top
<1>2. InUse(tables[Top - 1]) # {} /\ puts[Top] = First(tables[Top - 1])
  BY <1>1 DEF MapInv, BeingMoved
<1>3. Sound(hash, tables[Top - 1])
  BY <1>1 DEF MapInv, AllSound
<1>4. InUse(tables[Top - 1]) \in SUBSET Nat
  BY <1>3, SoundFacts
<1>5. Nearest(InUse(tables[Top - 1])) \in InUse(tables[Top - 1])
  BY <1>2, <1>4, NearestOf
<1> QED
  BY <1>2, <1>5 DEF First, EntriesIn

(* No entry of the innermost table has the key or the address of the one    *)
(* that is put into it. *)
LEMMA FreshInTop ==
  ASSUME MapInv, Probing
  PROVE  /\ puts[Top] \in Entries
         /\ Sound(hash, tables[Top])
         /\ \A d \in EntriesIn(tables[Top]) :
              d.key # puts[Top].key /\ d.data # puts[Top].data
<1>1. Top \in Nat /\ Top > 0 /\ Len(puts) = Top /\ Top \in 1 .. Top
  BY DEF MapInv, MapTypeOK, Probing, Top
<1>2. puts[Top] \in Entries /\ Sound(hash, tables[Top])
  BY <1>1 DEF MapInv, MapTypeOK, AllSound
<1>3. CASE Top = 1
  <2>1. puts # <<>>
    BY <1>1
  <2> QED
    BY <1>1, <1>2, <1>3, <2>1 DEF MapInv, NewEntry
<1>4. CASE Top > 1
  <2>1. puts[Top] \in EntriesIn(tables[Top - 1]) /\ Top - 1 \in 1 .. Top /\ Top - 1 # Top
    BY <1>1, <1>4, MovedEntry
  <2> QED
    BY <1>1, <1>2, <2>1 DEF MapInv, Apart
<1> QED
  BY <1>1, <1>3, <1>4

(* A placed entry is added to the innermost table. *)
LEMMA PlacedSound ==
  ASSUME MapInv, Probing, NEW j \in Place(tables[Top], puts[Top].key)
  PROVE  LET placed == Store(tables[Top], At(tables[Top], puts[Top].key, j), puts[Top])
         IN  /\ Sound(hash, placed)
             /\ EntriesIn(placed) = EntriesIn(tables[Top]) \union {puts[Top]}
<1> DEFINE i == At(tables[Top], puts[Top].key, j)
<1>1. /\ puts[Top] \in Entries /\ puts[Top].key \in Keys
      /\ Sound(hash, tables[Top])
      /\ \A d \in EntriesIn(tables[Top]) :
           d.key # puts[Top].key /\ d.data # puts[Top].data
  BY FreshInTop DEF Entries
<1>2. hash \in [Keys -> Nat] /\ hash[puts[Top].key] \in Nat
  BY <1>1, HashIsFunction
<1>3. j \in Chain /\ tables[Top].slot[i] = None
  BY <1>1, <1>2, PlaceVacant
<1>4. i = SlotOf(hash, tables[Top], puts[Top].key, j)
  BY DEF SlotOf, At
<1> HIDE DEF i
<1>5. /\ Sound(hash, Store(tables[Top], i, puts[Top]))
      /\ EntriesIn(Store(tables[Top], i, puts[Top])) = EntriesIn(tables[Top]) \union {puts[Top]}
  BY <1>1, <1>2, <1>3, <1>4, StoreSound
<1> QED
  BY <1>5 DEF i

(* An entry that was moved is gone from the table it was moved out of. *)
LEMMA ClearedSound ==
  ASSUME MapInv, Probing, Top > 1
  PROVE  LET o == tables[Top - 1]
         IN  /\ Sound(hash, Blank(o, Nearest(InUse(o))))
             /\ EntriesIn(Blank(o, Nearest(InUse(o)))) = EntriesIn(o) \ {puts[Top]}
<1>1. Top - 1 \in 1 .. Top
  BY DEF MapInv, MapTypeOK, Top
<1>2. Sound(hash, tables[Top - 1])
  BY <1>1 DEF MapInv, AllSound
<1> QED
  BY <1>2, MovedEntry, BlankSound


(* The last two places of a sequence. *)
LEMMA LastTwo ==
  ASSUME NEW n \in Nat, n > 1
  PROVE  /\ n - 1 \in 1 .. n /\ n \in 1 .. n /\ n # n - 1
         /\ \A l \in 1 .. n - 2 :
              l \in 1 .. n - 1 /\ l \in 1 .. n /\ l # n - 1 /\ l # n
         /\ \A l \in 1 .. n :
              l = n \/ l = n - 1 \/ (l \in 1 .. n - 2 /\ l # n - 1 /\ l # n)
         /\ \A l \in 1 .. n - 1 : l = n - 1 \/ (l \in 1 .. n - 2 /\ l # n - 1)
OBVIOUS

LEMMA PutInv == ASSUME MapInv, NEW k \in Keys, Put(k) PROVE MapInv'
<1>1. /\ Top = 1 /\ puts = <<>> /\ 1 \in 1 .. Top
  BY DEF Put, Idle
<1>2. PICK v \in Values \ heap :
        heap' = heap \union {v} /\ puts' = <<[key |-> k, data |-> v]>>
  BY DEF Put
<1>3. /\ hash' = hash /\ tables' = tables /\ lost' = lost /\ result' = result
      /\ Top' = Top
  BY DEF Put, Top
<1>4. Sound(hash, tables[1]) /\ EntriesIn(tables[1]) \subseteq Entries
  BY <1>1, SoundFacts DEF MapInv, AllSound
<1>5. \A e \in EntriesIn(tables[1]) : e.key # k
  <2> SUFFICES ASSUME NEW e \in EntriesIn(tables[1]), e.key = k PROVE FALSE
    OBVIOUS
  <2>1. hashmap_get(tables[1], k) = e.data
    BY <1>4, GetSound, HashIsFunction
  <2>2. e.data \in Values
    BY <1>4 DEF Entries
  <2> QED
    BY <2>1, <2>2, HashMapAssumption DEF Put
<1>6. \A e \in EntriesIn(tables[1]) : e.data \in heap \ lost
  BY <1>1 DEF MapInv, Allocated
<1>7. lost \subseteq heap /\ heap \subseteq Values
  BY DEF MapInv, MapTypeOK
<1>8. /\ Len(puts') = 1 /\ puts' # <<>>
      /\ puts'[1].key = k /\ puts'[1].data = v /\ puts' \in Seq(Entries)
  BY <1>2 DEF Entries
<1>9. MapTypeOK'
  BY <1>2, <1>3, <1>8 DEF MapInv, MapTypeOK
<1>10. Nested'
  BY <1>1, <1>3, <1>8 DEF Nested
<1>11. AllSound' /\ Apart'
  BY <1>3 DEF MapInv, AllSound, Apart
<1>12. NewEntry'
  BY <1>1, <1>2, <1>3, <1>5, <1>6, <1>8 DEF NewEntry
<1>13. BeingMoved'
  BY <1>8 DEF BeingMoved
<1>14. Allocated'
  BY <1>1, <1>2, <1>3, <1>6, <1>7, <1>8 DEF Allocated
<1>15. Accounted'
  BY <1>1, <1>2, <1>3, <1>8 DEF MapInv, Accounted
<1> QED
  BY <1>9, <1>10, <1>11, <1>12, <1>13, <1>14, <1>15 DEF MapInv

LEMMA PlacesLastInv == ASSUME MapInv, PutPlaces, Top = 1 PROVE MapInv'
<1> DEFINE e == puts[1]
           t == tables[1]
<1>1. Probing /\ Len(puts) = 1 /\ puts \in Seq(Entries) /\ puts # <<>>
      /\ tables \in Seq(Tables) /\ 1 \in 1 .. Top
  <2>1. Probing /\ Len(puts) = 1 /\ puts \in Seq(Entries) /\ tables \in Seq(Tables)
    BY DEF PutPlaces, Probing, MapInv, MapTypeOK, Top
  <2>2. puts # <<>>
    BY <2>1
  <2>3. 1 \in 1 .. Top
    OBVIOUS
  <2> QED
    BY <2>1, <2>2, <2>3
<1>2. PICK j \in Place(t, e.key) : tables' = <<Store(t, At(t, e.key, j), e)>>
  BY DEF PutPlaces
<1>3. Sound(hash, tables'[1]) /\ EntriesIn(tables'[1]) = EntriesIn(t) \union {e}
  BY <1>1, <1>2, PlacedSound
<1>4. Top' = 1 /\ tables' \in Seq(Tables)
  BY <1>2, <1>3 DEF Top, Sound
<1>5. puts' = <<>> /\ Len(puts') = 0 /\ puts' \in Seq(Entries)
  BY <1>1 DEF PutPlaces
<1>6. hash' = hash /\ heap' = heap /\ lost' = lost /\ result' = 0
  BY DEF PutPlaces
<1>7. /\ \A d \in EntriesIn(t) : d.key # e.key /\ d.data # e.data
      /\ \A d \in EntriesIn(t) : d.data \in heap \ lost
      /\ e.data \in heap \ lost
  BY <1>1 DEF MapInv, NewEntry, Allocated
<1>8. \A l \in 1 .. Top' : l = 1
  BY <1>4
<1> HIDE DEF e, t
<1>9. MapTypeOK'
  BY <1>4, <1>5, <1>6 DEF MapInv, MapTypeOK
<1>10. Nested' /\ BeingMoved'
  BY <1>4, <1>5 DEF Nested, BeingMoved
<1>11. AllSound'
  BY <1>3, <1>6, <1>8 DEF AllSound
<1>12. Apart'
  <2>1. \A c, d \in EntriesIn(tables'[1]) : c.key = d.key \/ c.data = d.data => c = d
    BY <1>3, SoundEntries
  <2> QED
    BY <1>8, <2>1 DEF Apart
<1>13. NewEntry'
  BY <1>5 DEF NewEntry
<1>14. Allocated'
  BY <1>3, <1>5, <1>6, <1>7, <1>8 DEF Allocated
<1>15. Accounted'
  <2>1. \A v \in heap \ lost : (\E d \in EntriesIn(t) : v = d.data) \/ v = e.data
    BY <1>1 DEF MapInv, Accounted, e, t
  <2>2. 1 \in 1 .. Top'
    BY <1>4
  <2> QED
    BY <1>3, <1>6, <2>1, <2>2 DEF Accounted
<1> QED
  BY <1>9, <1>10, <1>11, <1>12, <1>13, <1>14, <1>15 DEF MapInv

(* What a call that places a moved entry changes. *)
LEMMA PlacesMoved ==
  ASSUME MapInv, PutPlaces, Top > 1
  PROVE  /\ Top \in Nat /\ Top' = Top /\ Len(puts) = Top /\ Len(puts') = Top - 1
         /\ puts' \in Seq(Entries)
         /\ \A l \in 1 .. Top - 1 : puts'[l] = puts[l]
         /\ tables' \in Seq(Tables)
         /\ \A l \in 1 .. Top : Sound(hash, tables'[l])
         /\ EntriesIn(tables'[Top]) = EntriesIn(tables[Top]) \union {puts[Top]}
         /\ EntriesIn(tables'[Top - 1]) = EntriesIn(tables[Top - 1]) \ {puts[Top]}
         /\ puts[Top] \in EntriesIn(tables[Top - 1])
         /\ \A l \in 1 .. Top - 2 : tables'[l] = tables[l]
         /\ hash' = hash /\ heap' = heap /\ lost' = lost /\ result' = result
<1> DEFINE e == puts[Top]
           t == tables[Top]
           o == tables[Top - 1]
           b == Blank(o, Nearest(InUse(o)))
<1>1. /\ Probing /\ Len(puts) = Top /\ puts \in Seq(Entries)
      /\ tables \in Seq(Tables) /\ Top \in Nat /\ Top = Len(tables)
      /\ DOMAIN tables = 1 .. Top /\ DOMAIN puts = 1 .. Top
  BY DEF PutPlaces, Probing, MapInv, MapTypeOK, Top
<1>2. PICK j \in Place(t, e.key) :
        tables' = [tables EXCEPT ![Top] = Store(t, At(t, e.key, j), e),
                                 ![Top - 1] = Blank(@, Nearest(InUse(@)))]
  BY DEF PutPlaces
<1> DEFINE u == Store(t, At(t, e.key, j), e)
<1>3. Sound(hash, u) /\ EntriesIn(u) = EntriesIn(t) \union {e}
  BY <1>1, PlacedSound
<1>4. Sound(hash, b) /\ EntriesIn(b) = EntriesIn(o) \ {e}
  BY <1>1, ClearedSound
<1>5. tables' = [tables EXCEPT ![Top] = u, ![Top - 1] = b]
  BY <1>1, <1>2
<1>6. u \in Tables /\ b \in Tables
  BY <1>3, <1>4 DEF Sound
<1> HIDE DEF u, b
<1>7. tables' \in Seq(Tables) /\ Len(tables') = Len(tables)
  BY <1>1, <1>5, <1>6
<1>8. /\ tables'[Top] = u /\ tables'[Top - 1] = b
      /\ \A l \in 1 .. Top - 2 : tables'[l] = tables[l]
  <2>1. \A l \in 1 .. Top : tables'[l] = IF l = Top - 1 THEN b
                                        ELSE IF l = Top THEN u ELSE tables[l]
    BY <1>1, <1>5
  <2>2. /\ Top \in 1 .. Top /\ Top - 1 \in 1 .. Top /\ Top # Top - 1
        /\ \A l \in 1 .. Top - 2 : l \in 1 .. Top /\ l # Top /\ l # Top - 1
    BY <1>1, LastTwo
  <2> QED
    BY <2>1, <2>2
<1>9. \A l \in 1 .. Top : Sound(hash, tables'[l])
  <2>1. \A l \in 1 .. Top : l = Top \/ l = Top - 1 \/ l \in 1 .. Top - 2
    BY <1>1, LastTwo
  <2> QED
    BY <1>3, <1>4, <1>8, <2>1 DEF MapInv, AllSound
<1>10. puts' = SubSeq(puts, 1, Top - 1)
  BY DEF PutPlaces
<1>11. /\ Len(puts') = Top - 1 /\ puts' \in Seq(Entries)
       /\ \A l \in 1 .. Top - 1 : puts'[l] = puts[l]
  BY <1>1, <1>10
<1>12. hash' = hash /\ heap' = heap /\ lost' = lost /\ result' = result
  BY <1>1 DEF PutPlaces
<1>13. e \in EntriesIn(o)
  BY <1>1, MovedEntry
<1>14. Top' = Top
  BY <1>1, <1>7 DEF Top
<1> QED
  BY <1>1, <1>3, <1>4, <1>7, <1>8, <1>9, <1>11, <1>12, <1>13, <1>14

LEMMA PlacesMovedInv == ASSUME MapInv, PutPlaces, Top > 1 PROVE MapInv'
<1> DEFINE e == puts[Top]
           E(l) == EntriesIn(tables[l])
           F(l) == EntriesIn(tables'[l])
<1>1. /\ Top \in Nat /\ Top' = Top /\ Len(puts) = Top /\ Len(puts') = Top - 1
      /\ puts' \in Seq(Entries)
      /\ \A l \in 1 .. Top - 1 : puts'[l] = puts[l]
      /\ tables' \in Seq(Tables)
      /\ \A l \in 1 .. Top : Sound(hash, tables'[l])
      /\ F(Top) = E(Top) \union {e}
      /\ F(Top - 1) = E(Top - 1) \ {e}
      /\ e \in E(Top - 1)
      /\ \A l \in 1 .. Top - 2 : tables'[l] = tables[l]
      /\ hash' = hash /\ heap' = heap /\ lost' = lost /\ result' = result
  BY PlacesMoved
<1>2. \A l \in 1 .. Top : F(l) = IF l = Top THEN E(l) \union {e}
                                 ELSE IF l = Top - 1 THEN E(l) \ {e} ELSE E(l)
  <2>1. \A l \in 1 .. Top : l = Top \/ l = Top - 1 \/ l \in 1 .. Top - 2
    BY <1>1
  <2> QED
    BY <1>1, <2>1
<1>3. /\ \A l, n \in 1 .. Top : \A c \in E(l), d \in E(n) :
            c.key = d.key \/ c.data = d.data => l = n /\ c = d
      /\ \A l \in 1 .. Top : \A d \in E(l) : d.data \in heap \ lost
      /\ puts # <<>>
      /\ \A l \in 1 .. Top : \A d \in E(l) : d.key # puts[1].key /\ d.data # puts[1].data
      /\ puts[1].data \in heap \ lost
      /\ \A v \in heap \ lost :
           (\E l \in 1 .. Top : \E d \in E(l) : v = d.data) \/ v = puts[1].data
  BY <1>1 DEF MapInv, Apart, Allocated, NewEntry, Accounted
<1>4. /\ Top - 1 \in 1 .. Top /\ Top \in 1 .. Top /\ Top # Top - 1
      /\ puts' # <<>> /\ puts'[1] = puts[1]
  BY <1>1
<1>5. MapTypeOK'
  BY <1>1 DEF MapInv, MapTypeOK
<1>6. Nested'
  BY <1>1 DEF Nested
<1>7. AllSound'
  BY <1>1 DEF AllSound
<1>8. BeingMoved'
  <2> SUFFICES ASSUME NEW l \in 1 .. Len(puts') - 1
               PROVE  InUse(tables'[l]) # {} /\ puts'[l + 1] = First(tables'[l])
    BY DEF BeingMoved
  <2>1. l \in 1 .. Top - 2 /\ l + 1 \in 1 .. Top - 1 /\ l \in 1 .. Len(puts) - 1
    BY <1>1
  <2> QED
    BY <1>1, <2>1 DEF MapInv, BeingMoved
<1> HIDE DEF e, E, F
<1>9. \A l \in 1 .. Top : \A d \in F(l) :
        (d = e /\ l = Top) \/ (d # e /\ d \in E(l))
  <2>1. ASSUME NEW l \in 1 .. Top, e \in F(l), l # Top PROVE FALSE
    <3>1. e \in E(l) /\ l # Top - 1
      BY <1>1, <1>2, <2>1
    <3>2. e \in E(Top - 1) /\ Top - 1 \in 1 .. Top
      BY <1>1, <1>4
    <3> QED
      BY <1>3, <3>1, <3>2
  <2>2. ASSUME NEW l \in 1 .. Top, NEW d \in F(l)
        PROVE  (d = e /\ l = Top) \/ (d # e /\ d \in E(l))
    <3>1. CASE d = e
      BY <2>1, <3>1
    <3>2. CASE d # e
      <4>1. CASE l = Top
        BY <1>2, <3>2, <4>1
      <4>2. CASE l = Top - 1
        BY <1>1, <3>2, <4>2
      <4>3. CASE l # Top /\ l # Top - 1
        BY <1>2, <3>2, <4>3
      <4> QED
        BY <4>1, <4>2, <4>3
    <3> QED
      BY <3>1, <3>2
  <2> QED
    BY <2>2
<1>10. Apart'
  <2>1. \A l, n \in 1 .. Top : \A c \in F(l), d \in F(n) :
          c.key = d.key \/ c.data = d.data => l = n /\ c = d
    BY <1>1, <1>3, <1>4, <1>9
  <2> QED
    BY <1>1, <2>1 DEF Apart, F
<1>11. NewEntry'
  <2>1. \A l \in 1 .. Top : \A d \in F(l) : d.key # puts[1].key /\ d.data # puts[1].data
    BY <1>1, <1>3, <1>4, <1>9
  <2> QED
    BY <1>1, <1>4, <2>1 DEF NewEntry, F
<1>12. Allocated'
  <2>1. \A l \in 1 .. Top : \A d \in F(l) : d.data \in heap \ lost
    BY <1>1, <1>3, <1>4, <1>9
  <2> QED
    BY <1>1, <1>3, <1>4, <2>1 DEF Allocated, F
<1>13. Accounted'
  <2>1. ASSUME NEW l \in 1 .. Top, NEW d \in E(l)
        PROVE  \E n \in 1 .. Top : d \in F(n)
    BY <1>2, <1>4
  <2>2. \A v \in heap \ lost :
          (\E l \in 1 .. Top : \E d \in F(l) : v = d.data) \/ v = puts[1].data
    BY <1>3, <2>1
  <2> QED
    BY <1>1, <1>4, <2>2 DEF Accounted, F
<1> QED
  BY <1>5, <1>6, <1>7, <1>8, <1>10, <1>11, <1>12, <1>13 DEF MapInv


LEMMA GrowInv == ASSUME MapInv, Grow PROVE MapInv'
<1> DEFINE new == Table(2 * TableSize(tables[Top]))
<1>1. /\ Top \in Nat /\ Top = Len(tables) /\ Top > 0 /\ Top \in 1 .. Top
      /\ Len(puts) = Top /\ tables \in Seq(Tables) /\ tables[Top] \in Tables
  BY DEF Grow, Probing, MapInv, MapTypeOK, Top
<1>2. 2 * TableSize(tables[Top]) \in Nat \ {0}
  <2>1. TableSize(tables[Top]) \in Nat \ {0}
    BY <1>1, TableIsOf
  <2> QED
    BY <2>1
<1>3. Sound(hash, new) /\ EntriesIn(new) = {} /\ new \in Tables
  BY <1>2, EmptySound DEF Sound
<1>4. tables' = Append(tables, new)
  BY DEF Grow
<1> HIDE DEF new
<1>5. /\ tables' \in Seq(Tables) /\ Top' = Top + 1
      /\ tables'[Top + 1] = new
      /\ \A l \in 1 .. Top : tables'[l] = tables[l]
  BY <1>1, <1>3, <1>4 DEF Top
<1>6. /\ hash' = hash /\ puts' = puts /\ heap' = heap /\ lost' = lost
      /\ result' = result
  BY DEF Grow
<1>7. /\ 1 .. Top \subseteq 1 .. Top'
      /\ \A l \in 1 .. Top' : l \in 1 .. Top \/ l = Top + 1
  BY <1>1, <1>5
<1>8. \A l \in 1 .. Top' : \A e \in EntriesIn(tables'[l]) :
        l \in 1 .. Top /\ e \in EntriesIn(tables[l])
  BY <1>3, <1>5, <1>7
<1>9. MapTypeOK'
  BY <1>5, <1>6 DEF MapInv, MapTypeOK
<1>10. Nested'
  BY <1>1, <1>5, <1>6 DEF Nested
<1>11. AllSound'
  BY <1>3, <1>5, <1>6, <1>7 DEF MapInv, AllSound
<1>12. Apart' /\ NewEntry'
  <2>1. Apart'
    BY <1>8 DEF MapInv, Apart
  <2>2. NewEntry'
    BY <1>6, <1>8 DEF MapInv, NewEntry
  <2> QED
    BY <2>1, <2>2
<1>13. BeingMoved'
  <2>1. \A l \in 1 .. Len(puts) - 1 : l \in 1 .. Top
    BY <1>1
  <2> QED
    BY <1>5, <1>6, <2>1 DEF MapInv, BeingMoved
<1>14. Allocated'
  BY <1>6, <1>8 DEF MapInv, Allocated
<1>15. Accounted'
  BY <1>5, <1>6, <1>7 DEF MapInv, Accounted
<1> QED
  BY <1>9, <1>10, <1>11, <1>12, <1>13, <1>14, <1>15 DEF MapInv

LEMMA MoveInv == ASSUME MapInv, Move PROVE MapInv'
<1> DEFINE o == tables[Top - 1]
<1>1. /\ Top \in Nat /\ Top > 1 /\ Len(puts) = Top - 1 /\ puts # <<>>
      /\ puts \in Seq(Entries) /\ Top - 1 \in 1 .. Top
  <2>1. Top \in Nat /\ Len(puts) = Top - 1 /\ puts # <<>> /\ puts \in Seq(Entries)
    BY DEF Move, Moving, MapInv, MapTypeOK, Top
  <2>2. Len(puts) # 0
    BY <2>1
  <2> QED
    BY <2>1, <2>2
<1>2. InUse(o) # {} /\ puts' = Append(puts, First(o))
  BY DEF Move, First
<1>3. Sound(hash, o)
  BY <1>1 DEF MapInv, AllSound
<1>4. First(o) \in Entries
  BY <1>2, <1>3, SoundFacts, NearestOf DEF First
<1> HIDE DEF o
<1>5. /\ puts' \in Seq(Entries) /\ Len(puts') = Top /\ puts'[Top] = First(o)
      /\ \A l \in 1 .. Top - 1 : puts'[l] = puts[l]
  BY <1>1, <1>2, <1>4
<1>6. /\ hash' = hash /\ tables' = tables /\ heap' = heap /\ lost' = lost
      /\ result' = result /\ Top' = Top
  BY DEF Move, Top
<1>7. puts' # <<>> /\ puts'[1] = puts[1]
  BY <1>1, <1>5
<1>8. MapTypeOK'
  BY <1>5, <1>6 DEF MapInv, MapTypeOK
<1>9. Nested'
  BY <1>1, <1>5, <1>6 DEF Nested
<1>10. AllSound' /\ Apart'
  BY <1>6 DEF MapInv, AllSound, Apart
<1>11. NewEntry' /\ Allocated' /\ Accounted'
  BY <1>1, <1>6, <1>7 DEF MapInv, NewEntry, Allocated, Accounted
<1>12. BeingMoved'
  <2> SUFFICES ASSUME NEW l \in 1 .. Len(puts') - 1
               PROVE  InUse(tables[l]) # {} /\ puts'[l + 1] = First(tables[l])
    BY <1>6 DEF BeingMoved
  <2>1. CASE l = Top - 1
    <3>1. l + 1 = Top
      BY <1>1, <2>1
    <3> QED
      BY <1>2, <1>5, <2>1, <3>1 DEF o
  <2>2. CASE l # Top - 1
    <3>1. l \in 1 .. Len(puts) - 1 /\ l + 1 \in 1 .. Top - 1
      BY <1>1, <1>5, <2>2
    <3> QED
      BY <1>5, <3>1 DEF MapInv, BeingMoved
  <2> QED
    BY <2>1, <2>2
<1> QED
  BY <1>8, <1>9, <1>10, <1>11, <1>12 DEF MapInv

(* What the replacement of an emptied table by the new one changes. *)
LEMMA Replaces ==
  ASSUME MapInv, Replace
  PROVE  /\ Top \in Nat /\ Top > 1 /\ Len(puts) = Top - 1 /\ puts # <<>>
         /\ tables' \in Seq(Tables) /\ Top' = Top - 1
         /\ tables'[Top - 1] = tables[Top]
         /\ \A l \in 1 .. Top - 2 : tables'[l] = tables[l]
         /\ EntriesIn(tables[Top - 1]) = {}
         /\ hash' = hash /\ puts' = puts /\ heap' = heap /\ lost' = lost
         /\ result' = result
<1>1. /\ Top \in Nat /\ Len(puts) = Top - 1 /\ puts # <<>> /\ puts \in Seq(Entries)
      /\ tables \in Seq(Tables) /\ Top = Len(tables)
  BY DEF Replace, Moving, MapInv, MapTypeOK, Top
<1>2. Len(puts) # 0
  <2>1. puts \in Seq(Entries) /\ puts # <<>>
    BY <1>1
  <2> QED
    BY <2>1
<1>3. Top > 1
  BY <1>1, <1>2
<1>4. tables[Top] \in Tables
  BY <1>1, <1>3
<1>5. tables' = Append(SubSeq(tables, 1, Top - 2), tables[Top])
  BY DEF Replace
<1> DEFINE s == SubSeq(tables, 1, Top - 2)
<1>6. /\ s \in Seq(Tables) /\ Len(s) = Top - 2
      /\ \A l \in 1 .. Top - 2 : s[l] = tables[l]
  BY <1>1, <1>3
<1> HIDE DEF s
<1>7. /\ tables' \in Seq(Tables) /\ Len(tables') = Top - 1
      /\ tables'[Top - 1] = tables[Top]
      /\ \A l \in 1 .. Top - 2 : tables'[l] = tables[l]
  BY <1>1, <1>3, <1>4, <1>5, <1>6 DEF s
<1>8. EntriesIn(tables[Top - 1]) = {}
  BY DEF Replace, EntriesIn
<1> QED
  BY <1>1, <1>3, <1>7, <1>8 DEF Replace, Top

LEMMA ReplaceInv == ASSUME MapInv, Replace PROVE MapInv'
<1> DEFINE From(l) == IF l = Top - 1 THEN Top ELSE l
<1>1. /\ Top \in Nat /\ Top > 1 /\ Len(puts) = Top - 1 /\ puts # <<>>
      /\ tables' \in Seq(Tables) /\ Top' = Top - 1
      /\ tables'[Top - 1] = tables[Top]
      /\ \A l \in 1 .. Top - 2 : tables'[l] = tables[l]
      /\ EntriesIn(tables[Top - 1]) = {}
      /\ hash' = hash /\ puts' = puts /\ heap' = heap /\ lost' = lost
      /\ result' = result
  BY Replaces
<1>2. \A l \in 1 .. Top' : From(l) \in 1 .. Top /\ tables'[l] = tables[From(l)]
  <2>1. \A l \in 1 .. Top' : l = Top - 1 \/ (l \in 1 .. Top - 2 /\ l # Top - 1)
    BY <1>1, LastTwo
  <2>2. \A l \in 1 .. Top - 2 : l \in 1 .. Top
    BY <1>1, LastTwo
  <2>3. Top \in 1 .. Top
    BY <1>1, LastTwo
  <2> QED
    BY <1>1, <2>1, <2>2, <2>3
<1>3. \A l, n \in 1 .. Top' : From(l) = From(n) => l = n
  BY <1>1
<1>4. \A l \in 1 .. Top : \A e \in EntriesIn(tables[l]) :
        \E n \in 1 .. Top' : From(n) = l
  <2>1. \A l \in 1 .. Top : l = Top - 1 \/ l = Top
                             \/ (l \in 1 .. Top - 2 /\ l # Top - 1 /\ l # Top)
    BY <1>1, LastTwo
  <2>2. Top - 1 \in 1 .. Top' /\ \A l \in 1 .. Top - 2 : l \in 1 .. Top'
    BY <1>1
  <2> QED
    BY <1>1, <2>1, <2>2
<1> HIDE DEF From
<1>5. MapTypeOK'
  BY <1>1 DEF MapInv, MapTypeOK
<1>6. Nested'
  BY <1>1 DEF Nested
<1>7. AllSound'
  BY <1>1, <1>2 DEF MapInv, AllSound
<1>8. Apart'
  BY <1>2, <1>3 DEF MapInv, Apart
<1>9. NewEntry'
  BY <1>1, <1>2 DEF MapInv, NewEntry
<1>10. BeingMoved'
  <2>1. \A l \in 1 .. Len(puts) - 1 : l \in 1 .. Top - 2
    BY <1>1
  <2> QED
    BY <1>1, <2>1 DEF MapInv, BeingMoved
<1>11. Allocated'
  BY <1>1, <1>2 DEF MapInv, Allocated
<1>12. Accounted'
  BY <1>1, <1>2, <1>4 DEF MapInv, Accounted
<1> QED
  BY <1>5, <1>6, <1>7, <1>8, <1>9, <1>10, <1>11, <1>12 DEF MapInv


(* The addresses of the entries of a table. *)
LEMMA DataOf ==
  ASSUME NEW t, NEW v
  PROVE  v \in DataIn(t) <=> \E e \in EntriesIn(t) : v = e.data
BY DEF DataIn, EntriesIn

LEMMA PutFailsInv == ASSUME MapInv, PutFails PROVE MapInv'
<1> DEFINE p == puts[1]
           dropped == UNION {DataIn(tables[l]) : l \in 2 .. Top}
<1>1. /\ Top \in Nat /\ Top > 0 /\ Len(puts) = Top /\ puts \in Seq(Entries)
      /\ 1 \in 1 .. Top /\ \A l \in 1 .. Top : l = 1 \/ l \in 2 .. Top
      /\ \A l \in 2 .. Top : l \in 1 .. Top /\ l # 1
  BY DEF PutFails, Probing, MapInv, MapTypeOK, Top
<1>2. puts # <<>>
  BY <1>1
<1>3. /\ tables' = <<tables[1]>> /\ puts' = <<>>
      /\ heap' = heap \ {p.data} /\ lost' = lost \union dropped
      /\ result' = 1 /\ hash' = hash
  BY DEF PutFails
<1>4. tables[1] \in Tables
  BY <1>1 DEF MapInv, AllSound, Sound
<1>5. /\ Top' = 1 /\ tables' \in Seq(Tables) /\ tables'[1] = tables[1]
      /\ Len(puts') = 0 /\ puts' \in Seq(Entries)
  BY <1>3, <1>4 DEF Top
<1>6. \A l \in 1 .. Top' : l = 1
  BY <1>5
<1> HIDE DEF p, dropped
<1>7. /\ p.data \in heap \ lost /\ lost \subseteq heap /\ heap \subseteq Values
      /\ \A l \in 1 .. Top : \A e \in EntriesIn(tables[l]) :
           e.data \in heap \ lost /\ e.data # p.data
  BY <1>2 DEF MapInv, MapTypeOK, Allocated, NewEntry, p
<1>8. \A v \in dropped : \E l \in 2 .. Top : \E e \in EntriesIn(tables[l]) : v = e.data
  BY DataOf DEF dropped
<1>9. \A l \in 2 .. Top : \A e \in EntriesIn(tables[l]) : e.data \in dropped
  <2> SUFFICES ASSUME NEW l \in 2 .. Top, NEW e \in EntriesIn(tables[l])
               PROVE  e.data \in dropped
    OBVIOUS
  <2>1. e.data \in DataIn(tables[l])
    BY DataOf
  <2> QED
    BY <2>1 DEF dropped
<1>10. MapTypeOK'
  <2>1. dropped \subseteq heap \ {p.data}
    BY <1>1, <1>7, <1>8
  <2> QED
    BY <1>3, <1>5, <1>7, <2>1 DEF MapInv, MapTypeOK
<1>11. Nested' /\ BeingMoved'
  BY <1>5 DEF Nested, BeingMoved
<1>12. AllSound' /\ Apart'
  BY <1>1, <1>3, <1>5, <1>6 DEF MapInv, AllSound, Apart
<1>13. NewEntry'
  BY <1>3 DEF NewEntry
<1>14. Allocated'
  <2> SUFFICES ASSUME NEW e \in EntriesIn(tables[1])
               PROVE  e.data \in heap' \ lost'
    BY <1>3, <1>5, <1>6 DEF Allocated
  <2>1. e.data \notin dropped
    BY <1>1, <1>8 DEF MapInv, Apart
  <2> QED
    BY <1>1, <1>3, <1>7, <2>1
<1>15. Accounted'
  <2> SUFFICES ASSUME NEW v \in heap' \ lost'
               PROVE  \E e \in EntriesIn(tables[1]) : v = e.data
    BY <1>5 DEF Accounted
  <2>1. v \in heap \ lost /\ v # p.data /\ v \notin dropped
    BY <1>3
  <2>2. PICK l \in 1 .. Top : \E e \in EntriesIn(tables[l]) : v = e.data
    BY <2>1 DEF MapInv, Accounted, p
  <2>3. l = 1
    BY <1>1, <1>9, <2>1, <2>2
  <2> QED
    BY <2>2, <2>3
<1> QED
  BY <1>10, <1>11, <1>12, <1>13, <1>14, <1>15 DEF MapInv

(* What hashmap_remove changes. *)
LEMMA Removes ==
  ASSUME MapInv, NEW k \in Keys, Remove(k)
  PROVE  /\ Top = 1 /\ puts = <<>>
         /\ Top' = 1 /\ tables' \in Seq(Tables) /\ Sound(hash, tables'[1])
         /\ \E d \in EntriesIn(tables[1]) :
              /\ d.key = k
              /\ EntriesIn(tables'[1]) = EntriesIn(tables[1]) \ {d}
              /\ heap' = heap \ {d.data}
         /\ hash' = hash /\ puts' = puts /\ lost' = lost /\ result' = 0
<1> DEFINE t == tables[1]
           i == At(t, k, Nearest(Matches(t, k)))
<1>1. Top = 1 /\ puts = <<>> /\ Matches(t, k) # {}
  BY DEF Remove, Idle
<1>2. Sound(hash, t)
  BY <1>1 DEF MapInv, AllSound
<1>3. i \in InUse(t) /\ t.slot[i].key = k
  BY <1>1, <1>2, GetSound, HashIsFunction
<1>4. tables' = <<Blank(t, i)>> /\ heap' = heap \ {t.slot[i].data}
  BY DEF Remove
<1> HIDE DEF i, t
<1>5. Sound(hash, Blank(t, i)) /\ EntriesIn(Blank(t, i)) = EntriesIn(t) \ {t.slot[i]}
  BY <1>2, <1>3, BlankSound
<1>6. tables' \in Seq(Tables) /\ Top' = 1 /\ tables'[1] = Blank(t, i)
  BY <1>4, <1>5 DEF Sound, Top
<1>7. t.slot[i] \in EntriesIn(t)
  BY <1>3 DEF EntriesIn
<1>8. hash' = hash /\ puts' = puts /\ lost' = lost /\ result' = 0
  BY DEF Remove
<1> QED
  BY <1>1, <1>3, <1>4, <1>5, <1>6, <1>7, <1>8 DEF t

LEMMA RemoveInv == ASSUME MapInv, NEW k \in Keys, Remove(k) PROVE MapInv'
<1>1. /\ Top = 1 /\ puts = <<>>
      /\ Top' = 1 /\ tables' \in Seq(Tables) /\ Sound(hash, tables'[1])
      /\ hash' = hash /\ puts' = puts /\ lost' = lost /\ result' = 0
  BY Removes
<1>2. PICK d \in EntriesIn(tables[1]) :
        /\ d.key = k
        /\ EntriesIn(tables'[1]) = EntriesIn(tables[1]) \ {d}
        /\ heap' = heap \ {d.data}
  BY Removes
<1>3. /\ \A l \in 1 .. Top : l = 1
      /\ \A l \in 1 .. Top' : l = 1
      /\ 1 \in 1 .. Top /\ 1 \in 1 .. Top'
  BY <1>1
<1>4. \A c \in EntriesIn(tables[1]) : c.data \in heap \ lost
  BY <1>3 DEF MapInv, Allocated
<1>5. MapTypeOK'
  BY <1>1, <1>2, <1>4 DEF MapInv, MapTypeOK
<1>6. Nested' /\ BeingMoved' /\ NewEntry'
  BY <1>1 DEF Nested, BeingMoved, NewEntry
<1>7. AllSound'
  BY <1>1, <1>3 DEF AllSound
<1>8. Apart'
  BY <1>2, <1>3 DEF MapInv, Apart
<1>9. Allocated'
  <2>1. \A c \in EntriesIn(tables[1]) : c.data = d.data => c = d
    BY <1>3 DEF MapInv, Apart
  <2>2. \A c \in EntriesIn(tables'[1]) : c.data \in heap' \ lost'
    BY <1>1, <1>2, <1>4, <2>1
  <2> QED
    BY <1>1, <1>3, <2>2 DEF Allocated
<1>10. Accounted'
  <2>1. \A v \in heap \ lost : \E c \in EntriesIn(tables[1]) : v = c.data
    BY <1>1, <1>3 DEF MapInv, Accounted
  <2>2. \A v \in heap' \ lost' : \E c \in EntriesIn(tables'[1]) : v = c.data
    BY <1>1, <1>2, <2>1
  <2> QED
    BY <1>3, <2>2 DEF Accounted
<1> QED
  BY <1>5, <1>6, <1>7, <1>8, <1>9, <1>10 DEF MapInv

LEMMA DestroyInv == ASSUME MapInv, IterateAndDestroy PROVE MapInv'
<1>1. Top = 1 /\ puts = <<>> /\ 1 \in 1 .. Top /\ \A l \in 1 .. Top : l = 1
  BY DEF IterateAndDestroy, Idle
<1>2. /\ tables' = <<>> /\ hash' = hash /\ puts' = puts /\ lost' = lost
      /\ result' = 0 /\ heap' = heap \ DataIn(tables[1])
  BY DEF IterateAndDestroy, delete_all_callback, DataIn
<1>3. Top' = 0 /\ tables' \in Seq(Tables) /\ ~ \E l \in 1 .. Top' : TRUE
  BY <1>2 DEF Top
<1>4. \A v \in DataIn(tables[1]) : v \notin lost
  BY <1>1, DataOf DEF MapInv, Allocated
<1>5. MapTypeOK'
  BY <1>2, <1>3, <1>4 DEF MapInv, MapTypeOK
<1>6. Nested' /\ BeingMoved' /\ NewEntry'
  BY <1>1, <1>2, <1>3 DEF Nested, BeingMoved, NewEntry
<1>7. AllSound' /\ Apart'
  BY <1>3 DEF AllSound, Apart
<1>8. Allocated'
  BY <1>1, <1>2, <1>3 DEF Allocated
<1>9. Accounted'
  BY <1>1, <1>2, DataOf DEF MapInv, Accounted
<1> QED
  BY <1>5, <1>6, <1>7, <1>8, <1>9 DEF MapInv

LEMMA StutterInv == ASSUME MapInv, UNCHANGED vars PROVE MapInv'
<1>1. /\ hash' = hash /\ tables' = tables /\ puts' = puts /\ heap' = heap
      /\ lost' = lost /\ result' = result /\ Top' = Top
  BY DEF vars, Top
<1>2. MapTypeOK' /\ Nested'
  BY <1>1 DEF MapInv, MapTypeOK, Nested
<1>3. AllSound' /\ NewEntry' /\ BeingMoved'
  BY <1>1 DEF MapInv, AllSound, NewEntry, BeingMoved
<1>4. Apart'
  BY <1>1 DEF MapInv, Apart
<1>5. Allocated' /\ Accounted'
  BY <1>1 DEF MapInv, Allocated, Accounted
<1> QED
  BY <1>2, <1>3, <1>4, <1>5 DEF MapInv

LEMMA MapInvariant == Spec => []MapInv
<1>1. Init => MapInv
  BY InitMapInv
<1>2. MapInv /\ [Next]_vars => MapInv'
  <2> SUFFICES ASSUME MapInv, [Next]_vars PROVE MapInv'
    OBVIOUS
  <2>1. CASE \E k \in Keys : Put(k)
    BY <2>1, PutInv
  <2>2. CASE \E k \in Keys : Remove(k)
    BY <2>2, RemoveInv
  <2>3. CASE PutPlaces
    <3>1. Top \in Nat /\ Top > 0
      BY <2>3 DEF PutPlaces, Probing, MapInv, MapTypeOK, Top
    <3>2. Top = 1 \/ Top > 1
      BY <3>1
    <3> QED
      BY <2>3, <3>2, PlacesLastInv, PlacesMovedInv
  <2>4. CASE Grow
    BY <2>4, GrowInv
  <2>5. CASE Move
    BY <2>5, MoveInv
  <2>6. CASE Replace
    BY <2>6, ReplaceInv
  <2>7. CASE PutFails
    BY <2>7, PutFailsInv
  <2>8. CASE IterateAndDestroy
    BY <2>8, DestroyInv
  <2>9. CASE UNCHANGED vars
    BY <2>9, StutterInv
  <2> QED
    BY <2>1, <2>2, <2>3, <2>4, <2>5, <2>6, <2>7, <2>8, <2>9 DEF Next
<1> QED
  BY <1>1, <1>2, PTL DEF Spec

-----------------------------------------------------------------------------

(* TypeOK: the tables have the shape of a struct hashmap_s, and the calls   *)
(* of hashmap_put are nested as the stacks say.                             *)
THEOREM TypeCorrect == Spec => []TypeOK
<1>1. MapInv => TypeOK
  <2> SUFFICES ASSUME MapInv PROVE TypeOK
    OBVIOUS
  <2>1. /\ Top \in Nat /\ puts \in Seq(Entries) /\ heap \subseteq Values
        /\ lost \subseteq heap /\ result \in {0, 1} /\ hash \in Hashes
    BY DEF MapInv, MapTypeOK, Top
  <2>2. ASSUME NEW l \in 1 .. Top
        PROVE  /\ tables[l].slot \in [0 .. TableSize(tables[l]) - 1 -> Entries \union {None}]
               /\ TableSize(tables[l]) > 0
               /\ tables[l].size \in Nat
    <3>1. /\ TableSize(tables[l]) \in Nat \ {0}
          /\ tables[l] \in TableOf(TableSize(tables[l]))
      BY TableIsOf DEF MapInv, AllSound, Sound
    <3>2. TableSize(tables[l]) > 0
      BY <3>1
    <3> QED
      BY <3>1, <3>2 DEF TableOf
  <2>3. Idle \/ Probing \/ Moving \/ (Top = 0 /\ puts = <<>>)
    <3>1. Len(puts) = 0 <=> puts = <<>>
      BY <2>1
    <3>2. \/ Top = 0 /\ Len(puts) = 0
          \/ Top > 0 /\ Len(puts) = Top
          \/ Top > 0 /\ Len(puts) = Top - 1
      BY DEF MapInv, Nested
    <3>3. CASE Top > 0 /\ Len(puts) = Top - 1 /\ puts = <<>>
      <4>1. Top = 1
        BY <2>1, <3>1, <3>3
      <4> QED
        BY <3>3, <4>1 DEF Idle
    <3> QED
      BY <3>1, <3>2, <3>3 DEF Probing, Moving
  <2> QED
    BY <2>1, <2>2, <2>3 DEF TypeOK
<1> QED
  BY <1>1, MapInvariant, PTL

(* GetFindsAll: hashmap_get finds every entry of every table, whatever was  *)
(* put, removed and moved before.                                           *)
THEOREM GetFindsAllCorrect == Spec => []GetFindsAll
<1>1. MapInv => GetFindsAll
  <2> SUFFICES ASSUME MapInv, NEW l \in 1 .. Top
               PROVE  /\ \A i \in InUse(tables[l]) :
                           hashmap_get(tables[l], tables[l].slot[i].key)
                             = tables[l].slot[i].data
                      /\ tables[l].size = Cardinality(InUse(tables[l]))
    BY DEF GetFindsAll
  <2>1. Sound(hash, tables[l])
    BY DEF MapInv, AllSound
  <2>2. ASSUME NEW i \in InUse(tables[l])
        PROVE  hashmap_get(tables[l], tables[l].slot[i].key) = tables[l].slot[i].data
    <3>1. tables[l].slot[i] \in EntriesIn(tables[l]) /\ tables[l].slot[i].key \in Keys
      BY <2>1, SoundFacts DEF EntriesIn, Entries
    <3> QED
      BY <2>1, <3>1, GetSound, HashIsFunction
  <2> QED
    BY <2>1, <2>2 DEF Sound
<1> QED
  BY <1>1, MapInvariant, PTL

(* In which table the entry of a key lies. *)
LEMMA StoredIn ==
  ASSUME NEW k, NEW l
  PROVE  l \in Stored(k) <=> l \in 1 .. Top /\ \E e \in EntriesIn(tables[l]) : e.key = k
BY DEF Stored, EntriesIn

LEMMA StoredOnce ==
  ASSUME MapInv, NEW k \in Keys, NEW l \in Stored(k)
  PROVE  /\ Stored(k) = {l}
         /\ \E e \in EntriesIn(tables[l]) :
              e.key = k /\ hashmap_get(tables[l], k) = e.data
<1>1. PICK e \in EntriesIn(tables[l]) : e.key = k
  BY StoredIn
<1>2. l \in 1 .. Top
  BY StoredIn
<1>3. Sound(hash, tables[l])
  BY <1>2 DEF MapInv, AllSound
<1>4. hashmap_get(tables[l], k) = e.data
  BY <1>1, <1>3, GetSound, HashIsFunction
<1>5. ASSUME NEW n \in Stored(k) PROVE n = l
  <2>1. n \in 1 .. Top /\ \E d \in EntriesIn(tables[n]) : d.key = k
    BY StoredIn
  <2> QED
    BY <1>1, <1>2, <2>1 DEF MapInv, Apart
<1> QED
  BY <1>1, <1>4, <1>5

(* OneLiveCopy: no key has entries in two tables, and the entry found for   *)
(* it is allocated.                                                         *)
THEOREM OneLiveCopyCorrect == Spec => []OneLiveCopy
<1>1. MapInv => OneLiveCopy
  <2> SUFFICES ASSUME MapInv, NEW k \in Keys
               PROVE  /\ Cardinality(Stored(k)) <= 1
                      /\ \A l \in Stored(k) : hashmap_get(tables[l], k) \in heap
    BY DEF OneLiveCopy
  <2>1. CASE Stored(k) = {}
    <3>1. Cardinality(Stored(k)) = 0
      BY <2>1, FS_EmptySet
    <3> QED
      BY <2>1, <3>1
  <2>2. CASE Stored(k) # {}
    <3>1. PICK l \in Stored(k) : TRUE
      BY <2>2
    <3>2. /\ Stored(k) = {l}
          /\ \E e \in EntriesIn(tables[l]) :
               e.key = k /\ hashmap_get(tables[l], k) = e.data
      BY StoredOnce
    <3>3. Cardinality(Stored(k)) = 1
      BY <3>2, FS_Singleton
    <3>4. l \in 1 .. Top
      BY StoredIn
    <3>5. hashmap_get(tables[l], k) \in heap
      BY <3>2, <3>4 DEF MapInv, Allocated
    <3> QED
      BY <3>2, <3>3, <3>5
  <2> QED
    BY <2>1, <2>2
<1> QED
  BY <1>1, MapInvariant, PTL

(* AllFreedAtExit: after hashmap_destroy nothing is left allocated but what *)
(* a failed growth dropped.                                                 *)
THEOREM AllFreedAtExitCorrect == Spec => []AllFreedAtExit
<1>1. MapInv => AllFreedAtExit
  <2> SUFFICES ASSUME MapInv, Top = 0 PROVE heap = lost
    BY DEF AllFreedAtExit
  <2>1. Len(puts) = 0 /\ puts \in Seq(Entries) /\ lost \subseteq heap
    BY DEF MapInv, MapTypeOK, Nested
  <2>2. puts = <<>>
    BY <2>1
  <2>3. ~ \E l \in 1 .. Top : TRUE
    OBVIOUS
  <2> QED
    BY <2>1, <2>2, <2>3 DEF MapInv, Accounted
<1> QED
  BY <1>1, MapInvariant, PTL

-----------------------------------------------------------------------------

(* What the map holds, wherever it lies, and that the abstract map has it.  *)
AllEntries == UNION {EntriesIn(tables[l]) : l \in 1 .. Top}

ContentsFit ==
  /\ Contents \in [Keys -> Values \union {None}]
  /\ \A e \in AllEntries : e \in Entries /\ Contents[e.key] = e.data
  /\ \A k \in Keys : (\A e \in AllEntries : e.key # k) => Contents[k] = None

LEMMA MapInvFits == MapInv => ContentsFit
<1> SUFFICES ASSUME MapInv PROVE ContentsFit
  OBVIOUS
<1>1. \A l \in 1 .. Top : EntriesIn(tables[l]) \subseteq Entries
  BY SoundFacts DEF MapInv, AllSound
<1>2. \A k \in Keys : Contents[k] =
        IF Stored(k) = {} THEN None
        ELSE hashmap_get(tables[CHOOSE l \in Stored(k) : TRUE], k)
  BY DEF Contents
<1>3. ASSUME NEW l \in 1 .. Top, NEW e \in EntriesIn(tables[l])
      PROVE  e \in Entries /\ Contents[e.key] = e.data
  <2>1. e \in Entries /\ e.key \in Keys
    BY <1>1 DEF Entries
  <2>2. l \in Stored(e.key)
    BY StoredIn
  <2>3. Stored(e.key) = {l}
    BY <2>1, <2>2, StoredOnce
  <2>4. (CHOOSE n \in Stored(e.key) : TRUE) = l
    BY <2>3
  <2>5. hashmap_get(tables[l], e.key) = e.data
    <3>1. Sound(hash, tables[l])
      BY DEF MapInv, AllSound
    <3> QED
      BY <2>1, <3>1, GetSound, HashIsFunction
  <2> QED
    BY <1>2, <2>1, <2>2, <2>4, <2>5
<1>4. ASSUME NEW k \in Keys, \A e \in AllEntries : e.key # k
      PROVE  Contents[k] = None
  <2>1. \A l \in 1 .. Top : \A e \in EntriesIn(tables[l]) : e.key # k
    BY <1>4 DEF AllEntries
  <2>2. Stored(k) = {}
    BY <2>1, StoredIn
  <2> QED
    BY <1>2, <2>2
<1>5. \A e \in AllEntries : e \in Entries /\ Contents[e.key] = e.data
  BY <1>3 DEF AllEntries
<1>6. Contents \in [Keys -> Values \union {None}]
  <2>1. ASSUME NEW k \in Keys PROVE Contents[k] \in Values \union {None}
    <3>1. CASE \A e \in AllEntries : e.key # k
      BY <1>4, <3>1
    <3>2. CASE \E e \in AllEntries : e.key = k
      BY <1>5, <3>2 DEF Entries
    <3> QED
      BY <3>1, <3>2
  <2> QED
    BY <2>1 DEF Contents
<1> QED
  BY <1>4, <1>5, <1>6 DEF ContentsFit

(* An operation that only moves entries changes nothing.                    *)
LEMMA SameEntriesSameContents ==
  ASSUME ContentsFit, ContentsFit', AllEntries' = AllEntries
  PROVE  Contents' = Contents
<1>1. ASSUME NEW k \in Keys PROVE Contents'[k] = Contents[k]
  <2>1. CASE \A e \in AllEntries : e.key # k
    <3>1. Contents[k] = None
      BY <2>1 DEF ContentsFit
    <3>2. Contents'[k] = None
      BY <2>1 DEF ContentsFit
    <3> QED
      BY <3>1, <3>2
  <2>2. CASE \E e \in AllEntries : e.key = k
    <3>1. PICK e \in AllEntries : e.key = k
      BY <2>2
    <3>2. Contents[k] = e.data
      BY <3>1 DEF ContentsFit
    <3>3. Contents'[k] = e.data
      BY <3>1 DEF ContentsFit
    <3> QED
      BY <3>2, <3>3
  <2> QED
    BY <2>1, <2>2
<1>2. Contents \in [Keys -> Values \union {None}] /\ Contents' \in [Keys -> Values \union {None}]
  BY DEF ContentsFit
<1> QED
  BY <1>1, <1>2

(* Growing moves entries and keeps them all. *)
LEMMA MovesKeepEntries ==
  ASSUME MapInv, NEW k \in Keys,
         Put(k) \/ (PutPlaces /\ Top > 1) \/ Grow \/ Move \/ Replace
  PROVE  AllEntries' = AllEntries /\ (Top' > 0) = (Top > 0) /\ result' = result
<1>1. CASE Put(k)
  BY <1>1 DEF Put, AllEntries, Top
<1>2. CASE Move
  BY <1>2 DEF Move, AllEntries, Top
<1>3. CASE PutPlaces /\ Top > 1
  <2>1. /\ Top \in Nat /\ Top' = Top /\ result' = result
        /\ EntriesIn(tables'[Top]) = EntriesIn(tables[Top]) \union {puts[Top]}
        /\ EntriesIn(tables'[Top - 1]) = EntriesIn(tables[Top - 1]) \ {puts[Top]}
        /\ puts[Top] \in EntriesIn(tables[Top - 1])
        /\ \A l \in 1 .. Top - 2 : tables'[l] = tables[l]
    BY <1>3, PlacesMoved
  <2>2. /\ Top - 1 \in 1 .. Top /\ Top \in 1 .. Top
        /\ \A l \in 1 .. Top : l = Top \/ l = Top - 1 \/ l \in 1 .. Top - 2
    BY <1>3, <2>1, LastTwo
  <2>3. ASSUME NEW l \in 1 .. Top, NEW e \in EntriesIn(tables[l])
        PROVE  \E n \in 1 .. Top : e \in EntriesIn(tables'[n])
    BY <2>1, <2>2
  <2>4. ASSUME NEW l \in 1 .. Top, NEW e \in EntriesIn(tables'[l])
        PROVE  \E n \in 1 .. Top : e \in EntriesIn(tables[n])
    BY <2>1, <2>2
  <2>5. AllEntries' = AllEntries
    BY <2>1, <2>3, <2>4 DEF AllEntries
  <2> QED
    BY <2>1, <2>5
<1>4. CASE Grow
  <2> DEFINE new == Table(2 * TableSize(tables[Top]))
  <2>1. /\ Top \in Nat /\ Top = Len(tables) /\ Top > 0 /\ tables \in Seq(Tables)
        /\ tables[Top] \in Tables
    BY <1>4 DEF Grow, Probing, MapInv, MapTypeOK, Top
  <2>2. 2 * TableSize(tables[Top]) \in Nat \ {0}
    <3>1. TableSize(tables[Top]) \in Nat \ {0}
      BY <2>1, TableIsOf
    <3> QED
      BY <3>1
  <2>3. EntriesIn(new) = {} /\ new \in Tables
    BY <2>2, EmptySound DEF Sound
  <2>4. tables' = Append(tables, new) /\ result' = result
    BY <1>4 DEF Grow
  <2> HIDE DEF new
  <2>5. /\ Top' = Top + 1 /\ tables'[Top + 1] = new
        /\ \A l \in 1 .. Top : tables'[l] = tables[l]
    BY <2>1, <2>3, <2>4 DEF Top
  <2>6. /\ \A l \in 1 .. Top : l \in 1 .. Top'
        /\ \A l \in 1 .. Top' : l \in 1 .. Top \/ l = Top + 1
    BY <2>1, <2>5
  <2>7. ASSUME NEW e
        PROVE  (\E l \in 1 .. Top : e \in EntriesIn(tables[l]))
                 <=> \E l \in 1 .. Top' : e \in EntriesIn(tables'[l])
    BY <2>3, <2>5, <2>6
  <2>8. AllEntries' = AllEntries
    BY <2>7 DEF AllEntries
  <2>9. Top > 0 /\ Top' > 0
    BY <2>1, <2>5
  <2> QED
    BY <2>4, <2>8, <2>9
<1>5. CASE Replace
  <2>1. /\ Top \in Nat /\ Top > 1 /\ Top' = Top - 1 /\ result' = result
        /\ tables'[Top - 1] = tables[Top]
        /\ \A l \in 1 .. Top - 2 : tables'[l] = tables[l]
        /\ EntriesIn(tables[Top - 1]) = {}
    BY <1>5, Replaces
  <2>2. /\ Top - 1 \in 1 .. Top' /\ Top \in 1 .. Top
        /\ \A l \in 1 .. Top - 2 : l \in 1 .. Top' /\ l \in 1 .. Top
        /\ \A l \in 1 .. Top' : l = Top - 1 \/ l \in 1 .. Top - 2
        /\ \A l \in 1 .. Top : l = Top \/ l = Top - 1 \/ l \in 1 .. Top - 2
    BY <2>1, LastTwo
  <2>3. ASSUME NEW e
        PROVE  (\E l \in 1 .. Top : e \in EntriesIn(tables[l]))
                 <=> \E l \in 1 .. Top' : e \in EntriesIn(tables'[l])
    BY <2>1, <2>2
  <2>4. AllEntries' = AllEntries
    BY <2>3 DEF AllEntries
  <2>5. Top > 0 /\ Top' > 0
    BY <2>1
  <2> QED
    BY <2>1, <2>4, <2>5
<1> QED
  BY <1>1, <1>2, <1>3, <1>4, <1>5

(* The outermost hashmap_put adds an entry. *)
LEMMA PutAdds ==
  ASSUME MapInv, ContentsFit, ContentsFit', PutPlaces, Top = 1
  PROVE  \E k \in Keys, v \in Values : Abstract!Add(k, v)
<1> DEFINE e == puts[1]
           t == tables[1]
<1>1. Probing /\ Len(puts) = 1 /\ puts \in Seq(Entries)
  BY DEF PutPlaces, Probing, MapInv, MapTypeOK, Top
<1>2. puts # <<>> /\ 1 \in 1 .. Top /\ e \in Entries
  BY <1>1
<1>3. PICK j \in Place(t, e.key) : tables' = <<Store(t, At(t, e.key, j), e)>>
  BY DEF PutPlaces
<1>4. EntriesIn(tables'[1]) = EntriesIn(t) \union {e}
  BY <1>1, <1>3, PlacedSound
<1>5. Top' = 1 /\ result' = 0
  BY <1>3 DEF Top, PutPlaces
<1>6. /\ \A l \in 1 .. Top : l = 1
      /\ \A l \in 1 .. Top' : l = 1
      /\ 1 \in 1 .. Top'
  BY <1>5
<1>7. AllEntries = EntriesIn(t)
  BY <1>2, <1>6 DEF AllEntries
<1>8. AllEntries' = AllEntries \union {e}
  BY <1>4, <1>6, <1>7 DEF AllEntries
<1>9. \A d \in AllEntries : d.key # e.key
  BY <1>2, <1>7 DEF MapInv, NewEntry
<1>10. e.key \in Keys /\ e.data \in Values
  BY <1>2 DEF Entries
<1> HIDE DEF e, t
<1>11. Contents[e.key] = None
  BY <1>9, <1>10 DEF ContentsFit
<1>12. /\ Contents \in [Keys -> Values \union {None}]
       /\ Contents' \in [Keys -> Values \union {None}]
  BY DEF ContentsFit
<1>13. Contents'[e.key] = e.data
  BY <1>8 DEF ContentsFit
<1>14. ASSUME NEW k \in Keys, k # e.key PROVE Contents'[k] = Contents[k]
  <2>1. CASE \A d \in AllEntries : d.key # k
    <3>1. Contents[k] = None
      BY <2>1 DEF ContentsFit
    <3>2. Contents'[k] = None
      BY <1>8, <1>14, <2>1 DEF ContentsFit
    <3> QED
      BY <3>1, <3>2
  <2>2. CASE \E d \in AllEntries : d.key = k
    <3>1. PICK d \in AllEntries : d.key = k
      BY <2>2
    <3>2. Contents[k] = d.data
      BY <3>1 DEF ContentsFit
    <3>3. Contents'[k] = d.data
      BY <1>8, <3>1 DEF ContentsFit
    <3> QED
      BY <3>2, <3>3
  <2> QED
    BY <2>1, <2>2
<1>15. Contents' = [Contents EXCEPT ![e.key] = e.data]
  BY <1>10, <1>12, <1>13, <1>14
<1>16. (Top > 0) = TRUE /\ (Top' > 0) = TRUE
  BY <1>5
<1>17. Abstract!Add(e.key, e.data)
  BY <1>5, <1>11, <1>15, <1>16 DEF Abstract!Add
<1> QED
  BY <1>10, <1>17

(* A failing one drops entries at most ... *)
LEMMA FailureDrops ==
  ASSUME MapInv, ContentsFit, ContentsFit', PutFails
  PROVE  Abstract!AddFails
<1>1. Top \in Nat /\ Top > 0 /\ 1 \in 1 .. Top
  BY DEF PutFails, Probing, MapInv, MapTypeOK, Top
<1>2. tables' = <<tables[1]>> /\ result' = 1
  BY DEF PutFails
<1>3. Top' = 1 /\ tables'[1] = tables[1]
  BY <1>2 DEF Top
<1>4. \A l \in 1 .. Top' : l = 1
  BY <1>3
<1>5. AllEntries' \subseteq AllEntries
  BY <1>1, <1>3, <1>4 DEF AllEntries
<1>6. ASSUME NEW k \in Keys PROVE Contents'[k] \in {Contents[k], None}
  <2>1. CASE \A e \in AllEntries' : e.key # k
    BY <2>1 DEF ContentsFit
  <2>2. CASE \E e \in AllEntries' : e.key = k
    <3>1. PICK e \in AllEntries' : e.key = k
      BY <2>2
    <3>2. Contents[k] = e.data
      BY <1>5, <3>1 DEF ContentsFit
    <3>3. Contents'[k] = e.data
      BY <3>1 DEF ContentsFit
    <3> QED
      BY <3>2, <3>3
  <2> QED
    BY <2>1, <2>2
<1>7. Contents' \in [Keys -> Values \union {None}]
  BY DEF ContentsFit
<1>8. (Top > 0) = TRUE /\ (Top' > 0) = TRUE
  BY <1>1, <1>3
<1> QED
  BY <1>2, <1>6, <1>7, <1>8 DEF Abstract!AddFails

(* ... hashmap_remove deletes one ... *)
LEMMA RemoveDeletes ==
  ASSUME MapInv, ContentsFit, ContentsFit', NEW k \in Keys, Remove(k)
  PROVE  Abstract!Delete(k)
<1>1. Top = 1 /\ Top' = 1 /\ result' = 0
  BY Removes
<1>2. PICK d \in EntriesIn(tables[1]) :
        d.key = k /\ EntriesIn(tables'[1]) = EntriesIn(tables[1]) \ {d}
  BY Removes
<1>3. /\ \A l \in 1 .. Top : l = 1
      /\ \A l \in 1 .. Top' : l = 1
      /\ 1 \in 1 .. Top /\ 1 \in 1 .. Top'
  BY <1>1
<1>4. AllEntries = EntriesIn(tables[1]) /\ AllEntries' = EntriesIn(tables'[1])
  BY <1>3 DEF AllEntries
<1>5. d \in AllEntries /\ AllEntries' = AllEntries \ {d}
  BY <1>2, <1>4
<1>6. \A e \in AllEntries : e.key = k => e = d
  BY <1>2, <1>3, <1>4 DEF MapInv, Apart
<1>7. Contents[k] # None
  <2>1. Contents[k] = d.data /\ d \in Entries
    BY <1>2, <1>5 DEF ContentsFit
  <2> QED
    BY <2>1, HashMapAssumption DEF Entries
<1>8. /\ Contents \in [Keys -> Values \union {None}]
      /\ Contents' \in [Keys -> Values \union {None}]
  BY DEF ContentsFit
<1>9. Contents'[k] = None
  BY <1>5, <1>6 DEF ContentsFit
<1>10. ASSUME NEW n \in Keys, n # k PROVE Contents'[n] = Contents[n]
  <2>1. CASE \A e \in AllEntries : e.key # n
    <3>1. Contents[n] = None
      BY <2>1 DEF ContentsFit
    <3>2. Contents'[n] = None
      BY <1>5, <2>1 DEF ContentsFit
    <3> QED
      BY <3>1, <3>2
  <2>2. CASE \E e \in AllEntries : e.key = n
    <3>1. PICK e \in AllEntries : e.key = n
      BY <2>2
    <3>2. e \in AllEntries'
      BY <1>2, <1>5, <1>10, <3>1
    <3>3. Contents[n] = e.data
      BY <3>1 DEF ContentsFit
    <3>4. Contents'[n] = e.data
      BY <3>1, <3>2 DEF ContentsFit
    <3> QED
      BY <3>3, <3>4
  <2> QED
    BY <2>1, <2>2
<1>11. Contents' = [Contents EXCEPT ![k] = None]
  BY <1>8, <1>9, <1>10
<1>12. (Top > 0) = TRUE /\ (Top' > 0) = TRUE
  BY <1>1
<1> QED
  BY <1>1, <1>7, <1>11, <1>12 DEF Abstract!Delete

(* ... and the end leaves none. *)
LEMMA DestroyClears ==
  ASSUME ContentsFit', IterateAndDestroy
  PROVE  Abstract!Clear
<1>1. Top = 1 /\ tables' = <<>> /\ result' = 0
  BY DEF IterateAndDestroy, Idle, delete_all_callback
<1>2. Top' = 0
  BY <1>1 DEF Top
<1>3. AllEntries' = {}
  BY <1>2 DEF AllEntries
<1>4. /\ Contents' \in [Keys -> Values \union {None}]
      /\ \A k \in Keys : Contents'[k] = None
  BY <1>3 DEF ContentsFit
<1>5. Contents' = [k \in Keys |-> None]
  BY <1>4
<1>6. (Top > 0) = TRUE /\ (Top' > 0) = FALSE
  BY <1>1, <1>2
<1> QED
  BY <1>1, <1>5, <1>6 DEF Abstract!Clear

(* ImplementsMap: hashmap_put, hashmap_remove and hashmap_iterate do to the *)
(* map what their names say, and growing it changes nothing that            *)
(* hashmap_get could tell.                                                  *)
THEOREM MapImplementsProcessMap == Spec => ImplementsMap
<1>1. Init => Abstract!Init
  <2> SUFFICES ASSUME Init PROVE Abstract!Init
    OBVIOUS
  <2>1. MapInv /\ ContentsFit
    BY InitMapInv, MapInvFits
  <2>2. EntriesIn(Table(FirstSize)) = {}
    BY EmptySound, HashMapAssumption
  <2>3. Top = 1 /\ tables[1] = Table(FirstSize) /\ result = 0
    BY DEF Init, Top
  <2>4. AllEntries = {}
    <3>1. \A l \in 1 .. Top : EntriesIn(tables[l]) = {}
      BY <2>2, <2>3
    <3> QED
      BY <3>1 DEF AllEntries
  <2>5. /\ Contents \in [Keys -> Values \union {None}]
        /\ \A k \in Keys : Contents[k] = None
    BY <2>1, <2>4 DEF ContentsFit
  <2>6. Contents = [k \in Keys |-> None]
    BY <2>5
  <2>7. (Top > 0) = TRUE
    BY <2>3
  <2> QED
    BY <2>3, <2>6, <2>7 DEF Abstract!Init
<1>2. MapInv /\ ContentsFit /\ ContentsFit' /\ [Next]_vars
        => [Abstract!Next]_(Abstract!vars)
  <2> SUFFICES ASSUME MapInv, ContentsFit, ContentsFit', [Next]_vars
               PROVE  [Abstract!Next]_(Abstract!vars)
    OBVIOUS
  <2>1. ASSUME NEW k \in Keys,
               Put(k) \/ (PutPlaces /\ Top > 1) \/ Grow \/ Move \/ Replace
        PROVE  UNCHANGED Abstract!vars
    <3>1. AllEntries' = AllEntries /\ (Top' > 0) = (Top > 0) /\ result' = result
      BY <2>1, MovesKeepEntries
    <3>2. Contents' = Contents
      BY <3>1, SameEntriesSameContents
    <3> QED
      BY <3>1, <3>2 DEF Abstract!vars
  <2>2. CASE \E k \in Keys : Put(k)
    BY <2>1, <2>2
  <2>3. CASE \E k \in Keys : Remove(k)
    BY <2>3, RemoveDeletes DEF Abstract!Next
  <2>4. CASE PutPlaces \/ Grow \/ Move \/ Replace
    <3>1. \E k : k \in Keys
      <4>1. puts \in Seq(Entries) /\ Len(puts) # 0
        BY <2>4 DEF PutPlaces, Grow, Move, Replace, Probing, Moving, MapInv, MapTypeOK
      <4>2. puts[1] \in Entries
        BY <4>1
      <4> QED
        BY <4>2 DEF Entries
    <3>2. CASE PutPlaces /\ Top = 1
      BY <3>2, PutAdds DEF Abstract!Next
    <3>3. CASE PutPlaces /\ Top # 1
      <4>1. Top \in Nat /\ Top > 0
        BY <3>3 DEF PutPlaces, Probing, MapInv, MapTypeOK, Top
      <4>2. Top > 1
        BY <3>3, <4>1
      <4> QED
        BY <2>1, <3>1, <3>3, <4>2
    <3>4. CASE Grow \/ Move \/ Replace
      BY <2>1, <3>1, <3>4
    <3> QED
      BY <2>4, <3>2, <3>3, <3>4
  <2>5. CASE PutFails
    BY <2>5, FailureDrops DEF Abstract!Next
  <2>6. CASE IterateAndDestroy
    BY <2>6, DestroyClears DEF Abstract!Next
  <2>7. CASE UNCHANGED vars
    <3>1. AllEntries' = AllEntries /\ Top' = Top /\ result' = result
      BY <2>7 DEF vars, AllEntries, Top
    <3>2. Contents' = Contents
      BY <3>1, SameEntriesSameContents
    <3> QED
      BY <3>1, <3>2 DEF Abstract!vars
  <2> QED
    BY <2>2, <2>3, <2>4, <2>5, <2>6, <2>7 DEF Next
<1>3. MapInv => ContentsFit
  BY MapInvFits
<1> QED
  BY <1>1, <1>2, <1>3, MapInvariant, PTL DEF Spec, ImplementsMap, Abstract!Spec

-----------------------------------------------------------------------------

(* Neither storing nor clearing an entry changes the number of slots. *)
LEMMA SizeStays ==
  ASSUME NEW t, NEW i, NEW e
  PROVE  TableSize(Store(t, i, e)) = TableSize(t) /\ TableSize(Blank(t, i)) = TableSize(t)
<1>1. DOMAIN [t.slot EXCEPT ![i] = e] = DOMAIN t.slot
  OBVIOUS
<1>2. DOMAIN [t.slot EXCEPT ![i] = None] = DOMAIN t.slot
  OBVIOUS
<1> QED
  BY <1>1, <1>2 DEF TableSize, Store, Blank

(* A sound table has as many entries as its size says. *)
LEMMA EntriesCounted ==
  ASSUME NEW f, NEW t, Sound(f, t)
  PROVE  /\ IsFiniteSet(EntriesIn(t)) /\ Cardinality(EntriesIn(t)) = t.size
         /\ t.size \in Nat /\ TableSize(t) \in Nat \ {0}
<1> DEFINE g == [i \in InUse(t) |-> t.slot[i]]
<1>1. TableSize(t) \in Nat \ {0} /\ t \in TableOf(TableSize(t))
  BY TableIsOf DEF Sound
<1>2. IsFiniteSet(InUse(t)) /\ t.size = Cardinality(InUse(t)) /\ t.size \in Nat
  BY <1>1, TableHasSize DEF Sound, TableOf
<1>3. g \in Surjection(InUse(t), EntriesIn(t))
  BY DEF Surjection, EntriesIn
<1>4. g \in Injection(InUse(t), EntriesIn(t))
  <2>1. g \in [InUse(t) -> EntriesIn(t)]
    BY DEF EntriesIn
  <2>2. \A i, j \in InUse(t) : g[i] = g[j] => i = j
    BY DEF Sound
  <2> HIDE DEF g
  <2> QED
    BY <2>1, <2>2 DEF Injection, IsInjective
<1> HIDE DEF g
<1> QED
  BY <1>1, <1>2, <1>3, <1>4, FS_Surjection

(* All tables hold no more entries than the table of the map has slots, and *)
(* each table that is being filled has at least twice as many slots.        *)
FewEntries ==
  IsFiniteSet(AllEntries) /\ (Top > 0 => Cardinality(AllEntries) <= TableSize(tables[1]))
NewTablesLarge ==
  \A l \in 2 .. Top : TableSize(tables[l]) >= 2 * TableSize(tables[1])
RoomInv == FewEntries /\ NewTablesLarge

(* The table that hashmap_put grows into never fills up: it is at most half *)
(* full, so a call of hashmap_put nested in a growth grows again only for   *)
(* the collisions in one chain, and what it makes is again larger.          *)
NewTablesHaveRoom == \A l \in 1 .. Top :
  /\ tables[l].size <= TableSize(tables[l])
  /\ l > 1 => 2 * tables[l].size <= TableSize(tables[l])

LEMMA SizesAre ==
  ASSUME MapInv, NEW l \in 1 .. Top
  PROVE  TableSize(tables[l]) \in Nat \ {0}
BY EntriesCounted DEF MapInv, AllSound

LEMMA OneTable ==
  ASSUME Top = 1
  PROVE  AllEntries = EntriesIn(tables[1])
BY DEF AllEntries

LEMMA InitRoom == Init => RoomInv
<1> SUFFICES ASSUME Init PROVE RoomInv
  OBVIOUS
<1>1. Top = 1 /\ tables[1] = Table(FirstSize)
  BY DEF Init, Top
<1>2. /\ EntriesIn(Table(FirstSize)) = {}
      /\ TableSize(Table(FirstSize)) = FirstSize /\ FirstSize \in Nat
  BY EmptySound, HashMapAssumption
<1>3. AllEntries = {}
  BY <1>1, <1>2, OneTable
<1>4. FewEntries
  BY <1>1, <1>2, <1>3, FS_EmptySet DEF FewEntries
<1> QED
  BY <1>1, <1>4 DEF RoomInv, NewTablesLarge

(* Steps that keep the entries and the tables' sizes. *)
LEMMA SameRoom ==
  ASSUME RoomInv, AllEntries' = AllEntries, Top' = Top, Top \in Nat,
         \A l \in 1 .. Top : TableSize(tables'[l]) = TableSize(tables[l])
  PROVE  RoomInv'
<1>1. FewEntries'
  <2>1. Top > 0 => 1 \in 1 .. Top
    OBVIOUS
  <2> QED
    BY <2>1 DEF RoomInv, FewEntries
<1>2. NewTablesLarge'
  <2>1. \A l \in 2 .. Top : l \in 1 .. Top /\ 1 \in 1 .. Top
    OBVIOUS
  <2> QED
    BY <2>1 DEF RoomInv, NewTablesLarge
<1> QED
  BY <1>1, <1>2 DEF RoomInv

(* Steps after which the map is one table with no more entries.             *)
LEMMA FewerEntries ==
  ASSUME RoomInv, Top > 0, Top' = 1, AllEntries' \subseteq AllEntries,
         TableSize(tables'[1]) = TableSize(tables[1]),
         TableSize(tables[1]) \in Nat
  PROVE  RoomInv'
<1>1. /\ IsFiniteSet(AllEntries')
      /\ Cardinality(AllEntries') <= Cardinality(AllEntries)
  BY FS_Subset DEF RoomInv, FewEntries
<1>2. Cardinality(AllEntries') \in Nat /\ Cardinality(AllEntries) \in Nat
  BY <1>1, FS_CardinalityType DEF RoomInv, FewEntries
<1>3. Cardinality(AllEntries) <= TableSize(tables[1])
  BY DEF RoomInv, FewEntries
<1>4. Cardinality(AllEntries') <= TableSize(tables'[1])
  BY <1>1, <1>2, <1>3
<1> QED
  BY <1>1, <1>4 DEF RoomInv, FewEntries, NewTablesLarge

(* The outermost hashmap_put places its entry where there is room. *)
LEMMA PlacesLastRoom == ASSUME MapInv, RoomInv, PutPlaces, Top = 1 PROVE RoomInv'
<1> DEFINE e == puts[1]
           t == tables[1]
<1>1. Probing /\ 1 \in 1 .. Top
  BY DEF PutPlaces
<1>2. PICK j \in Place(t, e.key) : tables' = <<Store(t, At(t, e.key, j), e)>>
  BY DEF PutPlaces
<1>3. EntriesIn(tables'[1]) = EntriesIn(t) \union {e}
  BY <1>1, <1>2, PlacedSound
<1>4. Top' = 1 /\ TableSize(tables'[1]) = TableSize(t)
  BY <1>2, SizeStays DEF Top
<1>5. ~ (t.size >= TableSize(t))
  BY <1>2 DEF Place
<1>6. /\ IsFiniteSet(EntriesIn(t)) /\ Cardinality(EntriesIn(t)) = t.size
      /\ t.size \in Nat /\ TableSize(t) \in Nat
  BY <1>1, EntriesCounted DEF MapInv, AllSound
<1>7. /\ IsFiniteSet(EntriesIn(tables'[1]))
      /\ Cardinality(EntriesIn(tables'[1])) \in {t.size, t.size + 1}
  <2> DEFINE E == EntriesIn(t)
  <2>1. /\ IsFiniteSet(E \union {e})
        /\ Cardinality(E \union {e}) = IF e \in E THEN Cardinality(E) ELSE Cardinality(E) + 1
    BY <1>6, FS_AddElement
  <2>2. Cardinality(E) = t.size /\ EntriesIn(tables'[1]) = E \union {e}
    BY <1>3, <1>6
  <2> HIDE DEF E, e, t
  <2> QED
    BY <2>1, <2>2
<1>8. Cardinality(EntriesIn(tables'[1])) \in Nat
  BY <1>7, FS_CardinalityType
<1>9. Cardinality(EntriesIn(tables'[1])) <= TableSize(tables'[1])
  BY <1>4, <1>5, <1>6, <1>7, <1>8
<1>10. AllEntries' = EntriesIn(tables'[1])
  BY <1>4 DEF AllEntries
<1> QED
  BY <1>4, <1>7, <1>9, <1>10 DEF RoomInv, FewEntries, NewTablesLarge

LEMMA PlacesMovedRoom == ASSUME MapInv, RoomInv, PutPlaces, Top > 1 PROVE RoomInv'
<1>1. AllEntries' = AllEntries
  <2>1. \E k : k \in Keys
    BY FreshInTop DEF PutPlaces, Entries
  <2> QED
    BY <2>1, MovesKeepEntries
<1>2. Top \in Nat /\ Top' = Top /\ tables \in Seq(Tables) /\ Top = Len(tables)
  BY PlacesMoved DEF MapInv, MapTypeOK, Top
<1> DEFINE e == puts[Top]
           o == Nearest(InUse(tables[Top - 1]))
<1>3. PICK j \in Place(tables[Top], e.key) :
        tables' = [tables EXCEPT ![Top] = Store(tables[Top], At(tables[Top], e.key, j), e),
                                 ![Top - 1] = Blank(@, Nearest(InUse(@)))]
  BY DEF PutPlaces
<1> DEFINE i == At(tables[Top], e.key, j)
<1>4. tables' = [tables EXCEPT ![Top] = Store(tables[Top], i, e),
                               ![Top - 1] = Blank(tables[Top - 1], o)]
  BY <1>2, <1>3
<1> HIDE DEF e, o, i
<1>5. ASSUME NEW l \in 1 .. Top PROVE TableSize(tables'[l]) = TableSize(tables[l])
  <2>1. l \in DOMAIN tables /\ Top # Top - 1
    BY <1>2
  <2>2. tables'[l] = IF l = Top - 1 THEN Blank(tables[l], o)
                     ELSE IF l = Top THEN Store(tables[l], i, e) ELSE tables[l]
    BY <1>4, <2>1
  <2> QED
    BY <2>2, SizeStays
<1> QED
  BY <1>1, <1>2, <1>5, SameRoom

(* A new table has twice as many slots as the last. *)
LEMMA GrowRoom == ASSUME MapInv, RoomInv, Grow PROVE RoomInv'
<1> DEFINE new == Table(2 * TableSize(tables[Top]))
<1>1. /\ Top \in Nat /\ Top > 0 /\ Top = Len(tables) /\ tables \in Seq(Tables)
      /\ Len(puts) = Top
  BY DEF Grow, Probing, MapInv, MapTypeOK, Top
<1>2. AllEntries' = AllEntries
  <2>1. \E k : k \in Keys
    BY FreshInTop DEF Grow, Entries
  <2> QED
    BY <2>1, MovesKeepEntries
<1>3. TableSize(tables[Top]) \in Nat \ {0} /\ TableSize(tables[1]) \in Nat \ {0}
  BY <1>1, SizesAre
<1>4. 2 * TableSize(tables[Top]) \in Nat \ {0}
  BY <1>3
<1>5. TableSize(new) = 2 * TableSize(tables[Top])
  BY <1>4, EmptySound
<1>6. tables' = Append(tables, new)
  BY DEF Grow
<1> HIDE DEF new
<1>7. /\ Top' = Top + 1 /\ tables'[Top + 1] = new
      /\ \A l \in 1 .. Top : tables'[l] = tables[l]
  BY <1>1, <1>6 DEF Top
<1>8. tables'[1] = tables[1]
  BY <1>1, <1>7
<1>9. FewEntries'
  BY <1>1, <1>2, <1>8 DEF RoomInv, FewEntries
<1>10. TableSize(tables[Top]) >= TableSize(tables[1])
  <2>1. CASE Top = 1
    BY <1>3, <2>1
  <2>2. CASE Top # 1
    <3>1. Top \in 2 .. Top
      BY <1>1, <2>2
    <3>2. TableSize(tables[Top]) >= 2 * TableSize(tables[1])
      BY <3>1 DEF RoomInv, NewTablesLarge
    <3> QED
      BY <1>3, <3>2
  <2> QED
    BY <2>1, <2>2
<1>11. TableSize(new) >= 2 * TableSize(tables[1])
  BY <1>3, <1>5, <1>10
<1>12. ASSUME NEW l \in 2 .. Top'
       PROVE  TableSize(tables'[l]) >= 2 * TableSize(tables'[1])
  <2>1. CASE l = Top + 1
    BY <1>7, <1>8, <1>11, <2>1
  <2>2. CASE l # Top + 1
    <3>1. l \in 2 .. Top /\ l \in 1 .. Top
      BY <1>1, <1>7, <2>2
    <3> QED
      BY <1>7, <1>8, <3>1 DEF RoomInv, NewTablesLarge
  <2> QED
    BY <2>1, <2>2
<1> QED
  BY <1>9, <1>12 DEF RoomInv, NewTablesLarge

(* The table that replaces the one of the map is larger than that. *)
LEMMA ReplaceRoom == ASSUME MapInv, RoomInv, Replace PROVE RoomInv'
<1>1. /\ Top \in Nat /\ Top > 1 /\ Len(puts) = Top - 1 /\ Top' = Top - 1
      /\ tables'[Top - 1] = tables[Top]
      /\ \A l \in 1 .. Top - 2 : tables'[l] = tables[l]
  BY Replaces
<1>2. AllEntries' = AllEntries
  <2>1. \E k : k \in Keys
    <3>1. puts \in Seq(Entries) /\ 1 \in 1 .. Len(puts)
      BY <1>1 DEF MapInv, MapTypeOK
    <3>2. puts[1] \in Entries
      BY <3>1
    <3> QED
      BY <3>2 DEF Entries
  <2> QED
    BY <2>1, MovesKeepEntries
<1>3. 1 \in 1 .. Top /\ Top \in 1 .. Top /\ Top \in 2 .. Top
  BY <1>1
<1>4. TableSize(tables[1]) \in Nat /\ TableSize(tables[Top]) \in Nat
  BY <1>3, SizesAre
<1>5. TableSize(tables[Top]) >= 2 * TableSize(tables[1])
  BY <1>3 DEF RoomInv, NewTablesLarge
<1>6. /\ IsFiniteSet(AllEntries) /\ Cardinality(AllEntries) \in Nat
      /\ Cardinality(AllEntries) <= TableSize(tables[1])
  BY <1>1, FS_CardinalityType DEF RoomInv, FewEntries
<1>7. CASE Top = 2
  <2>1. Top' = 1 /\ tables'[1] = tables[Top]
    BY <1>1, <1>7
  <2>2. Cardinality(AllEntries) <= TableSize(tables[Top])
    BY <1>4, <1>5, <1>6
  <2> QED
    BY <1>2, <1>6, <2>1, <2>2 DEF RoomInv, FewEntries, NewTablesLarge
<1>8. CASE Top > 2
  <2>1. tables'[1] = tables[1]
    BY <1>1, <1>8
  <2>2. FewEntries'
    BY <1>2, <1>6, <2>1 DEF FewEntries
  <2>3. ASSUME NEW l \in 2 .. Top'
        PROVE  TableSize(tables'[l]) >= 2 * TableSize(tables'[1])
    <3>1. CASE l = Top - 1
      BY <1>1, <1>5, <2>1, <3>1
    <3>2. CASE l # Top - 1
      <4>1. l \in 1 .. Top - 2 /\ l \in 2 .. Top
        BY <1>1, <3>2
      <4> QED
        BY <1>1, <2>1, <4>1 DEF RoomInv, NewTablesLarge
    <3> QED
      BY <3>1, <3>2
  <2> QED
    BY <2>2, <2>3 DEF RoomInv, NewTablesLarge
<1> QED
  BY <1>1, <1>7, <1>8

LEMMA PutFailsRoom == ASSUME MapInv, RoomInv, PutFails PROVE RoomInv'
<1>1. Top \in Nat /\ Top > 0 /\ 1 \in 1 .. Top
  BY DEF PutFails, Probing, MapInv, MapTypeOK, Top
<1>2. tables' = <<tables[1]>>
  BY DEF PutFails
<1>3. Top' = 1 /\ tables'[1] = tables[1]
  BY <1>2 DEF Top
<1>4. \A l \in 1 .. Top' : l = 1
  BY <1>3
<1>5. AllEntries' \subseteq AllEntries
  BY <1>1, <1>3, <1>4 DEF AllEntries
<1>6. TableSize(tables[1]) \in Nat /\ TableSize(tables'[1]) = TableSize(tables[1])
  BY <1>1, <1>3, SizesAre
<1> QED
  BY <1>1, <1>3, <1>5, <1>6, FewerEntries

LEMMA RemoveRoom == ASSUME MapInv, RoomInv, NEW k \in Keys, Remove(k) PROVE RoomInv'
<1>1. Top = 1 /\ Top' = 1
  BY Removes
<1>2. AllEntries = EntriesIn(tables[1]) /\ AllEntries' = EntriesIn(tables'[1])
  BY <1>1 DEF AllEntries
<1>3. AllEntries' \subseteq AllEntries
  BY <1>2, Removes
<1>4. \E i : tables' = <<Blank(tables[1], i)>>
  BY DEF Remove
<1>5. TableSize(tables'[1]) = TableSize(tables[1])
  BY <1>4, SizeStays
<1>6. TableSize(tables[1]) \in Nat
  BY <1>1, SizesAre
<1> QED
  BY <1>1, <1>3, <1>5, <1>6, FewerEntries

LEMMA DestroyRoom == ASSUME IterateAndDestroy PROVE RoomInv'
<1>1. tables' = <<>>
  BY DEF IterateAndDestroy
<1>2. Top' = 0
  BY <1>1 DEF Top
<1>3. AllEntries' = {}
  BY <1>2 DEF AllEntries
<1> QED
  BY <1>2, <1>3, FS_EmptySet DEF RoomInv, FewEntries, NewTablesLarge

LEMMA NextRoom == MapInv /\ RoomInv /\ [Next]_vars => RoomInv'
<1> SUFFICES ASSUME MapInv, RoomInv, [Next]_vars PROVE RoomInv'
  OBVIOUS
<1>a. Top \in Nat
  BY DEF MapInv, MapTypeOK, Top
<1>1. CASE \/ \E k \in Keys : Put(k)
           \/ Move \/ UNCHANGED vars
  <2>1. tables' = tables
    BY <1>1 DEF Put, Move, vars
  <2>2. AllEntries' = AllEntries /\ Top' = Top
    BY <2>1 DEF AllEntries, Top
  <2> QED
    BY <1>a, <2>1, <2>2, SameRoom
<1>2. CASE PutPlaces
  <2>1. Top > 0
    BY <1>2 DEF PutPlaces, Probing
  <2>2. Top = 1 \/ Top > 1
    BY <1>a, <2>1
  <2> QED
    BY <1>2, <2>2, PlacesLastRoom, PlacesMovedRoom
<1> QED
  BY <1>1, <1>2, GrowRoom, ReplaceRoom, PutFailsRoom, RemoveRoom, DestroyRoom DEF Next

(* Whatever the hash function, however short the chains, and however deep   *)
(* hashmap_put nests while tables grow into one another: no table being     *)
(* filled is ever more than half full, and none overflows.                  *)
THEOREM NewTablesHaveRoomCorrect == Spec => []NewTablesHaveRoom
<1>1. MapInv /\ RoomInv => NewTablesHaveRoom
  <2> SUFFICES ASSUME MapInv, RoomInv, NEW l \in 1 .. Top
               PROVE  /\ tables[l].size <= TableSize(tables[l])
                      /\ l > 1 => 2 * tables[l].size <= TableSize(tables[l])
    BY DEF NewTablesHaveRoom
  <2>1. Top \in Nat /\ Top > 0 /\ 1 \in 1 .. Top
    BY DEF MapInv, MapTypeOK, Top
  <2>2. TableSize(tables[1]) \in Nat /\ TableSize(tables[l]) \in Nat
    BY <2>1, SizesAre
  <2>3. /\ IsFiniteSet(EntriesIn(tables[l])) /\ tables[l].size \in Nat
        /\ Cardinality(EntriesIn(tables[l])) = tables[l].size
    BY EntriesCounted DEF MapInv, AllSound
  <2>4. EntriesIn(tables[l]) \in SUBSET AllEntries
    BY DEF AllEntries
  <2>5. /\ IsFiniteSet(AllEntries)
        /\ Cardinality(AllEntries) <= TableSize(tables[1])
    BY <2>1 DEF RoomInv, FewEntries
  <2>6. Cardinality(EntriesIn(tables[l])) <= Cardinality(AllEntries)
    BY <2>4, <2>5, FS_Subset
  <2>7. Cardinality(AllEntries) \in Nat
    BY <2>5, FS_CardinalityType
  <2>8. tables[l].size <= TableSize(tables[1])
    BY <2>2, <2>3, <2>5, <2>6, <2>7
  <2>9. CASE l = 1
    BY <2>8, <2>9
  <2>10. CASE l # 1
    <3>1. l \in 2 .. Top
      BY <2>1, <2>10
    <3>2. TableSize(tables[l]) >= 2 * TableSize(tables[1])
      BY <3>1 DEF RoomInv, NewTablesLarge
    <3> QED
      BY <2>2, <2>3, <2>8, <3>2
  <2> QED
    BY <2>9, <2>10
<1> QED
  BY <1>1, InitRoom, NextRoom, MapInvariant, PTL DEF Spec
=============================================================================
