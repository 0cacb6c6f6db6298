--------------------------- MODULE LibraryProofs ---------------------------
(* Map<K, V> of HashMap, on the lemmas of TableProofs: a value follows its *)
(* key through every rebuild, and find, add, remove and every              *)
(* bulk operation do to the entries what their names say.  Then Arr and    *)
(* Str of Buffers: they hold their sequences through every change of their *)
(* memory, and what is looked for, split, joined or replaced in a string   *)
(* is what its text says.                                                  *)
EXTENDS HashMap, Buffers, TableProofs, SequenceTheorems

IsMap(m) == /\ m = [keys |-> m.keys, values |-> m.values]
            /\ m.values \in [Slots(m.keys) -> Value \cup {None}]

(* A slot has a value exactly if it has a key. *)
Valued(m) == \A i \in Slots(m.keys) :
                IF i \in Occupied(m.keys) THEN m.values[i] \in Value
                                          ELSE m.values[i] = None

MapOK(m) == IsMap(m) /\ TableInv(m.keys) /\ Valued(m)

(* g holds the entries of m: the slot-free view of a map. *)
Stores(m, g) == /\ g \in [Keys(m) -> Value]
                /\ \A i \in Occupied(m.keys) : g[m.keys.data[i]] = m.values[i]

LEMMA ContentsStored ==
  ASSUME NEW m, MapOK(m)
  PROVE  Stores(m, Contents(m))
<1> DEFINE g == Contents(m)
           Slot(k) == CHOOSE i \in Occupied(m.keys) : m.keys.data[i] = k
<1>1. ASSUME NEW i \in Occupied(m.keys)
      PROVE  Slot(m.keys.data[i]) = i
  BY DEF MapOK, TableInv, Distinct
<1>2. \A k \in Keys(m) : \E i \in Occupied(m.keys) : m.keys.data[i] = k
  BY DEF Keys, Members
<1>3. \A k \in Keys(m) : Slot(k) \in Occupied(m.keys)
  BY <1>2
<1>4. \A i \in Occupied(m.keys) : m.values[i] \in Value
  BY DEF MapOK, Valued, Occupied
<1>5. \A i \in Occupied(m.keys) : m.keys.data[i] \in Keys(m)
  BY DEF Keys, Members
<1>6. g = [k \in Keys(m) |-> m.values[Slot(k)]]
  BY DEF Contents
<1> HIDE DEF Slot, g
<1>7. g \in [Keys(m) -> Value]
  BY <1>3, <1>4, <1>6
<1>8. \A i \in Occupied(m.keys) : g[m.keys.data[i]] = m.values[i]
  BY <1>1, <1>5, <1>6
<1> QED BY <1>7, <1>8 DEF Stores, g

(* The entries are determined by the slots. *)
LEMMA ContentsUnique ==
  ASSUME NEW m, MapOK(m), NEW g, Stores(m, g)
  PROVE  Contents(m) = g
<1>1. Stores(m, Contents(m))
  BY ContentsStored
<1>2. \A k \in Keys(m) : Contents(m)[k] = g[k]
  BY <1>1 DEF Stores, Keys, Members
<1> QED BY <1>1, <1>2 DEF Stores

Single(e) == [k \in {e.key} |-> e.value]

(* g is f, a function on K, with the entry e. *)
WithOne(g, K, f, e, replace) ==
    /\ g \in [K \cup {e.key} -> Value]
    /\ \A k \in K : k # e.key => g[k] = f[k]
    /\ g[e.key] = IF e.key \in K /\ ~replace THEN f[e.key] ELSE e.value
    /\ e.key \in K /\ ~replace => g = f

LEMMA MergedWithOne ==
  ASSUME NEW K, NEW f \in [K -> Value], NEW e \in Entry, NEW replace \in BOOLEAN
  PROVE  WithOne(Merged(f, Single(e), replace), K, f, e, replace)
<1> USE DEF WithOne
<1>1. e.key \in Item /\ e.value \in Value
  BY DEF Entry
<1>2. CASE replace
  BY <1>1, <1>2 DEF Merged, Over, Single
<1>3. CASE ~replace
  BY <1>1, <1>3 DEF Merged, Over, Single
<1> QED BY <1>2, <1>3

(* uncheckedAdd of map.h: u is m with the entry e. *)
LEMMA PutEntryKeeps ==
  ASSUME HashesOK, NEW m, MapOK(m), NEW e \in Entry, NEW replace \in BOOLEAN,
         m.keys.count + m.keys.deleted + 1 < m.keys.size
  PROVE  LET u == PutEntry(m, e, replace)
         IN  /\ MapOK(u)
             /\ Contents(u) = Merged(Contents(m), Single(e), replace)
             /\ Added(m.keys, e.key, u.keys, Place(m.keys, e.key))
<1> DEFINE t == m.keys
           u == PutEntry(m, e, replace)
           p == Place(t, e.key)
           f == Contents(m)
           g == Merged(f, Single(e), replace)
<1>1. TableInv(t) /\ e.key \in Item /\ e.value \in Value
  BY DEF MapOK, Entry
<1>2. Stores(m, f)
  BY ContentsStored
<1>3. /\ g \in [Keys(m) \cup {e.key} -> Value]
      /\ \A k \in Keys(m) : k # e.key => g[k] = f[k]
      /\ g[e.key] = IF e.key \in Keys(m) /\ ~replace THEN f[e.key] ELSE e.value
      /\ e.key \in Keys(m) /\ ~replace => g = f
  <2> HIDE DEF f
  <2>1. f \in [Keys(m) -> Value]
    BY <1>2 DEF Stores
  <2>2. WithOne(g, Keys(m), f, e, replace)
    BY <2>1, MergedWithOne
  <2> HIDE DEF g
  <2> QED BY <2>2 DEF WithOne
<1>4. Added(t, e.key, uncheckedAdd(t, e.key), p)
  BY <1>1, AddKeeps
<1>5. Holds(m, e.key) <=> e.key \in Keys(m)
  BY <1>1, SearchFinds DEF Holds, Keys
<1> HIDE DEF p, f, g
<1>6. CASE Holds(m, e.key) /\ ~replace
  <2>1. u = m
    BY <1>6 DEF PutEntry
  <2>2. uncheckedAdd(t, e.key) = t
    BY <1>4, <1>5, <1>6 DEF Added, Keys
  <2> QED BY <1>3, <1>4, <1>5, <1>6, <2>1, <2>2 DEF f, g, p
<1>7. CASE ~(Holds(m, e.key) /\ ~replace)
  <2> DEFINE w == uncheckedAdd(t, e.key)
  <2>1. u = [keys |-> w, values |-> [m.values EXCEPT ![p] = e.value]]
    BY <1>7 DEF PutEntry, p
  <2> HIDE DEF u, w
  <2>2. u.keys = w /\ u.values = [m.values EXCEPT ![p] = e.value]
    BY <2>1
  <2>3. /\ TableInv(w) /\ w.size = t.size /\ Members(w) = Members(t) \cup {e.key}
        /\ p \in Slots(t) /\ Occupied(w) = Occupied(t) \cup {p}
        /\ w.data[p] = e.key
        /\ \A j \in Occupied(t) : w.data[j] = t.data[j]
    BY <1>4 DEF Added, w
  <2>4. Slots(w) = Slots(t)
    BY <2>3 DEF Slots
  <2>5. m.values \in [Slots(t) -> Value \cup {None}]
    BY DEF MapOK, IsMap
  <2>6. /\ u.values \in [Slots(t) -> Value \cup {None}]
        /\ u.values[p] = e.value
        /\ \A j \in Slots(t) : j # p => u.values[j] = m.values[j]
    BY <1>1, <2>2, <2>3, <2>5
  <2>7. IsMap(u)
    BY <2>1, <2>2, <2>4, <2>6 DEF IsMap
  <2>8. Valued(u)
    BY <1>1, <2>2, <2>3, <2>4, <2>6 DEF Valued, MapOK
  <2>9. MapOK(u)
    BY <2>2, <2>3, <2>7, <2>8 DEF MapOK
  <2>10. Stores(u, g)
    <3>1. Keys(u) = Keys(m) \cup {e.key} /\ g \in [Keys(u) -> Value]
      BY <1>3, <2>2, <2>3 DEF Keys
    <3>2. g[e.key] = e.value
      BY <1>3, <1>5, <1>7
    <3>3. ASSUME NEW j \in Occupied(t), j # p
          PROVE  g[w.data[j]] = u.values[j]
      <4>1. j \in Occupied(w) /\ w.data[j] = t.data[j] /\ j \in Slots(t)
        BY <2>3 DEF Occupied
      <4>2. w.data[j] # e.key
        BY <2>3, <3>3, <4>1 DEF TableInv, Distinct
      <4>3. t.data[j] \in Keys(m) /\ f[t.data[j]] = m.values[j]
        BY <1>2 DEF Stores, Keys, Members
      <4> QED BY <1>3, <2>6, <3>3, <4>1, <4>2, <4>3
    <3>4. \A j \in Occupied(w) : g[w.data[j]] = u.values[j]
      BY <2>3, <2>6, <3>2, <3>3
    <3> QED BY <2>2, <3>1, <3>4 DEF Stores
  <2>11. Contents(u) = g
    BY <2>9, <2>10, ContentsUnique
  <2> QED BY <1>4, <2>2, <2>9, <2>11 DEF f, g, p, u, w
<1> QED BY <1>6, <1>7

-----------------------------------------------------------------------------
(* rebuild and add. *)

LEMMA EmptyMap ==
  ASSUME NEW s \in Sizes
  PROVE  /\ MapOK(resize(s)) /\ resize(s).keys = Empty(s)
         /\ Keys(resize(s)) = {} /\ DOMAIN Contents(resize(s)) = {}
<1> DEFINE m == resize(s)
<1>1. m.keys = Empty(s) /\ m.values = [i \in 0 .. s - 1 |-> None]
  BY DEF resize
<1>2. m = [keys |-> m.keys, values |-> m.values]
  BY DEF resize
<1> HIDE DEF m
<1>3. TableInv(m.keys) /\ Occupied(m.keys) = {} /\ Members(m.keys) = {} /\ m.keys.size = s
  BY <1>1, EmptyKeeps
<1>4. IsMap(m) /\ Valued(m)
  BY <1>1, <1>2, <1>3 DEF IsMap, Valued, Slots
<1> QED BY <1>1, <1>3, <1>4 DEF MapOK, Keys, Contents, m

LEMMA EntryAtSlot ==
  ASSUME NEW m, MapOK(m), NEW i \in Occupied(m.keys)
  PROVE  /\ EntryAt(m, i) \in Entry
         /\ EntryAt(m, i).key = m.keys.data[i]
         /\ EntryAt(m, i).value = m.values[i]
         /\ m.keys.data[i] \in Keys(m)
         /\ Contents(m)[m.keys.data[i]] = m.values[i]
<1>1. m.keys.data[i] \in Item
  BY DEF MapOK, TableInv, Tagged
<1>2. m.values[i] \in Value
  BY DEF MapOK, Valued, Occupied
<1>3. Stores(m, Contents(m))
  BY ContentsStored
<1> QED BY <1>1, <1>2, <1>3 DEF EntryAt, Entry, Stores, Keys, Members

(* The entries of f for the keys in K. *)
Part(f, K) == [k \in K |-> f[k]]

(* e is the entry of f for a key that is not in J. *)
NextPart(f, J, e) == e.key \notin J /\ e.value = f[e.key]

LEMMA PartGrows ==
  ASSUME NEW f, NEW J, NEW e, NextPart(f, J, e)
  PROVE  Merged(Part(f, J), Single(e), FALSE) = Part(f, J \cup {e.key})
BY DEF Merged, Over, Single, Part, NextPart

(* Every entry moves with its value. *)
LEMMA RebuildMapKeeps ==
  ASSUME HashesOK, NEW m, MapOK(m)
  PROVE  /\ MapOK(Rebuild(m))
         /\ Contents(Rebuild(m)) = Contents(m)
         /\ Rebuild(m).keys.size = newsize(m.keys)
         /\ Rebuild(m).keys.count = m.keys.count
         /\ Rebuild(m).keys.deleted = 0
<1> DEFINE t == m.keys
           N == t.size
           E == resize(newsize(t))
           Step(v, i) == IF i - 1 \in Occupied(t)
                         THEN PutEntry(v, EntryAt(m, i - 1), FALSE) ELSE v
           Is(f, n) == f = [i \in 0 .. n |-> IF i = 0 THEN E ELSE Step(f[i - 1], i)]
<1>1. N \in Nat /\ TableInv(t)
  BY SizesArePowers DEF MapOK, TableInv, IsTable, TableOK
<1>2. \A n \in Nat : \E f : Is(f, n)
  <2> HIDE DEF Step, E
  <2> DEFINE S == {n \in Nat : \E f : Is(f, n)}
  <2>1. 0 \in S
    <3>1. Is([i \in 0 .. 0 |-> E], 0)
      OBVIOUS
    <3> QED BY <3>1
  <2>2. ASSUME NEW n \in Nat, n \in S PROVE n + 1 \in S
    <3>1. PICK f : Is(f, n)
      BY <2>2
    <3> DEFINE g == [i \in 0 .. n + 1 |-> IF i <= n THEN f[i] ELSE Step(f[n], i)]
    <3>2. Is(g, n + 1)
      BY <3>1
    <3> HIDE DEF Is
    <3> QED BY <3>2
  <2> HIDE DEF S
  <2>3. \A n \in Nat : n \in S
    BY <2>1, <2>2, NatInd
  <2> QED BY <2>3 DEF S
<1>3. PICK new : Is(new, N) /\ Rebuild(m) = new[N]
  <2> DEFINE new == CHOOSE f : Is(f, N)
  <2>1. Rebuild(m) = new[N]
    BY DEF Rebuild
  <2> HIDE DEF Is
  <2>2. Is(new, N)
    BY <1>1, <1>2
  <2> QED BY <2>1, <2>2
<1> DEFINE OK(v, i) == /\ MapOK(v)
                       /\ Contents(v) = Part(Contents(m), Before(t, i))
                       /\ Keys(v) = Before(t, i)
                       /\ v.keys.size = newsize(t) /\ v.keys.deleted = 0
<1>4. /\ newsize(t) \in Sizes /\ newsize(t) \in Nat /\ newsize(t) >= 4
      /\ 2 * t.count <= newsize(t) /\ t.count \in Nat
      /\ t.count = Cardinality(Members(t))
      /\ Members(t) \subseteq Item /\ IsFiniteSet(Members(t))
  <2>1. /\ t.count \in Nat /\ t.count <= Cardinality(Item)
        /\ t.count = Cardinality(Members(t)) /\ Members(t) \subseteq Item
    BY <1>1, MembersCounted
  <2>2. newsize(t) \in Sizes /\ 2 * t.count <= newsize(t)
    BY <2>1, NewSize
  <2>3. newsize(t) \in Nat /\ newsize(t) >= 4
    BY <2>2, SizesArePowers
  <2>4. IsFiniteSet(Members(t))
    BY <2>1, FS_Subset, ItemAssumption
  <2> QED BY <2>1, <2>2, <2>3, <2>4
<1>5. OK(E, 0)
  <2>1. MapOK(E) /\ E.keys = Empty(newsize(t)) /\ Keys(E) = {}
    BY <1>4, EmptyMap
  <2>2. Before(t, 0) = {}
    BY <1>1, BeforeGrows
  <2>3. Stores(E, Part(Contents(m), {}))
    BY <1>4, <2>1, EmptyKeeps DEF Stores, Part
  <2>4. Contents(E) = Part(Contents(m), {})
    BY <2>1, <2>3, ContentsUnique
  <2>5. E.keys.size = newsize(t) /\ E.keys.deleted = 0
    BY <1>4, <2>1, EmptyKeeps
  <2> QED BY <2>1, <2>2, <2>4, <2>5
<1>6. ASSUME NEW i \in Nat, NEW v, OK(v, i), i < N
      PROVE  OK(Step(v, i + 1), i + 1)
  <2> DEFINE e == EntryAt(m, i)
  <2>1. Step(v, i + 1) = IF i \in Occupied(t) THEN PutEntry(v, e, FALSE) ELSE v
    <3>1. (i + 1) - 1 = i
      OBVIOUS
    <3> QED BY <3>1
  <2>2. CASE i \notin Occupied(t)
    <3>1. Before(t, i + 1) = Before(t, i)
      BY <1>1, <2>2, BeforeGrows
    <3>2. Step(v, i + 1) = v
      BY <2>1, <2>2
    <3> HIDE DEF Step
    <3> QED BY <1>6, <3>1, <3>2
  <2>3. CASE i \in Occupied(t)
    <3> DEFINE x == t.data[i]
               w == v.keys
    <3>0. /\ e \in Entry /\ e.key = x /\ e.value = Contents(m)[x]
          /\ Contents(m) \in [Keys(m) -> Value]
      BY <2>3, EntryAtSlot, ContentsStored DEF Stores
    <3>1. /\ Before(t, i + 1) = Before(t, i) \cup {x}
          /\ x \in Members(t) \ Before(t, i) /\ Before(t, i) \subseteq Members(t)
      BY <1>1, <2>3, BeforeGrows
    <3>2. TableInv(w) /\ x \in Item /\ x \notin Members(w) /\ Members(w) = Before(t, i)
      BY <1>4, <1>6, <3>1 DEF MapOK, Keys
    <3>3. w.count < t.count
      <4>1. w.count = Cardinality(Members(w)) /\ w.count \in Nat
        BY <3>2, MembersCounted
      <4>2. Members(w) \in SUBSET (Members(t) \ {x})
        BY <3>1, <3>2
      <4>3. /\ IsFiniteSet(Members(t) \ {x})
            /\ Cardinality(Members(t) \ {x}) = t.count - 1
        <5> HIDE DEF x
        <5> QED BY <1>4, <3>1, FS_RemoveElement
      <4>4. Cardinality(Members(w)) <= t.count - 1
        BY <4>2, <4>3, FS_Subset
      <4> QED BY <1>4, <4>1, <4>4
    <3>4. w.count + w.deleted + 1 < w.size
      <4>1. w.count \in Nat /\ w.deleted = 0 /\ w.size = newsize(t)
        BY <1>6, <3>2, MembersCounted
      <4> QED BY <1>4, <3>3, <4>1
    <3> DEFINE u == PutEntry(v, e, FALSE)
    <3> HIDE DEF e
    <3>5. /\ MapOK(u)
          /\ Contents(u) = Merged(Contents(v), Single(e), FALSE)
          /\ Added(w, e.key, u.keys, Place(w, e.key))
      BY <1>6, <3>0, <3>4, PutEntryKeeps
    <3>6. Step(v, i + 1) = u
      BY <2>1, <2>3 DEF e
    <3> HIDE DEF Step, u
    <3>7. Contents(u) = Part(Contents(m), Before(t, i + 1))
      <4> DEFINE g == Contents(m)
                 J == Before(t, i)
      <4>1. NextPart(g, J, e)
        BY <3>0, <3>1 DEF NextPart
      <4> HIDE DEF g, J
      <4>3. Merged(Part(g, J), Single(e), FALSE) = Part(g, J \cup {e.key})
        BY <4>1, PartGrows
      <4>4. J \cup {e.key} = Before(t, i + 1)
        BY <3>0, <3>1 DEF J
      <4>5. Contents(v) = Part(g, J)
        BY <1>6 DEF g, J
      <4> QED BY <3>5, <4>3, <4>4, <4>5 DEF g
    <3>8. /\ u.keys.size = w.size /\ Members(u.keys) = Members(w) \cup {x}
          /\ u.keys.deleted \in {0, 0 - 1} /\ TableInv(u.keys)
      BY <1>6, <3>0, <3>2, <3>5 DEF Added
    <3>9. u.keys.deleted = 0
      BY <3>8 DEF TableInv, IsTable, TableOK
    <3>10. Keys(u) = Before(t, i + 1)
      BY <3>1, <3>2, <3>8 DEF Keys
    <3> QED BY <1>6, <3>5, <3>6, <3>7, <3>8, <3>9, <3>10
  <2> QED BY <2>2, <2>3
<1>7. \A i \in Nat : i <= N => OK(new[i], i)
  <2> HIDE DEF OK, Step, E
  <2> DEFINE S == {i \in Nat : i <= N => OK(new[i], i)}
  <2>1. new[0] = E /\ \A i \in Nat : i < N => new[i + 1] = Step(new[i], i + 1)
    BY <1>1, <1>3
  <2>2. 0 \in S
    BY <1>5, <2>1
  <2>3. ASSUME NEW i \in Nat, i \in S PROVE i + 1 \in S
    <3> SUFFICES ASSUME i + 1 <= N PROVE OK(new[i + 1], i + 1)
      OBVIOUS
    <3>1. i < N /\ OK(new[i], i)
      BY <1>1, <2>3
    <3> QED BY <1>6, <2>1, <3>1
  <2> HIDE DEF S
  <2>4. \A i \in Nat : i \in S
    BY <2>2, <2>3, NatInd
  <2> QED BY <2>4 DEF S
<1> DEFINE r == Rebuild(m)
<1>8. OK(r, N)
  <2>1. r = new[N]
    BY <1>3
  <2> HIDE DEF OK, r
  <2>2. OK(new[N], N)
    BY <1>1, <1>7
  <2> QED BY <2>1, <2>2
<1> HIDE DEF r
<1>9. Before(t, N) = Members(t)
  BY <1>1, BeforeGrows
<1>10. Contents(r) = Contents(m)
  <2>1. Contents(m) \in [Keys(m) -> Value]
    BY ContentsStored DEF Stores
  <2>2. Contents(r) = Part(Contents(m), Keys(m))
    BY <1>8, <1>9 DEF Keys
  <2> QED BY <2>1, <2>2 DEF Part
<1>11. r.keys.count = t.count
  <2>1. TableInv(r.keys) /\ Members(r.keys) = Members(t)
    BY <1>8, <1>9 DEF MapOK, Keys
  <2>2. r.keys.count = Cardinality(Members(t))
    BY <2>1, MembersCounted
  <2> QED BY <1>4, <2>2
<1> QED BY <1>8, <1>10, <1>11 DEF r

(* A map between two calls. *)
MapGood(m) == MapOK(m) /\ Snug(m.keys)

LEMMA AddEntryKeeps ==
  ASSUME HashesOK, NEW m, MapGood(m), NEW e \in Entry, NEW replace \in BOOLEAN
  PROVE  /\ MapGood(add(m, e, replace))
         /\ Contents(add(m, e, replace))
              = Merged(Contents(m), Single(e), replace)
<1> DEFINE v == IF Full(m.keys) THEN Rebuild(m) ELSE m
<1>1. MapOK(m) /\ TableInv(m.keys) /\ Snug(m.keys)
  BY DEF MapGood, MapOK
<1>2. /\ MapOK(v) /\ Contents(v) = Contents(m) /\ Snug(v.keys)
      /\ v.keys.count + v.keys.deleted + 1 < v.keys.size
  <2>1. CASE Full(m.keys)
    <3>1. /\ MapOK(Rebuild(m)) /\ Contents(Rebuild(m)) = Contents(m)
          /\ Rebuild(m).keys.size = newsize(m.keys)
          /\ Rebuild(m).keys.count = m.keys.count
          /\ Rebuild(m).keys.deleted = 0
      BY <1>1, RebuildMapKeeps
    <3>2. /\ Rebuild(m).keys.count + Rebuild(m).keys.deleted + 1 < Rebuild(m).keys.size
          /\ Snug(Rebuild(m).keys)
      BY <1>1, <3>1, RebuiltHasRoom
    <3> QED BY <2>1, <3>1, <3>2
  <2>2. CASE ~Full(m.keys)
    <3>1. MakeRoom(m.keys) = m.keys
      BY <2>2 DEF MakeRoom
    <3>2. m.keys.count + m.keys.deleted + 1 < m.keys.size
      BY <1>1, <3>1, MakeRoomKeeps
    <3> QED BY <1>1, <2>2, <3>2
  <2> QED BY <2>1, <2>2
<1> DEFINE u == PutEntry(v, e, replace)
<1>3. add(m, e, replace) = u
  BY DEF add
<1> HIDE DEF v
<1>4. /\ MapOK(u)
      /\ Contents(u) = Merged(Contents(v), Single(e), replace)
      /\ Added(v.keys, e.key, u.keys, Place(v.keys, e.key))
  BY <1>2, PutEntryKeeps
<1> HIDE DEF u
<1>5. Snug(u.keys)
  <2>1. TableInv(v.keys) /\ TableInv(u.keys) /\ u.keys.size = v.keys.size
    BY <1>2, <1>4 DEF MapOK, Added
  <2>2. \/ u.keys = v.keys
        \/ /\ u.keys.count = v.keys.count + 1
           /\ u.keys.deleted \in {v.keys.deleted, v.keys.deleted - 1}
    BY <1>4 DEF Added
  <2> QED BY <1>2, <2>1, <2>2, SnugAfter
<1> QED BY <1>2, <1>3, <1>4, <1>5 DEF MapGood

(* find answers with the value of the key. *)
LEMMA FindAnswers ==
  ASSUME HashesOK, NEW m, MapOK(m), NEW k \in Item
  PROVE  find(m, k) = IF k \in Keys(m) THEN Contents(m)[k] ELSE None
<1>1. TableInv(m.keys)
  BY DEF MapOK
<1>2. Holds(m, k) <=> k \in Keys(m)
  BY <1>1, SearchFinds DEF Holds, Keys
<1>3. ASSUME Holds(m, k)
      PROVE  Contents(m)[k] = m.values[StopSlot(m.keys, k)]
  <2>1. StopSlot(m.keys, k) \in Occupied(m.keys) /\ m.keys.data[StopSlot(m.keys, k)] = k
    BY <1>1, <1>3, SearchFinds DEF Holds
  <2> QED BY <2>1, ContentsStored DEF Stores
<1> QED BY <1>2, <1>3 DEF find

LEMMA RemoveEntryKeeps ==
  ASSUME HashesOK, NEW m, MapGood(m), NEW k \in Item
  PROVE  /\ MapGood(remove(m, k))
         /\ Contents(remove(m, k)) = Dropped(Contents(m), {k})
<1> DEFINE t == m.keys
           i == StopSlot(t, k)
           c == Cleared(t, i)
           l == ClearedEntry(m, i)
           g == Dropped(Contents(m), {k})
<1>1. MapOK(m) /\ TableInv(t) /\ Snug(t)
  BY DEF MapGood, MapOK
<1>2. Holds(m, k) <=> k \in Keys(m)
  BY <1>1, SearchFinds DEF Holds, Keys
<1>3. Contents(m) \in [Keys(m) -> Value]
  BY <1>1, ContentsStored DEF Stores
<1>4. g = [x \in Keys(m) \ {k} |-> Contents(m)[x]]
  BY <1>3 DEF Dropped
<1>5. CASE ~Holds(m, k)
  <2>1. remove(m, k) = m
    BY <1>5 DEF remove
  <2>2. g = Contents(m)
    BY <1>2, <1>3, <1>4, <1>5
  <2> QED BY <2>1, <2>2
<1>6. CASE Holds(m, k)
  <2>1. i \in Occupied(t) /\ t.data[i] = k
    BY <1>1, <1>6, SearchFinds DEF Holds
  <2> HIDE DEF i
  <2>2. /\ TableInv(c) /\ Occupied(c) = Occupied(t) \ {i}
        /\ Members(c) = Members(t) \ {k} /\ c.size = t.size
        /\ \A j \in Occupied(t) \ {i} : c.data[j] = t.data[j]
        /\ t.count > 0 /\ c.count = t.count - 1 /\ c.deleted = t.deleted + 1
    BY <1>1, <2>1, ClearedKeeps
  <2> HIDE DEF c
  <2>3. l.keys = c /\ l.values = [m.values EXCEPT ![i] = None]
        /\ l = [keys |-> l.keys, values |-> l.values]
    BY DEF ClearedEntry, c
  <2> HIDE DEF l
  <2>4. MapOK(l)
    <3>1. Slots(c) = Slots(t) /\ i \in Slots(t)
      BY <2>1, <2>2 DEF Slots, Occupied
    <3>2. m.values \in [Slots(t) -> Value \cup {None}]
      BY <1>1 DEF MapOK, IsMap
    <3>3. IsMap(l)
      BY <2>3, <3>1, <3>2 DEF IsMap
    <3>4. Valued(l)
      BY <1>1, <2>2, <2>3, <3>1, <3>2 DEF Valued, MapOK
    <3> QED BY <2>2, <2>3, <3>3, <3>4 DEF MapOK
  <2>5. Stores(l, g)
    <3>1. Keys(l) = Keys(m) \ {k}
      BY <2>2, <2>3 DEF Keys
    <3>2. g \in [Keys(l) -> Value]
      BY <1>3, <1>4, <3>1
    <3>3. ASSUME NEW j \in Occupied(l.keys)
          PROVE  g[l.keys.data[j]] = l.values[j]
      <4>1. j \in Occupied(t) /\ j # i /\ c.data[j] = t.data[j] /\ j \in Slots(t)
        BY <2>2, <2>3, <3>3 DEF Occupied
      <4>2. t.data[j] \in Keys(m) /\ Contents(m)[t.data[j]] = m.values[j]
        BY <1>1, <4>1, EntryAtSlot
      <4>3. t.data[j] # k
        BY <1>1, <2>1, <4>1 DEF TableInv, Distinct
      <4>4. l.values[j] = m.values[j]
        BY <1>1, <2>3, <4>1 DEF MapOK, IsMap
      <4> QED BY <1>4, <2>3, <4>1, <4>2, <4>3, <4>4
    <3> QED BY <3>2, <3>3 DEF Stores
  <2>6. Contents(l) = g
    BY <2>4, <2>5, ContentsUnique
  <2>7. CASE Crowded(c)
    <3> DEFINE r == Rebuild(l)
    <3>1. /\ MapOK(r) /\ Contents(r) = Contents(l)
          /\ r.keys.size = newsize(c) /\ r.keys.count = c.count
          /\ r.keys.deleted = 0
      BY <2>3, <2>4, RebuildMapKeeps
    <3>2. remove(m, k) = r
      BY <1>6, <2>3, <2>7 DEF remove, l, i
    <3> HIDE DEF r
    <3>3. Snug(r.keys)
      BY <2>2, <3>1, RebuiltHasRoom
    <3> QED BY <2>6, <3>1, <3>2, <3>3 DEF MapGood
  <2>8. CASE ~Crowded(c)
    <3>1. t.count \in Nat /\ t.deleted \in Nat /\ t.size \in Nat
      BY <1>1, SizesArePowers DEF TableInv, IsTable, TableOK
    <3>2. Snug(c)
      BY <1>1, <2>2, <2>8, <3>1, MinSizeIsSize DEF Snug, Crowded
    <3>3. remove(m, k) = l
      BY <1>6, <2>3, <2>8 DEF remove, l, i
    <3> QED BY <2>3, <2>4, <2>6, <3>2, <3>3 DEF MapGood
  <2> QED BY <2>7, <2>8
<1> QED BY <1>5, <1>6

-----------------------------------------------------------------------------
(* The operations with a second map, entry by entry. *)

(* g holds the entries of the first n places of es: of a key that comes    *)
(* more than once the first entry, unless later ones replace it.           *)
Collects(g, es, n, replace) ==
    /\ g \in [{es[j].key : j \in 1 .. n} -> Value]
    /\ \A j \in 1 .. n :
          \/ g[es[j].key] = es[j].value
          \/ ~replace /\ \E i \in 1 .. j - 1 : es[i].key = es[j].key
          \/ replace /\ \E i \in j + 1 .. n : es[i].key = es[j].key

LEMMA CollectsOneMore ==
  ASSUME NEW es, NEW n \in Nat, \A j \in 1 .. n + 1 : es[j] \in Entry,
         NEW replace \in BOOLEAN, NEW g, Collects(g, es, n, replace)
  PROVE  Collects(Merged(g, Single(es[n + 1]), replace), es, n + 1, replace)
<1> DEFINE K == {es[j].key : j \in 1 .. n}
           e == es[n + 1]
           h == Merged(g, Single(e), replace)
<1>1. e \in Entry /\ e.key \in Item /\ e.value \in Value
  BY DEF Entry
<1>2. g \in [K -> Value]
  BY DEF Collects
<1>3. {es[j].key : j \in 1 .. n + 1} = K \cup {e.key}
  <2>1. 1 .. n + 1 = (1 .. n) \cup {n + 1}
    OBVIOUS
  <2> QED BY <2>1
<1>4. WithOne(h, K, g, e, replace)
  <2> HIDE DEF K, e
  <2> QED BY <1>1, <1>2, MergedWithOne
<1>5. ASSUME NEW j \in 1 .. n + 1
      PROVE  \/ h[es[j].key] = es[j].value
             \/ ~replace /\ \E i \in 1 .. j - 1 : es[i].key = es[j].key
             \/ replace /\ \E i \in j + 1 .. n + 1 : es[i].key = es[j].key
  <2>1. CASE j = n + 1
    <3>1. CASE e.key \in K /\ ~replace
      <4>1. PICK i \in 1 .. n : es[i].key = e.key
        BY <3>1
      <4>2. i \in 1 .. j - 1 /\ es[i].key = es[j].key
        BY <2>1, <4>1
      <4> QED BY <3>1, <4>2
    <3>2. CASE ~(e.key \in K /\ ~replace)
      <4>1. h[e.key] = e.value
        <5> HIDE DEF h, K, e
        <5> QED BY <1>4, <3>2 DEF WithOne
      <4> HIDE DEF h
      <4> QED BY <2>1, <4>1
    <3> QED BY <3>1, <3>2
  <2>2. CASE j # n + 1 /\ es[j].key = e.key
    <3>1. j \in 1 .. n /\ e.key \in K
      BY <2>2
    <3>2. CASE replace
      <4>1. n + 1 \in j + 1 .. n + 1 /\ es[n + 1].key = es[j].key
        BY <2>2, <3>1
      <4> HIDE DEF h
      <4> QED BY <3>2, <4>1
    <3>3. CASE ~replace
      <4>1. h = g
        <5> HIDE DEF h, K
        <5> QED BY <1>4, <3>1, <3>3 DEF WithOne
      <4> HIDE DEF h
      <4> QED BY <3>1, <3>3, <4>1 DEF Collects
    <3> QED BY <3>2, <3>3
  <2>3. CASE j # n + 1 /\ es[j].key # e.key
    <3>1. j \in 1 .. n /\ es[j].key \in K
      BY <2>3
    <3>2. h[es[j].key] = g[es[j].key]
      <4> HIDE DEF h, K
      <4> QED BY <1>4, <2>3, <3>1 DEF WithOne
    <3>3. \/ g[es[j].key] = es[j].value
          \/ ~replace /\ \E i \in 1 .. j - 1 : es[i].key = es[j].key
          \/ replace /\ \E i \in j + 1 .. n : es[i].key = es[j].key
      BY <3>1 DEF Collects
    <3> HIDE DEF h
    <3> QED BY <3>1, <3>2, <3>3
  <2> QED BY <2>1, <2>2, <2>3
<1>6. h \in [K \cup {e.key} -> Value]
  BY <1>4 DEF WithOne
<1> HIDE DEF h, K
<1>7. h \in [{es[j].key : j \in 1 .. n + 1} -> Value]
  BY <1>3, <1>6
<1> QED BY <1>5, <1>7 DEF Collects, h

(* Merging one by one is merging at once. *)
LEMMA MergedTwice ==
  ASSUME NEW f, NEW g, NEW h, NEW replace \in BOOLEAN
  PROVE  Merged(Merged(f, g, replace), h, replace)
           = Merged(f, Merged(g, h, replace), replace)
<1>1. CASE replace
  BY <1>1 DEF Merged, Over
<1>2. CASE ~replace
  BY <1>2 DEF Merged, Over
<1> QED BY <1>1, <1>2

LEMMA ListItems ==
  ASSUME NEW S, NEW l \in ListsOf(S)
  PROVE  /\ Len(l) \in Nat /\ DOMAIN l = 1 .. Len(l)
         /\ \A n \in 1 .. Len(l) : l[n] \in S
<1>1. PICK n \in 1 .. MaxList : l \in [1 .. n -> S]
  BY DEF ListsOf
<1>2. n \in Nat
  BY <1>1, MaxListAssumption
<1>3. Len(l) = n
  BY <1>1, <1>2
<1> QED BY <1>1, <1>2, <1>3

(* What is collected without replacing, or from a list in which no key     *)
(* comes twice, is the first entry of each key.                            *)
LEMMA CollectsEntries ==
  ASSUME NEW es \in ListsOf(Entry), NEW replace \in BOOLEAN,
         NEW g, Collects(g, es, Len(es), replace),
         ~replace \/ Injective([n \in DOMAIN es |-> es[n].key])
  PROVE  g = Entries(es)
<1> DEFINE N == Len(es)
           K == {es[j].key : j \in 1 .. N}
<1>1. N \in Nat /\ DOMAIN es = 1 .. N
  BY ListItems
<1>2. g \in [K -> Value]
  BY DEF Collects
<1>3. Entries(es) = [k \in K |-> es[FirstEntry(es, k)].value]
  BY <1>1 DEF Entries
<1>4. ASSUME NEW k \in K
      PROVE  g[k] = es[FirstEntry(es, k)].value
  <2> DEFINE f == FirstEntry(es, k)
             S == {n \in 1 .. N : es[n].key = k}
  <2>1. \E n \in S : \A j \in S : n <= j
    <3>1. S # {} /\ S \subseteq Nat
      OBVIOUS
    <3> HIDE DEF S
    <3> QED BY <3>1, LeastIn
  <2>2. f \in 1 .. N /\ es[f].key = k /\ \A j \in 1 .. f - 1 : es[j].key # k
    <3>1. \E n \in 1 .. N : es[n].key = k /\ \A j \in 1 .. n - 1 : es[j].key # k
      BY <1>1, <2>1
    <3> QED BY <1>1, <3>1 DEF FirstEntry
  <2> HIDE DEF f, S
  <2>3. ~(~replace /\ \E i \in 1 .. f - 1 : es[i].key = es[f].key)
    BY <2>2
  <2>4. ~(replace /\ \E i \in f + 1 .. N : es[i].key = es[f].key)
    BY <1>1, <2>2 DEF Injective
  <2>5. g[es[f].key] = es[f].value
    BY <2>2, <2>3, <2>4 DEF Collects
  <2> QED BY <2>2, <2>5 DEF f
<1> HIDE DEF K
<1> QED BY <1>2, <1>3, <1>4

(* union_in_place: all new entries are taken. *)
LEMMA UnionKeeps ==
  ASSUME HashesOK, NEW m, MapGood(m), NEW es \in ListsOf(Entry),
         NEW replace \in BOOLEAN
  PROVE  LET u == union_in_place(m, es, replace)
         IN  /\ MapGood(u)
             /\ \E g : /\ Collects(g, es, Len(es), replace)
                       /\ Contents(u) = Merged(Contents(m), g, replace)
<1> DEFINE N == Len(es)
           E == m
           Step(v, i) == add(v, es[i], replace)
           Is(f, n) == f = [i \in 0 .. n |-> IF i = 0 THEN E ELSE Step(f[i - 1], i)]
<1>1. N \in Nat /\ \A i \in 1 .. N : es[i] \in Entry
  BY ListItems
<1>2. \A n \in Nat : \E f : Is(f, n)
  <2> HIDE DEF Step, E
  <2> DEFINE S == {n \in Nat : \E f : Is(f, n)}
  <2>1. 0 \in S
    <3>1. Is([i \in 0 .. 0 |-> E], 0)
      OBVIOUS
    <3> QED BY <3>1
  <2>2. ASSUME NEW n \in Nat, n \in S PROVE n + 1 \in S
    <3>1. PICK f : Is(f, n)
      BY <2>2
    <3> DEFINE g == [i \in 0 .. n + 1 |-> IF i <= n THEN f[i] ELSE Step(f[n], i)]
    <3>2. Is(g, n + 1)
      BY <3>1
    <3> HIDE DEF Is
    <3> QED BY <3>2
  <2> HIDE DEF S
  <2>3. \A n \in Nat : n \in S
    BY <2>1, <2>2, NatInd
  <2> QED BY <2>3 DEF S
<1>3. PICK new : Is(new, N) /\ union_in_place(m, es, replace) = new[N]
  <2> DEFINE new == CHOOSE f : Is(f, N)
  <2>1. union_in_place(m, es, replace) = new[N]
    BY DEF union_in_place
  <2> HIDE DEF Is
  <2>2. Is(new, N)
    BY <1>1, <1>2
  <2> QED BY <2>1, <2>2
<1> DEFINE Merge(g) == Merged(Contents(m), g, replace)
           OK(v, i) == /\ MapGood(v)
                       /\ \E g : Collects(g, es, i, replace) /\ Contents(v) = Merge(g)
<1>4. OK(E, 0)
  <2> DEFINE g == [k \in {} |-> None]
  <2>1. Collects(g, es, 0, replace)
    BY DEF Collects
  <2>2. Contents(m) \in [Keys(m) -> Value]
    BY ContentsStored DEF MapGood, Stores
  <2>3. Contents(m) = Merge(g)
    BY <2>2 DEF Merged, Over
  <2> HIDE DEF g, Merge
  <2> QED BY <2>1, <2>3
<1>5. ASSUME NEW i \in Nat, NEW v, OK(v, i), i < N
      PROVE  OK(Step(v, i + 1), i + 1)
  <2> DEFINE e == es[i + 1]
             u == add(v, e, replace)
  <2>1. e \in Entry /\ \A j \in 1 .. i + 1 : es[j] \in Entry
    BY <1>1, <1>5
  <2>2. PICK g : Collects(g, es, i, replace) /\ Contents(v) = Merge(g)
    BY <1>5
  <2> DEFINE h == Merged(g, Single(e), replace)
  <2>3. MapGood(u) /\ Contents(u) = Merged(Contents(v), Single(e), replace)
    BY <1>5, <2>1, AddEntryKeeps
  <2>4. Contents(u) = Merge(h)
    BY <2>2, <2>3, MergedTwice
  <2>5. Collects(h, es, i + 1, replace)
    BY <2>1, <2>2, CollectsOneMore
  <2> HIDE DEF h, u, Merge
  <2>6. OK(u, i + 1)
    BY <2>3, <2>4, <2>5
  <2> QED BY <2>6 DEF u
<1>6. OK(new[N], N)
  <2> HIDE DEF OK, Step, E
  <2> DEFINE S == {i \in Nat : i <= N => OK(new[i], i)}
  <2>1. new[0] = E /\ \A i \in Nat : i < N => new[i + 1] = Step(new[i], i + 1)
    BY <1>1, <1>3
  <2>2. 0 \in S
    BY <1>4, <2>1
  <2>3. ASSUME NEW i \in Nat, i \in S PROVE i + 1 \in S
    <3> SUFFICES ASSUME i + 1 <= N PROVE OK(new[i + 1], i + 1)
      OBVIOUS
    <3>1. i < N /\ OK(new[i], i)
      BY <1>1, <2>3
    <3> QED BY <1>5, <2>1, <3>1
  <2> HIDE DEF S
  <2>4. \A i \in Nat : i \in S
    BY <2>2, <2>3, NatInd
  <2>5. N \in S
    BY <1>1, <2>4
  <2> QED BY <1>1, <2>5 DEF S
<1> QED BY <1>3, <1>6

(* diff_in_place: none of the keys is left. *)
LEMMA DiffKeeps ==
  ASSUME HashesOK, NEW m, MapGood(m), NEW ks \in ListsOf(Item)
  PROVE  LET u == diff_in_place(m, ks)
         IN  /\ MapGood(u)
             /\ Contents(u) = Dropped(Contents(m), {ks[n] : n \in DOMAIN ks})
<1> DEFINE N == Len(ks)
           E == m
           Step(v, i) == remove(v, ks[i])
           Is(f, n) == f = [i \in 0 .. n |-> IF i = 0 THEN E ELSE Step(f[i - 1], i)]
<1>1. N \in Nat /\ DOMAIN ks = 1 .. N /\ \A i \in 1 .. N : ks[i] \in Item
  BY ListItems
<1>2. \A n \in Nat : \E f : Is(f, n)
  <2> HIDE DEF Step, E
  <2> DEFINE S == {n \in Nat : \E f : Is(f, n)}
  <2>1. 0 \in S
    <3>1. Is([i \in 0 .. 0 |-> E], 0)
      OBVIOUS
    <3> QED BY <3>1
  <2>2. ASSUME NEW n \in Nat, n \in S PROVE n + 1 \in S
    <3>1. PICK f : Is(f, n)
      BY <2>2
    <3> DEFINE g == [i \in 0 .. n + 1 |-> IF i <= n THEN f[i] ELSE Step(f[n], i)]
    <3>2. Is(g, n + 1)
      BY <3>1
    <3> HIDE DEF Is
    <3> QED BY <3>2
  <2> HIDE DEF S
  <2>3. \A n \in Nat : n \in S
    BY <2>1, <2>2, NatInd
  <2> QED BY <2>3 DEF S
<1>3. PICK new : Is(new, N) /\ diff_in_place(m, ks) = new[N]
  <2> DEFINE new == CHOOSE f : Is(f, N)
  <2>1. diff_in_place(m, ks) = new[N]
    BY DEF diff_in_place
  <2> HIDE DEF Is
  <2>2. Is(new, N)
    BY <1>1, <1>2
  <2> QED BY <2>1, <2>2
<1> DEFINE Gone(i) == {ks[n] : n \in 1 .. i}
           OK(v, i) == /\ MapGood(v)
                       /\ Contents(v) = Dropped(Contents(m), Gone(i))
<1>4. OK(E, 0)
  <2>1. Gone(0) = {}
    OBVIOUS
  <2>2. Contents(m) \in [Keys(m) -> Value]
    BY ContentsStored DEF MapGood, Stores
  <2>3. Contents(m) = Dropped(Contents(m), {})
    BY <2>2 DEF Dropped
  <2> QED BY <2>1, <2>3
<1>5. ASSUME NEW i \in Nat, NEW v, OK(v, i), i < N
      PROVE  OK(Step(v, i + 1), i + 1)
  <2> DEFINE k == ks[i + 1]
             u == remove(v, k)
  <2>1. k \in Item
    BY <1>1, <1>5
  <2>2. MapGood(u) /\ Contents(u) = Dropped(Contents(v), {k})
    BY <1>5, <2>1, RemoveEntryKeeps
  <2>3. Gone(i + 1) = Gone(i) \cup {k}
    <3>1. 1 .. i + 1 = (1 .. i) \cup {i + 1}
      BY <1>5
    <3> QED BY <3>1
  <2> HIDE DEF Gone, k, u
  <2>4. Contents(u) = Dropped(Contents(m), Gone(i + 1))
    BY <1>5, <2>2, <2>3 DEF Dropped
  <2>5. OK(u, i + 1)
    BY <2>2, <2>4
  <2> QED BY <2>5 DEF u, k
<1>6. OK(new[N], N)
  <2> HIDE DEF OK, Step, E
  <2> DEFINE S == {i \in Nat : i <= N => OK(new[i], i)}
  <2>1. new[0] = E /\ \A i \in Nat : i < N => new[i + 1] = Step(new[i], i + 1)
    BY <1>1, <1>3
  <2>2. 0 \in S
    BY <1>4, <2>1
  <2>3. ASSUME NEW i \in Nat, i \in S PROVE i + 1 \in S
    <3> SUFFICES ASSUME i + 1 <= N PROVE OK(new[i + 1], i + 1)
      OBVIOUS
    <3>1. i < N /\ OK(new[i], i)
      BY <1>1, <2>3
    <3> QED BY <1>5, <2>1, <3>1
  <2> HIDE DEF S
  <2>4. \A i \in Nat : i \in S
    BY <2>2, <2>3, NatInd
  <2>5. N \in S
    BY <1>1, <2>4
  <2> QED BY <1>1, <2>5 DEF S
<1>7. Gone(N) = {ks[n] : n \in DOMAIN ks}
  BY <1>1
<1> HIDE DEF Gone
<1> QED BY <1>3, <1>6, <1>7

(* intersect_with and filter: the entries of the other keys are gone. *)
LEMMA KeptKeeps ==
  ASSUME HashesOK, NEW m, MapGood(m), NEW keys \in SUBSET Item
  PROVE  LET u == Kept(m, keys)
         IN  /\ MapGood(u)
             /\ Contents(u) = Dropped(Contents(m), Item \ keys)
<1> DEFINE t == m.keys
           N == t.size
           E == resize(MinSize)
           Step(v, i) == IF i - 1 \in Occupied(t) /\ t.data[i - 1] \in keys
                         THEN add(v, EntryAt(m, i - 1), FALSE) ELSE v
           Is(f, n) == f = [i \in 0 .. n |-> IF i = 0 THEN E ELSE Step(f[i - 1], i)]
<1>1. N \in Nat /\ TableInv(t) /\ MapOK(m)
  BY SizesArePowers DEF MapGood, MapOK, TableInv, IsTable, TableOK
<1>2. \A n \in Nat : \E f : Is(f, n)
  <2> HIDE DEF Step, E
  <2> DEFINE S == {n \in Nat : \E f : Is(f, n)}
  <2>1. 0 \in S
    <3>1. Is([i \in 0 .. 0 |-> E], 0)
      OBVIOUS
    <3> QED BY <3>1
  <2>2. ASSUME NEW n \in Nat, n \in S PROVE n + 1 \in S
    <3>1. PICK f : Is(f, n)
      BY <2>2
    <3> DEFINE g == [i \in 0 .. n + 1 |-> IF i <= n THEN f[i] ELSE Step(f[n], i)]
    <3>2. Is(g, n + 1)
      BY <3>1
    <3> HIDE DEF Is
    <3> QED BY <3>2
  <2> HIDE DEF S
  <2>3. \A n \in Nat : n \in S
    BY <2>1, <2>2, NatInd
  <2> QED BY <2>3 DEF S
<1>3. PICK new : Is(new, N) /\ Kept(m, keys) = new[N]
  <2> DEFINE new == CHOOSE f : Is(f, N)
  <2>1. Kept(m, keys) = new[N]
    BY DEF Kept
  <2> HIDE DEF Is
  <2>2. Is(new, N)
    BY <1>1, <1>2
  <2> QED BY <2>1, <2>2
<1> DEFINE J(i) == Before(t, i) \cap keys
           OK(v, i) == /\ MapGood(v)
                       /\ Contents(v) = Part(Contents(m), J(i))
<1>4. OK(E, 0)
  <2>1. J(0) = {}
    BY <1>1, BeforeGrows
  <2>2. MapOK(E) /\ E.keys = Empty(MinSize) /\ DOMAIN Contents(E) = {} /\ Keys(E) = {}
    BY MinSizeIsSize, EmptyMap
  <2>3. Contents(E) \in [Keys(E) -> Value]
    BY <2>2, ContentsStored DEF Stores
  <2>4. Contents(E) = Part(Contents(m), {})
    BY <2>2, <2>3 DEF Part
  <2>5. Snug(E.keys)
    BY <2>2, MinSizeIsSize, EmptyKeeps DEF Snug
  <2> QED BY <2>1, <2>2, <2>4, <2>5 DEF MapGood
<1>5. ASSUME NEW i \in Nat, NEW v, OK(v, i), i < N
      PROVE  OK(Step(v, i + 1), i + 1)
  <2> DEFINE e == EntryAt(m, i)
             x == t.data[i]
             u == add(v, e, FALSE)
  <2>1. Step(v, i + 1) = IF i \in Occupied(t) /\ x \in keys THEN u ELSE v
    <3>1. (i + 1) - 1 = i
      OBVIOUS
    <3> QED BY <3>1
  <2>2. CASE ~(i \in Occupied(t) /\ x \in keys)
    <3>1. J(i + 1) = J(i)
      BY <1>1, <2>2, BeforeGrows
    <3>2. Step(v, i + 1) = v
      BY <2>1, <2>2
    <3> HIDE DEF Step, J
    <3> QED BY <1>5, <3>1, <3>2
  <2>3. CASE i \in Occupied(t) /\ x \in keys
    <3>1. e \in Entry /\ e.key = x /\ e.value = Contents(m)[x]
      BY <1>1, <2>3, EntryAtSlot
    <3>2. J(i + 1) = J(i) \cup {x} /\ x \notin J(i)
      BY <1>1, <2>3, BeforeGrows
    <3> HIDE DEF e, x, J
    <3>3. MapGood(u) /\ Contents(u) = Merged(Contents(v), Single(e), FALSE)
      BY <1>5, <3>1, AddEntryKeeps
    <3>4. Step(v, i + 1) = u
      BY <2>1, <2>3 DEF e, x
    <3> HIDE DEF u, Step
    <3>5. Contents(u) = Part(Contents(m), J(i + 1))
      <4> DEFINE g == Contents(m)
                 I == J(i)
      <4>1. NextPart(g, I, e)
        BY <3>1, <3>2 DEF NextPart
      <4>2. Contents(v) = Part(g, I)
        BY <1>5
      <4>3. J(i + 1) = I \cup {e.key}
        BY <3>1, <3>2
      <4> HIDE DEF g, I
      <4>4. Merged(Part(g, I), Single(e), FALSE) = Part(g, I \cup {e.key})
        BY <4>1, PartGrows
      <4> QED BY <3>3, <4>2, <4>3, <4>4 DEF g
    <3> QED BY <3>3, <3>4, <3>5
  <2> QED BY <2>2, <2>3
<1>6. OK(new[N], N)
  <2> HIDE DEF OK, Step, E
  <2> DEFINE S == {i \in Nat : i <= N => OK(new[i], i)}
  <2>1. new[0] = E /\ \A i \in Nat : i < N => new[i + 1] = Step(new[i], i + 1)
    BY <1>1, <1>3
  <2>2. 0 \in S
    BY <1>4, <2>1
  <2>3. ASSUME NEW i \in Nat, i \in S PROVE i + 1 \in S
    <3> SUFFICES ASSUME i + 1 <= N PROVE OK(new[i + 1], i + 1)
      OBVIOUS
    <3>1. i < N /\ OK(new[i], i)
      BY <1>1, <2>3
    <3> QED BY <1>5, <2>1, <3>1
  <2> HIDE DEF S
  <2>4. \A i \in Nat : i \in S
    BY <2>2, <2>3, NatInd
  <2>5. N \in S
    BY <1>1, <2>4
  <2> QED BY <1>1, <2>5 DEF S
<1>7. J(N) = Keys(m) \cap keys
  BY <1>1, BeforeGrows DEF Keys
<1>8. Dropped(Contents(m), Item \ keys) = Part(Contents(m), J(N))
  <2>1. Contents(m) \in [Keys(m) -> Value]
    BY <1>1, ContentsStored DEF Stores
  <2>2. Keys(m) \subseteq Item
    BY <1>1, MembersCounted DEF Keys
  <2> HIDE DEF J
  <2> QED BY <1>7, <2>1, <2>2 DEF Dropped, Part
<1> HIDE DEF J
<1> QED BY <1>3, <1>6, <1>8

(* A map united with itself stays as it is, in however many turns: each    *)
(* turn adds an entry that is there, wherever a rebuild has moved it.      *)
LEMMA TurnKeeps ==
  ASSUME HashesOK, NEW m, MapGood(m), NEW i, NEW replace \in BOOLEAN
  PROVE  /\ MapGood(Turn(m, i, replace))
         /\ Contents(Turn(m, i, replace)) = Contents(m)
<1>1. CASE i \notin Occupied(m.keys)
  BY <1>1 DEF Turn
<1>2. CASE i \in Occupied(m.keys)
  <2> DEFINE e == EntryAt(m, i)
             u == add(m, e, replace)
             f == Contents(m)
             K == Keys(m)
  <2>1. MapOK(m)
    BY DEF MapGood
  <2>2. e \in Entry /\ e.key \in K /\ e.value = f[e.key]
    BY <1>2, <2>1, EntryAtSlot
  <2>3. f \in [K -> Value]
    BY <2>1, ContentsStored DEF Stores
  <2> HIDE DEF e, f, K
  <2>4. MapGood(u) /\ Contents(u) = Merged(Contents(m), Single(e), replace)
    BY <2>2, AddEntryKeeps
  <2>5. Merged(f, Single(e), replace) = f
    <3>1. CASE replace
      BY <2>2, <2>3, <3>1 DEF Merged, Over, Single
    <3>2. CASE ~replace
      BY <2>2, <2>3, <3>2 DEF Merged, Over, Single
    <3> QED BY <3>1, <3>2
  <2>6. Turn(m, i, replace) = u
    BY <1>2 DEF Turn, e
  <2> QED BY <2>4, <2>5, <2>6 DEF f
<1> QED BY <1>1, <1>2

LEMMA UnionSelfKeeps ==
  ASSUME HashesOK, NEW m, MapGood(m), NEW replace \in BOOLEAN
  PROVE  LET u == union_with_self(m, replace)
         IN  MapGood(u) /\ Contents(u) = Contents(m)
<1> DEFINE N == 2 * m.keys.size
           E == m
           Step(v, i) == Turn(v, i - 1, replace)
           Is(f, n) == f = [i \in 0 .. n |-> IF i = 0 THEN E ELSE Step(f[i - 1], i)]
<1>1. N \in Nat
  BY SizesArePowers DEF MapGood, MapOK, TableInv, IsTable, TableOK
<1>2. \A n \in Nat : \E f : Is(f, n)
  <2> HIDE DEF Step, E
  <2> DEFINE S == {n \in Nat : \E f : Is(f, n)}
  <2>1. 0 \in S
    <3>1. Is([i \in 0 .. 0 |-> E], 0)
      OBVIOUS
    <3> QED BY <3>1
  <2>2. ASSUME NEW n \in Nat, n \in S PROVE n + 1 \in S
    <3>1. PICK f : Is(f, n)
      BY <2>2
    <3> DEFINE g == [i \in 0 .. n + 1 |-> IF i <= n THEN f[i] ELSE Step(f[n], i)]
    <3>2. Is(g, n + 1)
      BY <3>1
    <3> HIDE DEF Is
    <3> QED BY <3>2
  <2> HIDE DEF S
  <2>3. \A n \in Nat : n \in S
    BY <2>1, <2>2, NatInd
  <2> QED BY <2>3 DEF S
<1>3. PICK new : Is(new, N) /\ union_with_self(m, replace) = new[N]
  <2> DEFINE new == CHOOSE f : Is(f, N)
  <2>1. union_with_self(m, replace) = new[N]
    BY DEF union_with_self
  <2> HIDE DEF Is
  <2>2. Is(new, N)
    BY <1>1, <1>2
  <2> QED BY <2>1, <2>2
<1> DEFINE OK(v, i) == MapGood(v) /\ Contents(v) = Contents(m)
<1>4. OK(E, 0)
  OBVIOUS
<1>5. ASSUME NEW i \in Nat, NEW v, OK(v, i), i < N
      PROVE  OK(Step(v, i + 1), i + 1)
  BY <1>5, TurnKeeps
<1>6. OK(new[N], N)
  <2> HIDE DEF OK, Step, E
  <2> DEFINE S == {i \in Nat : i <= N => OK(new[i], i)}
  <2>1. new[0] = E /\ \A i \in Nat : i < N => new[i + 1] = Step(new[i], i + 1)
    BY <1>1, <1>3
  <2>2. 0 \in S
    BY <1>4, <2>1
  <2>3. ASSUME NEW i \in Nat, i \in S PROVE i + 1 \in S
    <3> SUFFICES ASSUME i + 1 <= N PROVE OK(new[i + 1], i + 1)
      OBVIOUS
    <3>1. i < N /\ OK(new[i], i)
      BY <1>1, <2>3
    <3> QED BY <1>5, <2>1, <3>1
  <2> HIDE DEF S
  <2>4. \A i \in Nat : i \in S
    BY <2>2, <2>3, NatInd
  <2>5. N \in S
    BY <1>1, <2>4
  <2> QED BY <1>1, <2>5 DEF S
<1> QED BY <1>3, <1>6

-----------------------------------------------------------------------------
(* The map. *)

(* The inductive invariant: as that of the set, and a value beside each    *)
(* key and nowhere else.                                                   *)
MapIInv == HashesOK /\ MapGood(map)

LEMMA MapInitial == HashesOK /\ MapInit => MapIInv
<1> SUFFICES ASSUME HashesOK, MapInit PROVE MapIInv
  OBVIOUS
<1>1. MapOK(map) /\ map.keys = Empty(MinSize)
  BY MinSizeIsSize, EmptyMap DEF MapInit
<1>2. Snug(map.keys)
  BY <1>1, MinSizeIsSize, EmptyKeeps DEF Snug
<1> QED BY <1>1, <1>2 DEF MapIInv, MapGood

LEMMA MapSteps ==
  ASSUME MapIInv, MapNext
  PROVE  MapGood(map') /\ UNCHANGED <<hash, occ>>
<1> USE DEF MapIInv
<1>1. ASSUME NEW e \in Entry, NEW replace \in BOOLEAN, MapAdd(e, replace)
      PROVE  MapGood(map')
  BY <1>1, AddEntryKeeps DEF MapAdd
<1>2. ASSUME NEW k \in Item, MapRemove(k)
      PROVE  MapGood(map')
  BY <1>2, RemoveEntryKeeps DEF MapRemove
<1>3. ASSUME NEW es \in ListsOf(Entry), AddAll(es)
      PROVE  MapGood(map')
  BY <1>3, UnionKeeps DEF AddAll, addAll
<1>4. ASSUME NEW es \in MapLists, NEW replace \in BOOLEAN, Union(es, replace)
      PROVE  MapGood(map')
  BY <1>4, UnionKeeps DEF Union, MapLists
<1>5. ASSUME NEW replace \in BOOLEAN, UnionSelf(replace)
      PROVE  MapGood(map')
  BY <1>5, UnionSelfKeeps DEF UnionSelf
<1>6. ASSUME NEW ks \in KeyLists, Diff(ks)
      PROVE  MapGood(map')
  BY <1>6, DiffKeeps DEF Diff, KeyLists
<1>7. ASSUME NEW keys \in SUBSET Item, IntersectKeys(keys)
      PROVE  MapGood(map')
  BY <1>7, KeptKeeps DEF IntersectKeys
<1> QED BY <1>1, <1>2, <1>3, <1>4, <1>5, <1>6, <1>7 DEF MapNext

LEMMA MapStep == MapIInv /\ [MapNext]_mapVars => MapIInv'
<1> SUFFICES ASSUME MapIInv, [MapNext]_mapVars PROVE MapIInv'
  OBVIOUS
<1>1. MapGood(map') /\ UNCHANGED <<hash, occ>>
  BY MapSteps DEF MapIInv, mapVars
<1> DEFINE t == map.keys
<1>2. MapOK(map') /\ TableInv(map'.keys) /\ Snug(map'.keys)
  BY <1>1 DEF MapGood, MapOK
<1>3. TableInv(t)'
  <2>1. IsTable(t)'
    BY <1>2 DEF TableInv, IsTable, TableOK, Slots
  <2>2. Counted(t)' /\ Distinct(t)' /\ Roomy(t)'
    BY <1>2 DEF TableInv, Counted, Distinct, Roomy, Occupied, Deleted, Slots
  <2>3. Tagged(t)'
    BY <1>1, <1>2 DEF TableInv, Tagged, Occupied, Slots
  <2>4. Reached(t)'
    BY <1>1, <1>2 DEF TableInv, Reached, At, Unbroken, Occupied, Slots
  <2> QED BY <2>1, <2>2, <2>3, <2>4 DEF TableInv
<1>4. IsMap(map)' /\ Valued(map)'
  BY <1>2 DEF MapOK, IsMap, Valued, Occupied, Slots
<1> QED BY <1>1, <1>2, <1>3, <1>4 DEF MapIInv, MapGood, MapOK, HashesOK, Snug

LEMMA MapIInvAlways == MapSpec => []MapIInv
BY MapInitial, MapStep, PTL DEF MapSpec

LEMMA MapInvHolds == MapIInv => MapInv
<1> SUFFICES ASSUME MapIInv PROVE MapInv
  OBVIOUS
<1> DEFINE t == map.keys
<1>1. /\ MapOK(map) /\ TableInv(t) /\ Snug(t) /\ HashesOK
      /\ IsTable(t) /\ Counted(t) /\ Roomy(t)
  BY DEF MapIInv, MapGood, MapOK, TableInv
<1>2. TableOK(t)
  BY <1>1 DEF IsTable
<1>3. CountsRight(t)
  BY <1>1, MembersCounted DEF CountsRight, Counted, Deleted
<1>4. SearchesEnd(t) /\ FindsMembers(t)
  BY <1>1, SearchStops, SearchFinds DEF SearchesEnd, FindsMembers
<1>5. Bounded(t)
  <2>1. t.count \in Nat /\ t.deleted \in Nat /\ t.size \in Nat
    BY <1>2, SizesArePowers DEF TableOK
  <2> QED BY <1>1, <2>1, MinSizeIsSize DEF Bounded, Snug
<1>6. DOMAIN map.values = Slots(t)
  BY <1>1 DEF MapOK, IsMap
<1>7. \A i \in Slots(t) :
         map.values[i] \in IF i \in Occupied(t) THEN Value ELSE {None}
  BY <1>1 DEF MapOK, Valued
<1> QED BY <1>2, <1>3, <1>4, <1>5, <1>6, <1>7 DEF MapInv, Sound

LEMMA AnswersHold == MapIInv => AnswersRight
<1> SUFFICES ASSUME MapIInv PROVE AnswersRight
  OBVIOUS
<1> USE DEF MapIInv
<1> DEFINE old == Contents(map)
<1>1. ASSUME NEW k \in Item
      PROVE  /\ find(map, k) = IF k \in Keys(map) THEN old[k] ELSE None
             /\ Contents(remove(map, k)) = Dropped(old, {k})
  BY FindAnswers, RemoveEntryKeeps DEF MapGood
<1>2. ASSUME NEW es \in MapLists
      PROVE  Contents(union_in_place(map, es, TRUE))
               = Merged(old, Entries(es), TRUE)
  <2>1. es \in ListsOf(Entry) /\ Injective([n \in DOMAIN es |-> es[n].key])
    BY DEF MapLists
  <2>2. PICK g : /\ Collects(g, es, Len(es), TRUE)
                 /\ Contents(union_in_place(map, es, TRUE))
                      = Merged(old, g, TRUE)
    BY <2>1, UnionKeeps
  <2>3. g = Entries(es)
    BY <2>1, <2>2, CollectsEntries
  <2> QED BY <2>2, <2>3
<1>3. ASSUME NEW ks \in KeyLists
      PROVE  Contents(diff_in_place(map, ks))
               = Dropped(old, {ks[n] : n \in DOMAIN ks})
  BY DiffKeeps DEF KeyLists
<1>4. ASSUME NEW replace \in BOOLEAN
      PROVE  Contents(union_with_self(map, replace)) = old
  BY UnionSelfKeeps
<1>5. ASSUME NEW keys \in SUBSET Item
      PROVE  Contents(Kept(map, keys)) = Dropped(old, Item \ keys)
  BY KeptKeeps
<1>6. ASSUME NEW es \in ListsOf(Entry)
      PROVE  Contents(addAll(map, es)) = Merged(old, Entries(es), FALSE)
  <2>1. PICK g : /\ Collects(g, es, Len(es), FALSE)
                 /\ Contents(union_in_place(map, es, FALSE))
                      = Merged(old, g, FALSE)
    BY UnionKeeps
  <2>2. g = Entries(es)
    BY <2>1, CollectsEntries
  <2> QED BY <2>1, <2>2 DEF addAll
<1> HIDE DEF MapIInv
<1> QED BY <1>1, <1>2, <1>3, <1>4, <1>5, <1>6 DEF AnswersRight

(* In every reachable state of a map the keys are a sound table that is    *)
(* proportional to its contents, and a slot has a value exactly if it has  *)
(* a key: for any keys, values and hash functions.                         *)
THEOREM MapIsSound == MapSpec => []MapInv
BY MapIInvAlways, MapInvHolds, PTL

(* In every reachable state find, add, remove and each bulk operation of   *)
(* map.h do to the entries what their names say, whatever the argument,    *)
(* and leave all other entries alone: a list may hold a key twice, and a   *)
(* map may be joined with itself while a rebuild overtakes its iterator.   *)
THEOREM OperationsAnswerRight == MapSpec => []AnswersRight
BY MapIInvAlways, AnswersHold, PTL

-----------------------------------------------------------------------------
(* Arr and Str: how memory is written, joined and cut.                     *)

LEMMA FromFunction ==
  ASSUME NEW n \in Nat, NEW f \in [1 .. n -> Int]
  PROVE  f \in Seq(Int) /\ Len(f) = n
OBVIOUS

(* new is data with the m cells of s behind at, where n cells are. *)
Writes(new, data, n, at, s, m, end) ==
    /\ new \in Seq(Int) /\ Len(new) = n
    /\ \A k \in 1 .. at : new[k] = data[k]
    /\ \A k \in at + 1 .. end : new[k] = s[k - at]
    /\ \A k \in end + 1 .. n : new[k] = data[k]

LEMMA StoredCells ==
  ASSUME NEW n \in Nat, NEW m \in Nat, NEW at \in Nat, NEW end \in Nat,
         end = at + m, end <= n,
         NEW data \in Seq(Int), Len(data) = n, NEW s \in Seq(Int), Len(s) = m
  PROVE  Writes(Stored(data, at, s), data, n, at, s, m, end)
<1> DEFINE cell(k) == IF at < k /\ k <= end THEN s[k - at] ELSE data[k]
           new == [k \in 1 .. n |-> cell(k)]
<1>1. Stored(data, at, s) = new
  BY DEF Stored
<1>2. \A k \in 1 .. n : cell(k) \in Int
  OBVIOUS
<1>3. /\ \A k \in 1 .. at : cell(k) = data[k]
      /\ \A k \in at + 1 .. end : cell(k) = s[k - at]
      /\ \A k \in end + 1 .. n : cell(k) = data[k]
  OBVIOUS
<1> HIDE DEF cell
<1>4. new \in [1 .. n -> Int]
  BY <1>2
<1>5. \A k \in 1 .. n : new[k] = cell(k)
  OBVIOUS
<1> HIDE DEF new
<1>6. new \in Seq(Int) /\ Len(new) = n
  BY <1>4, FromFunction
<1>7. /\ \A k \in 1 .. at : new[k] = data[k]
      /\ \A k \in at + 1 .. end : new[k] = s[k - at]
      /\ \A k \in end + 1 .. n : new[k] = data[k]
  BY <1>3, <1>5
<1> QED BY <1>1, <1>6, <1>7 DEF Writes

LEMMA Fillings ==
  ASSUME NEW n \in Nat
  PROVE  /\ Zeros(n) \in Seq(Int) /\ Len(Zeros(n)) = n
         /\ \A k \in 1 .. n : Zeros(n)[k] = 0
         /\ Junks(n) \in Seq(Int) /\ Len(Junks(n)) = n
         /\ \A k \in 1 .. n : Junks(n)[k] = Junk
BY DEF Zeros, Junks, Junk

LEMMA PartOf ==
  ASSUME NEW s \in Seq(Int), NEW m \in Nat, NEW n \in Nat, m <= n, n <= Len(s)
  PROVE  /\ SubSeq(s, m + 1, n) \in Seq(Int)
         /\ Len(SubSeq(s, m + 1, n)) = n - m
         /\ \A k \in 1 .. n - m : SubSeq(s, m + 1, n)[k] = s[m + k]
OBVIOUS

(* u is s, of length n, and t behind it. *)
Joins(u, s, n, t, m, end) ==
    /\ u \in Seq(Int) /\ Len(u) = end
    /\ \A k \in 1 .. n : u[k] = s[k]
    /\ \A k \in n + 1 .. end : u[k] = t[k - n]

LEMMA Joined ==
  ASSUME NEW n \in Nat, NEW m \in Nat, NEW end \in Nat, end = n + m,
         NEW s \in Seq(Int), Len(s) = n, NEW t \in Seq(Int), Len(t) = m
  PROVE  Joins(s \o t, s, n, t, m, end)
<1>1. /\ s \o t \in Seq(Int) /\ Len(s \o t) = end
      /\ \A k \in 1 .. n : (s \o t)[k] = s[k]
      /\ \A k \in n + 1 .. end : (s \o t)[k] = t[k - n]
  OBVIOUS
<1> QED BY <1>1 DEF Joins

LEMMA SameCells ==
  ASSUME NEW s \in Seq(Int), NEW t \in Seq(Int), Len(s) = Len(t),
         \A k \in 1 .. Len(s) : s[k] = t[k]
  PROVE  s = t
OBVIOUS

(* The first n of cap cells are those of s. *)
Agrees(n, cap, data, s) ==
    /\ n \in Nat /\ cap \in Nat /\ n <= cap
    /\ data \in Seq(Int) /\ Len(data) = cap
    /\ s \in Seq(Int) /\ Len(s) = n
    /\ \A k \in 1 .. n : data[k] = s[k]

LEMMA Shorter ==
  ASSUME NEW n, NEW cap, NEW data, NEW s, Agrees(n, cap, data, s),
         NEW left \in Nat, left <= n
  PROVE  Agrees(left, cap, data, SubSeq(s, 1, left))
<1>1. n \in Nat /\ cap \in Nat /\ n <= cap /\ s \in Seq(Int) /\ Len(s) = n
  BY DEF Agrees
<1>2. PICK t : t = SubSeq(s, 1, left)
  OBVIOUS
<1>3. t \in Seq(Int) /\ Len(t) = left /\ \A k \in 1 .. left : t[k] = s[k]
  <2>1. /\ SubSeq(s, 1, left) \in Seq(Int) /\ Len(SubSeq(s, 1, left)) = left
        /\ \A k \in 1 .. left : SubSeq(s, 1, left)[k] = s[k]
    BY <1>1
  <2> QED BY <1>2, <2>1
<1>4. left <= cap /\ \A k \in 1 .. left : k \in 1 .. n
  BY <1>1
<1>5. Agrees(left, cap, data, t)
  BY <1>3, <1>4 DEF Agrees
<1> QED BY <1>2, <1>5

(* Cells are written behind the first n. *)
Extends(new, n, cap, data, s, w, end) ==
    /\ Agrees(n, cap, new, s) /\ Agrees(end, cap, new, s \o w)
    /\ \A k \in n + 1 .. end : new[k] = w[k - n]
    /\ \A k \in end + 1 .. cap : new[k] = data[k]

LEMMA Behind ==
  ASSUME NEW n, NEW cap, NEW data, NEW s, Agrees(n, cap, data, s),
         NEW m \in Nat, NEW w \in Seq(Int), Len(w) = m,
         NEW end \in Nat, end = n + m, end <= cap
  PROVE  Extends(Stored(data, n, w), n, cap, data, s, w, end)
<1> DEFINE new == Stored(data, n, w)
<1>1. /\ n \in Nat /\ cap \in Nat /\ data \in Seq(Int) /\ Len(data) = cap
      /\ s \in Seq(Int) /\ Len(s) = n
  BY DEF Agrees
<1>2. Writes(Stored(data, n, w), data, cap, n, w, m, end)
  BY <1>1, StoredCells
<1>3. /\ new \in Seq(Int) /\ Len(new) = cap
      /\ \A k \in 1 .. n : new[k] = data[k]
      /\ \A k \in n + 1 .. end : new[k] = w[k - n]
      /\ \A k \in end + 1 .. cap : new[k] = data[k]
  BY <1>2 DEF Writes
<1> HIDE DEF new
<1>4. \A k \in 1 .. n : new[k] = s[k]
  BY <1>3 DEF Agrees
<1>5. Agrees(n, cap, new, s)
  BY <1>3, <1>4 DEF Agrees
<1>6. PICK t : t = s \o w
  OBVIOUS
<1>7. /\ t \in Seq(Int) /\ Len(t) = end
      /\ \A k \in 1 .. n : t[k] = s[k]
      /\ \A k \in n + 1 .. end : t[k] = w[k - n]
  <2>1. Joins(s \o w, s, n, w, m, end)
    BY <1>1, Joined
  <2> QED BY <1>6, <2>1 DEF Joins
<1>8. ASSUME NEW k \in 1 .. end PROVE new[k] = t[k]
  <2>1. k \in 1 .. n \/ k \in n + 1 .. end
    BY <1>1
  <2> QED BY <1>3, <1>4, <1>7, <2>1
<1>9. Agrees(end, cap, new, t)
  BY <1>1, <1>3, <1>7, <1>8 DEF Agrees
<1> QED BY <1>3, <1>5, <1>6, <1>9 DEF Extends, new

(* What is behind a gap is moved into it. *)
Closes(new, left, cap, data, t) ==
    Agrees(left, cap, new, t) /\ \A k \in left + 1 .. cap : new[k] = data[k]

LEMMA Moved ==
  ASSUME NEW n, NEW cap, NEW data, NEW s, Agrees(n, cap, data, s),
         NEW start \in Nat, NEW count \in Nat, start + count <= n
  PROVE  Closes(Stored(data, start, SubSeq(data, start + count + 1, n)),
                n - count, cap, data, Without(s, <<start, count>>))
<1> DEFINE new == Stored(data, start, SubSeq(data, start + count + 1, n))
<1>1. /\ n \in Nat /\ cap \in Nat /\ n <= cap /\ data \in Seq(Int) /\ Len(data) = cap
      /\ s \in Seq(Int) /\ Len(s) = n
  BY DEF Agrees
<1>2. PICK stop \in Nat : stop = start + count /\ stop <= n
  OBVIOUS
<1>3. PICK m \in Nat, left \in Nat :
         m = n - stop /\ left = n - count /\ left = start + m /\ left <= n /\ start <= n
  <2>1. n - stop \in Nat /\ n - count \in Nat
    BY <1>1, <1>2
  <2> QED BY <1>1, <1>2, <2>1
<1>4. PICK tail : tail = SubSeq(data, stop + 1, n)
  OBVIOUS
<1>5. /\ tail \in Seq(Int) /\ Len(tail) = m
      /\ \A k \in 1 .. m : tail[k] = data[stop + k]
  <2>1. /\ SubSeq(data, stop + 1, n) \in Seq(Int)
        /\ Len(SubSeq(data, stop + 1, n)) = n - stop
        /\ \A k \in 1 .. n - stop : SubSeq(data, stop + 1, n)[k] = data[stop + k]
    BY <1>1, <1>2, PartOf
  <2> QED BY <1>3, <1>4, <2>1
<1>6. PICK rest : rest = SubSeq(s, stop + 1, n)
  OBVIOUS
<1>7. /\ rest \in Seq(Int) /\ Len(rest) = m
      /\ \A k \in 1 .. m : rest[k] = s[stop + k]
  <2>1. /\ SubSeq(s, stop + 1, n) \in Seq(Int)
        /\ Len(SubSeq(s, stop + 1, n)) = n - stop
        /\ \A k \in 1 .. n - stop : SubSeq(s, stop + 1, n)[k] = s[stop + k]
    BY <1>1, <1>2, PartOf
  <2> QED BY <1>3, <1>6, <2>1
<1>8. ASSUME NEW k \in 1 .. m PROVE tail[k] = rest[k]
  <2>1. stop + k \in 1 .. n
    BY <1>1, <1>2, <1>3
  <2> QED BY <1>5, <1>7, <2>1 DEF Agrees
<1>9. tail = rest
  BY <1>5, <1>7, <1>8, SameCells
<1>10. PICK first : first = SubSeq(s, 1, start)
  OBVIOUS
<1>11. Agrees(start, cap, data, first)
  BY <1>3, <1>10, Shorter
<1>12. left <= cap /\ new = Stored(data, start, tail)
  BY <1>1, <1>2, <1>3, <1>4
<1> HIDE DEF new
<1>13. Closes(new, left, cap, data, first \o tail)
  <2>1. Extends(Stored(data, start, tail), start, cap, data, first, tail, left)
    BY <1>3, <1>5, <1>11, <1>12, Behind
  <2> QED BY <1>12, <2>1 DEF Extends, Closes
<1>14. Without(s, <<start, count>>) = first \o tail
  BY <1>1, <1>2, <1>6, <1>9, <1>10 DEF Without
<1> QED BY <1>3, <1>13, <1>14 DEF new

(* resize, for a new block that the items fit into. *)
Grows(new, n, end, s, rest) ==
    Agrees(n, end, new, s) /\ \A k \in n + 1 .. end : new[k] = rest[k - n]

LEMMA Resized ==
  ASSUME NEW n, NEW cap, NEW data, NEW s, Agrees(n, cap, data, s),
         NEW m \in Nat, NEW rest \in Seq(Int), Len(rest) = m,
         NEW end \in Nat, end = n + m
  PROVE  Grows(SubSeq(data, 1, n) \o rest, n, end, s, rest)
<1>1. /\ n \in Nat /\ cap \in Nat /\ n <= cap /\ data \in Seq(Int) /\ Len(data) = cap
      /\ s \in Seq(Int) /\ Len(s) = n
  BY DEF Agrees
<1>2. PICK old : old = SubSeq(data, 1, n)
  OBVIOUS
<1>0. PICK new : new = old \o rest
  OBVIOUS
<1>3. old \in Seq(Int) /\ Len(old) = n /\ \A k \in 1 .. n : old[k] = data[k]
  <2>1. /\ SubSeq(data, 1, n) \in Seq(Int) /\ Len(SubSeq(data, 1, n)) = n
        /\ \A k \in 1 .. n : SubSeq(data, 1, n)[k] = data[k]
    BY <1>1
  <2> QED BY <1>2, <2>1
<1>4. /\ new \in Seq(Int) /\ Len(new) = end
      /\ \A k \in 1 .. n : new[k] = old[k]
      /\ \A k \in n + 1 .. end : new[k] = rest[k - n]
  <2>1. Joins(old \o rest, old, n, rest, m, end)
    BY <1>1, <1>3, Joined
  <2> QED BY <1>0, <2>1 DEF Joins
<1>5. \A k \in 1 .. n : new[k] = s[k]
  BY <1>3, <1>4 DEF Agrees
<1>6. Agrees(n, end, new, s)
  BY <1>1, <1>4, <1>5 DEF Agrees
<1> QED BY <1>0, <1>2, <1>4, <1>6 DEF Grows

LEMMA PrefixHeld ==
  ASSUME NEW n, NEW cap, NEW data, NEW s, Agrees(n, cap, data, s)
  PROVE  SubSeq(data, 1, n) = s
<1>1. /\ n \in Nat /\ cap \in Nat /\ n <= cap /\ s \in Seq(Int) /\ Len(s) = n
      /\ data \in Seq(Int) /\ Len(data) = cap
  BY DEF Agrees
<1>2. PICK d : d = SubSeq(data, 1, n)
  OBVIOUS
<1>3. d \in Seq(Int) /\ Len(d) = n /\ \A k \in 1 .. n : d[k] = data[k]
  <2>1. /\ SubSeq(data, 1, n) \in Seq(Int) /\ Len(SubSeq(data, 1, n)) = n
        /\ \A k \in 1 .. n : SubSeq(data, 1, n)[k] = data[k]
    BY <1>1
  <2> QED BY <1>2, <2>1
<1>4. \A k \in 1 .. Len(d) : d[k] = s[k]
  BY <1>3 DEF Agrees
<1>5. d = s
  BY <1>1, <1>3, <1>4, SameCells
<1> QED BY <1>2, <1>5

LEMMA SameParts ==
  ASSUME NEW n, NEW cap, NEW data, NEW s, Agrees(n, cap, data, s),
         NEW start \in Nat, NEW count \in Nat, start + count <= n
  PROVE  /\ SubSeq(data, start + 1, start + count) = SubSeq(s, start + 1, start + count)
         /\ SubSeq(s, start + 1, start + count) \in Seq(Int)
         /\ Len(SubSeq(s, start + 1, start + count)) = count
<1>1. /\ n \in Nat /\ cap \in Nat /\ n <= cap /\ s \in Seq(Int) /\ Len(s) = n
      /\ data \in Seq(Int) /\ Len(data) = cap
  BY DEF Agrees
<1>2. PICK end \in Nat : end = start + count /\ start <= end /\ end <= n /\ end <= cap
  BY <1>1
<1>3. PICK d, t : d = SubSeq(data, start + 1, end) /\ t = SubSeq(s, start + 1, end)
  OBVIOUS
<1>4. /\ d \in Seq(Int) /\ Len(d) = end - start
      /\ \A k \in 1 .. end - start : d[k] = data[start + k]
  <2>1. /\ SubSeq(data, start + 1, end) \in Seq(Int)
        /\ Len(SubSeq(data, start + 1, end)) = end - start
        /\ \A k \in 1 .. end - start : SubSeq(data, start + 1, end)[k] = data[start + k]
    BY <1>1, <1>2, PartOf
  <2> QED BY <1>3, <2>1
<1>5. /\ t \in Seq(Int) /\ Len(t) = end - start
      /\ \A k \in 1 .. end - start : t[k] = s[start + k]
  <2>1. /\ SubSeq(s, start + 1, end) \in Seq(Int)
        /\ Len(SubSeq(s, start + 1, end)) = end - start
        /\ \A k \in 1 .. end - start : SubSeq(s, start + 1, end)[k] = s[start + k]
    BY <1>1, <1>2, PartOf
  <2> QED BY <1>3, <2>1
<1>6. ASSUME NEW k \in 1 .. end - start PROVE d[k] = t[k]
  <2>1. start + k \in 1 .. n
    BY <1>1, <1>2
  <2> QED BY <1>4, <1>5, <2>1 DEF Agrees
<1>7. d = t
  BY <1>4, <1>5, <1>6, SameCells
<1> QED BY <1>2, <1>3, <1>5, <1>7

-----------------------------------------------------------------------------
(* Arrays: behind the items are zeros. *)

ArrCells(n, cap, data, s) ==
    Agrees(n, cap, data, s) /\ \A k \in n + 1 .. cap : data[k] = 0

ArrHolds(a, s) ==
    \E n, cap, data : a = [len |-> n, data |-> data] /\ ArrCells(n, cap, data, s)

LEMMA ArrResizes ==
  ASSUME NEW n, NEW cap, NEW data, NEW s, ArrCells(n, cap, data, s),
         NEW new \in Nat, n <= new
  PROVE  \E d : /\ ArrResized([len |-> n, data |-> data], new) = [len |-> n, data |-> d]
                /\ ArrCells(n, new, d, s)
<1>1. n \in Nat /\ Agrees(n, cap, data, s)
  BY DEF ArrCells, Agrees
<1>2. PICK m \in Nat : m = new - n /\ new = n + m
  BY <1>1
<1>3. PICK zeros \in Seq(Int) : zeros = Zeros(m) /\ Len(zeros) = m
  BY Fillings
<1>4. \A k \in 1 .. m : zeros[k] = 0
  BY <1>3, Fillings
<1>5. PICK d : d = SubSeq(data, 1, n) \o zeros
  OBVIOUS
<1>6. Agrees(n, new, d, s) /\ \A k \in n + 1 .. new : d[k] = zeros[k - n]
  <2>1. Grows(SubSeq(data, 1, n) \o zeros, n, new, s, zeros)
    BY <1>1, <1>2, <1>3, Resized
  <2> QED BY <1>5, <2>1 DEF Grows
<1>7. ASSUME NEW k \in n + 1 .. new PROVE d[k] = 0
  <2>1. k - n \in 1 .. m
    BY <1>1, <1>2
  <2> QED BY <1>4, <1>6, <2>1
<1>8. [[len |-> n, data |-> data] EXCEPT !.data = d] = [len |-> n, data |-> d]
  OBVIOUS
<1>9. ArrResized([len |-> n, data |-> data], new)
        = [[len |-> n, data |-> data] EXCEPT !.data = d]
  BY <1>2, <1>3, <1>5 DEF ArrResized
<1> QED BY <1>6, <1>7, <1>8, <1>9 DEF ArrCells

LEMMA ArrExpands ==
  ASSUME NEW n, NEW cap, NEW data, NEW s, ArrCells(n, cap, data, s),
         NEW m \in Nat, n <= m
  PROVE  \E d, c : /\ ArrExpanded([len |-> n, data |-> data], m) = [len |-> n, data |-> d]
                   /\ ArrCells(n, c, d, s) /\ m <= c
<1>1. n \in Nat /\ cap \in Nat /\ Len(data) = cap
  BY DEF ArrCells, Agrees
<1>2. CASE m > cap
  <2>1. PICK c \in Nat : c = nextPow2(m) /\ m <= c
    BY NextPow2
  <2>2. n <= c
    BY <1>1, <2>1
  <2>3. PICK d : /\ ArrResized([len |-> n, data |-> data], c) = [len |-> n, data |-> d]
                 /\ ArrCells(n, c, d, s)
    BY <2>1, <2>2, ArrResizes
  <2>4. ArrExpanded([len |-> n, data |-> data], m) = ArrResized([len |-> n, data |-> data], c)
    BY <1>1, <1>2, <2>1 DEF ArrExpanded, _cap
  <2> QED BY <2>1, <2>3, <2>4
<1>3. CASE ~(m > cap)
  <2>1. ArrExpanded([len |-> n, data |-> data], m) = [len |-> n, data |-> data]
    BY <1>1, <1>3 DEF ArrExpanded, _cap
  <2>2. m <= cap
    BY <1>1, <1>3
  <2> QED BY <2>1, <2>2
<1> QED BY <1>2, <1>3

LEMMA ArrShrinks ==
  ASSUME NEW n, NEW cap, NEW data, NEW s, ArrCells(n, cap, data, s)
  PROVE  ArrHolds(ArrShrunk([len |-> n, data |-> data]), s)
<1> DEFINE a == [len |-> n, data |-> data]
<1>1. n \in Nat /\ n <= n
  BY DEF ArrCells, Agrees
<1>2. PICK d : ArrResized(a, n) = [len |-> n, data |-> d] /\ ArrCells(n, n, d, s)
  BY <1>1, ArrResizes
<1>3. ArrHolds(ArrResized(a, n), s) /\ ArrHolds(a, s)
  <2> HIDE DEF a
  <2>1. a = [len |-> n, data |-> data]
    BY DEF a
  <2> QED BY <1>2, <2>1 DEF ArrHolds
<1>4. ArrShrunk(a) = ArrResized(a, n) \/ ArrShrunk(a) = a
  BY DEF ArrShrunk
<1> QED BY <1>3, <1>4

LEMMA ArrAdds ==
  ASSUME NEW n, NEW cap, NEW data, NEW s, ArrCells(n, cap, data, s),
         NEW items \in Seq(Int)
  PROVE  ArrHolds(ArrAdd([len |-> n, data |-> data], items), s \o items)
<1>1. n \in Nat
  BY DEF ArrCells, Agrees
<1>2. PICK m \in Nat : m = Len(items)
  OBVIOUS
<1>3. PICK all \in Nat : all = n + m /\ n <= all
  BY <1>1
<1>4. PICK d, c : /\ ArrExpanded([len |-> n, data |-> data], all) = [len |-> n, data |-> d]
                  /\ ArrCells(n, c, d, s) /\ all <= c
  BY <1>3, ArrExpands
<1>5. PICK new : new = Stored(d, n, items)
  OBVIOUS
<1>6. Agrees(n, c, d, s)
  BY <1>4 DEF ArrCells
<1>7. Agrees(all, c, new, s \o items) /\ \A k \in all + 1 .. c : new[k] = d[k]
  <2>1. Extends(Stored(d, n, items), n, c, d, s, items, all)
    BY <1>2, <1>3, <1>4, <1>6, Behind
  <2> QED BY <1>5, <2>1 DEF Extends
<1>8. ASSUME NEW k \in all + 1 .. c PROVE new[k] = 0
  <2>1. k \in n + 1 .. c
    BY <1>1, <1>3
  <2> QED BY <1>4, <1>7, <2>1 DEF ArrCells
<1>9. ArrCells(all, c, new, s \o items)
  BY <1>7, <1>8 DEF ArrCells
<1>10. ArrAdd([len |-> n, data |-> data], items) = [len |-> all, data |-> new]
  BY <1>2, <1>3, <1>4, <1>5 DEF ArrAdd
<1> QED BY <1>9, <1>10 DEF ArrHolds

(* Zeros are written over the items behind the first left. *)
LEMMA ZeroedCells ==
  ASSUME NEW left, NEW cap, NEW data, NEW t, Agrees(left, cap, data, t),
         NEW m \in Nat, left + m <= cap,
         \A k \in left + m + 1 .. cap : data[k] = 0
  PROVE  ArrCells(left, cap, Stored(data, left, Zeros(m)), t)
<1>1. left \in Nat
  BY DEF Agrees
<1>2. PICK n \in Nat : n = left + m /\ n <= cap
  BY <1>1
<1>3. PICK zeros \in Seq(Int) : zeros = Zeros(m) /\ Len(zeros) = m
  BY Fillings
<1>4. \A k \in 1 .. m : zeros[k] = 0
  BY <1>3, Fillings
<1>5. PICK new : new = Stored(data, left, zeros)
  OBVIOUS
<1>6. /\ Agrees(left, cap, new, t)
      /\ \A k \in left + 1 .. n : new[k] = zeros[k - left]
      /\ \A k \in n + 1 .. cap : new[k] = data[k]
  <2>1. Extends(Stored(data, left, zeros), left, cap, data, t, zeros, n)
    BY <1>2, <1>3, Behind
  <2> QED BY <1>5, <2>1 DEF Extends
<1>7. ASSUME NEW k \in left + 1 .. cap PROVE new[k] = 0
  <2>1. (k \in left + 1 .. n /\ k - left \in 1 .. m) \/ k \in n + 1 .. cap
    BY <1>1, <1>2
  <2> QED BY <1>2, <1>4, <1>6, <2>1
<1> QED BY <1>3, <1>5, <1>6, <1>7 DEF ArrCells

LEMMA ArrPops ==
  ASSUME NEW n, NEW cap, NEW data, NEW s, ArrCells(n, cap, data, s),
         NEW m \in Nat, m <= n
  PROVE  \E d : /\ ArrPopped([len |-> n, data |-> data], m) = [len |-> n - m, data |-> d]
                /\ ArrCells(n - m, cap, d, SubSeq(s, 1, n - m))
<1>1. n \in Nat /\ cap \in Nat /\ n <= cap /\ Agrees(n, cap, data, s)
  BY DEF ArrCells, Agrees
<1>2. PICK left \in Nat : left = n - m /\ left <= n /\ left + m = n
  BY <1>1
<1>3. Agrees(left, cap, data, SubSeq(s, 1, left))
  BY <1>1, <1>2, Shorter
<1>4. ArrCells(left, cap, Stored(data, left, Zeros(m)), SubSeq(s, 1, left))
  <2>1. left + m <= cap
    BY <1>1, <1>2
  <2>2. \A k \in left + m + 1 .. cap : data[k] = 0
    BY <1>2 DEF ArrCells
  <2> QED BY <1>3, <2>1, <2>2, ZeroedCells
<1>5. ArrPopped([len |-> n, data |-> data], m)
        = [len |-> left, data |-> Stored(data, left, Zeros(m))]
  BY <1>2 DEF ArrPopped
<1> QED BY <1>2, <1>4, <1>5

LEMMA ArrRemoves ==
  ASSUME NEW n, NEW cap, NEW data, NEW s, ArrCells(n, cap, data, s),
         NEW start \in Nat, NEW count \in Nat, start + count <= n
  PROVE  ArrHolds(ArrRemoved([len |-> n, data |-> data], start, count),
                  Without(s, <<start, count>>))
<1>1. /\ n \in Nat /\ cap \in Nat /\ n <= cap /\ Agrees(n, cap, data, s)
      /\ s \in Seq(Int) /\ Len(s) = n
  BY DEF ArrCells, Agrees
<1>2. CASE count > 0
  <2>1. PICK left \in Nat : left = n - count /\ left + count = n
    BY <1>1
  <2>2. PICK moved : moved = Stored(data, start, SubSeq(data, start + count + 1, n))
    OBVIOUS
  <2>3. PICK t : t = Without(s, <<start, count>>)
    OBVIOUS
  <2>4. Agrees(left, cap, moved, t) /\ \A k \in left + 1 .. cap : moved[k] = data[k]
    <3>1. Closes(Stored(data, start, SubSeq(data, start + count + 1, n)),
                 n - count, cap, data, Without(s, <<start, count>>))
      BY <1>1, Moved
    <3> QED BY <2>1, <2>2, <2>3, <3>1 DEF Closes
  <2>5. ArrCells(left, cap, Stored(moved, left, Zeros(count)), t)
    <3>1. left + count <= cap
      BY <1>1, <2>1
    <3>2. ASSUME NEW k \in left + count + 1 .. cap PROVE moved[k] = 0
      <4>1. k \in left + 1 .. cap /\ k \in n + 1 .. cap
        BY <1>1, <2>1
      <4> QED BY <2>4, <4>1 DEF ArrCells
    <3> QED BY <2>4, <3>1, <3>2, ZeroedCells
  <2>6. ArrRemoved([len |-> n, data |-> data], start, count)
          = ArrShrunk([len |-> left, data |-> Stored(moved, left, Zeros(count))])
    BY <1>2, <2>1, <2>2 DEF ArrRemoved
  <2> QED BY <2>3, <2>5, <2>6, ArrShrinks
<1>3. CASE count = 0
  <2>1. Without(s, <<start, count>>) = s
    BY <1>1, <1>3 DEF Without
  <2>2. ArrRemoved([len |-> n, data |-> data], start, count) = [len |-> n, data |-> data]
    BY <1>3 DEF ArrRemoved
  <2> QED BY <2>1, <2>2 DEF ArrHolds
<1> QED BY <1>2, <1>3

(* What set_len makes of the sequence. *)
WithLen(s, len) == [k \in 1 .. len |-> IF k <= Len(s) THEN s[k] ELSE 0]

Pads(t, s, n, len) ==
    /\ t \in Seq(Int) /\ Len(t) = len
    /\ \A k \in 1 .. len : t[k] = IF k <= n THEN s[k] ELSE 0
    /\ len <= n => t = SubSeq(s, 1, len)

LEMMA WithLenCells ==
  ASSUME NEW n \in Nat, NEW s \in Seq(Int), Len(s) = n, NEW len \in Nat
  PROVE  Pads(WithLen(s, len), s, n, len)
<1> DEFINE cell(k) == IF k <= n THEN s[k] ELSE 0
           t == [k \in 1 .. len |-> cell(k)]
<1>1. WithLen(s, len) = t
  BY DEF WithLen
<1>2. \A k \in 1 .. len : cell(k) \in Int
  OBVIOUS
<1> HIDE DEF cell
<1>3. t \in [1 .. len -> Int] /\ \A k \in 1 .. len : t[k] = cell(k)
  BY <1>2
<1> HIDE DEF t
<1>4. t \in Seq(Int) /\ Len(t) = len
  BY <1>3, FromFunction
<1>5. ASSUME len <= n PROVE t = SubSeq(s, 1, len)
  <2>1. /\ SubSeq(s, 1, len) \in Seq(Int) /\ Len(SubSeq(s, 1, len)) = len
        /\ \A k \in 1 .. len : SubSeq(s, 1, len)[k] = s[k]
    BY <1>5
  <2>2. \A k \in 1 .. len : t[k] = s[k]
    BY <1>3, <1>5 DEF cell
  <2>3. PICK u : u = SubSeq(s, 1, len)
    OBVIOUS
  <2>4. /\ u \in Seq(Int) /\ Len(u) = Len(t)
        /\ \A k \in 1 .. Len(t) : t[k] = u[k]
    BY <1>4, <2>1, <2>2, <2>3
  <2>5. t = u
    BY <1>4, <2>4, SameCells
  <2> QED BY <2>3, <2>5
<1>6. \A k \in 1 .. len : t[k] = IF k <= n THEN s[k] ELSE 0
  BY <1>3 DEF cell
<1> QED BY <1>1, <1>4, <1>5, <1>6 DEF Pads

LEMMA ArrSetsLen ==
  ASSUME NEW n, NEW cap, NEW data, NEW s, ArrCells(n, cap, data, s),
         NEW len \in Nat
  PROVE  ArrHolds(ArrWithLen([len |-> n, data |-> data], len), WithLen(s, len))
<1> DEFINE a == [len |-> n, data |-> data]
<1>1. /\ n \in Nat /\ cap \in Nat /\ n <= cap /\ Agrees(n, cap, data, s)
      /\ s \in Seq(Int) /\ Len(s) = n
  BY DEF ArrCells, Agrees
<1>0. Pads(WithLen(s, len), s, n, len)
  BY <1>1, WithLenCells
<1>2. CASE len > n
  <2>1. PICK m \in Nat : m = len - n /\ len = n + m
    BY <1>1, <1>2
  <2>2. PICK d, c : ArrExpanded(a, len) = [len |-> n, data |-> d]
                       /\ ArrCells(n, c, d, s) /\ len <= c
    <3>1. n <= len
      BY <1>1, <1>2
    <3> QED BY <3>1, ArrExpands
  <2>3. PICK zeros \in Seq(Int) : zeros = Zeros(m) /\ Len(zeros) = m
    BY Fillings
  <2>4. \A k \in 1 .. m : zeros[k] = 0
    BY <2>3, Fillings
  <2>5. PICK new : new = Stored(d, n, zeros)
    OBVIOUS
  <2>6. Extends(new, n, c, d, s, zeros, len)
    <3>1. Agrees(n, c, d, s)
      BY <2>2 DEF ArrCells
    <3> QED BY <2>1, <2>2, <2>3, <2>5, <3>1, Behind
  <2>7. PICK t : t = WithLen(s, len)
    OBVIOUS
  <2>8. /\ t \in Seq(Int) /\ Len(t) = len
        /\ \A k \in 1 .. len : t[k] = IF k <= n THEN s[k] ELSE 0
    BY <1>0, <2>7 DEF Pads
  <2>9. c \in Nat /\ new \in Seq(Int) /\ Len(new) = c /\ \A k \in 1 .. n : new[k] = s[k]
    BY <2>6 DEF Extends, Agrees
  <2>10. ASSUME NEW k \in 1 .. len PROVE new[k] = t[k]
    <3>1. CASE k <= n
      BY <1>1, <2>8, <2>9, <3>1
    <3>2. CASE k > n
      <4>1. k \in n + 1 .. len /\ k - n \in 1 .. m
        BY <1>1, <2>1, <3>2
      <4>2. new[k] = zeros[k - n]
        BY <2>6, <4>1 DEF Extends
      <4>3. t[k] = 0
        BY <1>1, <2>8, <3>2
      <4> QED BY <2>4, <4>1, <4>2, <4>3
    <3> QED BY <1>1, <3>1, <3>2
  <2>11. ASSUME NEW k \in len + 1 .. c PROVE new[k] = 0
    <3>1. k \in n + 1 .. c
      BY <1>1, <2>1
    <3> QED BY <2>2, <2>6, <3>1 DEF ArrCells, Extends
  <2>12. ArrCells(len, c, new, t)
    BY <2>2, <2>8, <2>9, <2>10, <2>11 DEF ArrCells, Agrees
  <2>13. ArrWithLen(a, len) = [len |-> len, data |-> new]
    <3>1. a.len = n
      OBVIOUS
    <3> HIDE DEF a
    <3>2. ArrWithLen(a, len)
            = [len |-> len, data |-> Stored(ArrExpanded(a, len).data, n, Zeros(len - n))]
      BY <1>2, <3>1 DEF ArrWithLen
    <3>3. ArrExpanded(a, len).data = d
      BY <2>2
    <3> QED BY <2>1, <2>3, <2>5, <3>2, <3>3
  <2> QED BY <2>7, <2>12, <2>13 DEF ArrHolds
<1>3. CASE len < n
  <2>1. PICK m \in Nat : m = n - len /\ m <= n /\ n - m = len
    BY <1>1, <1>3
  <2>2. PICK d : /\ ArrPopped(a, m) = [len |-> n - m, data |-> d]
                 /\ ArrCells(n - m, cap, d, SubSeq(s, 1, n - m))
    BY <2>1, ArrPops
  <2>3. ArrHolds(ArrShrunk([len |-> n - m, data |-> d]), SubSeq(s, 1, n - m))
    BY <2>2, ArrShrinks
  <2>4. ArrWithLen(a, len) = ArrShrunk([len |-> n - m, data |-> d])
    BY <1>1, <1>3, <2>1, <2>2 DEF ArrWithLen
  <2>5. WithLen(s, len) = SubSeq(s, 1, n - m)
    <3>1. len <= n
      BY <1>1, <1>3
    <3> QED BY <1>0, <2>1, <3>1 DEF Pads
  <2> QED BY <2>3, <2>4, <2>5
<1>4. CASE len = n
  <2>1. SubSeq(s, 1, len) = s
    BY <1>1, <1>4
  <2>2. len <= n
    BY <1>1, <1>4
  <2>3. WithLen(s, len) = s
    BY <1>0, <2>1, <2>2 DEF Pads
  <2>4. ArrWithLen(a, len) = a
    BY <1>1, <1>4 DEF ArrWithLen
  <2> QED BY <2>3, <2>4 DEF ArrHolds
<1> QED BY <1>1, <1>2, <1>3, <1>4

LEMMA ArrFills ==
  ASSUME NEW n, NEW cap, NEW data, NEW s, ArrCells(n, cap, data, s),
         NEW start \in Nat, NEW count \in Nat, start + count <= n, NEW x \in Int
  PROVE  ArrHolds(ArrFilled([len |-> n, data |-> data], start, count, x),
                  [k \in 1 .. n |-> IF start < k /\ k <= start + count THEN x ELSE s[k]])
<1> DEFINE filled(k) == IF start < k /\ k <= start + count THEN x ELSE s[k]
           t == [k \in 1 .. n |-> filled(k)]
<1>1. /\ n \in Nat /\ cap \in Nat /\ n <= cap /\ s \in Seq(Int) /\ Len(s) = n
      /\ data \in Seq(Int) /\ Len(data) = cap
  BY DEF ArrCells, Agrees
<1>2. PICK end \in Nat : end = start + count /\ end <= n /\ end <= cap
  BY <1>1
<1>3. PICK w : w = [k \in 1 .. count |-> x]
  OBVIOUS
<1>4. w \in Seq(Int) /\ Len(w) = count /\ \A k \in 1 .. count : w[k] = x
  <2>1. w \in [1 .. count -> Int] /\ \A k \in 1 .. count : w[k] = x
    BY <1>3
  <2> QED BY <2>1, FromFunction
<1>5. PICK new : new = Stored(data, start, w)
  OBVIOUS
<1>6. Writes(new, data, cap, start, w, count, end)
  BY <1>1, <1>2, <1>4, <1>5, StoredCells
<1>7. \A k \in 1 .. n : filled(k) \in Int
  BY <1>1
<1>8. ASSUME NEW k \in 1 .. n PROVE new[k] = filled(k)
  <2>1. k \in 1 .. start \/ k \in start + 1 .. end \/ k \in end + 1 .. cap
    BY <1>1, <1>2
  <2>2. data[k] = s[k]
    BY DEF ArrCells, Agrees
  <2>3. CASE k \in 1 .. start
    BY <1>6, <2>2, <2>3 DEF Writes
  <2>4. CASE k \in start + 1 .. end
    <3>1. k - start \in 1 .. count
      BY <1>2, <2>4
    <3> QED BY <1>2, <1>4, <1>6, <2>4, <3>1 DEF Writes
  <2>5. CASE k \in end + 1 .. cap
    BY <1>2, <1>6, <2>2, <2>5 DEF Writes
  <2> QED BY <2>1, <2>3, <2>4, <2>5
<1> HIDE DEF filled
<1>9. DOMAIN t = 1 .. n /\ t = [k \in 1 .. n |-> t[k]] /\ \A k \in 1 .. n : t[k] = filled(k)
  OBVIOUS
<1> HIDE DEF t
<1>10. ASSUME NEW k \in n + 1 .. cap PROVE new[k] = 0
  <2>1. k \in end + 1 .. cap
    BY <1>1, <1>2
  <2> QED BY <1>6, <2>1 DEF Writes, ArrCells
<1>11. new \in Seq(Int) /\ Len(new) = cap
  BY <1>6 DEF Writes
<1>12. ArrHolds([len |-> n, data |-> new], t)
  <2>1. t \in [1 .. n -> Int]
    BY <1>7, <1>9
  <2>2. t \in Seq(Int) /\ Len(t) = n
    BY <1>1, <2>1, FromFunction
  <2>3. \A k \in 1 .. n : new[k] = t[k]
    BY <1>8, <1>9
  <2>4. ArrCells(n, cap, new, t)
    BY <1>1, <1>10, <1>11, <2>2, <2>3 DEF ArrCells, Agrees
  <2> QED BY <2>4 DEF ArrHolds
<1>13. [[len |-> n, data |-> data] EXCEPT !.data = new] = [len |-> n, data |-> new]
  OBVIOUS
<1>14. ArrFilled([len |-> n, data |-> data], start, count, x)
         = [[len |-> n, data |-> data] EXCEPT !.data = new]
  BY <1>3, <1>5 DEF ArrFilled
<1> QED BY <1>12, <1>13, <1>14 DEF t, filled

LEMMA ArrMaps ==
  ASSUME NEW n, NEW cap, NEW data, NEW s, ArrCells(n, cap, data, s),
         NEW x \in Int, NEW y \in Int
  PROVE  ArrHolds(ArrMapped([len |-> n, data |-> data], x, y),
                  [k \in 1 .. n |-> IF s[k] = x THEN y ELSE s[k]])
<1> DEFINE mapped(k) == IF s[k] = x THEN y ELSE s[k]
           t == [k \in 1 .. n |-> mapped(k)]
<1>1. /\ n \in Nat /\ cap \in Nat /\ n <= cap /\ s \in Seq(Int) /\ Len(s) = n
      /\ data \in Seq(Int) /\ Len(data) = cap
  BY DEF ArrCells, Agrees
<1>2. \A k \in 1 .. n : data[k] = s[k]
  BY DEF ArrCells, Agrees
<1>3. \A k \in 1 .. n : mapped(k) \in Int
  BY <1>1
<1>4. PICK w : w = [k \in 1 .. n |-> IF data[k] = x THEN y ELSE data[k]]
  OBVIOUS
<1>5. w = t
  BY <1>2, <1>4
<1> HIDE DEF mapped
<1>6. DOMAIN t = 1 .. n /\ t = [k \in 1 .. n |-> t[k]] /\ \A k \in 1 .. n : t[k] = mapped(k)
  OBVIOUS
<1> HIDE DEF t
<1>7. \A k \in 1 .. n : t[k] \in Int
  BY <1>3, <1>6
<1>8. w \in Seq(Int) /\ Len(w) = n
  <2>1. t \in [1 .. n -> Int]
    BY <1>6, <1>7
  <2> QED BY <1>1, <1>5, <2>1, FromFunction
<1>9. PICK zeros \in Seq(Int) : zeros = Zeros(cap) /\ Len(zeros) = cap
  BY <1>1, Fillings
<1>10. \A k \in 1 .. cap : zeros[k] = 0
  BY <1>1, <1>9, Fillings
<1>11. PICK new : new = Stored(zeros, 0, w)
  OBVIOUS
<1>12. Writes(new, zeros, cap, 0, w, n, n)
  <2>1. 0 \in Nat /\ n = 0 + n
    BY <1>1
  <2> QED BY <1>1, <1>8, <1>9, <1>11, <2>1, StoredCells
<1>13. ASSUME NEW k \in 1 .. n PROVE new[k] = t[k]
  <2>1. k \in 0 + 1 .. n /\ k - 0 = k
    OBVIOUS
  <2> QED BY <1>5, <1>12, <2>1 DEF Writes
<1>14. ASSUME NEW k \in n + 1 .. cap PROVE new[k] = 0
  <2>1. k \in 1 .. cap
    BY <1>1
  <2> QED BY <1>10, <1>12, <2>1 DEF Writes
<1>15. new \in Seq(Int) /\ Len(new) = cap
  BY <1>12 DEF Writes
<1>16. ArrHolds([len |-> n, data |-> new], t)
  <2>1. t \in Seq(Int) /\ Len(t) = n
    BY <1>5, <1>8
  <2>2. ArrCells(n, cap, new, t)
    BY <1>1, <1>13, <1>14, <1>15, <2>1 DEF ArrCells, Agrees
  <2> QED BY <2>2 DEF ArrHolds
<1>17. ArrMapped([len |-> n, data |-> data], x, y) = [len |-> n, data |-> new]
  BY <1>1, <1>4, <1>9, <1>11 DEF ArrMapped, _cap
<1> QED BY <1>16, <1>17 DEF t, mapped

LEMMA ArrIsNew ==
  ASSUME NEW size \in Nat
  PROVE  ArrHolds(NewArr(size), <<>>)
<1>1. Zeros(size) \in Seq(Int) /\ Len(Zeros(size)) = size
         /\ \A k \in 1 .. size : Zeros(size)[k] = 0
  BY Fillings
<1>2. ArrCells(0, size, Zeros(size), <<>>)
  BY <1>1 DEF ArrCells, Agrees
<1>3. NewArr(size) = [len |-> 0, data |-> Zeros(size)]
  BY DEF NewArr
<1> QED BY <1>2, <1>3 DEF ArrHolds

LEMMA ArrIsOf ==
  ASSUME NEW items \in Seq(Int)
  PROVE  ArrHolds(ArrOf(items), items)
<1>1. PICK n \in Nat : n = Len(items)
  OBVIOUS
<1>2. ArrCells(n, n, items, items)
  BY <1>1 DEF ArrCells, Agrees
<1>3. ArrOf(items) = [len |-> n, data |-> items]
  BY <1>1 DEF ArrOf
<1> QED BY <1>2, <1>3 DEF ArrHolds

LEMMA ArrSubs ==
  ASSUME NEW n, NEW cap, NEW data, NEW s, ArrCells(n, cap, data, s),
         NEW start \in Nat, NEW count \in Nat, start + count <= n
  PROVE  ArrHolds(ArrSub([len |-> n, data |-> data], start, count),
                  SubSeq(s, start + 1, start + count))
<1>1. PICK d, t : /\ d = SubSeq(data, start + 1, start + count)
                  /\ t = SubSeq(s, start + 1, start + count)
  OBVIOUS
<1>2. d = t /\ t \in Seq(Int) /\ Len(t) = count
  <2>1. Agrees(n, cap, data, s)
    BY DEF ArrCells
  <2>2. /\ SubSeq(data, start + 1, start + count) = SubSeq(s, start + 1, start + count)
        /\ SubSeq(s, start + 1, start + count) \in Seq(Int)
        /\ Len(SubSeq(s, start + 1, start + count)) = count
    BY <2>1, SameParts
  <2> QED BY <1>1, <2>2
<1>3. CASE count > 0
  <2>1. ArrSub([len |-> n, data |-> data], start, count) = ArrOf(d)
    BY <1>1, <1>3 DEF ArrSub
  <2> QED BY <1>1, <1>2, <2>1, ArrIsOf
<1>4. CASE count = 0
  <2>1. ArrSub([len |-> n, data |-> data], start, count) = NewArr(2)
    BY <1>4 DEF ArrSub
  <2>2. t = <<>>
    BY <1>2, <1>4
  <2> QED BY <1>1, <2>1, <2>2, ArrIsNew
<1> QED BY <1>3, <1>4

(* The loops of filter and of its meaning are recursions. *)
KeepsItem(v, x, drop) == IF x = drop THEN v ELSE Append(v, x)

Keeps(kept, s, n, drop) ==
    kept[0] = <<>> /\ \A k \in 1 .. n : kept[k] = KeepsItem(kept[k - 1], s[k], drop)

LEMMA FilteredTurns ==
  ASSUME NEW n \in Nat, NEW s \in Seq(Int), Len(s) = n, NEW drop
  PROVE  \E kept : Keeps(kept, s, n, drop) /\ Filtered(s, drop) = kept[n]
<1> DEFINE Step(v, k) == IF s[k] = drop THEN v ELSE Append(v, s[k])
           Is(f, m) == f = [k \in 0 .. m |-> IF k = 0 THEN <<>> ELSE Step(f[k - 1], k)]
<1>1. \A m \in Nat : \E f : Is(f, m)
  <2> HIDE DEF Step
  <2> DEFINE S == {m \in Nat : \E f : Is(f, m)}
  <2>1. 0 \in S
    <3>1. Is([k \in 0 .. 0 |-> <<>>], 0)
      OBVIOUS
    <3> QED BY <3>1
  <2>2. ASSUME NEW m \in Nat, m \in S PROVE m + 1 \in S
    <3>1. PICK f : Is(f, m)
      BY <2>2
    <3> DEFINE g == [k \in 0 .. m + 1 |-> IF k <= m THEN f[k] ELSE Step(f[m], k)]
    <3>2. Is(g, m + 1)
      BY <3>1
    <3> HIDE DEF Is
    <3> QED BY <3>2
  <2> HIDE DEF S
  <2>3. \A m \in Nat : m \in S
    BY <2>1, <2>2, NatInd
  <2> QED BY <2>3 DEF S
<1>2. PICK kept : Is(kept, n) /\ Filtered(s, drop) = kept[n]
  <2> DEFINE kept == CHOOSE f : Is(f, n)
  <2>1. Filtered(s, drop) = kept[n]
    BY DEF Filtered
  <2> HIDE DEF Is
  <2>2. Is(kept, n)
    BY <1>1
  <2> QED BY <2>1, <2>2
<1>3. Keeps(kept, s, n, drop)
  <2>1. \A k \in 1 .. n : Step(kept[k - 1], k) = KeepsItem(kept[k - 1], s[k], drop)
    BY DEF KeepsItem
  <2> HIDE DEF Step
  <2>2. kept[0] = <<>> /\ \A k \in 1 .. n : kept[k] = Step(kept[k - 1], k)
    BY <1>2
  <2> QED BY <2>1, <2>2 DEF Keeps
<1> QED BY <1>2, <1>3

FilterTurn(t, k, drop) ==
    IF t.data[k] = drop THEN t
    ELSE [p |-> t.p + 1, data |-> Stored(t.data, t.p, <<t.data[k]>>)]

Turns(turn, data, n, drop) ==
    /\ turn[0] = [p |-> 0, data |-> data]
    /\ \A k \in 1 .. n : turn[k] = FilterTurn(turn[k - 1], k, drop)

FilterEnds(result, turn, n) ==
    result = ArrShrunk(ArrPopped([len |-> n, data |-> turn[n].data], n - turn[n].p))

LEMMA FilterTurns ==
  ASSUME NEW n \in Nat, NEW data, NEW drop
  PROVE  \E turn : /\ Turns(turn, data, n, drop)
                   /\ FilterEnds(ArrFiltered([len |-> n, data |-> data], drop), turn, n)
<1> DEFINE a == [len |-> n, data |-> data]
           T0 == [p |-> 0, data |-> data]
           Step(t, k) == IF t.data[k] = drop THEN t
                         ELSE [p |-> t.p + 1, data |-> Stored(t.data, t.p, <<t.data[k]>>)]
           Is(f, m) == f = [k \in 0 .. m |-> IF k = 0 THEN T0 ELSE Step(f[k - 1], k)]
<1>1. \A m \in Nat : \E f : Is(f, m)
  <2> HIDE DEF Step, T0
  <2> DEFINE S == {m \in Nat : \E f : Is(f, m)}
  <2>1. 0 \in S
    <3>1. Is([k \in 0 .. 0 |-> T0], 0)
      OBVIOUS
    <3> QED BY <3>1
  <2>2. ASSUME NEW m \in Nat, m \in S PROVE m + 1 \in S
    <3>1. PICK f : Is(f, m)
      BY <2>2
    <3> DEFINE g == [k \in 0 .. m + 1 |-> IF k <= m THEN f[k] ELSE Step(f[m], k)]
    <3>2. Is(g, m + 1)
      BY <3>1
    <3> HIDE DEF Is
    <3> QED BY <3>2
  <2> HIDE DEF S
  <2>3. \A m \in Nat : m \in S
    BY <2>1, <2>2, NatInd
  <2> QED BY <2>3 DEF S
<1>2. PICK turn : /\ Is(turn, n)
                  /\ ArrFiltered(a, drop)
                       = ArrShrunk(ArrPopped([a EXCEPT !.data = turn[n].data],
                                             a.len - turn[n].p))
  <2> DEFINE turn == CHOOSE f : Is(f, n)
  <2>1. ArrFiltered(a, drop) = ArrShrunk(ArrPopped([a EXCEPT !.data = turn[n].data],
                                                   a.len - turn[n].p))
    BY DEF ArrFiltered
  <2> HIDE DEF Is
  <2>2. Is(turn, n)
    BY <1>1
  <2> QED BY <2>1, <2>2
<1>3. Turns(turn, data, n, drop)
  <2>1. \A k \in 1 .. n : Step(turn[k - 1], k) = FilterTurn(turn[k - 1], k, drop)
    BY DEF FilterTurn
  <2> HIDE DEF Step
  <2>2. turn[0] = T0 /\ \A k \in 1 .. n : turn[k] = Step(turn[k - 1], k)
    BY <1>2
  <2> QED BY <2>1, <2>2 DEF Turns
<1>4. PICK d : d = turn[n].data
  OBVIOUS
<1>5. [[len |-> n, data |-> data] EXCEPT !.data = d] = [len |-> n, data |-> d]
  OBVIOUS
<1>6. FilterEnds(ArrFiltered(a, drop), turn, n)
  BY <1>2, <1>4, <1>5 DEF FilterEnds
<1> QED BY <1>3, <1>6

(* The first k items have been filtered, the others are in their places. *)
Compacts(t, k, cap, data, kept) ==
    \E p, d : /\ t = [p |-> p, data |-> d] /\ p <= k
              /\ Agrees(p, cap, d, kept)
              /\ \A j \in k + 1 .. cap : d[j] = data[j]

LEMMA FilterTurnKeeps ==
  ASSUME NEW k \in Nat, NEW cap, NEW data, NEW s, NEW t, NEW drop,
         k + 1 <= cap, Compacts(t, k, cap, data, s), data[k + 1] \in Int
  PROVE  Compacts(FilterTurn(t, k + 1, drop), k + 1, cap, data,
                  KeepsItem(s, data[k + 1], drop))
<1>1. PICK p, d : /\ t = [p |-> p, data |-> d] /\ p <= k
                  /\ Agrees(p, cap, d, s)
                  /\ \A j \in k + 1 .. cap : d[j] = data[j]
  BY DEF Compacts
<1>2. /\ p \in Nat /\ cap \in Nat /\ s \in Seq(Int) /\ d \in Seq(Int)
  BY <1>1 DEF Agrees
<1>3. PICK x \in Int : x = data[k + 1] /\ d[k + 1] = x /\ t.data[k + 1] = x
  BY <1>1, <1>2
<1>4. CASE x = drop
  <2>1. \A j \in k + 1 + 1 .. cap : d[j] = data[j]
    BY <1>1, <1>2
  <2>2. p <= k + 1
    BY <1>1, <1>2
  <2>3. Compacts(t, k + 1, cap, data, s)
    BY <1>1, <2>1, <2>2 DEF Compacts
  <2> QED BY <1>3, <1>4, <2>3 DEF FilterTurn, KeepsItem
<1>5. CASE x # drop
  <2>1. PICK new : new = Stored(d, p, <<x>>)
    OBVIOUS
  <2>2. PICK q \in Nat : q = p + 1 /\ q <= k + 1 /\ q <= cap
    BY <1>1, <1>2
  <2>3. Extends(new, p, cap, d, s, <<x>>, q)
    <3>1. <<x>> \in Seq(Int) /\ Len(<<x>>) = 1 /\ 1 \in Nat
      OBVIOUS
    <3> QED BY <1>1, <2>1, <2>2, <3>1, Behind
  <2>4. s \o <<x>> = Append(s, x)
    BY <1>2
  <2>5. Agrees(q, cap, new, Append(s, x)) /\ \A j \in q + 1 .. cap : new[j] = d[j]
    BY <2>3, <2>4 DEF Extends
  <2>6. \A j \in k + 1 + 1 .. cap : new[j] = data[j]
    <3>1. \A j \in k + 1 + 1 .. cap : j \in q + 1 .. cap /\ j \in k + 1 .. cap
      BY <1>2, <2>2
    <3> QED BY <1>1, <2>5, <3>1
  <2>7. Compacts([p |-> q, data |-> new], k + 1, cap, data, Append(s, x))
    BY <2>2, <2>5, <2>6 DEF Compacts
  <2>8. t.p + 1 = q /\ Stored(t.data, t.p, <<x>>) = new
    BY <1>1, <2>1, <2>2
  <2> QED BY <1>3, <1>5, <2>7, <2>8 DEF FilterTurn, KeepsItem
<1> QED BY <1>4, <1>5

LEMMA ArrFilters ==
  ASSUME NEW n, NEW cap, NEW data, NEW s, ArrCells(n, cap, data, s), NEW drop
  PROVE  ArrHolds(ArrFiltered([len |-> n, data |-> data], drop), Filtered(s, drop))
<1>1. /\ n \in Nat /\ cap \in Nat /\ n <= cap /\ s \in Seq(Int) /\ Len(s) = n
      /\ data \in Seq(Int) /\ Len(data) = cap
      /\ \A k \in 1 .. n : data[k] = s[k]
  BY DEF ArrCells, Agrees
<1>2. PICK kept : Keeps(kept, s, n, drop) /\ Filtered(s, drop) = kept[n]
  BY <1>1, FilteredTurns
<1>3. PICK turn : /\ Turns(turn, data, n, drop)
                  /\ FilterEnds(ArrFiltered([len |-> n, data |-> data], drop), turn, n)
  BY <1>1, FilterTurns
<1>4. Compacts(turn[n], n, cap, data, kept[n])
  <2> DEFINE S == {k \in Nat : k <= n => Compacts(turn[k], k, cap, data, kept[k])}
  <2>1. 0 \in S
    <3>1. Agrees(0, cap, data, <<>>)
      BY <1>1 DEF Agrees
    <3>2. Compacts([p |-> 0, data |-> data], 0, cap, data, <<>>)
      BY <3>1 DEF Compacts
    <3> QED BY <1>2, <1>3, <3>2 DEF Keeps, Turns
  <2>2. ASSUME NEW k \in Nat, k \in S PROVE k + 1 \in S
    <3> SUFFICES ASSUME k + 1 <= n
                 PROVE  Compacts(turn[k + 1], k + 1, cap, data, kept[k + 1])
      OBVIOUS
    <3>1. Compacts(turn[k], k, cap, data, kept[k])
      BY <1>1, <2>2
    <3>2. k + 1 \in 1 .. n /\ (k + 1) - 1 = k /\ k + 1 <= cap
      BY <1>1
    <3>3. data[k + 1] = s[k + 1] /\ data[k + 1] \in Int
      BY <1>1, <3>2
    <3>4. PICK t, u : t = turn[k] /\ u = kept[k]
      OBVIOUS
    <3>5. turn[k + 1] = FilterTurn(t, k + 1, drop)
      BY <1>3, <3>2, <3>4 DEF Turns
    <3>6. kept[k + 1] = KeepsItem(u, data[k + 1], drop)
      BY <1>2, <3>2, <3>3, <3>4 DEF Keeps
    <3>7. Compacts(t, k, cap, data, u)
      BY <3>1, <3>4
    <3>8. Compacts(FilterTurn(t, k + 1, drop), k + 1, cap, data,
                   KeepsItem(u, data[k + 1], drop))
      BY <3>2, <3>3, <3>7, FilterTurnKeeps
    <3> QED BY <3>5, <3>6, <3>8
  <2> HIDE DEF S
  <2>3. \A k \in Nat : k \in S
    BY <2>1, <2>2, NatInd
  <2>4. n \in S
    BY <1>1, <2>3
  <2> QED BY <1>1, <2>4 DEF S
<1>5. PICK p, d : /\ turn[n] = [p |-> p, data |-> d] /\ p <= n
                  /\ Agrees(p, cap, d, kept[n])
                  /\ \A j \in n + 1 .. cap : d[j] = data[j]
  BY <1>4 DEF Compacts
<1>6. PICK m \in Nat : m = n - p /\ p + m = n /\ n - m = p
  <2>1. p \in Nat /\ p <= n
    BY <1>5 DEF Agrees
  <2>2. n - p \in Nat /\ p + (n - p) = n /\ n - (n - p) = p
    BY <1>1, <2>1
  <2> QED BY <2>2
<1>7. ArrCells(p, cap, Stored(d, p, Zeros(m)), kept[n])
  <2>1. \A j \in p + m + 1 .. cap : d[j] = 0
    BY <1>5, <1>6 DEF ArrCells
  <2> QED BY <1>1, <1>5, <1>6, <2>1, ZeroedCells
<1>8. ArrPopped([len |-> n, data |-> d], m)
        = [len |-> p, data |-> Stored(d, p, Zeros(m))]
  BY <1>6 DEF ArrPopped
<1>9. ArrFiltered([len |-> n, data |-> data], drop)
        = ArrShrunk([len |-> p, data |-> Stored(d, p, Zeros(m))])
  BY <1>3, <1>5, <1>6, <1>8 DEF FilterEnds
<1> QED BY <1>2, <1>7, <1>9, ArrShrinks

-----------------------------------------------------------------------------
(* Strings: behind the text is a NUL, or nothing of its own. *)

StrCells(n, size, data, s) ==
    /\ Agrees(n, size, data, s) /\ n < size
    /\ \/ data[n + 1] = 0
       \/ data[n + 1] = Junk /\ size = n + 1

StrHolds(t, s) ==
    \E n, size, data : t = [len |-> n, data |-> data] /\ StrCells(n, size, data, s)

LEMMA StrResizes ==
  ASSUME NEW n, NEW size, NEW data, NEW s, Agrees(n, size, data, s),
         NEW new \in Nat, n <= new
  PROVE  \E d : /\ StrResized([len |-> n, data |-> data], new) = [len |-> n, data |-> d]
                /\ Agrees(n, new + 1, d, s) /\ d[n + 1] = Junk
<1>1. n \in Nat
  BY DEF Agrees
<1>2. PICK m \in Nat, end \in Nat : m = new + 1 - n /\ end = new + 1 /\ end = n + m /\ 1 <= m
  <2>1. new + 1 - n \in Nat
    BY <1>1
  <2> QED BY <1>1, <2>1
<1>3. PICK junk \in Seq(Int) : junk = Junks(m) /\ Len(junk) = m
  BY Fillings
<1>4. junk[1] = Junk
  <2>1. \A k \in 1 .. m : junk[k] = Junk
    BY <1>3, Fillings
  <2> QED BY <1>2, <2>1
<1>5. PICK d : d = SubSeq(data, 1, n) \o junk
  OBVIOUS
<1>6. Agrees(n, end, d, s) /\ \A k \in n + 1 .. end : d[k] = junk[k - n]
  <2>1. Grows(SubSeq(data, 1, n) \o junk, n, end, s, junk)
    BY <1>2, <1>3, Resized
  <2> QED BY <1>5, <2>1 DEF Grows
<1>7. d[n + 1] = Junk
  <2>1. n + 1 \in n + 1 .. end /\ (n + 1) - n = 1
    BY <1>1, <1>2
  <2> QED BY <1>4, <1>6, <2>1
<1>8. [[len |-> n, data |-> data] EXCEPT !.data = d] = [len |-> n, data |-> d]
  OBVIOUS
<1>9. StrResized([len |-> n, data |-> data], new)
        = [[len |-> n, data |-> data] EXCEPT !.data = d]
  BY <1>2, <1>3, <1>5 DEF StrResized
<1> QED BY <1>2, <1>6, <1>7, <1>8, <1>9

LEMMA StrExpands ==
  ASSUME NEW n, NEW size, NEW data, NEW s, Agrees(n, size, data, s),
         NEW m \in Nat, n <= m
  PROVE  \E d, c : /\ StrExpanded([len |-> n, data |-> data], m) = [len |-> n, data |-> d]
                   /\ Agrees(n, c, d, s) /\ m < c
<1>1. n \in Nat /\ size \in Nat /\ Len(data) = size
  BY DEF Agrees
<1>2. CASE m > size - 1
  <2>1. PICK c \in Nat : c = nextPow2(m) /\ m <= c
    BY NextPow2
  <2>2. n <= c
    BY <1>1, <2>1
  <2>3. PICK d : /\ StrResized([len |-> n, data |-> data], c) = [len |-> n, data |-> d]
                 /\ Agrees(n, c + 1, d, s)
    BY <2>1, <2>2, StrResizes
  <2>4. StrExpanded([len |-> n, data |-> data], m) = StrResized([len |-> n, data |-> data], c)
    BY <1>1, <1>2, <2>1 DEF StrExpanded
  <2>5. m < c + 1
    BY <2>1
  <2> QED BY <2>3, <2>4, <2>5
<1>3. CASE ~(m > size - 1)
  <2>1. StrExpanded([len |-> n, data |-> data], m) = [len |-> n, data |-> data]
    BY <1>1, <1>3 DEF StrExpanded
  <2>2. m < size
    BY <1>1, <1>3
  <2> QED BY <2>1, <2>2
<1> QED BY <1>2, <1>3

LEMMA StrShrinks ==
  ASSUME NEW n, NEW size, NEW data, NEW s, StrCells(n, size, data, s)
  PROVE  StrHolds(StrShrunk([len |-> n, data |-> data]), s)
<1> DEFINE t == [len |-> n, data |-> data]
<1>1. n \in Nat /\ n <= n /\ Agrees(n, size, data, s)
  BY DEF StrCells, Agrees
<1>2. PICK d : /\ StrResized(t, n) = [len |-> n, data |-> d]
               /\ Agrees(n, n + 1, d, s) /\ d[n + 1] = Junk
  BY <1>1, StrResizes
<1>3. StrCells(n, n + 1, d, s)
  BY <1>1, <1>2 DEF StrCells
<1>4. StrHolds(StrResized(t, n), s) /\ StrHolds(t, s)
  <2> HIDE DEF t
  <2>1. t = [len |-> n, data |-> data]
    BY DEF t
  <2> QED BY <1>2, <1>3, <2>1 DEF StrHolds
<1>5. StrShrunk(t) = StrResized(t, n) \/ StrShrunk(t) = t
  BY DEF StrShrunk
<1> QED BY <1>4, <1>5

(* A text and a NUL are written behind the first n characters. *)
LEMMA Terminates ==
  ASSUME NEW n, NEW size, NEW data, NEW s, Agrees(n, size, data, s),
         NEW m \in Nat, NEW text \in Seq(Int), Len(text) = m,
         NEW end \in Nat, end = n + m, end < size
  PROVE  StrCells(end, size, Stored(data, n, Append(text, 0)), s \o text)
<1>1. n \in Nat /\ size \in Nat /\ s \in Seq(Int) /\ Len(s) = n
  BY DEF Agrees
<1>2. PICK w : w = Append(text, 0)
  OBVIOUS
<1>3. /\ w \in Seq(Int) /\ Len(w) = m + 1 /\ w[m + 1] = 0
      /\ \A k \in 1 .. m : w[k] = text[k]
  BY <1>2
<1>4. PICK new : new = Stored(data, n, w)
  OBVIOUS
<1>5. Extends(new, n, size, data, s, w, end + 1)
  <2>1. m + 1 \in Nat /\ end + 1 \in Nat /\ end + 1 = n + (m + 1) /\ end + 1 <= size
    BY <1>1
  <2> QED BY <1>3, <1>4, <2>1, Behind
<1>6. PICK t : t = s \o text
  OBVIOUS
<1>7. Joins(t, s, n, text, m, end)
  BY <1>1, <1>6, Joined
<1>8. ASSUME NEW k \in 1 .. end PROVE new[k] = t[k]
  <2>1. k \in 1 .. n \/ k \in n + 1 .. end
    BY <1>1
  <2>2. CASE k \in 1 .. n
    BY <1>5, <1>7, <2>2 DEF Extends, Agrees, Joins
  <2>3. CASE k \in n + 1 .. end
    <3>1. k \in n + 1 .. end + 1 /\ k - n \in 1 .. m
      BY <1>1, <2>3
    <3>2. new[k] = w[k - n]
      BY <1>5, <3>1 DEF Extends
    <3> QED BY <1>3, <1>7, <2>3, <3>1, <3>2 DEF Joins
  <2> QED BY <2>1, <2>2, <2>3
<1>9. new[end + 1] = 0
  <2>1. end + 1 \in n + 1 .. end + 1 /\ (end + 1) - n = m + 1
    BY <1>1
  <2>2. new[end + 1] = w[(end + 1) - n]
    BY <1>5, <2>1 DEF Extends
  <2> QED BY <1>3, <2>1, <2>2
<1>10. Agrees(end, size, new, t)
  <2>1. new \in Seq(Int) /\ Len(new) = size
    BY <1>5 DEF Extends, Agrees
  <2>2. t \in Seq(Int) /\ Len(t) = end
    BY <1>7 DEF Joins
  <2> QED BY <1>1, <1>8, <2>1, <2>2 DEF Agrees
<1>11. StrCells(end, size, new, t)
  BY <1>9, <1>10 DEF StrCells
<1> QED BY <1>2, <1>4, <1>6, <1>11

(* A NUL alone. *)
LEMMA CutOff ==
  ASSUME NEW n, NEW size, NEW data, NEW s, Agrees(n, size, data, s), n < size
  PROVE  StrCells(n, size, Stored(data, n, <<0>>), s)
<1>1. n \in Nat /\ s \in Seq(Int)
  BY DEF Agrees
<1>2. Append(<<>>, 0) = <<0>> /\ s \o <<>> = s /\ n = n + 0
  BY <1>1
<1>3. <<>> \in Seq(Int) /\ Len(<<>>) = 0 /\ 0 \in Nat
  OBVIOUS
<1>4. StrCells(n, size, Stored(data, n, Append(<<>>, 0)), s \o <<>>)
  BY <1>1, <1>2, <1>3, Terminates
<1> QED BY <1>2, <1>4

LEMMA StrAdds ==
  ASSUME NEW n, NEW size, NEW data, NEW s, StrCells(n, size, data, s),
         NEW text \in Seq(Int)
  PROVE  StrHolds(StrAdd([len |-> n, data |-> data], text), s \o text)
<1>1. n \in Nat /\ Agrees(n, size, data, s)
  BY DEF StrCells, Agrees
<1>2. PICK m \in Nat : m = Len(text)
  OBVIOUS
<1>3. PICK end \in Nat : end = n + m /\ n <= end
  BY <1>1
<1>4. PICK d, c : /\ StrExpanded([len |-> n, data |-> data], end) = [len |-> n, data |-> d]
                  /\ Agrees(n, c, d, s) /\ end < c
  BY <1>1, <1>3, StrExpands
<1>5. StrCells(end, c, Stored(d, n, Append(text, 0)), s \o text)
  BY <1>2, <1>3, <1>4, Terminates
<1>6. StrAdd([len |-> n, data |-> data], text)
        = [len |-> end, data |-> Stored(d, n, Append(text, 0))]
  BY <1>2, <1>3, <1>4 DEF StrAdd
<1> QED BY <1>5, <1>6 DEF StrHolds

LEMMA StrRemoves ==
  ASSUME NEW n, NEW size, NEW data, NEW s, StrCells(n, size, data, s),
         NEW start \in Nat, NEW count \in Nat, start + count <= n
  PROVE  StrHolds(StrRemoved([len |-> n, data |-> data], start, count),
                  Without(s, <<start, count>>))
<1>1. /\ n \in Nat /\ size \in Nat /\ n < size /\ Agrees(n, size, data, s)
      /\ s \in Seq(Int) /\ Len(s) = n
  BY DEF StrCells, Agrees
<1>2. CASE count > 0
  <2>1. PICK left \in Nat : left = n - count /\ left < size
    <3>1. n - count \in Nat /\ n - count < size
      BY <1>1
    <3> QED BY <3>1
  <2>2. PICK moved : moved = Stored(data, start, SubSeq(data, start + count + 1, n))
    OBVIOUS
  <2>3. PICK t : t = Without(s, <<start, count>>)
    OBVIOUS
  <2>4. Agrees(left, size, moved, t)
    <3>1. Closes(Stored(data, start, SubSeq(data, start + count + 1, n)),
                 n - count, size, data, Without(s, <<start, count>>))
      BY <1>1, Moved
    <3> QED BY <2>1, <2>2, <2>3, <3>1 DEF Closes
  <2>5. StrCells(left, size, Stored(moved, left, <<0>>), t)
    BY <2>1, <2>4, CutOff
  <2>6. StrRemoved([len |-> n, data |-> data], start, count)
          = StrShrunk([len |-> left, data |-> Stored(moved, left, <<0>>)])
    BY <1>2, <2>1, <2>2 DEF StrRemoved
  <2> QED BY <2>3, <2>5, <2>6, StrShrinks
<1>3. CASE count = 0
  <2>1. Without(s, <<start, count>>) = s
    BY <1>1, <1>3 DEF Without
  <2>2. StrRemoved([len |-> n, data |-> data], start, count) = [len |-> n, data |-> data]
    BY <1>3 DEF StrRemoved
  <2> QED BY <2>1, <2>2 DEF StrHolds
<1> QED BY <1>2, <1>3

LEMMA StrSetsLen ==
  ASSUME NEW n, NEW size, NEW data, NEW s, StrCells(n, size, data, s),
         NEW len \in Nat
  PROVE  StrHolds(StrWithLen([len |-> n, data |-> data], len), WithLen(s, len))
<1> DEFINE a == [len |-> n, data |-> data]
<1>1. /\ n \in Nat /\ size \in Nat /\ n < size /\ Agrees(n, size, data, s)
      /\ s \in Seq(Int) /\ Len(s) = n
  BY DEF StrCells, Agrees
<1>0. Pads(WithLen(s, len), s, n, len)
  BY <1>1, WithLenCells
<1>2. CASE len > n
  <2>1. PICK m \in Nat : m = len - n + 1 /\ len + 1 = n + m
    <3>1. len - n + 1 \in Nat
      BY <1>1, <1>2
    <3> QED BY <1>1, <3>1
  <2>2. PICK d, c : StrExpanded(a, len) = [len |-> n, data |-> d]
                       /\ Agrees(n, c, d, s) /\ len < c
    <3>1. n <= len
      BY <1>1, <1>2
    <3> QED BY <1>1, <3>1, StrExpands
  <2>3. PICK zeros \in Seq(Int) : zeros = Zeros(m) /\ Len(zeros) = m
    BY Fillings
  <2>4. \A k \in 1 .. m : zeros[k] = 0
    BY <2>3, Fillings
  <2>5. PICK new : new = Stored(d, n, zeros)
    OBVIOUS
  <2>6. Extends(new, n, c, d, s, zeros, len + 1)
    <3>1. len + 1 \in Nat /\ len + 1 <= c
      BY <2>2 DEF Agrees
    <3> QED BY <2>1, <2>2, <2>3, <2>5, <3>1, Behind
  <2>7. PICK t : t = WithLen(s, len)
    OBVIOUS
  <2>8. /\ t \in Seq(Int) /\ Len(t) = len
        /\ \A k \in 1 .. len : t[k] = IF k <= n THEN s[k] ELSE 0
    BY <1>0, <2>7 DEF Pads
  <2>9. /\ c \in Nat /\ new \in Seq(Int) /\ Len(new) = c
        /\ \A k \in 1 .. n : new[k] = s[k]
    BY <2>6 DEF Extends, Agrees
  <2>10. ASSUME NEW k \in n + 1 .. len + 1 PROVE new[k] = 0
    <3>1. k - n \in 1 .. m
      BY <1>1, <2>1
    <3>2. new[k] = zeros[k - n]
      BY <2>6 DEF Extends
    <3> QED BY <2>4, <3>1, <3>2
  <2>11. ASSUME NEW k \in 1 .. len PROVE new[k] = t[k]
    <3>1. CASE k <= n
      BY <1>1, <2>8, <2>9, <3>1
    <3>2. CASE k > n
      <4>1. k \in n + 1 .. len + 1
        BY <1>1, <3>2
      <4>2. t[k] = 0
        BY <1>1, <2>8, <3>2
      <4> QED BY <2>10, <4>1, <4>2
    <3> QED BY <1>1, <3>1, <3>2
  <2>12. StrCells(len, c, new, t)
    <3>1. Agrees(len, c, new, t)
      BY <2>2, <2>8, <2>9, <2>11 DEF Agrees
    <3>2. new[len + 1] = 0
      <4>1. len + 1 \in n + 1 .. len + 1
        BY <1>1, <1>2
      <4> QED BY <2>10, <4>1
    <3> QED BY <2>2, <3>1, <3>2 DEF StrCells
  <2>13. StrWithLen(a, len) = [len |-> len, data |-> new]
    <3>1. a.len = n
      OBVIOUS
    <3> HIDE DEF a
    <3>2. StrWithLen(a, len)
            = [len |-> len, data |-> Stored(StrExpanded(a, len).data, n, Zeros(len - n + 1))]
      BY <1>2, <3>1 DEF StrWithLen
    <3>3. StrExpanded(a, len).data = d
      BY <2>2
    <3> QED BY <2>1, <2>3, <2>5, <3>2, <3>3
  <2> QED BY <2>7, <2>12, <2>13 DEF StrHolds
<1>3. CASE len < n
  <2>1. PICK m \in Nat : m = n - len /\ n = len + m /\ 1 <= m
    <3>1. n - len \in Nat /\ 1 <= n - len
      BY <1>1, <1>3
    <3> QED BY <1>1, <3>1
  <2>2. Agrees(len, size, data, SubSeq(s, 1, len))
    <3>1. len <= n
      BY <1>1, <1>3
    <3> QED BY <1>1, <3>1, Shorter
  <2>3. PICK zeros \in Seq(Int) : zeros = Zeros(m) /\ Len(zeros) = m
    BY Fillings
  <2>4. \A k \in 1 .. m : zeros[k] = 0
    BY <2>3, Fillings
  <2>5. PICK new, t : new = Stored(data, len, zeros) /\ t = SubSeq(s, 1, len)
    OBVIOUS
  <2>6. Extends(new, len, size, data, t, zeros, n)
    <3>1. n <= size
      BY <1>1
    <3> QED BY <1>1, <2>1, <2>2, <2>3, <2>5, <3>1, Behind
  <2>7. StrCells(len, size, new, t)
    <3>1. Agrees(len, size, new, t) /\ \A k \in len + 1 .. n : new[k] = zeros[k - len]
      BY <2>6 DEF Extends
    <3>2. len + 1 \in len + 1 .. n /\ (len + 1) - len = 1
      BY <1>1, <1>3
    <3>3. zeros[1] = 0
      BY <2>1, <2>4
    <3>4. new[len + 1] = 0
      BY <3>1, <3>2, <3>3
    <3>5. len < size
      BY <1>1, <1>3
    <3> QED BY <3>1, <3>4, <3>5 DEF StrCells
  <2>8. StrHolds(StrShrunk([len |-> len, data |-> new]), t)
    BY <2>7, StrShrinks
  <2>9. StrWithLen(a, len) = StrShrunk([len |-> len, data |-> new])
    <3>1. StrWithLen(a, len)
            = StrShrunk([len |-> len, data |-> Stored(data, len, Zeros(n - len))])
      BY <1>1, <1>3 DEF StrWithLen
    <3> QED BY <2>1, <2>3, <2>5, <3>1
  <2>10. WithLen(s, len) = t
    <3>1. len <= n
      BY <1>1, <1>3
    <3> QED BY <1>0, <2>5, <3>1 DEF Pads
  <2> QED BY <2>8, <2>9, <2>10
<1>4. CASE len = n
  <2>1. SubSeq(s, 1, len) = s
    BY <1>1, <1>4
  <2>2. len <= n
    BY <1>1, <1>4
  <2>3. WithLen(s, len) = s
    BY <1>0, <2>1, <2>2 DEF Pads
  <2>4. StrWithLen(a, len) = a
    BY <1>1, <1>4 DEF StrWithLen
  <2> QED BY <2>3, <2>4 DEF StrHolds
<1> QED BY <1>1, <1>2, <1>3, <1>4

LEMMA ChompedIsPrefix ==
  ASSUME NEW n \in Nat, NEW s \in Seq(Int), Len(s) = n
  PROVE  \E left \in Nat : left <= n /\ Chomped(s) = SubSeq(s, 1, left)
<1> DEFINE cut(t, c) == IF t # <<>> /\ SeqOps!Last(t) = c THEN SeqOps!Front(t) ELSE t
           Prefix(t) == \E left \in Nat : left <= n /\ t = SubSeq(s, 1, left)
<1>1. ASSUME NEW t, NEW c, Prefix(t)
      PROVE  Prefix(cut(t, c))
  <2>1. PICK left \in Nat : left <= n /\ t = SubSeq(s, 1, left)
    BY <1>1
  <2>2. t \in Seq(Int) /\ Len(t) = left
    BY <2>1
  <2>3. CASE cut(t, c) = t
    BY <2>1, <2>3
  <2>4. CASE t # <<>> /\ cut(t, c) = SeqOps!Front(t)
    <3>1. left - 1 \in Nat
      BY <2>2, <2>4
    <3>2. SeqOps!Front(t) = SubSeq(t, 1, left - 1)
      BY <2>2 DEF SeqOps!Front
    <3>3. SubSeq(t, 1, left - 1) = SubSeq(s, 1, left - 1)
      BY <2>1, <3>1
    <3>4. left - 1 <= n
      BY <2>1
    <3> HIDE DEF cut
    <3>5. cut(t, c) = SubSeq(s, 1, left - 1)
      BY <2>4, <3>2, <3>3
    <3> QED BY <3>1, <3>4, <3>5
  <2> QED BY <2>3, <2>4
<1>2. Prefix(s)
  <2>1. s = SubSeq(s, 1, n)
    OBVIOUS
  <2> QED BY <2>1
<1>3. Chomped(s) = cut(cut(s, LF), CR)
  BY DEF Chomped
<1> HIDE DEF cut, Prefix
<1>4. Prefix(Chomped(s))
  BY <1>1, <1>2, <1>3
<1> QED BY <1>4 DEF Prefix

LEMMA StrChomps ==
  ASSUME NEW n, NEW size, NEW data, NEW s, StrCells(n, size, data, s)
  PROVE  StrHolds(chomp([len |-> n, data |-> data]), Chomped(s))
<1>1. /\ n \in Nat /\ size \in Nat /\ n < size /\ Agrees(n, size, data, s)
      /\ s \in Seq(Int) /\ Len(s) = n
  BY DEF StrCells, Agrees
<1>2. SubSeq(data, 1, n) = s
  BY <1>1, PrefixHeld
<1>3. PICK left \in Nat : left <= n /\ Chomped(s) = SubSeq(s, 1, left)
  BY <1>1, ChompedIsPrefix
<1>4. PICK t : t = Chomped(s)
  OBVIOUS
<1>5. Agrees(left, size, data, t)
  BY <1>1, <1>3, <1>4, Shorter
<1>6. StrCells(left, size, Stored(data, left, <<0>>), t)
  <2>1. left < size
    BY <1>1, <1>3
  <2> QED BY <1>5, <2>1, CutOff
<1>7. chomp([len |-> n, data |-> data]) = [len |-> left, data |-> Stored(data, left, <<0>>)]
  <2>1. Len(t) = left
    BY <1>5 DEF Agrees
  <2> QED BY <1>2, <1>4, <2>1 DEF chomp
<1> QED BY <1>4, <1>6, <1>7 DEF StrHolds

LEMMA StrIsNew ==
  ASSUME NEW size \in Nat
  PROVE  StrHolds(NewStr(size), <<>>)
<1>1. Junks(size) \in Seq(Int) /\ Len(Junks(size)) = size
  BY Fillings
<1>2. PICK data : data = <<0>> \o Junks(size)
  OBVIOUS
<1>3. data \in Seq(Int) /\ Len(data) = size + 1 /\ data[1] = 0
  BY <1>1, <1>2
<1>4. StrCells(0, size + 1, data, <<>>)
  BY <1>3 DEF StrCells, Agrees
<1>5. NewStr(size) = [len |-> 0, data |-> data]
  BY <1>2 DEF NewStr
<1> QED BY <1>4, <1>5 DEF StrHolds

LEMMA StrIsOf ==
  ASSUME NEW text \in Seq(Int)
  PROVE  StrHolds(StrOf(text), text)
<1>1. PICK n \in Nat : n = Len(text)
  OBVIOUS
<1>2. PICK data : data = Append(text, 0)
  OBVIOUS
<1>3. /\ data \in Seq(Int) /\ Len(data) = n + 1 /\ data[n + 1] = 0
      /\ \A k \in 1 .. n : data[k] = text[k]
  BY <1>1, <1>2
<1>4. StrCells(n, n + 1, data, text)
  BY <1>1, <1>3 DEF StrCells, Agrees
<1>5. StrOf(text) = [len |-> n, data |-> data]
  BY <1>1, <1>2 DEF StrOf
<1> QED BY <1>4, <1>5 DEF StrHolds

-----------------------------------------------------------------------------
(* The inductive invariant: both hold what they stand for. *)

BufIInv == ArrHolds(arr, arrItems) /\ StrHolds(str, strText)

LEMMA Offsets ==
  ASSUME NEW len \in Nat, NEW r \in Ranges(len)
  PROVE  /\ r[1] \in Nat /\ r[2] \in Nat /\ r[1] + r[2] <= len
         /\ r = <<r[1], r[2]>>
BY DEF Ranges

LEMMA Known ==
  ASSUME NEW S \in SUBSET Int, NEW n \in Nat, NEW s \in [1 .. n -> S]
  PROVE  s \in Seq(Int)
BY FromFunction

LEMMA CharsAreNumbers == Chars \in SUBSET Int
BY CharsAssumption

LEMMA BuffersInitial == ArrInit /\ StrInit => BufIInv
<1> SUFFICES ASSUME ArrInit, StrInit PROVE BufIInv
  OBVIOUS
<1>1. ArrHolds(arr, arrItems)
  <2>1. CASE \E size \in 0 .. 2 : arr = NewArr(size) /\ arrItems = <<>>
    BY <2>1, ArrIsNew
  <2>2. ASSUME NEW items \in Short({1, 3}), arr = ArrOf(items), arrItems = items
        PROVE  ArrHolds(arr, arrItems)
    <3>1. PICK n \in Nat : items \in [1 .. n -> Items]
      BY DEF Short
    <3>2. items \in Seq(Int)
      BY <3>1, Known, ItemsAssumption
    <3> QED BY <2>2, <3>2, ArrIsOf
  <2> QED BY <2>1, <2>2 DEF ArrInit
<1>2. StrHolds(str, strText)
  <2>1. CASE \E size \in {0, 3} : str = NewStr(size) /\ strText = <<>>
    BY <2>1, StrIsNew
  <2>2. ASSUME NEW text \in Texts({0, 1}), str = StrOf(text), strText = text
        PROVE  StrHolds(str, strText)
    <3>1. PICK n \in Nat : text \in [1 .. n -> Chars]
      BY DEF Texts
    <3>2. text \in Seq(Int)
      BY <3>1, Known, CharsAreNumbers
    <3> QED BY <2>2, <3>2, StrIsOf
  <2> QED BY <2>1, <2>2 DEF StrInit
<1> QED BY <1>1, <1>2 DEF BufIInv

LEMMA ArrStep == ArrHolds(arr, arrItems) /\ ArrNext => ArrHolds(arr', arrItems')
<1> SUFFICES ASSUME ArrHolds(arr, arrItems), ArrNext
             PROVE  ArrHolds(arr', arrItems')
  OBVIOUS
<1>1. PICK n, cap, data, s : /\ arr = [len |-> n, data |-> data] /\ s = arrItems
                             /\ ArrCells(n, cap, data, s)
  BY DEF ArrHolds
<1>2. n \in Nat /\ s \in Seq(Int) /\ Len(s) = n /\ DOMAIN s = 1 .. n /\ arr.len = n
  BY <1>1 DEF ArrCells, Agrees
<1>3. CASE AddItems
  <2>1. PICK items \in Short({1, 2}) \cup {arrItems} :
           arr' = ArrAdd(arr, items) /\ arrItems' = arrItems \o items
    BY <1>3 DEF AddItems
  <2>2. items \in Seq(Int)
    <3>1. ASSUME items \in Short({1, 2}) PROVE items \in Seq(Int)
      <4>1. PICK m \in Nat : items \in [1 .. m -> Items]
        BY <3>1 DEF Short
      <4> QED BY <4>1, Known, ItemsAssumption
    <3> QED BY <1>1, <1>2, <2>1, <3>1
  <2>3. ArrHolds(ArrAdd([len |-> n, data |-> data], items), s \o items)
    BY <1>1, <2>2, ArrAdds
  <2> QED BY <1>1, <2>1, <2>3
<1>4. CASE PopItems
  <2>1. PICK m \in Nat : /\ m <= n /\ arr' = ArrPopped(arr, m)
                         /\ arrItems' = SubSeq(arrItems, 1, Len(arrItems) - m)
    BY <1>2, <1>4 DEF PopItems
  <2>2. PICK d : /\ ArrPopped([len |-> n, data |-> data], m) = [len |-> n - m, data |-> d]
                 /\ ArrCells(n - m, cap, d, SubSeq(s, 1, n - m))
    BY <1>1, <2>1, ArrPops
  <2> QED BY <1>1, <1>2, <2>1, <2>2 DEF ArrHolds
<1>5. CASE RemoveItems
  <2>1. PICK r \in Ranges(n) :
           arr' = ArrRemoved(arr, r[1], r[2]) /\ arrItems' = Without(arrItems, r)
    BY <1>2, <1>5 DEF RemoveItems
  <2>2. PICK start \in Nat, count \in Nat :
           start + count <= n /\ r = <<start, count>> /\ start = r[1] /\ count = r[2]
    BY <1>2, <2>1, Offsets
  <2>3. ArrHolds(ArrRemoved([len |-> n, data |-> data], start, count),
                 Without(s, <<start, count>>))
    BY <1>1, <2>2, ArrRemoves
  <2> QED BY <1>1, <2>1, <2>2, <2>3
<1>6. CASE SetArrLen
  <2>1. PICK len \in Nat : arr' = ArrWithLen(arr, len) /\ arrItems' = WithLen(arrItems, len)
    BY <1>6, MaxItemsAssumption DEF SetArrLen, WithLen
  <2>2. ArrHolds(ArrWithLen([len |-> n, data |-> data], len), WithLen(s, len))
    BY <1>1, <2>1, ArrSetsLen
  <2> QED BY <1>1, <2>1, <2>2
<1>7. CASE FillItems
  <2>1. PICK r \in Ranges(n), x \in Items :
           /\ arr' = ArrFilled(arr, r[1], r[2], x)
           /\ arrItems' = [k \in DOMAIN arrItems |->
                             IF r[1] < k /\ k <= r[1] + r[2] THEN x ELSE arrItems[k]]
    BY <1>2, <1>7 DEF FillItems
  <2>2. PICK start \in Nat, count \in Nat :
           start + count <= n /\ start = r[1] /\ count = r[2]
    BY <1>2, <2>1, Offsets
  <2>3. x \in Int
    BY <2>1, ItemsAssumption
  <2>4. ArrHolds(ArrFilled([len |-> n, data |-> data], start, count, x),
                 [k \in 1 .. n |-> IF start < k /\ k <= start + count THEN x ELSE s[k]])
    BY <1>1, <2>2, <2>3, ArrFills
  <2>5. arrItems' = [k \in 1 .. n |-> IF start < k /\ k <= start + count THEN x ELSE s[k]]
    BY <1>1, <1>2, <2>1, <2>2
  <2> QED BY <1>1, <2>1, <2>2, <2>4, <2>5
<1>8. CASE SubItems
  <2>1. PICK r \in Ranges(n) :
           /\ arr' = ArrSub(arr, r[1], r[2])
           /\ arrItems' = SubSeq(arrItems, r[1] + 1, r[1] + r[2])
    BY <1>2, <1>8 DEF SubItems
  <2>2. PICK start \in Nat, count \in Nat :
           start + count <= n /\ start = r[1] /\ count = r[2]
    BY <1>2, <2>1, Offsets
  <2>3. ArrHolds(ArrSub([len |-> n, data |-> data], start, count),
                 SubSeq(s, start + 1, start + count))
    BY <1>1, <2>2, ArrSubs
  <2> QED BY <1>1, <2>1, <2>2, <2>3
<1>9. CASE FilterItems
  <2>1. PICK x \in Items : arr' = ArrFiltered(arr, x) /\ arrItems' = Filtered(arrItems, x)
    BY <1>9 DEF FilterItems
  <2>2. ArrHolds(ArrFiltered([len |-> n, data |-> data], x), Filtered(s, x))
    BY <1>1, ArrFilters
  <2> QED BY <1>1, <2>1, <2>2
<1>10. CASE MapItems
  <2>1. PICK x \in Items, y \in Items :
           /\ arr' = ArrMapped(arr, x, y)
           /\ arrItems' = [k \in DOMAIN arrItems |->
                             IF arrItems[k] = x THEN y ELSE arrItems[k]]
    BY <1>10 DEF MapItems
  <2>2. x \in Int /\ y \in Int
    BY <2>1, ItemsAssumption
  <2>3. ArrHolds(ArrMapped([len |-> n, data |-> data], x, y),
                 [k \in 1 .. n |-> IF s[k] = x THEN y ELSE s[k]])
    BY <1>1, <2>2, ArrMaps
  <2>4. arrItems' = [k \in 1 .. n |-> IF s[k] = x THEN y ELSE s[k]]
    BY <1>1, <1>2, <2>1
  <2> QED BY <1>1, <2>1, <2>3, <2>4
<1> QED BY <1>3, <1>4, <1>5, <1>6, <1>7, <1>8, <1>9, <1>10 DEF ArrNext

LEMMA StrStep == StrHolds(str, strText) /\ StrNext => StrHolds(str', strText')
<1> SUFFICES ASSUME StrHolds(str, strText), StrNext
             PROVE  StrHolds(str', strText')
  OBVIOUS
<1>1. PICK n, size, data, s : /\ str = [len |-> n, data |-> data] /\ s = strText
                              /\ StrCells(n, size, data, s)
  BY DEF StrHolds
<1>2. /\ n \in Nat /\ s \in Seq(Int) /\ Len(s) = n /\ str.len = n
      /\ Agrees(n, size, data, s)
  BY <1>1 DEF StrCells, Agrees
<1>3. CASE AddText
  <2>1. PICK text \in Texts({1, 2}) \cup {strText} :
           str' = StrAdd(str, text) /\ strText' = strText \o text
    BY <1>3 DEF AddText
  <2>2. text \in Seq(Int)
    <3>1. ASSUME text \in Texts({1, 2}) PROVE text \in Seq(Int)
      <4>1. PICK m \in Nat : text \in [1 .. m -> Chars]
        BY <3>1 DEF Texts
      <4> QED BY <4>1, Known, CharsAreNumbers
    <3> QED BY <1>1, <1>2, <2>1, <3>1
  <2>3. StrHolds(StrAdd([len |-> n, data |-> data], text), s \o text)
    BY <1>1, <2>2, StrAdds
  <2> QED BY <1>1, <2>1, <2>3
<1>4. CASE RemoveText
  <2>1. PICK r \in Ranges(n) :
           str' = StrRemoved(str, r[1], r[2]) /\ strText' = Without(strText, r)
    BY <1>2, <1>4 DEF RemoveText
  <2>2. PICK start \in Nat, count \in Nat :
           start + count <= n /\ r = <<start, count>> /\ start = r[1] /\ count = r[2]
    BY <1>2, <2>1, Offsets
  <2>3. StrHolds(StrRemoved([len |-> n, data |-> data], start, count),
                 Without(s, <<start, count>>))
    BY <1>1, <2>2, StrRemoves
  <2> QED BY <1>1, <2>1, <2>2, <2>3
<1>5. CASE SetStrLen
  <2>1. PICK len \in Nat : str' = StrWithLen(str, len) /\ strText' = WithLen(strText, len)
    BY <1>5, MaxItemsAssumption DEF SetStrLen, WithLen
  <2>2. StrHolds(StrWithLen([len |-> n, data |-> data], len), WithLen(s, len))
    BY <1>1, <2>1, StrSetsLen
  <2> QED BY <1>1, <2>1, <2>2
<1>6. CASE Chomp
  <2>1. StrHolds(chomp([len |-> n, data |-> data]), Chomped(s))
    BY <1>1, StrChomps
  <2> QED BY <1>1, <1>6, <2>1 DEF Chomp
<1>7. CASE CloneText
  <2>1. PICK r \in Ranges(n) :
           /\ strText' = SubSeq(strText, r[1] + 1, r[1] + r[2])
           /\ str' = StrOf(SubSeq(str.data, r[1] + 1, r[1] + r[2]))
    BY <1>2, <1>7 DEF CloneText
  <2>2. PICK start \in Nat, count \in Nat :
           start + count <= n /\ start = r[1] /\ count = r[2]
    BY <1>2, <2>1, Offsets
  <2>3. /\ SubSeq(data, start + 1, start + count) = SubSeq(s, start + 1, start + count)
        /\ SubSeq(s, start + 1, start + count) \in Seq(Int)
        /\ Len(SubSeq(s, start + 1, start + count)) = count
    <3>1. start + count <= n
      BY <2>2
    <3>2. Agrees(n, size, data, s)
      BY <1>2
    <3> QED BY <3>1, <3>2, SameParts
  <2>4. PICK t : t = SubSeq(s, start + 1, start + count)
    OBVIOUS
  <2>5. StrHolds(StrOf(t), t)
    BY <2>3, <2>4, StrIsOf
  <2>6. strText' = t /\ str' = StrOf(t)
    BY <1>1, <2>1, <2>2, <2>3, <2>4
  <2> QED BY <2>5, <2>6
<1> QED BY <1>3, <1>4, <1>5, <1>6, <1>7 DEF StrNext

LEMMA BufferStep ==
  ASSUME BufIInv,
         [\/ ArrNext /\ UNCHANGED stringVars
          \/ StrNext /\ UNCHANGED arrayVars]_<<arrayVars, stringVars>>
  PROVE  BufIInv'
<1>1. CASE ArrNext /\ UNCHANGED stringVars
  <2>1. str' = str /\ strText' = strText
    BY <1>1 DEF stringVars
  <2>2. ArrHolds(arr', arrItems')
    BY <1>1, ArrStep DEF BufIInv
  <2> QED BY <2>1, <2>2 DEF BufIInv
<1>2. CASE StrNext /\ UNCHANGED arrayVars
  <2>1. arr' = arr /\ arrItems' = arrItems
    BY <1>2 DEF arrayVars
  <2>2. StrHolds(str', strText')
    BY <1>2, StrStep DEF BufIInv
  <2> QED BY <2>1, <2>2 DEF BufIInv
<1>3. CASE UNCHANGED <<arrayVars, stringVars>>
  BY <1>3 DEF BufIInv, arrayVars, stringVars
<1> QED BY <1>1, <1>2, <1>3

LEMMA BuffersHeld == BufIInv => BuffersHold
<1> SUFFICES ASSUME BufIInv PROVE BuffersHold
  OBVIOUS
<1>1. PICK n, cap, data : /\ arr = [len |-> n, data |-> data]
                          /\ ArrCells(n, cap, data, arrItems)
  BY DEF BufIInv, ArrHolds
<1>2. SubSeq(data, 1, n) = arrItems
  BY <1>1, PrefixHeld DEF ArrCells
<1>3. arr.len = n /\ arr.data = data /\ _cap(arr) = cap
  BY <1>1 DEF _cap, ArrCells, Agrees
<1>4. /\ SubSeq(arr.data, 1, arr.len) = arrItems
      /\ \A k \in arr.len + 1 .. _cap(arr) : arr.data[k] = 0
  BY <1>1, <1>2, <1>3 DEF ArrCells
<1>5. PICK m, size, chars : /\ str = [len |-> m, data |-> chars]
                            /\ StrCells(m, size, chars, strText)
  BY DEF BufIInv, StrHolds
<1>6. SubSeq(chars, 1, m) = strText
  BY <1>5, PrefixHeld DEF StrCells
<1>7. str.len = m /\ str.data = chars /\ Len(str.data) = size
  BY <1>5 DEF StrCells, Agrees
<1>8. /\ SubSeq(str.data, 1, str.len) = strText
      /\ \/ str.data[str.len + 1] = 0
         \/ str.data[str.len + 1] = Junk /\ Len(str.data) = str.len + 1
  BY <1>5, <1>6, <1>7 DEF StrCells
<1> QED BY <1>4, <1>8 DEF BuffersHold

(* Whatever add, pop, remove, set_len, fill, sub, filter, map, chomp,      *)
(* clone and substr (arr.h, str.cc) are called in turn, and however often  *)
(* the block is replaced: an array or a string holds its sequence, there   *)
(* is no old pointer behind the items, and a NUL behind the text unless it *)
(* has just been cut to fit.                                               *)
THEOREM BuffersHoldTheirs == BufferSpec => []BuffersHold
<1>1. ArrInit /\ StrInit => BufIInv
  BY BuffersInitial
<1>2. BufIInv /\ [\/ ArrNext /\ UNCHANGED stringVars
                  \/ StrNext /\ UNCHANGED arrayVars]_<<arrayVars, stringVars>>
        => BufIInv'
  BY BufferStep
<1> QED BY <1>1, <1>2, BuffersHeld, PTL DEF BufferSpec

-----------------------------------------------------------------------------
(* The rolling hashes, a number modulo HashMod. *)

Same(x, y) == \E q \in Int : x = y + q * HashMod

LEMMA Modulo ==
  ASSUME NEW x \in Int
  PROVE  x % HashMod \in Int /\ Same(x, x % HashMod)
<1>1. x % HashMod \in 0 .. HashMod - 1 /\ \E q \in Int : x = HashMod * q + (x % HashMod)
  BY Remainder, HashModAssumption
<1>2. PICK q \in Int, r \in Int : r = x % HashMod /\ x = HashMod * q + r
  BY <1>1, HashModAssumption
<1>3. x = r + q * HashMod
  BY <1>2, HashModAssumption
<1> QED BY <1>2, <1>3 DEF Same

LEMMA SameStep ==
  ASSUME NEW x \in Int, NEW y \in Int, Same(x, y), NEW b \in Int
  PROVE  (x * 3 + b) % HashMod = (y * 3 + b) % HashMod
<1> DEFINE u == x * 3 + b
           v == y * 3 + b
<1>1. PICK q \in Int : x = y + q * HashMod
  BY DEF Same
<1>2. v \in Int /\ u \in Int
  OBVIOUS
<1>3. PICK t \in Int, d \in 0 .. HashMod - 1 : v = HashMod * t + d /\ d = v % HashMod
  <2>1. v % HashMod \in 0 .. HashMod - 1 /\ \E t \in Int : v = HashMod * t + (v % HashMod)
    BY <1>2, Remainder, HashModAssumption
  <2> QED BY <2>1
<1>4. PICK z \in Int : z = q * HashMod
  BY HashModAssumption
<1>5. u = v + 3 * z
  BY <1>1, <1>4
<1>6. PICK w \in Int : w = HashMod * t
  BY HashModAssumption
<1>7. 3 * z = HashMod * (3 * q)
  BY <1>4, HashModAssumption
<1>8. HashMod * (t + 3 * q) = HashMod * t + HashMod * (3 * q)
  BY HashModAssumption
<1>9. u = HashMod * (t + 3 * q) + d
  <2> HIDE DEF u, v
  <2>1. d \in Int
    BY HashModAssumption
  <2>2. v = w + d
    BY <1>3, <1>6
  <2>3. HashMod * (t + 3 * q) = w + 3 * z
    BY <1>6, <1>7, <1>8
  <2>4. PICK m : m = HashMod * (t + 3 * q)
    OBVIOUS
  <2>5. u = m + d
    BY <1>2, <1>5, <2>1, <2>2, <2>3, <2>4
  <2> QED BY <2>4, <2>5
<1>10. (HashMod * (t + 3 * q) + d) % HashMod = d
  <2>1. t + 3 * q \in Int
    OBVIOUS
  <2> QED BY <2>1, RemainderOf, HashModAssumption
<1> QED BY <1>3, <1>9, <1>10

(* What follows a multiple of the modulus more or less, and a product with *)
(* the modulus left in, comes to the same. *)
LEMMA SameSum ==
  ASSUME NEW x \in Int, NEW y \in Int, Same(x, y), NEW p \in Int, NEW r \in Int,
         Same(p, r), NEW b \in Int, NEW c \in Int
  PROVE  Same(x * 3 + c, y * 3 + c) /\ Same(y + p * b, y + r * b)
<1>1. PICK q \in Int : x = y + q * HashMod
  BY DEF Same
<1>2. PICK t \in Int : p = r + t * HashMod
  BY DEF Same
<1>3. HashMod \in Int
  BY HashModAssumption
<1>4. x * 3 + c = y * 3 + c + (3 * q) * HashMod
  BY <1>1, <1>3
<1>5. y + p * b = y + r * b + (t * b) * HashMod
  BY <1>2, <1>3
<1>6. 3 * q \in Int /\ t * b \in Int
  OBVIOUS
<1> QED BY <1>4, <1>5, <1>6 DEF Same

LEMMA SameChain ==
  ASSUME NEW x \in Int, NEW y \in Int, NEW z \in Int
  PROVE  /\ Same(x, x)
         /\ Same(x, y) => Same(y, x)
         /\ Same(x, y) /\ Same(y, z) => Same(x, z)
         /\ Same(x, y + z) => Same(x - z, y)
<1>1. HashMod \in Int
  BY HashModAssumption
<1>2. Same(x, x)
  <2>1. x = x + 0 * HashMod
    BY <1>1
  <2> QED BY <2>1 DEF Same
<1>3. ASSUME Same(x, y) PROVE Same(y, x)
  <2>1. PICK q \in Int : x = y + q * HashMod
    BY <1>3 DEF Same
  <2>2. y = x + (- q) * HashMod /\ - q \in Int
    BY <2>1, <1>1
  <2> QED BY <2>2 DEF Same
<1>4. ASSUME Same(x, y), Same(y, z) PROVE Same(x, z)
  <2>1. PICK q \in Int : x = y + q * HashMod
    BY <1>4 DEF Same
  <2>2. PICK t \in Int : y = z + t * HashMod
    BY <1>4 DEF Same
  <2>3. x = z + (q + t) * HashMod /\ q + t \in Int
    BY <2>1, <2>2, <1>1
  <2> QED BY <2>3 DEF Same
<1>5. ASSUME Same(x, y + z) PROVE Same(x - z, y)
  <2>1. PICK q \in Int : x = (y + z) + q * HashMod
    BY <1>5 DEF Same
  <2>2. x - z = y + q * HashMod
    BY <2>1, <1>1
  <2> QED BY <2>2 DEF Same
<1> QED BY <1>2, <1>3, <1>4, <1>5

Hashes(h, s, n) == h[0] = 0 /\ \A k \in 1 .. n : h[k] = (h[k - 1] * 3 + s[k]) % HashMod

LEMMA HashTurns ==
  ASSUME NEW n \in Nat, NEW s \in Seq(Int), Len(s) = n
  PROVE  \E h \in [Nat -> Int] : Hashes(h, s, n)
<1> DEFINE b(k) == IF k + 1 <= n THEN s[k + 1] ELSE 0
           G == [k \in Nat |-> [x \in Int |-> (x * 3 + b(k)) % HashMod]]
<1>1. G \in [Nat -> [Int -> Int]]
  <2>1. ASSUME NEW k \in Nat, NEW x \in Int PROVE (x * 3 + b(k)) % HashMod \in Int
    <3>1. b(k) \in Int
      OBVIOUS
    <3>2. x * 3 + b(k) \in Int
      BY <3>1
    <3> HIDE DEF b
    <3> QED BY <3>2, Modulo
  <2> HIDE DEF b
  <2> QED BY <2>1
<1>2. PICK h \in [Nat -> Int] : Iterates(h, 0, G)
  <2> HIDE DEF G
  <2>1. 0 \in Int
    OBVIOUS
  <2>2. \E h \in [Nat -> Int] : Iterates(h, 0, G)
    BY ONLY <1>1, <2>1, Recursion
  <2> QED BY <2>2
<1>3. ASSUME NEW k \in 1 .. n PROVE h[k] = (h[k - 1] * 3 + s[k]) % HashMod
  <2>1. k - 1 \in Nat /\ (k - 1) + 1 = k /\ h[k - 1] \in Int
    OBVIOUS
  <2>2. h[(k - 1) + 1] = G[k - 1][h[k - 1]]
    <3> HIDE DEF G
    <3> QED BY <1>2, <2>1 DEF Iterates
  <2>3. G[k - 1][h[k - 1]] = (h[k - 1] * 3 + b(k - 1)) % HashMod
    <3> HIDE DEF b
    <3> QED BY <2>1
  <2>4. b(k - 1) = s[k]
    BY <2>1
  <2> HIDE DEF G, b
  <2> QED BY <2>1, <2>2, <2>3, <2>4
<1>4. h[0] = 0
  <2> HIDE DEF G
  <2> QED BY <1>2 DEF Iterates
<1> QED BY <1>3, <1>4 DEF Hashes

LEMMA HashGiven ==
  ASSUME NEW n \in Nat, NEW s \in Seq(Int), Len(s) = n,
         NEW g \in [Nat -> Int], Hashes(g, s, n)
  PROVE  HashOf(s) = g[n]
<1> DEFINE Is(f) == f = [k \in 0 .. n |->
                           IF k = 0 THEN 0 ELSE (f[k - 1] * 3 + s[k]) % HashMod]
           restr == [k \in 0 .. n |-> g[k]]
           hashes == CHOOSE f : Is(f)
<1>1. HashOf(s) = hashes[n]
  BY DEF HashOf
<1>2. Is(restr)
  <2>1. ASSUME NEW k \in 0 .. n
        PROVE  g[k] = IF k = 0 THEN 0 ELSE (restr[k - 1] * 3 + s[k]) % HashMod
    <3>1. CASE k = 0
      BY <3>1 DEF Hashes
    <3>2. CASE k # 0
      <4>1. k \in 1 .. n /\ k - 1 \in 0 .. n
        BY <3>2
      <4>2. restr[k - 1] = g[k - 1]
        BY <4>1
      <4> QED BY <3>2, <4>1, <4>2 DEF Hashes
    <3> QED BY <3>1, <3>2
  <2> QED BY <2>1
<1>3. Is(hashes)
  <2> HIDE DEF Is
  <2> QED BY <1>2
<1> HIDE DEF hashes, restr
<1>4. hashes[0] = 0 /\ \A k \in 1 .. n : hashes[k] = (hashes[k - 1] * 3 + s[k]) % HashMod
  BY <1>3
<1> HIDE DEF Is
<1> DEFINE S == {k \in Nat : k <= n => hashes[k] = g[k]}
<1>5. 0 \in S
  BY <1>4 DEF Hashes
<1>6. ASSUME NEW k \in Nat, k \in S PROVE k + 1 \in S
  <2>1. CASE k + 1 <= n
    <3>1. k + 1 \in 1 .. n /\ (k + 1) - 1 = k
      BY <2>1
    <3>2. hashes[k + 1] = (hashes[k] * 3 + s[k + 1]) % HashMod
      BY <1>4, <3>1
    <3>3. g[k + 1] = (g[k] * 3 + s[k + 1]) % HashMod
      BY <3>1 DEF Hashes
    <3> QED BY <1>6, <2>1, <3>2, <3>3
  <2> QED BY <2>1
<1>7. \A k \in Nat : k \in S
  <2> HIDE DEF S
  <2> QED BY <1>5, <1>6, NatInd
<1> QED BY <1>1, <1>7

LEMMA HashSteps ==
  ASSUME NEW s \in Seq(Int), NEW b \in Int
  PROVE  /\ HashOf(s) \in Int
         /\ HashOf(Append(s, b)) = (HashOf(s) * 3 + b) % HashMod
<1>1. PICK n \in Nat : n = Len(s)
  OBVIOUS
<1>2. PICK t : t = Append(s, b)
  OBVIOUS
<1>3. /\ t \in Seq(Int) /\ Len(t) = n + 1 /\ t[n + 1] = b
      /\ \A k \in 1 .. n : t[k] = s[k]
  BY <1>1, <1>2
<1>4. PICK h \in [Nat -> Int] : Hashes(h, t, n + 1)
  BY <1>3, HashTurns
<1>5. Hashes(h, s, n)
  BY <1>3, <1>4 DEF Hashes
<1>6. HashOf(t) = h[n + 1] /\ HashOf(s) = h[n]
  BY <1>1, <1>3, <1>4, <1>5, HashGiven
<1>7. n + 1 \in 1 .. n + 1 /\ (n + 1) - 1 = n
  OBVIOUS
<1>8. h[n + 1] = (h[n] * 3 + b) % HashMod
  BY <1>3, <1>4, <1>7 DEF Hashes
<1> QED BY <1>2, <1>6, <1>8

LEMMA HashOfNone == HashOf(<<>>) = 0
<1>1. PICK s : s = <<>>
  OBVIOUS
<1>2. s \in Seq(Int) /\ Len(s) = 0 /\ 0 \in Nat
  BY <1>1
<1>3. PICK h \in [Nat -> Int] : Hashes(h, s, 0)
  BY <1>2, HashTurns
<1>4. HashOf(s) = h[0]
  BY <1>2, <1>3, HashGiven
<1> QED BY <1>1, <1>3, <1>4 DEF Hashes

(* The m cells from k on, counted from 0. *)
Window(b, k, m) == [j \in 1 .. m |-> b[k + j - 1]]

LEMMA Windows ==
  ASSUME NEW b \in [Nat -> Int], NEW k \in Nat, NEW m \in Nat
  PROVE  /\ Window(b, k, m) \in Seq(Int) /\ Len(Window(b, k, m)) = m
         /\ Window(b, k, m + 1) = Append(Window(b, k, m), b[k + m])
         /\ b[k + m] \in Int
<1>1. ASSUME NEW n \in Nat PROVE Window(b, k, n) \in Seq(Int) /\ Len(Window(b, k, n)) = n
  <2>1. \A j \in 1 .. n : k + j - 1 \in Nat
    OBVIOUS
  <2>2. Window(b, k, n) \in [1 .. n -> Int]
    BY <2>1 DEF Window
  <2> QED BY <2>2, FromFunction
<1>2. PICK v : v = Window(b, k, m)
  OBVIOUS
<1>3. PICK u : u = Window(b, k, m + 1)
  OBVIOUS
<1>4. PICK c \in Int : c = b[k + m]
  OBVIOUS
<1>5. v \in Seq(Int) /\ Len(v) = m /\ u \in Seq(Int) /\ Len(u) = m + 1
  BY <1>1, <1>2, <1>3
<1>6. u[m + 1] = c /\ \A j \in 1 .. m : u[j] = v[j]
  BY <1>2, <1>3, <1>4 DEF Window
<1>7. PICK w : w = Append(v, c)
  OBVIOUS
<1>8. w \in Seq(Int) /\ Len(w) = m + 1 /\ w[m + 1] = c /\ \A j \in 1 .. m : w[j] = v[j]
  BY <1>4, <1>5, <1>7
<1>9. \A j \in 1 .. m + 1 : j = m + 1 \/ j \in 1 .. m
  OBVIOUS
<1>10. u = w
  BY <1>5, <1>6, <1>8, <1>9, SameCells
<1> QED BY <1>1, <1>2, <1>3, <1>4, <1>7, <1>10

LEMMA PowerSteps ==
  ASSUME NEW m \in Nat
  PROVE  /\ Power3(m) \in Int
         /\ Power3(0) = 1 % HashMod
         /\ Power3(m + 1) = (Power3(m) * 3 + 0) % HashMod
<1>1. ASSUME NEW n \in Nat
      PROVE  /\ <<1>> \o Zeros(n) \in Seq(Int) /\ Len(<<1>> \o Zeros(n)) = n + 1
             /\ (<<1>> \o Zeros(n))[1] = 1
             /\ \A k \in 2 .. n + 1 : (<<1>> \o Zeros(n))[k] = 0
  <2>1. PICK z : z = Zeros(n)
    OBVIOUS
  <2>2. z \in Seq(Int) /\ Len(z) = n /\ \A k \in 1 .. n : z[k] = 0
    BY <2>1, Fillings
  <2>3. /\ <<1>> \o z \in Seq(Int) /\ Len(<<1>> \o z) = n + 1 /\ (<<1>> \o z)[1] = 1
        /\ \A k \in 2 .. n + 1 : (<<1>> \o z)[k] = z[k - 1]
    BY <2>2
  <2> QED BY <2>1, <2>2, <2>3
<1>2. PICK v : v = <<1>> \o Zeros(m)
  OBVIOUS
<1>3. PICK u : u = <<1>> \o Zeros(m + 1)
  OBVIOUS
<1>4. PICK w : w = Append(v, 0)
  OBVIOUS
<1>5. v \in Seq(Int) /\ Len(v) = m + 1 /\ v[1] = 1 /\ \A k \in 2 .. m + 1 : v[k] = 0
  BY <1>1, <1>2
<1>6. u \in Seq(Int) /\ Len(u) = m + 2 /\ u[1] = 1 /\ \A k \in 2 .. m + 2 : u[k] = 0
  <2>1. m + 1 \in Nat /\ (m + 1) + 1 = m + 2
    OBVIOUS
  <2> QED BY <1>1, <1>3, <2>1
<1>7. w \in Seq(Int) /\ Len(w) = m + 2 /\ w[m + 2] = 0 /\ \A k \in 1 .. m + 1 : w[k] = v[k]
  BY <1>4, <1>5
<1>8. \A k \in 1 .. m + 2 : u[k] = w[k]
  BY <1>5, <1>6, <1>7
<1>9. u = w
  BY <1>6, <1>7, <1>8, SameCells
<1>10. HashOf(v) \in Int /\ HashOf(w) = (HashOf(v) * 3 + 0) % HashMod
  BY <1>4, <1>5, HashSteps
<1>11. Power3(0) = 1 % HashMod
  <2>1. PICK z : z = Append(<<>>, 1)
    OBVIOUS
  <2>2. PICK o : o = <<1>> \o Zeros(0)
    OBVIOUS
  <2>3. o \in Seq(Int) /\ Len(o) = 1 /\ o[1] = 1
    BY <2>2, <1>1
  <2>4. z \in Seq(Int) /\ Len(z) = 1 /\ z[1] = 1
    BY <2>1
  <2>5. \A k \in 1 .. 1 : o[k] = z[k]
    BY <2>3, <2>4
  <2>6. o = z
    BY <2>3, <2>4, <2>5, SameCells
  <2>7. HashOf(Append(<<>>, 1)) = (HashOf(<<>>) * 3 + 1) % HashMod
    <3>1. <<>> \in Seq(Int) /\ 1 \in Int
      OBVIOUS
    <3> QED BY <3>1, HashSteps
  <2>8. 0 * 3 + 1 = 1
    OBVIOUS
  <2> QED BY <2>1, <2>2, <2>6, <2>7, <2>8, HashOfNone DEF Power3
<1> QED BY <1>2, <1>3, <1>9, <1>10, <1>11 DEF Power3

(* The hashes of a window is that of the window without its first cell, and  *)
(* the first cell times a power of 3.                                      *)
LEMMA WindowHash ==
  ASSUME NEW b \in [Nat -> Int], NEW k \in Nat
  PROVE  \A m \in Nat : Same(HashOf(Window(b, k, m + 1)),
                             HashOf(Window(b, k + 1, m)) + Power3(m) * b[k])
<1> DEFINE S == {m \in Nat : Same(HashOf(Window(b, k, m + 1)),
                                  HashOf(Window(b, k + 1, m)) + Power3(m) * b[k])}
<1>0. b[k] \in Int /\ k + 1 \in Nat /\ HashMod \in Int
  BY HashModAssumption
<1>h. \A j \in Nat, m \in Nat :
         /\ HashOf(Window(b, j, m)) \in Int
         /\ HashOf(Window(b, j, m + 1)) = (HashOf(Window(b, j, m)) * 3 + b[j + m]) % HashMod
  BY Windows, HashSteps
<1>p. \A m \in Nat : /\ Power3(m) \in Int
                     /\ Power3(m + 1) = (Power3(m) * 3 + 0) % HashMod
  BY PowerSteps
<1>1. 0 \in S
  <2>1. Window(b, k, 0) = <<>> /\ Window(b, k + 1, 0) = <<>>
    BY DEF Window
  <2>2. PICK c \in Int : c = b[k]
    BY <1>0
  <2>3. HashOf(Window(b, k, 0 + 1)) = (HashOf(Window(b, k, 0)) * 3 + b[k + 0]) % HashMod
    BY <1>h
  <2>4. HashOf(Window(b, k, 0 + 1)) = c % HashMod
    <3>1. k + 0 = k /\ 0 * 3 + c = c
      OBVIOUS
    <3> QED BY <2>1, <2>2, <2>3, <3>1, HashOfNone
  <2>5. Same(c, c % HashMod) /\ c % HashMod \in Int /\ Same(1, 1 % HashMod) /\ 1 % HashMod \in Int
    BY Modulo
  <2>6. PICK r \in Int, d \in Int : r = 1 % HashMod /\ d = c % HashMod
    BY <2>5
  <2>7. Same(0 + 1 * c, 0 + r * c)
    <3>1. Same(0, 0) /\ 0 \in Int /\ 1 \in Int
      BY SameChain
    <3> QED BY <2>5, <2>6, <3>1, SameSum
  <2>8. 0 + 1 * c = c /\ 0 + r * c \in Int
    OBVIOUS
  <2>9. Same(d, 0 + r * c)
    BY <2>5, <2>6, <2>7, <2>8, SameChain
  <2>10. Power3(0) = r
    BY <2>6, PowerSteps
  <2>11. Same(HashOf(Window(b, k, 0 + 1)), HashOf(Window(b, k + 1, 0)) + Power3(0) * b[k])
    BY <2>1, <2>2, <2>4, <2>6, <2>9, <2>10, HashOfNone
  <2> QED BY <2>11
<1>2. ASSUME NEW m \in Nat, m \in S PROVE m + 1 \in S
  <2>1. PICK x \in Int : x = HashOf(Window(b, k, m + 1))
    BY <1>h
  <2>2. PICK y \in Int : y = HashOf(Window(b, k + 1, m))
    BY <1>0, <1>h
  <2>3. PICK p \in Int : p = Power3(m)
    BY <1>p
  <2>4. PICK c \in Int, e \in Int : c = b[k] /\ e = b[k + (m + 1)]
    BY <1>0
  <2>5. Same(x, y + p * c)
    BY <1>2, <2>1, <2>2, <2>3, <2>4
  <2>6. PICK w \in Int : w = p * c
    OBVIOUS
  <2>7. HashOf(Window(b, k, (m + 1) + 1)) = (x * 3 + e) % HashMod
    BY <1>h, <2>1, <2>4
  <2>8. HashOf(Window(b, k + 1, m + 1)) = (y * 3 + e) % HashMod
    <3>1. (k + 1) + m = k + (m + 1)
      OBVIOUS
    <3> QED BY <1>0, <1>h, <2>2, <2>4, <3>1
  <2>9. Power3(m + 1) = (p * 3 + 0) % HashMod
    BY <1>p, <2>3
  <2>10. PICK g \in Int, f \in Int, r \in Int :
           /\ g = (x * 3 + e) % HashMod /\ f = (y * 3 + e) % HashMod
           /\ r = (p * 3 + 0) % HashMod
           /\ Same(x * 3 + e, g) /\ Same(y * 3 + e, f) /\ Same(p * 3 + 0, r)
    <3>1. x * 3 + e \in Int /\ y * 3 + e \in Int /\ p * 3 + 0 \in Int
      OBVIOUS
    <3> QED BY <3>1, Modulo
  <2>11. Same(x * 3 + e, (y + w) * 3 + e)
    BY <2>5, <2>6, SameSum, SameChain
  <2>12. Same((y * 3 + e) + (p * 3 + 0) * c, (y * 3 + e) + r * c)
    <3>1. y * 3 + e \in Int /\ p * 3 + 0 \in Int /\ Same(y * 3 + e, y * 3 + e)
      BY SameChain
    <3> QED BY <2>10, <3>1, SameSum
  <2>13. (y + w) * 3 + e = (y * 3 + e) + (p * 3 + 0) * c
    <3>1. (p * 3 + 0) * c = 3 * w
      BY <2>6
    <3> QED BY <3>1
  <2>14. PICK v \in Int : v = r * c
    OBVIOUS
  <2>15. Same((y * 3 + e) + v, f + v)
    <3>1. PICK q \in Int : y * 3 + e = f + q * HashMod
      BY <2>10 DEF Same
    <3>2. (y * 3 + e) + v = (f + v) + q * HashMod
      <4>1. PICK z \in Int : z = q * HashMod
        BY <1>0
      <4> QED BY <3>1, <4>1
    <3> QED BY <3>2 DEF Same
  <2>16. Same(g, f + v)
    <3>1. Same(g, x * 3 + e)
      BY <2>10, SameChain
    <3>2. PICK z1 \in Int, z2 \in Int, z3 \in Int :
             z1 = x * 3 + e /\ z2 = (y + w) * 3 + e /\ z3 = (y * 3 + e) + v
      OBVIOUS
    <3>3. Same(g, z1) /\ Same(z1, z2) /\ Same(z2, z3) /\ Same(z3, f + v)
      BY <3>1, <3>2, <2>11, <2>12, <2>13, <2>14, <2>15
    <3>4. f + v \in Int
      OBVIOUS
    <3>5. Same(g, z2)
      BY <3>3, SameChain
    <3>6. Same(g, z3)
      BY <3>3, <3>5, SameChain
    <3> QED BY <3>3, <3>4, <3>6, SameChain
  <2>17. Same(HashOf(Window(b, k, (m + 1) + 1)),
              HashOf(Window(b, k + 1, m + 1)) + Power3(m + 1) * b[k])
    BY <2>4, <2>7, <2>8, <2>9, <2>10, <2>14, <2>16
  <2> QED BY <2>17
<1>3. \A m \in Nat : m \in S
  <2> HIDE DEF S
  <2> QED BY <1>1, <1>2, NatInd
<1> QED BY <1>3

RollStep(b, from, n, x, k) ==
    ((IF k = from THEN HashOf(Window(b, from, n - 1)) ELSE x - Power3(n - 1) * b[k - 1]) * 3
       + b[k + n - 1]) % HashMod

IsRoll(roll, b, from, n, end) ==
    roll = [k \in from .. end |-> RollStep(b, from, n, roll[k - 1], k)]

LEMMA Rolled ==
  ASSUME NEW b \in [Nat -> Int], NEW from \in Nat, NEW n \in Nat \ {0},
         NEW k \in Nat, from <= k
  PROVE  RollStep(b, from, n, HashOf(Window(b, k - 1, n)), k) = HashOf(Window(b, k, n))
<1>1. PICK m \in Nat : n = m + 1 /\ m = n - 1
  OBVIOUS
<1>2. k + n - 1 = k + m
  BY <1>1
<1>3. PICK y \in Int, c \in Int : y = HashOf(Window(b, k, m)) /\ c = b[k + m]
  BY Windows, HashSteps
<1>4. HashOf(Window(b, k, n)) = (y * 3 + c) % HashMod
  BY <1>1, <1>3, Windows, HashSteps
<1>5. CASE k = from
  BY <1>1, <1>2, <1>3, <1>4, <1>5 DEF RollStep
<1>6. CASE k # from
  <2>1. PICK j \in Nat : j = k - 1 /\ k = j + 1
    BY <1>6
  <2>2. PICK x \in Int : x = HashOf(Window(b, j, n))
    BY Windows, HashSteps
  <2>3. PICK p \in Int, d \in Int : p = Power3(m) /\ d = b[j]
    BY PowerSteps
  <2>4. Same(x, y + p * d)
    <3>1. Same(HashOf(Window(b, j, m + 1)), HashOf(Window(b, j + 1, m)) + Power3(m) * b[j])
      BY WindowHash
    <3> QED BY <1>1, <1>3, <2>1, <2>2, <2>3, <3>1
  <2>5. PICK z \in Int : z = p * d
    OBVIOUS
  <2>6. Same(x - z, y)
    BY <2>4, <2>5, SameChain
  <2>7. ((x - z) * 3 + c) % HashMod = (y * 3 + c) % HashMod
    <3>1. x - z \in Int
      OBVIOUS
    <3> QED BY <2>6, <3>1, SameStep
  <2>8. RollStep(b, from, n, x, k) = ((x - z) * 3 + c) % HashMod
    BY <1>1, <1>2, <1>3, <1>6, <2>1, <2>3, <2>5 DEF RollStep
  <2> QED BY <1>4, <2>1, <2>2, <2>7, <2>8
<1> QED BY <1>5, <1>6

LEMMA RollTurns ==
  ASSUME NEW b \in [Nat -> Int], NEW from \in Nat, NEW n \in Nat \ {0}, NEW end \in Int,
         NEW roll, IsRoll(roll, b, from, n, end)
  PROVE  \A k \in from .. end : roll[k] = HashOf(Window(b, k, n))
<1> DEFINE S == {i \in Nat : from + i <= end =>
                               roll[from + i] = HashOf(Window(b, from + i, n))}
<1>0. roll = [k \in from .. end |-> RollStep(b, from, n, roll[k - 1], k)]
  BY DEF IsRoll
<1>1. 0 \in S
  <2>1. ASSUME from <= end PROVE roll[from] = HashOf(Window(b, from, n))
    <3>1. roll[from] = RollStep(b, from, n, roll[from - 1], from)
      <4>1. from \in from .. end
        BY <2>1
      <4>2. \A k \in from .. end : roll[k] = RollStep(b, from, n, roll[k - 1], k)
        <5> HIDE DEF S
        <5> QED BY <1>0
      <4> HIDE DEF S
      <4> QED BY <4>1, <4>2
    <3>2. RollStep(b, from, n, roll[from - 1], from)
            = RollStep(b, from, n, HashOf(Window(b, from - 1, n)), from)
      BY DEF RollStep
    <3> QED BY <3>1, <3>2, Rolled
  <2>2. from + 0 = from
    OBVIOUS
  <2> QED BY <2>1, <2>2
<1>2. ASSUME NEW i \in Nat, i \in S PROVE i + 1 \in S
  <2>1. CASE from + (i + 1) <= end
    <3>1. PICK k \in Nat : k = from + (i + 1) /\ k - 1 = from + i /\ from <= k
      OBVIOUS
    <3>2. k \in from .. end /\ from + i <= end
      BY <2>1, <3>1
    <3>3. roll[k - 1] = HashOf(Window(b, k - 1, n))
      BY <1>2, <3>1, <3>2
    <3>4. roll[k] = RollStep(b, from, n, roll[k - 1], k)
      BY <1>0, <3>2
    <3>5. roll[k] = HashOf(Window(b, k, n))
      BY <3>1, <3>3, <3>4, Rolled
    <3> QED BY <3>1, <3>5
  <2> QED BY <2>1
<1>3. \A i \in Nat : i \in S
  <2> HIDE DEF S
  <2> QED BY <1>1, <1>2, NatInd
<1>4. ASSUME NEW k \in from .. end PROVE roll[k] = HashOf(Window(b, k, n))
  <2>1. k - from \in Nat /\ from + (k - from) = k /\ k <= end
    OBVIOUS
  <2>2. k - from \in S
    BY <1>3, <2>1
  <2> QED BY <2>1, <2>2
<1> QED BY <1>4

LEMMA RollExists ==
  ASSUME NEW b \in [Nat -> Int], NEW from \in Nat, NEW n \in Nat \ {0}, NEW end \in Int
  PROVE  \E roll : IsRoll(roll, b, from, n, end)
<1> DEFINE roll == [k \in from .. end |-> HashOf(Window(b, k, n))]
<1>1. ASSUME NEW k \in from .. end
      PROVE  HashOf(Window(b, k, n)) = RollStep(b, from, n, roll[k - 1], k)
  <2>1. k \in Nat /\ from <= k
    OBVIOUS
  <2>2. RollStep(b, from, n, roll[k - 1], k)
          = RollStep(b, from, n, HashOf(Window(b, k - 1, n)), k)
    <3>1. CASE k = from
      BY <3>1 DEF RollStep
    <3>2. CASE k # from
      <4>1. k - 1 \in from .. end
        BY <3>2
      <4>2. roll[k - 1] = HashOf(Window(b, k - 1, n))
        BY <4>1
      <4> HIDE DEF roll
      <4> QED BY <4>2
    <3> QED BY <3>1, <3>2
  <2> HIDE DEF roll
  <2> QED BY <2>1, <2>2, Rolled
<1>2. roll = [k \in from .. end |-> RollStep(b, from, n, roll[k - 1], k)]
  BY <1>1
<1>3. IsRoll(roll, b, from, n, end)
  <2> HIDE DEF roll
  <2> QED BY <1>2 DEF IsRoll
<1> QED BY <1>3

(* The m characters of a text are at the place k of s. *)
Stands(s, k, text, m) == \A j \in 1 .. m : s[k + j] = text[j]

PlacesUpTo(s, text, m, from, end) == {k \in from .. end : Stands(s, k, text, m)}

LEMMA ComparedCells ==
  ASSUME NEW n, NEW size, NEW data, NEW s, StrCells(n, size, data, s),
         NEW m \in Nat, NEW text \in Seq(Int), Len(text) = m,
         NEW k \in Nat, k + m <= n
  PROVE  SameAt([len |-> n, data |-> data], k, text) <=> Stands(s, k, text, m)
<1>1. /\ n \in Nat /\ n <= size /\ size \in Nat /\ data \in Seq(Int) /\ Len(data) = size
      /\ s \in Seq(Int) /\ Len(s) = n /\ \A j \in 1 .. n : data[j] = s[j]
  BY DEF StrCells, Agrees
<1>2. PICK end \in Nat : end = k + m
  OBVIOUS
<1>3. PICK d : d = SubSeq(data, k + 1, end)
  OBVIOUS
<1>4. d \in Seq(Int) /\ Len(d) = m /\ \A j \in 1 .. m : d[j] = data[k + j]
  <2>1. /\ SubSeq(data, k + 1, end) \in Seq(Int)
        /\ Len(SubSeq(data, k + 1, end)) = end - k
        /\ \A j \in 1 .. end - k : SubSeq(data, k + 1, end)[j] = data[k + j]
    BY <1>1, <1>2, PartOf
  <2>2. end - k = m
    BY <1>2
  <2> QED BY <1>3, <2>1, <2>2
<1>5. \A j \in 1 .. m : k + j \in 1 .. n
  BY <1>1
<1>6. \A j \in 1 .. m : d[j] = s[k + j]
  BY <1>1, <1>4, <1>5
<1>7. d = text <=> Stands(s, k, text, m)
  <2>1. ASSUME Stands(s, k, text, m) PROVE d = text
    <3>1. \A j \in 1 .. Len(d) : d[j] = text[j]
      BY <1>4, <1>6, <2>1 DEF Stands
    <3> QED BY <1>4, <3>1, SameCells
  <2>2. ASSUME d = text PROVE Stands(s, k, text, m)
    BY <1>6, <2>2 DEF Stands
  <2> QED BY <2>1, <2>2
<1> QED BY <1>2, <1>3, <1>7 DEF SameAt

LEMMA RabinKarpFinds ==
  ASSUME NEW n, NEW size, NEW data, NEW s, StrCells(n, size, data, s),
         NEW m \in Nat \ {0}, NEW text \in Seq(Int), Len(text) = m,
         NEW from \in Nat
  PROVE  RabinKarp([len |-> n, data |-> data], text, from)
           = FirstOf(PlacesUpTo(s, text, m, from, n - m))
<1>1. /\ n \in Nat /\ n <= size /\ size \in Nat /\ data \in Seq(Int) /\ Len(data) = size
      /\ s \in Seq(Int) /\ Len(s) = n /\ \A j \in 1 .. n : data[j] = s[j]
  BY DEF StrCells, Agrees
<1> DEFINE t == [len |-> n, data |-> data]
           byte(k) == IF k < Len(t.data) THEN t.data[k + 1] ELSE Junk
           b == [k \in Nat |-> byte(k)]
           end == t.len - Len(text)
           Is(f) == f = [k \in from .. end |->
             LET rest == IF k = from
                         THEN HashOf([j \in 1 .. Len(text) - 1 |-> byte(from + j - 1)])
                         ELSE f[k - 1] - Power3(Len(text) - 1) * byte(k - 1)
             IN  (rest * 3 + byte(k + Len(text) - 1)) % HashMod]
           roll == CHOOSE f : Is(f)
<1>2. RabinKarp(t, text, from)
        = FirstOf({k \in from .. end : roll[k] = HashOf(text) /\ SameAt(t, k, text)})
  BY DEF RabinKarp
<1>3. t.data = data /\ t.len = n /\ end = n - m /\ end \in Int
  BY <1>1
<1>4. \A k \in Nat : byte(k) \in Int
  BY <1>1, <1>3 DEF Junk
<1>5. b \in [Nat -> Int] /\ \A k \in Nat : b[k] = byte(k)
  <2> HIDE DEF byte
  <2> QED BY <1>4
<1>6. \A k \in 0 .. n - 1 : b[k] = data[k + 1]
  BY <1>1, <1>3, <1>5
<1> HIDE DEF t
<1> HIDE DEF byte, b
<1>7. \A f : Is(f) <=> IsRoll(f, b, from, m, end)
  <2>1. HashOf([j \in 1 .. Len(text) - 1 |-> byte(from + j - 1)]) = HashOf(Window(b, from, m - 1))
    <3>1. \A j \in 1 .. m - 1 : from + j - 1 \in Nat
      OBVIOUS
    <3>2. [j \in 1 .. m - 1 |-> byte(from + j - 1)] = Window(b, from, m - 1)
      BY <1>5, <3>1 DEF Window
    <3> QED BY <3>2
  <2>2. ASSUME NEW f, NEW k \in from .. end
        PROVE  (LET rest == IF k = from
                            THEN HashOf([j \in 1 .. Len(text) - 1 |-> byte(from + j - 1)])
                            ELSE f[k - 1] - Power3(Len(text) - 1) * byte(k - 1)
                IN  (rest * 3 + byte(k + Len(text) - 1)) % HashMod)
                  = RollStep(b, from, m, f[k - 1], k)
    <3>1. k + Len(text) - 1 \in Nat /\ (k # from => k - 1 \in Nat)
      BY <1>3
    <3>2. b[k + Len(text) - 1] = byte(k + Len(text) - 1)
      BY <1>5, <3>1
    <3>3. k # from => b[k - 1] = byte(k - 1)
      BY <1>5, <3>1
    <3> HIDE DEF end
    <3> QED BY <2>1, <3>2, <3>3 DEF RollStep
  <2> HIDE DEF end
  <2> QED BY <2>2 DEF IsRoll
<1> HIDE DEF Is
<1>8. Is(roll)
  <2>1. PICK f : IsRoll(f, b, from, m, end)
    <3>1. b \in [Nat -> Int] /\ end \in Int
      BY <1>3, <1>5
    <3> HIDE DEF end
    <3>2. \E f : IsRoll(f, b, from, m, end)
      BY ONLY <3>1, RollExists, m \in Nat \ {0}, from \in Nat
    <3> QED BY <3>2
  <2>2. Is(f)
    BY <1>7, <2>1
  <2> QED BY <2>2
<1>9. \A k \in from .. end : roll[k] = HashOf(Window(b, k, m))
  <2>1. IsRoll(roll, b, from, m, end)
    BY <1>7, <1>8
  <2>2. b \in [Nat -> Int] /\ end \in Int
    BY <1>3, <1>5
  <2> HIDE DEF end, roll
  <2> QED BY ONLY <2>1, <2>2, RollTurns, m \in Nat \ {0}, from \in Nat
<1> HIDE DEF roll
<1>10. ASSUME NEW k \in from .. end
       PROVE  (roll[k] = HashOf(text) /\ SameAt(t, k, text)) <=> Stands(s, k, text, m)
  <2>1. k \in Nat /\ k + m <= n
    BY <1>1, <1>3
  <2>2. SameAt(t, k, text) <=> Stands(s, k, text, m)
    BY <2>1, ComparedCells DEF t
  <2>3. ASSUME Stands(s, k, text, m) PROVE roll[k] = HashOf(text)
    <3>1. PICK w : w = Window(b, k, m)
      OBVIOUS
    <3>2. w \in Seq(Int) /\ Len(w) = m
      BY <1>5, <2>1, <3>1, Windows
    <3>3. ASSUME NEW j \in 1 .. m PROVE w[j] = text[j]
      <4>1. w[j] = b[k + j - 1]
        BY <3>1 DEF Window
      <4>2. k + j - 1 \in 0 .. n - 1 /\ (k + j - 1) + 1 = k + j /\ k + j \in 1 .. n
        BY <1>1, <2>1
      <4>3. b[k + j - 1] = data[k + j]
        BY <1>6, <4>2
      <4> QED BY <1>1, <2>3, <4>1, <4>2, <4>3 DEF Stands
    <3>4. w = text
      BY <3>2, <3>3, SameCells
    <3> QED BY <1>9, <3>1, <3>4
  <2> QED BY <2>2, <2>3
<1>11. {k \in from .. end : roll[k] = HashOf(text) /\ SameAt(t, k, text)}
         = {k \in from .. end : Stands(s, k, text, m)}
  BY <1>10
<1>12. {k \in from .. end : roll[k] = HashOf(text) /\ SameAt(t, k, text)}
         = PlacesUpTo(s, text, m, from, n - m)
  BY <1>3, <1>11 DEF PlacesUpTo
<1> QED BY <1>2, <1>12 DEF t

LEMMA Extremes ==
  ASSUME NEW n \in Int, NEW from \in Int, from <= n
  PROVE  FirstOf(from .. n) = from /\ LastOf(from .. n) = n
<1> DEFINE S == from .. n
<1>1. S # {} /\ from \in S /\ n \in S /\ \A k \in S : k \in Int /\ from <= k /\ k <= n
  OBVIOUS
<1>2. FirstOf(S) = CHOOSE k \in S : \A i \in S : k <= i
  BY <1>1 DEF FirstOf
<1>3. LastOf(S) = CHOOSE k \in S : \A i \in S : i <= k
  BY <1>1 DEF LastOf
<1> HIDE DEF S
<1>4. \A k \in S : (\A i \in S : k <= i) => k = from
  BY <1>1
<1>5. \A k \in S : (\A i \in S : i <= k) => k = n
  BY <1>1
<1>6. \A i \in S : from <= i /\ i <= n
  BY <1>1
<1>7. (CHOOSE k \in S : \A i \in S : k <= i) = from
  BY <1>1, <1>4, <1>6
<1>8. (CHOOSE k \in S : \A i \in S : i <= k) = n
  BY <1>1, <1>5, <1>6
<1>9. FirstOf(S) = from /\ LastOf(S) = n
  BY <1>2, <1>3, <1>7, <1>8
<1> QED BY <1>9 DEF S

(* The places at which a text of m characters is in a string of n. *)
Places(s, text, m, n, from) == {k \in from .. n : k + m <= n /\ Stands(s, k, text, m)}

LEMMA FindPlaces ==
  ASSUME NEW n, NEW size, NEW data, NEW s, StrCells(n, size, data, s),
         NEW m \in Nat, NEW text \in Seq(Int), Len(text) = m,
         NEW from \in Nat, from <= n
  PROVE  StrFind([len |-> n, data |-> data], text, from)
           = FirstOf(Places(s, text, m, n, from))
<1> DEFINE t == [len |-> n, data |-> data]
<1>1. n \in Nat /\ t.len = n
  BY DEF StrCells, Agrees
<1>2. CASE m = 0
  <2>1. text = <<>>
    BY <1>2
  <2>2. Places(s, text, m, n, from) = from .. n
    BY <1>1, <1>2 DEF Places, Stands
  <2>3. StrFind(t, text, from) = from
    BY <2>1 DEF StrFind
  <2> QED BY <1>1, <2>2, <2>3, Extremes
<1>3. CASE m > n
  <2>1. text # <<>>
    BY <1>1, <1>3
  <2>2. Places(s, text, m, n, from) = {}
    BY <1>1, <1>3 DEF Places
  <2>3. StrFind(t, text, from) = NOWHERE
    BY <1>1, <1>3, <2>1 DEF StrFind
  <2> QED BY <2>2, <2>3 DEF FirstOf
<1>4. CASE m # 0 /\ m <= n
  <2>0. text # <<>> /\ ~(Len(text) > t.len) /\ m \in Nat \ {0}
    BY <1>1, <1>4
  <2>1. Places(s, text, m, n, from) = {k \in from .. n - m : Stands(s, k, text, m)}
    BY <1>1 DEF Places
  <2>2. CASE m <= 4
    <3>1. StrFind(t, text, from) = FirstOf({k \in from .. n - m : SameAt(t, k, text)})
      <4> HIDE DEF t
      <4> QED BY <1>1, <2>0, <2>2 DEF StrFind
    <3>2. \A k \in from .. n - m : SameAt(t, k, text) <=> Stands(s, k, text, m)
      <4>1. \A k \in from .. n - m : k \in Nat /\ k + m <= n
        BY <1>1
      <4> QED BY <4>1, ComparedCells
    <3>3. {k \in from .. n - m : SameAt(t, k, text)} = {k \in from .. n - m : Stands(s, k, text, m)}
      <4> HIDE DEF t
      <4> QED BY <3>2
    <3> QED BY <2>1, <3>1, <3>3
  <2>3. CASE m > 4
    <3>1. StrFind(t, text, from) = RabinKarp(t, text, from)
      <4> HIDE DEF t
      <4> QED BY <1>1, <2>0, <2>3 DEF StrFind
    <3>2. RabinKarp(t, text, from) = FirstOf(PlacesUpTo(s, text, m, from, n - m))
      BY <2>0, RabinKarpFinds
    <3> QED BY <2>1, <3>1, <3>2 DEF PlacesUpTo
  <2> QED BY <2>2, <2>3
<1> QED BY <1>1, <1>2, <1>3, <1>4

LEMMA RfindPlaces ==
  ASSUME NEW n, NEW size, NEW data, NEW s, StrCells(n, size, data, s),
         NEW m \in Nat, NEW text \in Seq(Int), Len(text) = m
  PROVE  StrRfind([len |-> n, data |-> data], text)
           = LastOf({k \in 0 .. n : /\ k + m <= n /\ Stands(s, k, text, m)
                                    /\ (m > 1 => k + m < n)})
<1> DEFINE t == [len |-> n, data |-> data]
           F == {k \in 0 .. n : /\ k + m <= n /\ Stands(s, k, text, m)
                                /\ (m > 1 => k + m < n)}
<1>1. n \in Nat /\ t.len = n
  BY DEF StrCells, Agrees
<1>2. CASE m = 0
  <2>1. text = <<>>
    BY <1>2
  <2>2. F = 0 .. n
    BY <1>1, <1>2 DEF Stands
  <2>3. StrRfind(t, text) = n
    BY <2>1 DEF StrRfind
  <2>4. LastOf(F) = n
    <3>1. 0 \in Int /\ n \in Int /\ 0 <= n
      BY <1>1
    <3>2. LastOf(0 .. n) = n
      BY <3>1, Extremes
    <3> HIDE DEF F
    <3> QED BY <2>2, <3>2
  <2> HIDE DEF F
  <2>5. StrRfind(t, text) = LastOf(F)
    BY <2>3, <2>4
  <2> QED BY <2>5 DEF F
<1>3. CASE m # 0
  <2>0. PICK d \in {0, 1} : d = IF m = 1 THEN 0 ELSE 1
    OBVIOUS
  <2>1. PICK final \in Int : final = n - m - d
    BY <1>1
  <2>2. StrRfind(t, text) = LastOf({k \in 0 .. final : SameAt(t, k, text)})
    <3>1. text # <<>>
      BY <1>3
    <3> HIDE DEF t
    <3> QED BY <1>1, <2>0, <2>1, <3>1 DEF StrRfind
  <2>3. \A k \in 0 .. final : SameAt(t, k, text) <=> Stands(s, k, text, m)
    <3>1. \A k \in 0 .. final : k \in Nat /\ k + m <= n
      BY <1>1, <2>0, <2>1
    <3> QED BY <3>1, ComparedCells
  <2>4. {k \in 0 .. final : SameAt(t, k, text)} = {k \in 0 .. final : Stands(s, k, text, m)}
    <3> HIDE DEF t
    <3> QED BY <2>3
  <2>5. \A k \in 0 .. n : (k + m <= n /\ (m > 1 => k + m < n)) <=> k <= final
    BY <1>1, <1>3, <2>0, <2>1
  <2>6. final <= n
    BY <1>1, <2>0, <2>1
  <2>7. F = {k \in 0 .. final : Stands(s, k, text, m)}
    <3>1. \A k : k \in 0 .. final <=> k \in 0 .. n /\ k <= final
      BY <1>1, <2>6
    <3>2. \A k : k \in F <=> k \in 0 .. final /\ Stands(s, k, text, m)
      BY <2>5, <3>1
    <3> HIDE DEF F
    <3> QED BY <3>2
  <2> QED BY <2>2, <2>4, <2>7
<1> QED BY <1>2, <1>3

LEMMA FindsRight ==
  ASSUME StrHolds(str, strText), NEW text \in Seq(Int)
  PROVE  Finds(text) /\ FindsBack(text)
<1>1. PICK n, size, data : str = [len |-> n, data |-> data] /\ StrCells(n, size, data, strText)
  BY DEF StrHolds
<1>2. n \in Nat /\ Len(strText) = n
  BY <1>1 DEF StrCells, Agrees
<1>3. PICK m \in Nat : m = Len(text)
  OBVIOUS
<1>4. \A k : Occurs(text, k) <=> k + m <= n /\ Stands(strText, k, text, m)
  BY <1>2, <1>3 DEF Occurs, Stands
<1>5. ASSUME NEW from \in 0 .. n
      PROVE  StrFind(str, text, from) = FirstOf({k \in from .. n : Occurs(text, k)})
  <2>1. StrFind(str, text, from) = FirstOf(Places(strText, text, m, n, from))
    BY <1>1, <1>2, <1>3, FindPlaces
  <2>2. Places(strText, text, m, n, from) = {k \in from .. n : Occurs(text, k)}
    BY <1>4 DEF Places
  <2> QED BY <2>1, <2>2
<1>6. StrRfind(str, text)
        = LastOf({k \in 0 .. n : Occurs(text, k) /\ (m > 1 => k + m < n)})
  <2>1. StrRfind(str, text)
          = LastOf({k \in 0 .. n : /\ k + m <= n /\ Stands(strText, k, text, m)
                                   /\ (m > 1 => k + m < n)})
    BY <1>1, <1>3, RfindPlaces
  <2>2. {k \in 0 .. n : /\ k + m <= n /\ Stands(strText, k, text, m) /\ (m > 1 => k + m < n)}
          = {k \in 0 .. n : Occurs(text, k) /\ (m > 1 => k + m < n)}
    BY <1>4
  <2> QED BY <2>1, <2>2
<1> QED BY <1>2, <1>3, <1>5, <1>6 DEF Finds, FindsBack

-----------------------------------------------------------------------------
(* Splitting, joining and replacing. *)

Piece(s, k, ch, text) == IF s[k] = ch THEN text ELSE <<s[k]>>

(* r[k] is the first k characters of s, with text for ch. *)
Replaces(r, s, n, ch, text) ==
    /\ r \in [Nat -> Seq(Int)]
    /\ r[0] = <<>>
    /\ \A k \in 1 .. n : r[k] = r[k - 1] \o Piece(s, k, ch, text)

LEMMA ReplacedText ==
  ASSUME NEW n \in Nat, NEW s \in Seq(Int), Len(s) = n, NEW ch, NEW text \in Seq(Int)
  PROVE  \E r : Replaces(r, s, n, ch, text)
<1> DEFINE piece(k) == IF k + 1 <= n THEN Piece(s, k + 1, ch, text) ELSE <<>>
           G == [k \in Nat |-> [x \in Seq(Int) |-> x \o piece(k)]]
<1>1. \A k \in Nat : piece(k) \in Seq(Int)
  BY DEF Piece
<1> HIDE DEF piece
<1>2. \A k \in Nat, x \in Seq(Int) : x \o piece(k) \in Seq(Int)
  BY <1>1
<1>3. G \in [Nat -> [Seq(Int) -> Seq(Int)]] /\ <<>> \in Seq(Int)
  BY <1>2
<1>4. \A k \in Nat, x \in Seq(Int) : G[k][x] = x \o piece(k)
  OBVIOUS
<1> HIDE DEF G
<1>5. \E r \in [Nat -> Seq(Int)] : Iterates(r, <<>>, G)
  BY ONLY <1>3, Recursion
<1>6. PICK r \in [Nat -> Seq(Int)] : Iterates(r, <<>>, G)
  BY <1>5
<1>7. ASSUME NEW k \in 1 .. n PROVE r[k] = r[k - 1] \o Piece(s, k, ch, text)
  <2>1. k - 1 \in Nat /\ (k - 1) + 1 = k
    OBVIOUS
  <2>2. r[k] = G[k - 1][r[k - 1]]
    BY <1>6, <2>1 DEF Iterates
  <2>3. piece(k - 1) = Piece(s, k, ch, text)
    BY <2>1 DEF piece
  <2>4. r[k - 1] \in Seq(Int)
    BY <1>6, <2>1
  <2> QED BY <1>4, <2>1, <2>2, <2>3, <2>4
<1>8. r[0] = <<>>
  BY <1>6 DEF Iterates
<1> QED BY <1>6, <1>7, <1>8 DEF Replaces

Regroups(a, b, c) == (a \o b) \o c = a \o (b \o c)

LEMMA Regrouped ==
  ASSUME NEW a \in Seq(Int), NEW b \in Seq(Int), NEW c \in Seq(Int)
  PROVE  Regroups(a, b, c)
<1>1. PICK u : u = (a \o b) \o c
  OBVIOUS
<1>2. PICK v : v = a \o (b \o c)
  OBVIOUS
<1>3. u \in Seq(Int) /\ v \in Seq(Int) /\ Len(u) = Len(v)
  BY <1>1, <1>2
<1>4. \A k \in 1 .. Len(u) : u[k] = v[k]
  BY <1>1, <1>2
<1>5. u = v
  BY ONLY <1>3, <1>4, SameCells
<1> QED BY <1>1, <1>2, <1>5 DEF Regroups

LEMMA OneMore ==
  ASSUME NEW s \in Seq(Int), NEW at \in Nat, NEW k \in Nat, at <= k, k + 1 <= Len(s)
  PROVE  /\ SubSeq(s, at + 1, k + 1) = SubSeq(s, at + 1, k) \o <<s[k + 1]>>
         /\ SubSeq(s, at + 1, k) \in Seq(Int) /\ s[k + 1] \in Int
<1>1. PICK u : u = SubSeq(s, at + 1, k + 1)
  OBVIOUS
<1>2. PICK v : v = SubSeq(s, at + 1, k)
  OBVIOUS
<1>3. PICK m \in Nat : m = k - at
  OBVIOUS
<1>4. /\ u \in Seq(Int) /\ Len(u) = m + 1 /\ \A j \in 1 .. m + 1 : u[j] = s[at + j]
      /\ v \in Seq(Int) /\ Len(v) = m /\ \A j \in 1 .. m : v[j] = s[at + j]
  <2>1. k + 1 \in Nat /\ at <= k + 1 /\ (k + 1) - at = m + 1 /\ k <= Len(s)
    BY <1>3
  <2>2. PICK e \in Nat : e = k + 1
    OBVIOUS
  <2>3. at <= e /\ e <= Len(s) /\ e - at = m + 1 /\ u = SubSeq(s, at + 1, e)
    BY <1>1, <2>1, <2>2
  <2>4. /\ SubSeq(s, at + 1, e) \in Seq(Int)
        /\ Len(SubSeq(s, at + 1, e)) = e - at
        /\ \A j \in 1 .. e - at : SubSeq(s, at + 1, e)[j] = s[at + j]
    BY <2>3, PartOf
  <2>5. /\ SubSeq(s, at + 1, k) \in Seq(Int)
        /\ Len(SubSeq(s, at + 1, k)) = k - at
        /\ \A j \in 1 .. k - at : SubSeq(s, at + 1, k)[j] = s[at + j]
    BY <2>1, PartOf
  <2>6. u \in Seq(Int) /\ Len(u) = m + 1 /\ \A j \in 1 .. m + 1 : u[j] = s[at + j]
    BY <2>3, <2>4
  <2>7. v \in Seq(Int) /\ Len(v) = m /\ \A j \in 1 .. m : v[j] = s[at + j]
    BY <1>2, <1>3, <2>5
  <2> QED BY <2>6, <2>7
<1>5. PICK c \in Int : c = s[k + 1]
  OBVIOUS
<1>6. PICK w : w = v \o <<c>>
  OBVIOUS
<1>7. w \in Seq(Int) /\ Len(w) = m + 1 /\ w[m + 1] = c /\ \A j \in 1 .. m : w[j] = v[j]
  <2>1. PICK t : t = <<c>>
    OBVIOUS
  <2>2. t \in Seq(Int) /\ Len(t) = 1 /\ t[1] = c
    BY <2>1
  <2>3. /\ v \o t \in Seq(Int) /\ Len(v \o t) = m + 1 /\ (v \o t)[m + 1] = t[1]
        /\ \A j \in 1 .. m : (v \o t)[j] = v[j]
    <3>0. PICK e \in Nat, o \in Nat : e = m + 1 /\ o = 1 /\ e = m + o
      OBVIOUS
    <3>1. Joins(v \o t, v, m, t, 1, m + 1)
      <4>1. v \in Seq(Int) /\ Len(v) = m
        BY <1>4
      <4>2. Joins(v \o t, v, m, t, o, e)
        BY <2>2, <3>0, <4>1, Joined
      <4> QED BY <3>0, <4>2
    <3>2. m + 1 \in m + 1 .. m + 1 /\ (m + 1) - m = 1
      OBVIOUS
    <3> QED BY <3>1, <3>2 DEF Joins
  <2> QED BY <1>6, <2>1, <2>2, <2>3
<1>8. at + (m + 1) = k + 1
  BY <1>3
<1>9. \A j \in 1 .. m + 1 : j = m + 1 \/ j \in 1 .. m
  OBVIOUS
<1>10. \A j \in 1 .. Len(u) : u[j] = w[j]
  <2>1. u[m + 1] = c
    BY <1>4, <1>5, <1>8
  <2>2. ASSUME NEW j \in 1 .. m PROVE u[j] = w[j]
    <3>1. j \in 1 .. m + 1
      OBVIOUS
    <3>2. u[j] = s[at + j] /\ v[j] = s[at + j] /\ w[j] = v[j]
      BY <1>4, <1>7, <3>1
    <3> QED BY <3>2
  <2> QED BY <1>4, <1>7, <1>9, <2>1, <2>2
<1>11. u = w
  BY <1>4, <1>7, <1>10, SameCells
<1> QED BY <1>1, <1>2, <1>4, <1>5, <1>6, <1>11

(* No ch between the places at and pos. *)
FreeOf(s, at, pos, ch) == \A j \in at + 1 .. pos : s[j] # ch

RunCopied(r, s, at, pos) == r[pos] = r[at] \o SubSeq(s, at + 1, pos)

LEMMA ReplacedRun ==
  ASSUME NEW n \in Nat, NEW s \in Seq(Int), Len(s) = n, NEW ch, NEW text \in Seq(Int),
         NEW r, Replaces(r, s, n, ch, text),
         NEW at \in Nat, NEW pos \in Nat, at <= pos, pos <= n, FreeOf(s, at, pos, ch)
  PROVE  RunCopied(r, s, at, pos)
<1> DEFINE Run(k) == r[k] = r[at] \o SubSeq(s, at + 1, k)
           S == {k \in Nat : at <= k /\ k <= pos => Run(k)}
<1>0. \A k \in Nat : r[k] \in Seq(Int)
  BY DEF Replaces
<1>1. Run(at)
  <2>1. SubSeq(s, at + 1, at) = <<>>
    OBVIOUS
  <2> QED BY <1>0, <2>1
<1>2. ASSUME NEW k \in Nat, at <= k, k + 1 <= pos, Run(k) PROVE Run(k + 1)
  <2>1. k + 1 \in 1 .. n /\ (k + 1) - 1 = k /\ k + 1 \in at + 1 .. pos
    BY <1>2
  <2>2. r[k + 1] = r[k] \o <<s[k + 1]>>
    BY <2>1 DEF Replaces, Piece, FreeOf
  <2>3. /\ SubSeq(s, at + 1, k + 1) = SubSeq(s, at + 1, k) \o <<s[k + 1]>>
        /\ SubSeq(s, at + 1, k) \in Seq(Int) /\ s[k + 1] \in Int
    <3>1. at <= k /\ k + 1 <= Len(s)
      BY <1>2, <2>1
    <3> QED BY <3>1, OneMore
  <2>4. PICK v \in Seq(Int), c \in Int : v = SubSeq(s, at + 1, k) /\ c = s[k + 1]
    BY <2>3
  <2>5. PICK a \in Seq(Int) : a = r[at]
    BY <1>0
  <2>6. (a \o v) \o <<c>> = a \o (v \o <<c>>)
    <3>1. <<c>> \in Seq(Int)
      OBVIOUS
    <3>2. Regroups(a, v, <<c>>)
      BY ONLY a \in Seq(Int), v \in Seq(Int), <3>1, Regrouped
    <3> QED BY <3>2 DEF Regroups
  <2>7. r[k] = a \o v
    BY <1>2, <2>4, <2>5
  <2> QED BY <2>2, <2>3, <2>4, <2>5, <2>6, <2>7
<1> HIDE DEF Run
<1>3. 0 \in S
  <2>1. at <= 0 => at = 0
    OBVIOUS
  <2> QED BY <1>1, <2>1
<1>4. ASSUME NEW k \in Nat, k \in S PROVE k + 1 \in S
  <2>1. CASE k + 1 = at
    BY <1>1, <2>1
  <2>2. CASE at <= k /\ k + 1 <= pos
    BY <1>2, <1>4, <2>2
  <2>3. CASE k + 1 < at \/ k + 1 > pos
    BY <2>3
  <2>4. k + 1 = at \/ (at <= k /\ k + 1 <= pos) \/ k + 1 < at \/ k + 1 > pos
    OBVIOUS
  <2> QED BY <2>1, <2>2, <2>3, <2>4
<1>5. \A k \in Nat : k \in S
  <2> HIDE DEF S
  <2> QED BY <1>3, <1>4, NatInd
<1>6. Run(pos)
  BY <1>5
<1> QED BY <1>6 DEF Run, RunCopied

SamePart(data, s, at, to) == SubSeq(data, at + 1, to) = SubSeq(s, at + 1, to)

LEMMA PartHeld ==
  ASSUME NEW n, NEW size, NEW data, NEW s, Agrees(n, size, data, s),
         NEW at \in Nat, NEW to \in Nat, at <= to, to <= n
  PROVE  SamePart(data, s, at, to)
<1>1. PICK count \in Nat : count = to - at /\ at + count = to
  <2>1. to - at \in Nat /\ at + (to - at) = to
    OBVIOUS
  <2> QED BY <2>1
<1>2. at + count <= n /\ Agrees(n, size, data, s)
  BY <1>1
<1>3. /\ SubSeq(data, at + 1, at + count) = SubSeq(s, at + 1, at + count)
      /\ SubSeq(s, at + 1, at + count) \in Seq(Int)
      /\ Len(SubSeq(s, at + 1, at + count)) = count
  BY ONLY <1>2, at \in Nat, count \in Nat, SameParts
<1> QED BY <1>1, <1>3 DEF SamePart

LEMMA CutJoins ==
  ASSUME NEW s \in Seq(Int), NEW a \in Nat, NEW b \in Nat, a <= b, b <= Len(s)
  PROVE  SubSeq(s, 1, a) \o SubSeq(s, a + 1, b) = SubSeq(s, 1, b)
<1>1. PICK u : u = SubSeq(s, 1, a)
  OBVIOUS
<1>2. PICK v : v = SubSeq(s, a + 1, b)
  OBVIOUS
<1>3. PICK w : w = SubSeq(s, 1, b)
  OBVIOUS
<1>4. PICK m \in Nat : m = b - a /\ b = a + m
  OBVIOUS
<1>5. /\ u \in Seq(Int) /\ Len(u) = a /\ \A k \in 1 .. a : u[k] = s[k]
      /\ w \in Seq(Int) /\ Len(w) = b /\ \A k \in 1 .. b : w[k] = s[k]
  BY <1>1, <1>3
<1>6. v \in Seq(Int) /\ Len(v) = m /\ \A k \in 1 .. m : v[k] = s[a + k]
  BY <1>2, <1>4, PartOf
<1>7. PICK j : j = u \o v
  OBVIOUS
<1>8. Joins(j, u, a, v, m, b)
  BY <1>4, <1>5, <1>6, <1>7, Joined
<1>9. ASSUME NEW k \in 1 .. b PROVE j[k] = w[k]
  <2>1. CASE k <= a
    <3>1. k \in 1 .. a
      BY <2>1
    <3>2. j[k] = u[k]
      BY <1>8, <3>1 DEF Joins
    <3>3. u[k] = s[k] /\ w[k] = s[k]
      BY <1>5, <3>1
    <3> QED BY <3>2, <3>3
  <2>2. CASE k > a
    <3>1. k \in a + 1 .. b /\ k - a \in 1 .. m /\ a + (k - a) = k
      BY <1>4, <2>2
    <3>2. j[k] = v[k - a] /\ v[k - a] = s[a + (k - a)]
      BY <1>6, <1>8, <3>1 DEF Joins
    <3> QED BY <1>5, <3>1, <3>2
  <2> QED BY <2>1, <2>2
<1>10. j = w
  BY <1>5, <1>8, <1>9, SameCells DEF Joins
<1> QED BY <1>1, <1>2, <1>3, <1>7, <1>10

FoundFirst(pos, P) ==
    \/ pos = NOWHERE /\ P = {}
    \/ pos \in P /\ pos \in Nat /\ pos # NOWHERE /\ \A q \in P : pos <= q

LEMMA FoundAt ==
  ASSUME NEW n, NEW size, NEW data, NEW s, StrCells(n, size, data, s),
         NEW m \in Nat, NEW text \in Seq(Int), Len(text) = m,
         NEW from \in Nat, from <= n
  PROVE  FoundFirst(StrFind([len |-> n, data |-> data], text, from),
                    Places(s, text, m, n, from))
<1>0. PICK pos : pos = StrFind([len |-> n, data |-> data], text, from)
  OBVIOUS
<1>1. PICK P : P = Places(s, text, m, n, from)
  OBVIOUS
<1>2. P \in SUBSET Nat
  BY <1>1 DEF Places
<1>3. pos = FirstOf(P)
  BY <1>0, <1>1, FindPlaces
<1>4. CASE P = {}
  BY <1>0, <1>1, <1>3, <1>4 DEF FirstOf, FoundFirst
<1>5. CASE P # {}
  <2>1. Least(P) \in P /\ \A q \in P : Least(P) <= q
    BY <1>2, <1>5, LeastIn
  <2>2. pos = Least(P)
    BY <1>3, <1>5 DEF FirstOf, Least
  <2>3. pos \in Nat /\ pos # NOWHERE
    <3>1. \A p \in Nat : p # -1
      OBVIOUS
    <3>2. pos \in Nat
      BY <1>2, <2>1, <2>2
    <3> QED BY <3>1, <3>2 DEF NOWHERE
  <2> QED BY <1>0, <1>1, <2>1, <2>2, <2>3 DEF FoundFirst
<1> QED BY <1>4, <1>5

ReplaceTurn(t, s, pattern, text) ==
    LET pos == StrFind(s, pattern, t.from)
    IN  IF pos = NOWHERE THEN t
        ELSE [done |-> t.done \o SubSeq(s.data, t.from + 1, pos) \o text,
              from |-> pos + Len(pattern)]

ReplaceTurns(turn, s, count, pattern, text) ==
    /\ turn[0] = [done |-> <<>>, from |-> 0]
    /\ \A k \in 1 .. count : turn[k] = ReplaceTurn(turn[k - 1], s, pattern, text)

ReplaceEnds(result, t, s) == result = t.done \o SubSeq(s.data, t.from + 1, s.len)

LEMMA ReplaceInTurns ==
  ASSUME NEW s, NEW count \in Nat, NEW pattern, NEW text
  PROVE  \E turn : /\ ReplaceTurns(turn, s, count, pattern, text)
                   /\ ReplaceEnds(replace_count(s, count, pattern, text), turn[count], s)
<1> DEFINE T0 == [done |-> <<>>, from |-> 0]
           Step(t) == LET pos == StrFind(s, pattern, t.from)
                      IN  IF pos = NOWHERE THEN t
                          ELSE [done |-> t.done \o SubSeq(s.data, t.from + 1, pos) \o text,
                                from |-> pos + Len(pattern)]
           Is(f, m) == f = [k \in 0 .. m |-> IF k = 0 THEN T0 ELSE Step(f[k - 1])]
<1>1. \A m \in Nat : \E f : Is(f, m)
  <2> HIDE DEF Step, T0
  <2> DEFINE S == {m \in Nat : \E f : Is(f, m)}
  <2>1. 0 \in S
    <3>1. Is([k \in 0 .. 0 |-> T0], 0)
      OBVIOUS
    <3> QED BY <3>1
  <2>2. ASSUME NEW m \in Nat, m \in S PROVE m + 1 \in S
    <3>1. PICK f : Is(f, m)
      BY <2>2
    <3> DEFINE g == [k \in 0 .. m + 1 |-> IF k <= m THEN f[k] ELSE Step(f[m])]
    <3>2. Is(g, m + 1)
      BY <3>1
    <3> HIDE DEF Is
    <3> QED BY <3>2
  <2> HIDE DEF S
  <2>3. \A m \in Nat : m \in S
    BY <2>1, <2>2, NatInd
  <2> QED BY <2>3 DEF S
<1>2. PICK turn : /\ Is(turn, count)
                  /\ replace_count(s, count, pattern, text)
                       = turn[count].done \o SubSeq(s.data, turn[count].from + 1, s.len)
  <2> DEFINE turn == CHOOSE f : Is(f, count)
  <2>1. replace_count(s, count, pattern, text)
          = turn[count].done \o SubSeq(s.data, turn[count].from + 1, s.len)
    BY DEF replace_count
  <2> HIDE DEF Is
  <2>2. Is(turn, count)
    BY <1>1
  <2> QED BY <2>1, <2>2
<1>3. ReplaceTurns(turn, s, count, pattern, text)
  <2>1. \A k \in 1 .. count : Step(turn[k - 1]) = ReplaceTurn(turn[k - 1], s, pattern, text)
    BY DEF ReplaceTurn
  <2> HIDE DEF Step
  <2>2. turn[0] = T0 /\ \A k \in 1 .. count : turn[k] = Step(turn[k - 1])
    BY <1>2
  <2> QED BY <2>1, <2>2 DEF ReplaceTurns
<1> QED BY <1>2, <1>3 DEF ReplaceEnds

(* The text up to from has been replaced; there is nothing left behind it, *)
(* or it is behind the first k characters. *)
Replaced(t, k, n, s, ch, r) ==
    \E from \in 0 .. n : \E done :
      /\ t = [done |-> done, from |-> from] /\ done = r[from]
      /\ k <= from \/ FreeOf(s, from, n, ch)

LEMMA ReplaceTurnKeeps ==
  ASSUME NEW n, NEW size, NEW data, NEW s, StrCells(n, size, data, s),
         NEW ch \in Int, NEW text \in Seq(Int), NEW r, Replaces(r, s, n, ch, text),
         NEW k \in Nat, NEW t, Replaced(t, k, n, s, ch, r)
  PROVE  Replaced(ReplaceTurn(t, [len |-> n, data |-> data], <<ch>>, text), k + 1, n, s, ch, r)
<1> DEFINE x == [len |-> n, data |-> data]
<1>1. /\ n \in Nat /\ Agrees(n, size, data, s) /\ s \in Seq(Int) /\ Len(s) = n
  BY DEF StrCells, Agrees
<1>2. PICK from \in 0 .. n : \E done :
        /\ t = [done |-> done, from |-> from] /\ done = r[from]
        /\ k <= from \/ FreeOf(s, from, n, ch)
  BY DEF Replaced
<1>c. PICK done : /\ t = [done |-> done, from |-> from] /\ done = r[from]
                  /\ k <= from \/ FreeOf(s, from, n, ch)
  BY <1>2
<1>3. from \in Nat /\ from <= n /\ t.from = from /\ t.done = done
  BY <1>1, <1>c
<1>4. PICK pattern : pattern = <<ch>>
  OBVIOUS
<1>5. pattern \in Seq(Int) /\ Len(pattern) = 1 /\ pattern[1] = ch /\ 1 \in Nat
  BY <1>4
<1>6. PICK pos : pos = StrFind(x, pattern, from)
  OBVIOUS
<1>7. PICK P : P = Places(s, pattern, 1, n, from)
  OBVIOUS
<1>8. \A q : q \in P <=> q \in from .. n /\ q + 1 <= n /\ s[q + 1] = ch
  <2>1. \A q : Stands(s, q, pattern, 1) <=> s[q + 1] = ch
    BY <1>5 DEF Stands
  <2> QED BY <1>7, <2>1 DEF Places
<1>9. \/ pos = NOWHERE /\ P = {}
      \/ pos \in P /\ pos \in Nat /\ pos # NOWHERE /\ \A q \in P : pos <= q
  <2>1. FoundFirst(StrFind(x, pattern, from), Places(s, pattern, 1, n, from))
    BY <1>3, <1>5, FoundAt
  <2> QED BY <1>6, <1>7, <2>1 DEF FoundFirst
<1>10. ASSUME NEW to \in 0 .. n, \A q \in P : to <= q PROVE FreeOf(s, from, to, ch)
  <2>1. ASSUME NEW j \in from + 1 .. to, s[j] = ch PROVE FALSE
    <3>1. j - 1 \in from .. n /\ (j - 1) + 1 = j /\ j <= n /\ ~(to <= j - 1)
      BY <1>1, <1>3
    <3>2. j - 1 \in P
      BY <1>8, <2>1, <3>1
    <3> QED BY <1>10, <3>1, <3>2
  <2> QED BY <2>1 DEF FreeOf
<1>11. CASE pos = NOWHERE /\ P = {}
  <2>1. ReplaceTurn(t, x, pattern, text) = t
    <3> HIDE DEF x
    <3> QED BY <1>3, <1>6, <1>11 DEF ReplaceTurn
  <2>2. FreeOf(s, from, n, ch)
    BY <1>1, <1>10, <1>11
  <2>3. Replaced(t, k + 1, n, s, ch, r)
    BY <1>c, <2>2 DEF Replaced
  <2> QED BY <1>4, <2>1, <2>3
<1>12. CASE pos \in P /\ pos \in Nat /\ pos # NOWHERE /\ \A q \in P : pos <= q
  <2>1. from <= pos /\ pos + 1 <= n /\ s[pos + 1] = ch /\ pos <= n
    BY <1>1, <1>3, <1>8, <1>12
  <2>2. FreeOf(s, from, pos, ch)
    <3>1. pos \in 0 .. n
      BY <1>1, <1>12, <2>1
    <3> QED BY <1>10, <1>12, <3>1
  <2>3. r[pos] = r[from] \o SubSeq(s, from + 1, pos)
    <3>1. RunCopied(r, s, from, pos)
      BY <1>1, <1>3, <1>12, <2>1, <2>2, ReplacedRun
    <3> QED BY <3>1 DEF RunCopied
  <2>4. SubSeq(data, from + 1, pos) = SubSeq(s, from + 1, pos)
    <3>1. SamePart(data, s, from, pos)
      BY <1>1, <1>3, <1>12, <2>1, PartHeld
    <3> QED BY <3>1 DEF SamePart
  <2>5. r[pos + 1] = r[pos] \o text
    <3>1. pos + 1 \in 1 .. n /\ (pos + 1) - 1 = pos
      BY <1>1, <1>12, <2>1
    <3> QED BY <2>1, <3>1 DEF Replaces, Piece
  <2>6. ReplaceTurn(t, x, pattern, text)
          = [done |-> done \o SubSeq(data, from + 1, pos) \o text, from |-> pos + 1]
    <3>1. x.data = data
      OBVIOUS
    <3> HIDE DEF x
    <3> QED BY <1>3, <1>5, <1>6, <1>12, <3>1 DEF ReplaceTurn
  <2>7. done \o SubSeq(data, from + 1, pos) \o text = r[pos + 1]
    BY <1>c, <2>3, <2>4, <2>5
  <2>8. k + 1 <= pos + 1
    <3>1. ~FreeOf(s, from, n, ch)
      <4>1. pos + 1 \in from + 1 .. n
        BY <1>1, <1>3, <1>12, <2>1
      <4> QED BY <2>1, <4>1 DEF FreeOf
    <3> QED BY <1>c, <1>3, <1>12, <2>1, <3>1
  <2>9. pos + 1 \in 0 .. n
    BY <1>1, <1>12, <2>1
  <2>10. Replaced([done |-> r[pos + 1], from |-> pos + 1], k + 1, n, s, ch, r)
    BY <2>8, <2>9 DEF Replaced
  <2> QED BY <1>4, <2>6, <2>7, <2>10
<1> QED BY <1>9, <1>11, <1>12

LEMMA ReplacesAll ==
  ASSUME NEW n, NEW size, NEW data, NEW s, StrCells(n, size, data, s),
         NEW ch \in Int, NEW text \in Seq(Int), NEW r, Replaces(r, s, n, ch, text)
  PROVE  replace_count([len |-> n, data |-> data], n, <<ch>>, text) = r[n]
<1>1. PICK x : x = [len |-> n, data |-> data]
  OBVIOUS
<1>2. /\ n \in Nat /\ Agrees(n, size, data, s) /\ s \in Seq(Int) /\ Len(s) = n
      /\ x.data = data /\ x.len = n
  BY <1>1 DEF StrCells, Agrees
<1>3. PICK turn : /\ ReplaceTurns(turn, x, n, <<ch>>, text)
                  /\ ReplaceEnds(replace_count(x, n, <<ch>>, text), turn[n], x)
  BY <1>2, ReplaceInTurns
<1> DEFINE S == {k \in Nat : k <= n => Replaced(turn[k], k, n, s, ch, r)}
<1>4. 0 \in S
  <2>1. turn[0] = [done |-> <<>>, from |-> 0]
    BY <1>3 DEF ReplaceTurns
  <2>2. r[0] = <<>> /\ 0 \in 0 .. n /\ 0 <= 0
    BY <1>2 DEF Replaces
  <2>3. Replaced(turn[0], 0, n, s, ch, r)
    BY <2>1, <2>2 DEF Replaced
  <2> QED BY <2>3
<1>5. ASSUME NEW k \in Nat, k \in S PROVE k + 1 \in S
  <2>1. CASE k + 1 <= n
    <3>1. k + 1 \in 1 .. n /\ (k + 1) - 1 = k
      BY <1>2, <2>1
    <3>2. turn[k + 1] = ReplaceTurn(turn[k], x, <<ch>>, text)
      BY <1>3, <3>1 DEF ReplaceTurns
    <3>3. Replaced(turn[k], k, n, s, ch, r)
      BY <1>2, <1>5, <2>1
    <3>4. Replaced(turn[k + 1], k + 1, n, s, ch, r)
      BY <1>1, <3>2, <3>3, ReplaceTurnKeeps
    <3> QED BY <3>4
  <2> QED BY <2>1
<1>6. Replaced(turn[n], n, n, s, ch, r)
  <2>1. \A k \in Nat : k \in S
    <3> HIDE DEF S
    <3> QED BY <1>4, <1>5, NatInd
  <2> QED BY <1>2, <2>1
<1>7. PICK from \in 0 .. n : \E done :
        /\ turn[n] = [done |-> done, from |-> from] /\ done = r[from]
        /\ n <= from \/ FreeOf(s, from, n, ch)
  BY <1>6 DEF Replaced
<1>8. replace_count(x, n, <<ch>>, text) = r[from] \o SubSeq(data, from + 1, n)
  <2>1. turn[n].done = r[from] /\ turn[n].from = from
    BY <1>7
  <2> QED BY <1>2, <1>3, <2>1 DEF ReplaceEnds
<1>9. from \in Nat /\ from <= n /\ FreeOf(s, from, n, ch)
  BY <1>2, <1>7 DEF FreeOf
<1>10. r[n] = r[from] \o SubSeq(s, from + 1, n)
  <2>1. n <= n
    BY <1>2
  <2>2. RunCopied(r, s, from, n)
    BY <1>2, <1>9, <2>1, ReplacedRun
  <2> QED BY <2>2 DEF RunCopied
<1>11. SubSeq(data, from + 1, n) = SubSeq(s, from + 1, n)
  <2>1. n <= n
    BY <1>2
  <2>2. SamePart(data, s, from, n)
    BY <1>2, <1>9, <2>1, PartHeld
  <2> QED BY <2>2 DEF SamePart
<1> QED BY <1>1, <1>8, <1>10, <1>11

(* A text that is replaced by itself: what is done is what was there. *)
Unchanged(t, n, s) ==
    \E from \in 0 .. n : t = [done |-> SubSeq(s, 1, from), from |-> from]

LEMMA SameTurnKeeps ==
  ASSUME NEW n, NEW size, NEW data, NEW s, StrCells(n, size, data, s),
         NEW m \in Nat, NEW text \in Seq(Int), Len(text) = m,
         NEW t, Unchanged(t, n, s)
  PROVE  Unchanged(ReplaceTurn(t, [len |-> n, data |-> data], text, text), n, s)
<1> DEFINE x == [len |-> n, data |-> data]
<1>1. /\ n \in Nat /\ Agrees(n, size, data, s) /\ s \in Seq(Int) /\ Len(s) = n
  BY DEF StrCells, Agrees
<1>2. PICK from \in 0 .. n : t = [done |-> SubSeq(s, 1, from), from |-> from]
  BY DEF Unchanged
<1>3. from \in Nat /\ from <= n /\ t.from = from /\ t.done = SubSeq(s, 1, from)
  BY <1>1, <1>2
<1>4. PICK pos : pos = StrFind(x, text, from)
  OBVIOUS
<1>5. PICK P : P = Places(s, text, m, n, from)
  OBVIOUS
<1>6. \/ pos = NOWHERE /\ P = {}
      \/ pos \in P /\ pos \in Nat /\ pos # NOWHERE /\ \A q \in P : pos <= q
  <2>1. FoundFirst(StrFind(x, text, from), Places(s, text, m, n, from))
    BY <1>3, FoundAt
  <2> QED BY <1>4, <1>5, <2>1 DEF FoundFirst
<1>7. CASE pos = NOWHERE /\ P = {}
  <2>1. ReplaceTurn(t, x, text, text) = t
    <3> HIDE DEF x
    <3> QED BY <1>3, <1>4, <1>7 DEF ReplaceTurn
  <2> QED BY <2>1
<1>8. CASE pos \in P /\ pos \in Nat /\ pos # NOWHERE
  <2>1. from <= pos /\ pos + m <= n /\ Stands(s, pos, text, m) /\ pos <= n
    BY <1>1, <1>3, <1>5, <1>8 DEF Places
  <2>2. SubSeq(data, from + 1, pos) = SubSeq(s, from + 1, pos)
    <3>1. SamePart(data, s, from, pos)
      BY <1>1, <1>3, <1>8, <2>1, PartHeld
    <3> QED BY <3>1 DEF SamePart
  <2>3. SubSeq(s, 1, from) \o SubSeq(s, from + 1, pos) = SubSeq(s, 1, pos)
    BY <1>1, <1>3, <1>8, <2>1, CutJoins
  <2>4. PICK to \in Nat : to = pos + m /\ pos <= to /\ to <= n /\ to - pos = m
    BY <1>8, <2>1
  <2>5. text = SubSeq(s, pos + 1, to)
    <3>1. PICK d : d = SubSeq(s, pos + 1, to)
      OBVIOUS
    <3>2. d \in Seq(Int) /\ Len(d) = m /\ \A k \in 1 .. m : d[k] = s[pos + k]
      <4>1. /\ SubSeq(s, pos + 1, to) \in Seq(Int)
            /\ Len(SubSeq(s, pos + 1, to)) = to - pos
            /\ \A k \in 1 .. to - pos : SubSeq(s, pos + 1, to)[k] = s[pos + k]
        BY <1>1, <1>8, <2>4, PartOf
      <4> QED BY <2>4, <3>1, <4>1
    <3>3. \A k \in 1 .. Len(text) : text[k] = d[k]
      BY <2>1, <3>2 DEF Stands
    <3>4. text = d
      BY <3>2, <3>3, SameCells
    <3> QED BY <3>1, <3>4
  <2>6. SubSeq(s, 1, pos) \o SubSeq(s, pos + 1, to) = SubSeq(s, 1, to)
    BY <1>1, <1>8, <2>4, CutJoins
  <2>7. ReplaceTurn(t, x, text, text)
          = [done |-> SubSeq(s, 1, from) \o SubSeq(data, from + 1, pos) \o text,
             from |-> pos + m]
    <3>1. x.data = data
      OBVIOUS
    <3> HIDE DEF x
    <3> QED BY <1>3, <1>4, <1>8, <3>1 DEF ReplaceTurn
  <2>8. ReplaceTurn(t, x, text, text) = [done |-> SubSeq(s, 1, to), from |-> to]
    <3>1. PICK a, b, c : /\ a = SubSeq(s, 1, from) /\ b = SubSeq(s, from + 1, pos)
                         /\ c = SubSeq(s, 1, pos)
      OBVIOUS
    <3>2. ReplaceTurn(t, x, text, text) = [done |-> a \o b \o text, from |-> to]
      BY <2>2, <2>4, <2>7, <3>1
    <3>3. a \o b = c
      BY <2>3, <3>1
    <3>4. c \o text = SubSeq(s, 1, to)
      BY <2>5, <2>6, <3>1
    <3> QED BY <3>2, <3>3, <3>4
  <2>9. to \in 0 .. n
    BY <1>1, <2>4
  <2> QED BY <2>8, <2>9 DEF Unchanged
<1> QED BY <1>6, <1>7, <1>8

LEMMA ReplacesSame ==
  ASSUME NEW n, NEW size, NEW data, NEW s, StrCells(n, size, data, s),
         NEW count \in Nat, NEW text \in Seq(Int)
  PROVE  replace_count([len |-> n, data |-> data], count, text, text) = s
<1>1. PICK x : x = [len |-> n, data |-> data]
  OBVIOUS
<1>2. /\ n \in Nat /\ Agrees(n, size, data, s) /\ s \in Seq(Int) /\ Len(s) = n
      /\ x.data = data /\ x.len = n
  BY <1>1 DEF StrCells, Agrees
<1>3. PICK turn : /\ ReplaceTurns(turn, x, count, text, text)
                  /\ ReplaceEnds(replace_count(x, count, text, text), turn[count], x)
  BY ReplaceInTurns
<1> DEFINE S == {k \in Nat : k <= count => Unchanged(turn[k], n, s)}
<1>4. 0 \in S
  <2>1. turn[0] = [done |-> <<>>, from |-> 0]
    BY <1>3 DEF ReplaceTurns
  <2>2. SubSeq(s, 1, 0) = <<>> /\ 0 \in 0 .. n
    BY <1>2
  <2>3. Unchanged(turn[0], n, s)
    BY <2>1, <2>2 DEF Unchanged
  <2> QED BY <2>3
<1>5. ASSUME NEW k \in Nat, k \in S PROVE k + 1 \in S
  <2>1. CASE k + 1 <= count
    <3>1. k + 1 \in 1 .. count /\ (k + 1) - 1 = k
      BY <2>1
    <3>2. turn[k + 1] = ReplaceTurn(turn[k], x, text, text)
      BY <1>3, <3>1 DEF ReplaceTurns
    <3>3. Unchanged(turn[k], n, s)
      BY <1>5, <2>1
    <3>4. PICK m \in Nat : m = Len(text)
      OBVIOUS
    <3>5. Unchanged(turn[k + 1], n, s)
      BY <1>1, <3>2, <3>3, <3>4, SameTurnKeeps
    <3> QED BY <3>5
  <2> QED BY <2>1
<1>6. Unchanged(turn[count], n, s)
  <2>1. \A k \in Nat : k \in S
    <3> HIDE DEF S
    <3> QED BY <1>4, <1>5, NatInd
  <2> QED BY <2>1
<1>7. PICK from \in 0 .. n : turn[count] = [done |-> SubSeq(s, 1, from), from |-> from]
  BY <1>6 DEF Unchanged
<1>8. from \in Nat /\ from <= n /\ n <= n
  BY <1>2, <1>7
<1>9. replace_count(x, count, text, text) = SubSeq(s, 1, from) \o SubSeq(data, from + 1, n)
  <2>1. turn[count].done = SubSeq(s, 1, from) /\ turn[count].from = from
    BY <1>7
  <2> QED BY <1>2, <1>3, <2>1 DEF ReplaceEnds
<1>10. SubSeq(data, from + 1, n) = SubSeq(s, from + 1, n)
  <2>1. SamePart(data, s, from, n)
    BY <1>2, <1>8, PartHeld
  <2> QED BY <2>1 DEF SamePart
<1>11. SubSeq(s, 1, from) \o SubSeq(s, from + 1, n) = SubSeq(s, 1, n)
  BY <1>2, <1>8, CutJoins
<1>12. SubSeq(s, 1, n) = s
  BY <1>2
<1> QED BY <1>1, <1>9, <1>10, <1>11, <1>12

-----------------------------------------------------------------------------
(* The parts of a split, and what they are joined to. *)

Strings == [len : Nat, data : Seq(Int)]

Free(x, ch) == \A k \in 1 .. Len(x) : x[k] # ch

(* j[k] is the first k of the m parts, joined with text. *)
Linked(j, parts, m, ch, text) ==
    /\ parts \in Seq(Strings) /\ Len(parts) = m
    /\ j \in [Nat -> Seq(Int)]
    /\ \A k \in 1 .. m : \E x \in Seq(Int) :
         /\ parts[k] = StrOf(x) /\ Free(x, ch)
         /\ j[k] = (IF k = 1 THEN x ELSE (j[k - 1] \o text) \o x)

LinksTo(parts, m, y, ch, text) == \E i : Linked(i, parts, m, ch, text) /\ i[m] = y

LEMMA AppendedPart ==
  ASSUME NEW T, NEW s \in Seq(T), NEW x \in T, NEW m \in Nat, Len(s) = m
  PROVE  /\ Append(s, x) \in Seq(T) /\ Len(Append(s, x)) = m + 1
         /\ Append(s, x)[m + 1] = x
         /\ \A k \in 1 .. m : Append(s, x)[k] = s[k]
OBVIOUS

LEMMA OnePartMore ==
  ASSUME NEW m \in Nat, NEW parts, NEW j, NEW ch, NEW text \in Seq(Int),
         Linked(j, parts, m, ch, text),
         NEW x \in Seq(Int), Free(x, ch),
         NEW y \in Seq(Int), y = (IF m = 0 THEN x ELSE (j[m] \o text) \o x)
  PROVE  LinksTo(Append(parts, StrOf(x)), m + 1, y, ch, text)
<1>1. parts \in Seq(Strings) /\ Len(parts) = m /\ j \in [Nat -> Seq(Int)]
  BY DEF Linked
<1>2. StrOf(x) \in Strings
  <2>1. Append(x, 0) \in Seq(Int) /\ Len(x) \in Nat
    OBVIOUS
  <2> QED BY <2>1 DEF StrOf, Strings
<1>3. PICK p \in Strings : p = StrOf(x)
  BY <1>2
<1>4. PICK q : q = Append(parts, p)
  OBVIOUS
<1>5. q \in Seq(Strings) /\ Len(q) = m + 1 /\ q[m + 1] = p /\ \A k \in 1 .. m : q[k] = parts[k]
  <2>1. /\ Append(parts, p) \in Seq(Strings) /\ Len(Append(parts, p)) = m + 1
        /\ Append(parts, p)[m + 1] = p
        /\ \A k \in 1 .. m : Append(parts, p)[k] = parts[k]
    <3>1. parts \in Seq(Strings) /\ Len(parts) = m
      BY <1>1
    <3>2. PICK T : T = Strings
      OBVIOUS
    <3>3. parts \in Seq(T) /\ p \in T
      BY <3>1, <3>2
    <3>4. /\ Append(parts, p) \in Seq(T) /\ Len(Append(parts, p)) = m + 1
          /\ Append(parts, p)[m + 1] = p
          /\ \A k \in 1 .. m : Append(parts, p)[k] = parts[k]
      BY ONLY <3>1, <3>3, m \in Nat, AppendedPart
    <3> QED BY <3>2, <3>4
  <2> QED BY <1>4, <2>1
<1>6. PICK i : i = [j EXCEPT ![m + 1] = y]
  OBVIOUS
<1>7. /\ i \in [Nat -> Seq(Int)] /\ i[m + 1] = y
      /\ \A k \in 0 .. m : i[k] = j[k]
  BY <1>1, <1>6
<1>8. ASSUME NEW k \in 1 .. m + 1
      PROVE  \E z \in Seq(Int) : /\ q[k] = StrOf(z) /\ Free(z, ch)
                                 /\ i[k] = (IF k = 1 THEN z ELSE (i[k - 1] \o text) \o z)
  <2>1. CASE k = m + 1
    <3>1. k - 1 = m /\ i[m] = j[m] /\ (k = 1 <=> m = 0)
      BY <1>7, <2>1
    <3>2. i[k] = (IF k = 1 THEN x ELSE (i[k - 1] \o text) \o x)
      BY <1>7, <2>1, <3>1
    <3>3. q[k] = StrOf(x)
      BY <1>3, <1>5, <2>1
    <3> QED BY <3>2, <3>3
  <2>2. CASE k \in 1 .. m
    <3>1. PICK z \in Seq(Int) : /\ parts[k] = StrOf(z) /\ Free(z, ch)
                                /\ j[k] = (IF k = 1 THEN z ELSE (j[k - 1] \o text) \o z)
      BY <2>2 DEF Linked
    <3>2. k \in 0 .. m /\ k - 1 \in 0 .. m
      BY <2>2
    <3>3. i[k] = j[k] /\ i[k - 1] = j[k - 1] /\ q[k] = parts[k]
      BY <1>5, <1>7, <2>2, <3>2
    <3> QED BY <3>1, <3>3
  <2> QED BY <2>1, <2>2
<1>9. Linked(i, q, m + 1, ch, text)
  BY <1>5, <1>7, <1>8 DEF Linked
<1> QED BY <1>3, <1>4, <1>7, <1>9 DEF LinksTo

SplitTurn(t, k, data, ch) ==
    IF data[k] # ch THEN t
    ELSE [parts |-> Append(t.parts, StrOf(SubSeq(data, t.last + 1, k - 1))), last |-> k]

SplitTurns(turn, data, n, ch) ==
    /\ turn[0] = [parts |-> <<>>, last |-> 0]
    /\ \A k \in 1 .. n : turn[k] = SplitTurn(turn[k - 1], k, data, ch)

SplitEnds(result, t, data, n) ==
    result = Append(t.parts, StrOf(SubSeq(data, t.last + 1, n)))

LEMMA SplitInTurns ==
  ASSUME NEW n \in Nat, NEW data, NEW ch
  PROVE  \E turn : /\ SplitTurns(turn, data, n, ch)
                   /\ SplitEnds(split([len |-> n, data |-> data], ch), turn[n], data, n)
<1> DEFINE s == [len |-> n, data |-> data]
           T0 == [parts |-> <<>>, last |-> 0]
           part(from, to) == StrOf(SubSeq(s.data, from + 1, to))
           Step(t, k) == IF s.data[k] # ch THEN t
                         ELSE [parts |-> Append(t.parts, part(t.last, k - 1)), last |-> k]
           Is(f, m) == f = [k \in 0 .. m |-> IF k = 0 THEN T0 ELSE Step(f[k - 1], k)]
<1>1. \A m \in Nat : \E f : Is(f, m)
  <2> HIDE DEF Step, T0
  <2> DEFINE S == {m \in Nat : \E f : Is(f, m)}
  <2>1. 0 \in S
    <3>1. Is([k \in 0 .. 0 |-> T0], 0)
      OBVIOUS
    <3> QED BY <3>1
  <2>2. ASSUME NEW m \in Nat, m \in S PROVE m + 1 \in S
    <3>1. PICK f : Is(f, m)
      BY <2>2
    <3> DEFINE g == [k \in 0 .. m + 1 |-> IF k <= m THEN f[k] ELSE Step(f[m], k)]
    <3>2. Is(g, m + 1)
      BY <3>1
    <3> HIDE DEF Is
    <3> QED BY <3>2
  <2> HIDE DEF S
  <2>3. \A m \in Nat : m \in S
    BY <2>1, <2>2, NatInd
  <2> QED BY <2>3 DEF S
<1>2. PICK turn : /\ Is(turn, s.len)
                  /\ split(s, ch) = Append(turn[s.len].parts, part(turn[s.len].last, s.len))
  <2> DEFINE turn == CHOOSE f : Is(f, s.len)
  <2>1. split(s, ch) = Append(turn[s.len].parts, part(turn[s.len].last, s.len))
    BY DEF split
  <2> HIDE DEF Is
  <2>2. Is(turn, s.len)
    BY <1>1
  <2> QED BY <2>1, <2>2
<1>3. s.len = n /\ s.data = data
  OBVIOUS
<1> HIDE DEF s
<1>4. SplitTurns(turn, data, n, ch)
  <2>1. \A k \in 1 .. n : Step(turn[k - 1], k) = SplitTurn(turn[k - 1], k, data, ch)
    BY <1>3 DEF SplitTurn
  <2> HIDE DEF Step
  <2>2. turn[0] = T0 /\ \A k \in 1 .. n : turn[k] = Step(turn[k - 1], k)
    BY <1>2, <1>3
  <2> QED BY <2>1, <2>2 DEF SplitTurns
<1>5. SplitEnds(split(s, ch), turn[n], data, n)
  BY <1>2, <1>3 DEF SplitEnds
<1> QED BY <1>4, <1>5 DEF s

LEMMA PartFree ==
  ASSUME NEW s \in Seq(Int), NEW at \in Nat, NEW to \in Nat, at <= to, to <= Len(s),
         NEW ch, FreeOf(s, at, to, ch)
  PROVE  SubSeq(s, at + 1, to) \in Seq(Int) /\ Free(SubSeq(s, at + 1, to), ch)
<1>1. PICK x : x = SubSeq(s, at + 1, to)
  OBVIOUS
<1>2. PICK m \in Nat : m = to - at
  OBVIOUS
<1>3. x \in Seq(Int) /\ Len(x) = m /\ \A k \in 1 .. m : x[k] = s[at + k]
  BY <1>1, <1>2, PartOf
<1>4. \A k \in 1 .. m : at + k \in at + 1 .. to
  BY <1>2
<1>5. Free(x, ch)
  BY <1>3, <1>4 DEF Free, FreeOf
<1> QED BY <1>1, <1>3, <1>5

(* The first k characters: their parts, joined and followed by text, are   *)
(* what is replaced of them, and there is no ch behind them. *)
Splits(t, k, s, ch, text, r) ==
    \E at \in 0 .. k, m \in Nat : \E parts, j :
      /\ t = [parts |-> parts, last |-> at]
      /\ Linked(j, parts, m, ch, text) /\ FreeOf(s, at, k, ch)
      /\ IF m = 0 THEN at = 0 ELSE j[m] \o text = r[at]

(* The next part is all between at and k. *)
LEMMA LaterPart ==
  ASSUME NEW n, NEW size, NEW data, NEW s, StrCells(n, size, data, s),
         NEW ch, NEW text \in Seq(Int), NEW r, Replaces(r, s, n, ch, text),
         NEW k \in Nat, k <= n, NEW at \in Nat, at <= k, NEW m \in Nat, NEW parts, NEW j,
         Linked(j, parts, m, ch, text), FreeOf(s, at, k, ch),
         IF m = 0 THEN at = 0 ELSE j[m] \o text = r[at]
  PROVE  LinksTo(Append(parts, StrOf(SubSeq(data, at + 1, k))), m + 1, r[k], ch, text)
<1>1. /\ n \in Nat /\ Agrees(n, size, data, s) /\ s \in Seq(Int) /\ Len(s) = n
  BY DEF StrCells, Agrees
<1>2. PICK x : x = SubSeq(s, at + 1, k)
  OBVIOUS
<1>3. x \in Seq(Int) /\ Free(x, ch)
  BY <1>1, <1>2, PartFree
<1>4. x = SubSeq(data, at + 1, k)
  <2>1. SamePart(data, s, at, k)
    BY <1>1, PartHeld
  <2> QED BY <1>2, <2>1 DEF SamePart
<1>5. r[k] = r[at] \o x
  <2>1. RunCopied(r, s, at, k)
    BY <1>1, ReplacedRun
  <2> QED BY <1>2, <2>1 DEF RunCopied
<1>6. PICK y \in Seq(Int) : y = r[k]
  BY DEF Replaces
<1>7. y = (IF m = 0 THEN x ELSE (j[m] \o text) \o x)
  <2>1. CASE m = 0
    <3>1. r[at] = <<>>
      BY <2>1 DEF Replaces
    <3>2. <<>> \o x = x
      BY <1>3
    <3> QED BY <1>5, <1>6, <2>1, <3>1, <3>2
  <2>2. CASE m # 0
    BY <1>5, <1>6, <2>2
  <2> QED BY <2>1, <2>2
<1>8. LinksTo(Append(parts, StrOf(x)), m + 1, y, ch, text)
  BY <1>3, <1>7, OnePartMore
<1>9. StrOf(SubSeq(data, at + 1, k)) = StrOf(x)
  BY <1>4
<1> QED BY <1>6, <1>8, <1>9

LEMMA SplitTurnKeeps ==
  ASSUME NEW n, NEW size, NEW data, NEW s, StrCells(n, size, data, s),
         NEW ch, NEW text \in Seq(Int), NEW r, Replaces(r, s, n, ch, text),
         NEW k \in Nat, k + 1 <= n, NEW t, Splits(t, k, s, ch, text, r)
  PROVE  Splits(SplitTurn(t, k + 1, data, ch), k + 1, s, ch, text, r)
<1>1. n \in Nat /\ data[k + 1] = s[k + 1] /\ k <= n
  <2>1. n \in Nat /\ \A i \in 1 .. n : data[i] = s[i]
    BY DEF StrCells, Agrees
  <2>2. k + 1 \in 1 .. n
    BY <2>1
  <2> QED BY <2>1, <2>2
<1>2. PICK at \in 0 .. k, m \in Nat : \E parts, j :
        /\ t = [parts |-> parts, last |-> at]
        /\ Linked(j, parts, m, ch, text) /\ FreeOf(s, at, k, ch)
        /\ IF m = 0 THEN at = 0 ELSE j[m] \o text = r[at]
  BY DEF Splits
<1>3. PICK parts, j :
        /\ t = [parts |-> parts, last |-> at]
        /\ Linked(j, parts, m, ch, text) /\ FreeOf(s, at, k, ch)
        /\ IF m = 0 THEN at = 0 ELSE j[m] \o text = r[at]
  BY <1>2
<1>4. at \in Nat /\ at <= k /\ t.parts = parts /\ t.last = at
  BY <1>3
<1>5. CASE s[k + 1] # ch
  <2>1. SplitTurn(t, k + 1, data, ch) = t
    BY <1>1, <1>5 DEF SplitTurn
  <2>2. FreeOf(s, at, k + 1, ch)
    <3>1. \A i \in at + 1 .. k + 1 : i = k + 1 \/ i \in at + 1 .. k
      OBVIOUS
    <3> QED BY <1>3, <1>5, <3>1 DEF FreeOf
  <2>3. at \in 0 .. k + 1
    BY <1>4
  <2> QED BY <1>3, <2>1, <2>2, <2>3 DEF Splits
<1>6. CASE s[k + 1] = ch
  <2>1. PICK p : p = Append(parts, StrOf(SubSeq(data, at + 1, k)))
    OBVIOUS
  <2>2. PICK i : Linked(i, p, m + 1, ch, text) /\ i[m + 1] = r[k]
    <3>1. LinksTo(Append(parts, StrOf(SubSeq(data, at + 1, k))), m + 1, r[k], ch, text)
      BY <1>1, <1>3, <1>4, LaterPart
    <3> QED BY <2>1, <3>1 DEF LinksTo
  <2>3. SplitTurn(t, k + 1, data, ch) = [parts |-> p, last |-> k + 1]
    <3>1. (k + 1) - 1 = k
      OBVIOUS
    <3> QED BY <1>1, <1>4, <1>6, <2>1, <3>1 DEF SplitTurn
  <2>4. r[k] \o text = r[k + 1]
    <3>1. k + 1 \in 1 .. n /\ (k + 1) - 1 = k
      BY <1>1
    <3> QED BY <1>6, <3>1 DEF Replaces, Piece
  <2>5. PICK o \in Nat : o = m + 1 /\ o # 0
    OBVIOUS
  <2>6. FreeOf(s, k + 1, k + 1, ch) /\ k + 1 \in 0 .. k + 1
    BY DEF FreeOf
  <2>7. IF o = 0 THEN k + 1 = 0 ELSE i[o] \o text = r[k + 1]
    BY <2>2, <2>4, <2>5
  <2>8. Linked(i, p, o, ch, text)
    BY <2>2, <2>5
  <2> QED BY <2>3, <2>5, <2>6, <2>7, <2>8 DEF Splits
<1> QED BY <1>5, <1>6

LEMMA SplitLinked ==
  ASSUME NEW n, NEW size, NEW data, NEW s, StrCells(n, size, data, s),
         NEW ch, NEW text \in Seq(Int), NEW r, Replaces(r, s, n, ch, text)
  PROVE  \E i : \E m \in Nat \ {0} :
           Linked(i, split([len |-> n, data |-> data], ch), m, ch, text) /\ i[m] = r[n]
<1>1. PICK parts0 : parts0 = split([len |-> n, data |-> data], ch)
  OBVIOUS
<1>2. n \in Nat
  BY DEF StrCells, Agrees
<1>3. PICK turn : SplitTurns(turn, data, n, ch) /\ SplitEnds(parts0, turn[n], data, n)
  BY <1>1, <1>2, SplitInTurns
<1> DEFINE S == {k \in Nat : k <= n => Splits(turn[k], k, s, ch, text, r)}
<1>4. 0 \in S
  <2>1. turn[0] = [parts |-> <<>>, last |-> 0]
    BY <1>3 DEF SplitTurns
  <2>2. PICK j : j = [k \in Nat |-> <<>>]
    OBVIOUS
  <2>3. Linked(j, <<>>, 0, ch, text)
    BY <2>2 DEF Linked
  <2>4. FreeOf(s, 0, 0, ch) /\ 0 \in 0 .. 0
    BY DEF FreeOf
  <2>5. Splits(turn[0], 0, s, ch, text, r)
    BY <2>1, <2>3, <2>4 DEF Splits
  <2> QED BY <2>5
<1>5. ASSUME NEW k \in Nat, k \in S PROVE k + 1 \in S
  <2>1. CASE k + 1 <= n
    <3>1. k + 1 \in 1 .. n /\ (k + 1) - 1 = k
      BY <1>2, <2>1
    <3>2. turn[k + 1] = SplitTurn(turn[k], k + 1, data, ch)
      BY <1>3, <3>1 DEF SplitTurns
    <3>3. Splits(turn[k], k, s, ch, text, r)
      BY <1>2, <1>5, <2>1
    <3>4. Splits(turn[k + 1], k + 1, s, ch, text, r)
      BY <2>1, <3>2, <3>3, SplitTurnKeeps
    <3> QED BY <3>4
  <2> QED BY <2>1
<1>6. Splits(turn[n], n, s, ch, text, r)
  <2>1. \A k \in Nat : k \in S
    <3> HIDE DEF S
    <3> QED BY <1>4, <1>5, NatInd
  <2> QED BY <1>2, <2>1
<1>7. PICK at \in 0 .. n, m \in Nat : \E parts, j :
        /\ turn[n] = [parts |-> parts, last |-> at]
        /\ Linked(j, parts, m, ch, text) /\ FreeOf(s, at, n, ch)
        /\ IF m = 0 THEN at = 0 ELSE j[m] \o text = r[at]
  BY <1>6 DEF Splits
<1>8. PICK parts, j :
        /\ turn[n] = [parts |-> parts, last |-> at]
        /\ Linked(j, parts, m, ch, text) /\ FreeOf(s, at, n, ch)
        /\ IF m = 0 THEN at = 0 ELSE j[m] \o text = r[at]
  BY <1>7
<1>9. at \in Nat /\ at <= n /\ n <= n /\ turn[n].parts = parts /\ turn[n].last = at
  BY <1>2, <1>8
<1>10. parts0 = Append(parts, StrOf(SubSeq(data, at + 1, n)))
  BY <1>3, <1>9 DEF SplitEnds
<1>11. PICK i : Linked(i, parts0, m + 1, ch, text) /\ i[m + 1] = r[n]
  <2>1. LinksTo(Append(parts, StrOf(SubSeq(data, at + 1, n))), m + 1, r[n], ch, text)
    BY <1>2, <1>8, <1>9, LaterPart
  <2> QED BY <1>10, <2>1 DEF LinksTo
<1>12. m + 1 \in Nat \ {0}
  OBVIOUS
<1> QED BY <1>1, <1>11, <1>12

JoinStep(v, k, parts, text) ==
    StrAdd(IF k = 1 THEN v ELSE StrAdd(v, text), SubSeq(parts[k].data, 1, parts[k].len))

JoinTurns(joined, m, parts, text) ==
    /\ \E size \in Nat : joined[0] = NewStr(size)
    /\ \A k \in 1 .. m : joined[k] = JoinStep(joined[k - 1], k, parts, text)

LEMMA JoinInTurns ==
  ASSUME NEW m \in Nat \ {0}, NEW parts \in Seq(Strings), Len(parts) = m,
         NEW text \in Seq(Int)
  PROVE  \E joined : JoinTurns(joined, m, parts, text) /\ StrJoin(parts, text) = joined[m]
<1> DEFINE N0 == (Len(parts) - 1) * Len(text)
           Grown(x, k) == x + parts[k].len
           IsSize(f, o) == f = [k \in 0 .. o |-> IF k = 0 THEN N0 ELSE Grown(f[k - 1], k)]
           size == CHOOSE f : IsSize(f, Len(parts))
           J0 == NewStr(size[Len(parts)])
           Step(t, k) == StrAdd(IF k = 1 THEN t ELSE StrAdd(t, text),
                                SubSeq(parts[k].data, 1, parts[k].len))
           Is(f, o) == f = [k \in 0 .. o |-> IF k = 0 THEN J0 ELSE Step(f[k - 1], k)]
           joined == CHOOSE f : Is(f, Len(parts))
<1>1. StrJoin(parts, text) = joined[m]
  <2>1. parts # <<>>
    OBVIOUS
  <2>2. StrJoin(parts, text) = joined[Len(parts)]
    BY <2>1 DEF StrJoin
  <2> HIDE DEF joined
  <2> QED BY <2>2
<1>2. \A o \in Nat : \E f : IsSize(f, o)
  <2> HIDE DEF N0, Grown
  <2> DEFINE S == {o \in Nat : \E f : IsSize(f, o)}
  <2>1. 0 \in S
    <3>1. IsSize([k \in 0 .. 0 |-> N0], 0)
      OBVIOUS
    <3> QED BY <3>1
  <2>2. ASSUME NEW o \in Nat, o \in S PROVE o + 1 \in S
    <3>1. PICK f : IsSize(f, o)
      BY <2>2
    <3> DEFINE g == [k \in 0 .. o + 1 |-> IF k <= o THEN f[k] ELSE Grown(f[o], k)]
    <3>2. IsSize(g, o + 1)
      BY <3>1
    <3> HIDE DEF IsSize
    <3> QED BY <3>2
  <2> HIDE DEF S
  <2>3. \A o \in Nat : o \in S
    BY <2>1, <2>2, NatInd
  <2> QED BY <2>3 DEF S
<1>3. \A o \in Nat : \E f : Is(f, o)
  <2> HIDE DEF Step, J0
  <2> DEFINE S == {o \in Nat : \E f : Is(f, o)}
  <2>1. 0 \in S
    <3>1. Is([k \in 0 .. 0 |-> J0], 0)
      OBVIOUS
    <3> QED BY <3>1
  <2>2. ASSUME NEW o \in Nat, o \in S PROVE o + 1 \in S
    <3>1. PICK f : Is(f, o)
      BY <2>2
    <3> DEFINE g == [k \in 0 .. o + 1 |-> IF k <= o THEN f[k] ELSE Step(f[o], k)]
    <3>2. Is(g, o + 1)
      BY <3>1
    <3> HIDE DEF Is
    <3> QED BY <3>2
  <2> HIDE DEF S
  <2>3. \A o \in Nat : o \in S
    BY <2>1, <2>2, NatInd
  <2> QED BY <2>3 DEF S
<1>4. IsSize(size, m)
  <2>1. IsSize(size, Len(parts))
    <3> HIDE DEF IsSize
    <3> QED BY <1>2
  <2> HIDE DEF IsSize, size
  <2> QED BY <2>1
<1>5. Is(joined, m)
  <2>1. Is(joined, Len(parts))
    <3> HIDE DEF Is
    <3> QED BY <1>3
  <2> HIDE DEF Is, joined
  <2> QED BY <2>1
<1> HIDE DEF size, joined
<1>6. size[m] \in Nat
  <2>1. N0 \in Nat
    <3>1. PICK a \in Nat, b \in Nat : a = Len(parts) - 1 /\ b = Len(text)
      OBVIOUS
    <3>2. a * b \in Nat
      OBVIOUS
    <3> QED BY <3>1, <3>2
  <2> HIDE DEF N0
  <2>2. size[0] = N0 /\ \A k \in 1 .. m : size[k] = size[k - 1] + parts[k].len
    BY <1>4
  <2> DEFINE S == {k \in Nat : k <= m => size[k] \in Nat}
  <2>3. 0 \in S
    BY <2>1, <2>2
  <2>4. ASSUME NEW k \in Nat, k \in S PROVE k + 1 \in S
    <3>1. CASE k + 1 <= m
      <4>1. k + 1 \in 1 .. m /\ (k + 1) - 1 = k
        BY <3>1
      <4>2. size[k] \in Nat
        BY <2>4, <3>1
      <4>3. parts[k + 1] \in Strings
        BY <4>1
      <4>4. parts[k + 1].len \in Nat
        BY <4>3 DEF Strings
      <4>5. size[k + 1] = size[k] + parts[k + 1].len
        BY <2>2, <4>1
      <4> QED BY <4>2, <4>4, <4>5
    <3> QED BY <3>1
  <2>5. \A k \in Nat : k \in S
    <3> HIDE DEF S
    <3> QED BY <2>3, <2>4, NatInd
  <2> QED BY <2>5
<1>7. JoinTurns(joined, m, parts, text)
  <2>1. \A k \in 1 .. m : Step(joined[k - 1], k) = JoinStep(joined[k - 1], k, parts, text)
    BY DEF JoinStep
  <2>2. Len(parts) = m
    OBVIOUS
  <2>3. \E n \in Nat : J0 = NewStr(n)
    BY <1>6
  <2> HIDE DEF Step, J0
  <2>4. joined[0] = J0 /\ \A k \in 1 .. m : joined[k] = Step(joined[k - 1], k)
    BY <1>5
  <2> QED BY <2>1, <2>3, <2>4 DEF JoinTurns
<1> QED BY <1>1, <1>7

LEMMA TextAdded ==
  ASSUME NEW t, NEW s, StrHolds(t, s), NEW text \in Seq(Int)
  PROVE  StrHolds(StrAdd(t, text), s \o text)
<1>1. PICK n, size, data : t = [len |-> n, data |-> data] /\ StrCells(n, size, data, s)
  BY DEF StrHolds
<1>2. StrHolds(StrAdd([len |-> n, data |-> data], text), s \o text)
  BY <1>1, StrAdds
<1> QED BY <1>1, <1>2

LEMMA PartText ==
  ASSUME NEW x \in Seq(Int)
  PROVE  SubSeq(StrOf(x).data, 1, StrOf(x).len) = x
<1>1. PICK n, size, data : StrOf(x) = [len |-> n, data |-> data] /\ StrCells(n, size, data, x)
  BY StrIsOf DEF StrHolds
<1>2. SubSeq(data, 1, n) = x
  BY <1>1, PrefixHeld DEF StrCells
<1>3. StrOf(x).data = data /\ StrOf(x).len = n
  BY <1>1
<1> QED BY <1>2, <1>3

LEMMA JoinHolds ==
  ASSUME NEW m \in Nat \ {0}, NEW parts, NEW j, NEW ch, NEW text \in Seq(Int),
         Linked(j, parts, m, ch, text)
  PROVE  StrHolds(StrJoin(parts, text), j[m])
<1>1. parts \in Seq(Strings) /\ Len(parts) = m /\ j \in [Nat -> Seq(Int)]
  BY DEF Linked
<1>2. PICK joined : JoinTurns(joined, m, parts, text) /\ StrJoin(parts, text) = joined[m]
  BY <1>1, JoinInTurns
<1> DEFINE S == {k \in Nat : k + 1 <= m => StrHolds(joined[k + 1], j[k + 1])}
<1>3. StrHolds(joined[0], <<>>)
  <2>1. PICK size \in Nat : joined[0] = NewStr(size)
    BY <1>2 DEF JoinTurns
  <2> QED BY <2>1, StrIsNew
<1>4. ASSUME NEW k \in 1 .. m, NEW v, StrHolds(joined[k - 1], v), v \in Seq(Int),
             IF k = 1 THEN v = <<>> ELSE v = j[k - 1]
      PROVE  StrHolds(joined[k], j[k])
  <2>1. PICK x \in Seq(Int) : /\ parts[k] = StrOf(x) /\ Free(x, ch)
                              /\ j[k] = (IF k = 1 THEN x ELSE (j[k - 1] \o text) \o x)
    BY DEF Linked
  <2>2. SubSeq(parts[k].data, 1, parts[k].len) = x
    BY <2>1, PartText
  <2>3. joined[k] = StrAdd(IF k = 1 THEN joined[k - 1] ELSE StrAdd(joined[k - 1], text), x)
    BY <1>2, <2>2 DEF JoinTurns, JoinStep
  <2>4. CASE k = 1
    <3>1. StrHolds(StrAdd(joined[k - 1], x), v \o x)
      BY <1>4, <2>1, TextAdded
    <3>2. v \o x = x
      BY <1>4, <2>1, <2>4
    <3> QED BY <2>1, <2>3, <2>4, <3>1, <3>2
  <2>5. CASE k # 1
    <3>1. StrHolds(StrAdd(joined[k - 1], text), v \o text)
      BY <1>4, TextAdded
    <3>2. StrHolds(StrAdd(StrAdd(joined[k - 1], text), x), (v \o text) \o x)
      BY <2>1, <3>1, TextAdded
    <3> QED BY <1>4, <2>1, <2>3, <2>5, <3>2
  <2> QED BY <2>4, <2>5
<1>5. 0 \in S
  <2>1. 1 \in 1 .. m /\ 1 - 1 = 0 /\ 0 + 1 = 1 /\ <<>> \in Seq(Int)
    OBVIOUS
  <2>2. PICK v \in Seq(Int) : v = <<>>
    BY <2>1
  <2>3. PICK k \in 1 .. m : k = 1
    BY <2>1
  <2>4. StrHolds(joined[k], j[k])
    <3>1. StrHolds(joined[k - 1], v) /\ IF k = 1 THEN v = <<>> ELSE v = j[k - 1]
      BY <1>3, <2>1, <2>2, <2>3
    <3> QED BY <1>4, <3>1
  <2> QED BY <2>1, <2>3, <2>4
<1>6. ASSUME NEW k \in Nat, k \in S PROVE k + 1 \in S
  <2>1. CASE (k + 1) + 1 <= m
    <3>1. PICK o \in 1 .. m : o = (k + 1) + 1 /\ o - 1 = k + 1 /\ o # 1
      BY <2>1
    <3>2. StrHolds(joined[o - 1], j[o - 1])
      BY <1>6, <3>1
    <3>3. j[o - 1] \in Seq(Int)
      BY <1>1, <3>1
    <3>4. StrHolds(joined[o], j[o])
      BY <1>4, <3>1, <3>2, <3>3
    <3> QED BY <3>1, <3>4
  <2> QED BY <2>1
<1>7. StrHolds(joined[m], j[m])
  <2>1. \A k \in Nat : k \in S
    <3> HIDE DEF S
    <3> QED BY <1>5, <1>6, NatInd
  <2>2. m - 1 \in Nat /\ (m - 1) + 1 = m
    OBVIOUS
  <2>3. m - 1 \in S
    BY <2>1, <2>2
  <2> QED BY <2>2, <2>3
<1> QED BY <1>2, <1>7

LEMMA ReplacedItself ==
  ASSUME NEW n \in Nat, NEW s \in Seq(Int), Len(s) = n, NEW ch \in Int,
         NEW r, Replaces(r, s, n, ch, <<ch>>)
  PROVE  r[n] = s
<1> DEFINE S == {k \in Nat : k <= n => r[k] = SubSeq(s, 1, k)}
<1>1. 0 \in S
  BY DEF Replaces
<1>2. ASSUME NEW k \in Nat, k \in S PROVE k + 1 \in S
  <2>1. CASE k + 1 <= n
    <3>1. k + 1 \in 1 .. n /\ (k + 1) - 1 = k
      BY <2>1
    <3>2. r[k + 1] = r[k] \o <<s[k + 1]>>
      BY <3>1 DEF Replaces, Piece
    <3>3. r[k] = SubSeq(s, 1, k)
      BY <1>2, <2>1
    <3>4. PICK at \in Nat : at = 0 /\ at <= k /\ at + 1 = 1
      OBVIOUS
    <3>5. /\ SubSeq(s, at + 1, k + 1) = SubSeq(s, at + 1, k) \o <<s[k + 1]>>
          /\ SubSeq(s, at + 1, k) \in Seq(Int) /\ s[k + 1] \in Int
      BY <2>1, <3>4, OneMore
    <3>6. r[k + 1] = SubSeq(s, 1, k + 1)
      BY <3>2, <3>3, <3>4, <3>5
    <3> QED BY <3>6
  <2> QED BY <2>1
<1>3. \A k \in Nat : k \in S
  <2> HIDE DEF S
  <2> QED BY <1>1, <1>2, NatInd
<1>4. r[n] = SubSeq(s, 1, n)
  BY <1>3
<1> QED BY <1>4

LEMMA JoinsRight ==
  ASSUME StrHolds(str, strText), NEW ch \in Chars, NEW text \in Seq(Int)
  PROVE  JoinsAgain(ch, text)
<1>1. PICK n, size, data : str = [len |-> n, data |-> data] /\ StrCells(n, size, data, strText)
  BY DEF StrHolds
<1>2. n \in Nat /\ strText \in Seq(Int) /\ Len(strText) = n /\ str.len = n
  BY <1>1 DEF StrCells, Agrees
<1>3. ch \in Int /\ ch # 0
  BY CharsAssumption
<1>4. PICK r : Replaces(r, strText, n, ch, text)
  BY <1>2, ReplacedText
<1>5. PICK parts : parts = split(str, ch)
  OBVIOUS
<1>6. PICK j : \E m \in Nat \ {0} : Linked(j, parts, m, ch, text) /\ j[m] = r[n]
  <2>1. \E j : \E m \in Nat \ {0} :
          Linked(j, split([len |-> n, data |-> data], ch), m, ch, text) /\ j[m] = r[n]
    BY <1>1, <1>4, SplitLinked
  <2> QED BY <1>1, <1>5, <2>1
<1>m. PICK m \in Nat \ {0} : Linked(j, parts, m, ch, text) /\ j[m] = r[n]
  BY <1>6
<1>7. PICK joined : joined = StrJoin(parts, text)
  OBVIOUS
<1>8. SubSeq(joined.data, 1, joined.len) = r[n]
  <2>1. StrHolds(joined, r[n])
    BY <1>m, <1>7, JoinHolds
  <2>2. PICK o, c, d : joined = [len |-> o, data |-> d] /\ StrCells(o, c, d, r[n])
    BY <2>1 DEF StrHolds
  <2>3. SubSeq(d, 1, o) = r[n]
    BY <2>2, PrefixHeld DEF StrCells
  <2> QED BY <2>2, <2>3
<1>9. replace_count(str, str.len, <<ch>>, text) = r[n]
  BY <1>1, <1>2, <1>3, <1>4, ReplacesAll
<1>10. text = <<ch>> => r[n] = strText
  BY <1>2, <1>3, <1>4, ReplacedItself
<1>11. \A k \in DOMAIN parts : ch \notin SeqOps!ToSet(parts[k].data)
  <2>1. ASSUME NEW k \in DOMAIN parts PROVE ch \notin SeqOps!ToSet(parts[k].data)
    <3>1. k \in 1 .. m
      BY <1>m DEF Linked
    <3>2. PICK x \in Seq(Int) : parts[k] = StrOf(x) /\ Free(x, ch)
      BY <1>m, <3>1 DEF Linked
    <3>3. PICK d : d = Append(x, 0)
      OBVIOUS
    <3>4. /\ DOMAIN d = 1 .. Len(x) + 1 /\ d[Len(x) + 1] = 0
          /\ \A i \in 1 .. Len(x) : d[i] = x[i]
      BY <3>3
    <3>5. \A i \in DOMAIN d : d[i] # ch
      <4>1. \A i \in DOMAIN d : i = Len(x) + 1 \/ i \in 1 .. Len(x)
        BY <3>4
      <4> QED BY <1>3, <3>2, <3>4, <4>1 DEF Free
    <3>6. parts[k].data = d
      BY <3>2, <3>3 DEF StrOf
    <3> QED BY <3>5, <3>6 DEF SeqOps!ToSet
  <2> QED BY <2>1
<1> QED BY <1>5, <1>7, <1>8, <1>9, <1>10, <1>11 DEF JoinsAgain

-----------------------------------------------------------------------------
(* Every text is found, split, joined and replaced as it should be. *)
SearchesRight ==
    \A text \in Seq(Chars) :
      /\ Finds(text) /\ FindsBack(text)
      /\ \A ch \in Chars : JoinsAgain(ch, text)
      /\ text # <<>> => replace_count(str, str.len, text, text) = strText

LEMMA TextOfNumbers ==
  ASSUME NEW S \in SUBSET Int, NEW text \in Seq(S)
  PROVE  text \in Seq(Int)
<1>1. PICK n \in Nat : n = Len(text)
  OBVIOUS
<1>2. text \in [1 .. n -> S]
  BY <1>1
<1> QED BY <1>2, Known

LEMMA SearchesHeld == BufIInv => SearchesRight
<1> SUFFICES ASSUME BufIInv, NEW text \in Seq(Chars)
             PROVE  /\ Finds(text) /\ FindsBack(text)
                    /\ \A ch \in Chars : JoinsAgain(ch, text)
                    /\ text # <<>> => replace_count(str, str.len, text, text) = strText
  BY DEF SearchesRight
<1>1. StrHolds(str, strText) /\ text \in Seq(Int)
  <2>1. text \in Seq(Int)
    BY CharsAreNumbers, TextOfNumbers
  <2> QED BY <2>1 DEF BufIInv
<1>2. PICK n, size, data : str = [len |-> n, data |-> data] /\ StrCells(n, size, data, strText)
  BY <1>1 DEF StrHolds
<1>3. str.len = n /\ n \in Nat
  BY <1>2 DEF StrCells, Agrees
<1>4. replace_count(str, str.len, text, text) = strText
  BY <1>1, <1>2, <1>3, ReplacesSame
<1> QED BY <1>1, <1>4, FindsRight, JoinsRight

LEMMA TextsAreSequences ==
  ASSUME NEW S, NEW text \in Texts(S), S \in SUBSET Nat
  PROVE  text \in Seq(Chars)
<1>1. PICK n \in S : text \in [1 .. n -> Chars]
  BY DEF Texts
<1> QED BY <1>1

LEMMA SearchesCovered == SearchesRight => SearchRight
<1> SUFFICES ASSUME SearchesRight PROVE SearchRight
  OBVIOUS
<1>1. \A text \in Patterns : text \in Seq(Chars)
  <2>1. {0, 1, 2, 5, 6} \in SUBSET Nat
    OBVIOUS
  <2> QED BY <2>1, TextsAreSequences DEF Patterns
<1>2. \A text \in Texts({0, 1, 2}) : text \in Seq(Chars)
  <2>1. {0, 1, 2} \in SUBSET Nat
    OBVIOUS
  <2> QED BY <2>1, TextsAreSequences
<1> QED BY <1>1, <1>2 DEF SearchesRight, SearchRight

(* Whatever a string has been through (arr.h, str.cc) and whatever is      *)
(* looked for in it: find returns the first place at or behind from, for   *)
(* every modulus of its rolling hash, rfind the last one before the end;   *)
(* split and StrJoin are inverse, and together do what replace_count does. *)
THEOREM SearchesAreRight == BufferSpec => []SearchesRight
<1>1. ArrInit /\ StrInit => BufIInv
  BY BuffersInitial
<1>2. BufIInv /\ [\/ ArrNext /\ UNCHANGED stringVars
                  \/ StrNext /\ UNCHANGED arrayVars]_<<arrayVars, stringVars>>
        => BufIInv'
  BY BufferStep
<1> QED BY <1>1, <1>2, SearchesHeld, PTL DEF BufferSpec

(* The same for the texts that the run tries (str.cc). *)
THEOREM SearchRightCorrect == BufferSpec => []SearchRight
BY SearchesAreRight, SearchesCovered, PTL
=============================================================================
