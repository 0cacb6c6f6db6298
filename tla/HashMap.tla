------------------------------ MODULE HashMap ------------------------------
(***************************************************************************)
(* Map<K, V> of src/adlib/map.h, which holds the functions by name, the    *)
(* interned strings and the input files by path.  Its keys are a table     *)
(* like that of Set<T>, written out a second time; beside each key is a    *)
(* value.  A value must follow its key through every rebuild and must not  *)
(* outlive it, and an addition keeps the old value of a key that is there  *)
(* (BuildFuncMap relies on it) unless replace is set.                      *)
(***************************************************************************)
EXTENDS HashSet, Sequences

CONSTANTS Value,
          MaxList   \* the longest list of keys or entries that is tried

ASSUME ValueAssumption == None \notin Value
ASSUME MaxListAssumption == MaxList \in Nat

VARIABLE map   \* _keys, _state and the counts as map.keys, and _values

resize(size) == [keys |-> Empty(size),
                 values |-> [i \in 0 .. size - 1 |-> None]]

Keys(m) == Members(m.keys)

EntryAt(m, i) == [key |-> m.keys.data[i], value |-> m.values[i]]

Holds(m, k) == Found(m.keys, k)

find(m, k) == IF Holds(m, k) THEN m.values[StopSlot(m.keys, k)] ELSE None

PutEntry(m, e, replace) ==
    IF Holds(m, e.key) /\ ~replace THEN m
    ELSE [keys |-> uncheckedAdd(m.keys, e.key),
          values |-> [m.values EXCEPT ![Place(m.keys, e.key)] = e.value]]

Rebuild(m) ==
    LET new[i \in 0 .. m.keys.size] ==
          IF i = 0 THEN resize(newsize(m.keys))
          ELSE IF i - 1 \in Occupied(m.keys)
               THEN PutEntry(new[i - 1], EntryAt(m, i - 1), FALSE)
               ELSE new[i - 1]
    IN  new[m.keys.size]

(* Mutant: an old value stays although replace is set. *)
AddKeeping(m, e, replace) ==
    PutEntry(IF Full(m.keys) THEN Rebuild(m) ELSE m, e, FALSE)

add(m, e, replace) ==
    PutEntry(IF Full(m.keys) THEN Rebuild(m) ELSE m, e, replace)

(* Mutant: the value stays behind. *)
ClearedKey(m, i) == [m EXCEPT !.keys = Cleared(m.keys, i)]

ClearedEntry(m, i) == [keys |-> Cleared(m.keys, i),
                       values |-> [m.values EXCEPT ![i] = None]]

remove(m, k) ==
    LET left == ClearedEntry(m, StopSlot(m.keys, k))
    IN  IF ~Holds(m, k) THEN m
        ELSE IF Crowded(left.keys) THEN Rebuild(left) ELSE left

-----------------------------------------------------------------------------
(* The operations with a second map see only that map's entries, in the    *)
(* order of its slots, which may be any: they take a list of its entries,  *)
(* or of its keys.                                                         *)

union_in_place(m, es, replace) ==
    LET new[n \in 0 .. Len(es)] ==
          IF n = 0 THEN m ELSE add(new[n - 1], es[n], replace)
    IN  new[Len(es)]

(* add(arr, replace) and add(keys, values, replace) drop their replace.    *)
addAll(m, es) == union_in_place(m, es, FALSE)

diff_in_place(m, ks) ==
    LET new[n \in 0 .. Len(ks)] ==
          IF n = 0 THEN m ELSE remove(new[n - 1], ks[n])
    IN  new[Len(ks)]

(* A new map takes the entries that pass, and is copied over this one;     *)
(* filter does the same with a test in place of that->contains.            *)
Kept(m, keys) ==
    LET new[i \in 0 .. m.keys.size] ==
          IF i = 0 THEN resize(MinSize)
          ELSE IF i - 1 \in Occupied(m.keys) /\ m.keys.data[i - 1] \in keys
               THEN add(new[i - 1], EntryAt(m, i - 1), FALSE)
               ELSE new[i - 1]
    IN  new[m.keys.size]

(* union_in_place of a map with itself: the iterator is an index, and      *)
(* add may rebuild the table under it.                                     *)
Turn(m, i, replace) ==
    IF i \in Occupied(m.keys) THEN add(m, EntryAt(m, i), replace) ELSE m

(* The table doubles at most, so the index is past its end by then. *)
union_with_self(m, replace) ==
    LET new[i \in 0 .. 2 * m.keys.size] ==
          IF i = 0 THEN m ELSE Turn(new[i - 1], i - 1, replace)
    IN  new[2 * m.keys.size]

-----------------------------------------------------------------------------
Entry == [key : Item, value : Value]

(* The arguments that are enumerated: lists of entries, in which AddAll    *)
(* may meet a key twice, and the keys or entries of another map, in which  *)
(* each key is there once.                                                 *)
Injective(f) == \A m, n \in DOMAIN f : f[m] = f[n] => m = n

ListsOf(S) == UNION {[1 .. n -> S] : n \in 1 .. MaxList}

KeyLists == {ks \in ListsOf(Item) : Injective(ks)}
MapLists == {es \in ListsOf(Entry) : Injective([n \in DOMAIN es |-> es[n].key])}

MapInit == map = resize(MinSize)

MapAdd(e, replace) == map' = add(map, e, replace)

MapRemove(k) == map' = remove(map, k)

AddAll(es) == map' = addAll(map, es)

Union(es, replace) == map' = union_in_place(map, es, replace)

UnionSelf(replace) == map' = union_with_self(map, replace)

Diff(ks) == map' = diff_in_place(map, ks)

IntersectKeys(keys) == map' = Kept(map, keys)

mapVars == <<hash, occ, map>>

MapNext == /\ \/ \E e \in Entry, replace \in BOOLEAN : MapAdd(e, replace)
              \/ \E k \in Item : MapRemove(k)
              \/ \E es \in ListsOf(Entry) : AddAll(es)
              \/ \E es \in MapLists, replace \in BOOLEAN : Union(es, replace)
              \/ \E replace \in BOOLEAN : UnionSelf(replace)
              \/ \E ks \in KeyLists : Diff(ks)
              \/ \E keys \in SUBSET Item : IntersectKeys(keys)
           /\ UNCHANGED <<hash, occ>>

MapSpec == HashesOK /\ MapInit /\ [][MapNext]_mapVars

-----------------------------------------------------------------------------
(* The keys are a sound table that stays proportional to its contents; a   *)
(* slot has a value exactly if it has a key, so a removed entry keeps      *)
(* nothing alive for the garbage collector.                                *)
MapInv == /\ Sound(map.keys)
          /\ Bounded(map.keys)
          /\ DOMAIN map.values = Slots(map.keys)
          /\ \A i \in Slots(map.keys) :
                map.values[i] \in IF i \in Occupied(map.keys) THEN Value
                                                              ELSE {None}

(* The entries as they lie in the slots, found by no search. *)
Contents(m) ==
    [k \in Keys(m) |->
       m.values[CHOOSE i \in Occupied(m.keys) : m.keys.data[i] = k]]

(* What the callers rely on is a function from some of the keys to values. *)
(* The entries of f, and those of g for the other keys: *)
Over(f, g) == [k \in DOMAIN f \cup DOMAIN g |->
                 IF k \in DOMAIN f THEN f[k] ELSE g[k]]

Dropped(f, keys) == [k \in DOMAIN f \ keys |-> f[k]]

(* With replace the new values win, without it the old ones. *)
Merged(f, new, replace) == IF replace THEN Over(new, f) ELSE Over(f, new)

(* The entries of a list as a function: the first of each key counts. *)
FirstEntry(es, k) == CHOOSE n \in DOMAIN es :
                     /\ es[n].key = k
                     /\ \A j \in 1 .. n - 1 : es[j].key # k

Entries(es) == [k \in {es[n].key : n \in DOMAIN es} |-> es[FirstEntry(es, k)].value]

(* In every state each operation does to the entries what its name says,   *)
(* for its very argument, and leaves all other entries alone: find answers *)
(* with the value last accepted for the key; an addition keeps the value   *)
(* of a key that is there and, of several entries for a new key, takes the *)
(* first; a union takes all new entries and with replace lets the right    *)
(* side win (without, it does what addAll does, and an addition is that of *)
(* a list of one); a difference leaves none of the keys; a union with      *)
(* itself changes nothing although the table may move under the iterator.  *)
AnswersRight ==
    LET old == Contents(map)
    IN  /\ \A k \in Item :
              /\ find(map, k) = IF k \in Keys(map) THEN old[k] ELSE None
              /\ Contents(remove(map, k)) = Dropped(old, {k})
        /\ \A es \in ListsOf(Entry) :
              Contents(addAll(map, es)) = Merged(old, Entries(es), FALSE)
        /\ \A es \in MapLists :
              Contents(union_in_place(map, es, TRUE))
                = Merged(old, Entries(es), TRUE)
        /\ \A ks \in KeyLists : Contents(diff_in_place(map, ks))
                                 = Dropped(old, {ks[n] : n \in DOMAIN ks})
        /\ \A replace \in BOOLEAN :
              Contents(union_with_self(map, replace)) = old
        /\ \A keys \in SUBSET Item :
              Contents(Kept(map, keys)) = Dropped(old, Item \ keys)
=============================================================================
