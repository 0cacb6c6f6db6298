------------------------------ MODULE HashSet ------------------------------
(***************************************************************************)
(* Set<T> of src/adlib/set.h, the open-addressing hash set that holds the  *)
(* names of the analysis.  A slot is empty, deleted (a tombstone) or holds *)
(* an item and seven bits of its hash.  A search follows a probe sequence  *)
(* until it meets the item or an empty slot: it answers rightly only if no *)
(* operation ever empties a slot inside another item's probe sequence, and *)
(* it ends at all only if some slot is empty.                              *)
(*                                                                         *)
(* The hash function is a variable that never changes, so that every hash  *)
(* function is tried, the bad ones included.  Two items are equal in the   *)
(* sense of _cmp when they are the same item, so replacing an item by an   *)
(* equal one (the replace argument) changes nothing here.                  *)
(***************************************************************************)
EXTENDS Basic, FiniteSets

CONSTANTS Item,
          HashValue,   \* the values of _hash that occur
          MinSize,     \* _minsize (8 in the code)
          None         \* contents of a slot that was cleared

ASSUME HashValueAssumption == HashValue \subseteq Nat
ASSUME MinSizeAssumption == \E k \in 2 .. 3 : MinSize = Power2[k]
ASSUME ItemAssumption == IsFiniteSet(Item) /\ None \notin Item

(* The sizes of a table: it doubles less often than there are items. *)
Sizes == {MinSize * Power2[k] : k \in 0 .. Cardinality(Item)}

(* An occupied slot holds an odd byte: here two of the 128. *)
SLOT_EMPTY == 0
SLOT_DELETED == 2
Fingerprint == {1, 3}

VARIABLES hash,   \* _hash
          occ,    \* FibHash(hash, 8) | SLOT_OCCUPIED, as a function of hash
          set,    \* _count, _size, _deleted, _data, _state
          last    \* the last call: the operation, its argument, its answer

setVars == <<hash, occ, set, last>>

Slots(t) == 0 .. t.size - 1
Occupied(t) == {i \in Slots(t) : t.state[i] \in Fingerprint}
Members(t) == {t.data[i] : i \in Occupied(t)}

(* resize, and the counts set to 0 by its callers. *)
Empty(size) == [count |-> 0, size |-> size, deleted |-> 0,
                data |-> [i \in 0 .. size - 1 |-> None],
                state |-> [i \in 0 .. size - 1 |-> SLOT_EMPTY]]

-----------------------------------------------------------------------------
(* The k-th slot a search for hash h looks at: INIT_HASH_LOOP and next.    *)
Probe == [h \in HashValue |-> [size \in Sizes |->
            LET p[k \in 0 .. size - 1] ==
                  IF k = 0 THEN h % size
                           ELSE ((p[k - 1] - h) * 5 + 1 + h) % size
            IN  p]]

(* Mutant: equal fingerprints are taken for equal items. *)
FingerprintMatches(t, x, i) == t.state[i] = occ[hash[x]]

Matches(t, x, i) == t.state[i] = occ[hash[x]] /\ t.data[i] = x

(* The turns at which the loop of a search may stop, and where it does. *)
Stops(t, x) ==
    {k \in Slots(t) : LET i == Probe[hash[x]][t.size][k]
                      IN  t.state[i] = SLOT_EMPTY \/ Matches(t, x, i)}

StopSlot(t, x) == Probe[hash[x]][t.size][Least(Stops(t, x))]

Found(t, x) == Matches(t, x, StopSlot(t, x))

(* The tombstones met on the way; uncheckedAdd remembers the first. *)
Tombstones(t, x) ==
    {k \in 0 .. Least(Stops(t, x)) - 1 :
        t.state[Probe[hash[x]][t.size][k]] = SLOT_DELETED}

Put(t, x, i) == [t EXCEPT !.data[i] = x, !.state[i] = occ[hash[x]],
                          !.count = @ + 1]

(* Where uncheckedAdd puts the item: its slot if it is there, else freepos *)
(* if there is one, else the empty slot at the end of the search.          *)
Place(t, x) == IF Found(t, x) \/ Tombstones(t, x) = {}
               THEN StopSlot(t, x)
               ELSE Probe[hash[x]][t.size][Least(Tombstones(t, x))]

uncheckedAdd(t, x) ==
    IF Found(t, x) THEN t
    ELSE IF Tombstones(t, x) = {} THEN Put(t, x, Place(t, x))
    ELSE [Put(t, x, Place(t, x)) EXCEPT !.deleted = @ - 1]

newsize(t) == LET half == nextPow2(t.count * 2)
              IN  IF half < MinSize THEN MinSize ELSE half

(* Both loops visit the slots from 0 on, as an iterator does. *)
rebuild(t) ==
    LET new[i \in 0 .. t.size] ==
          IF i = 0 THEN Empty(newsize(t))
          ELSE IF i - 1 \in Occupied(t)
               THEN uncheckedAdd(new[i - 1], t.data[i - 1])
               ELSE new[i - 1]
    IN  new[t.size]

(* The test at the head of add and get_or_add. *)
Full(t) == ((t.count + t.deleted) * 3) \div 2 >= t.size

MakeRoom(t) == IF Full(t) THEN rebuild(t) ELSE t

AddTo(t, x) == uncheckedAdd(MakeRoom(t), x)

intersect_with(t, that) ==
    LET new[i \in 0 .. t.size] ==
          IF i = 0 THEN Empty(MinSize)
          ELSE IF i - 1 \in Occupied(t) /\ t.data[i - 1] \in that
               THEN AddTo(new[i - 1], t.data[i - 1])
               ELSE new[i - 1]
    IN  new[t.size]

-----------------------------------------------------------------------------
HashesOK == hash \in [Item -> HashValue] /\ occ \in [HashValue -> Fingerprint]

SetInit == /\ HashesOK
           /\ set = Empty(MinSize)
           /\ last = <<"none", {}, TRUE>>

Add(x) == /\ set' = AddTo(set, x)
          /\ last' = <<"add", x, TRUE>>
          /\ UNCHANGED <<hash, occ>>

(* get_or_add takes the empty slot at the end of the search, and leaves    *)
(* the tombstones before it alone.                                         *)
GetOrAdd(x) ==
    /\ LET t == MakeRoom(set)
       IN  set' = IF Found(t, x) THEN t ELSE Put(t, x, StopSlot(t, x))
    /\ last' = <<"add", x, TRUE>>
    /\ UNCHANGED <<hash, occ>>

(* Mutant: the slot becomes empty, as if no search passed over it. *)
Emptied(t, i) == [t EXCEPT !.data[i] = None, !.state[i] = SLOT_EMPTY,
                           !.count = @ - 1]

Cleared(t, i) == [t EXCEPT !.data[i] = None, !.state[i] = SLOT_DELETED,
                           !.count = @ - 1, !.deleted = @ + 1]

Crowded(t) == \/ ((t.count + t.deleted) * 3) \div 2 > t.size
              \/ t.deleted >= t.count

Remove(x) ==
    /\ last' = <<"remove", x, Found(set, x)>>
    /\ set' = IF ~Found(set, x) THEN set
              ELSE LET t == Cleared(set, StopSlot(set, x))
                   IN  IF Crowded(t) THEN rebuild(t) ELSE t
    /\ UNCHANGED <<hash, occ>>

Contains(x) == /\ last' = <<"contains", x, Found(set, x)>>
               /\ UNCHANGED <<hash, occ, set>>

(* intersect_in_place: a new set is filled by add, and copied over this    *)
(* one.  filter does the same, with a test in place of that->contains.     *)
Intersect(that) ==
    /\ set' = intersect_with(set, that)
    /\ last' = <<"intersect", that, TRUE>>
    /\ UNCHANGED <<hash, occ>>

SetNext ==
    \/ \E x \in Item : Add(x) \/ GetOrAdd(x) \/ Remove(x) \/ Contains(x)
    \/ \E that \in SUBSET Item : Intersect(that)

SetSpec == SetInit /\ [][SetNext]_setVars

-----------------------------------------------------------------------------
(* A sound table, of a set or of the keys of a map: the counts are those   *)
(* of the slots, no item is held twice, every search ends because some     *)
(* slot on its way is empty, and it finds exactly the items that are held, *)
(* whatever was added and removed before: removing one item, or moving all *)
(* of them to a new table, hides no other.                                 *)
TableOK(t) ==
    /\ t.size \in Sizes
    /\ t.count \in Nat /\ t.deleted \in Nat
    /\ t.data \in [Slots(t) -> Item \cup {None}]
    /\ t.state \in [Slots(t) -> {SLOT_EMPTY, SLOT_DELETED} \cup Fingerprint]

CountsRight(t) ==
    /\ t.count = Cardinality(Occupied(t))
    /\ t.count = Cardinality(Members(t))
    /\ t.deleted = Cardinality({i \in Slots(t) : t.state[i] = SLOT_DELETED})

SearchesEnd(t) == \A x \in Item : Stops(t, x) # {}

FindsMembers(t) == \A x \in Item : Found(t, x) <=> x \in Members(t)

Sound(t) ==
    TableOK(t) /\ CountsRight(t) /\ SearchesEnd(t) /\ FindsMembers(t)

Bounded(t) == /\ t.deleted = 0 \/ t.deleted < t.count
              /\ t.size <= MinSize \/ t.size < 8 * t.count

(* The set is a sound table: contains() answers for the items that are     *)
(* held, and every loop of set.h over a probe sequence ends.  The table    *)
(* stays proportional to its contents: tombstones never reach the number   *)
(* of items, and a table that has grown shrinks again as items are         *)
(* removed.                                                                *)
SetInv == /\ HashesOK
          /\ last[3] \in BOOLEAN
          /\ Sound(set)
          /\ Bounded(set)

(* The table implements the mathematical set. *)
AbsSet == INSTANCE AbstractSet WITH members <- Members(set)

ImplementsSet == AbsSet!Spec
=============================================================================
