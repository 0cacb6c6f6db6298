-------------------------------- MODULE Heap --------------------------------
(***************************************************************************)
(* What the program relies on when it allocates without ever freeing: a    *)
(* heap from which only objects disappear that the program can no longer   *)
(* reach (src/adlib/mem.h and the calls of src/gclib/gc.h).  Memory is a   *)
(* row of cells of one machine word.  The program's own words are those on *)
(* the stack and its global variables, of which those count that it has    *)
(* registered with GCVar.                                                  *)
(*                                                                         *)
(* A word holds on to an object if it is the address of its start.  A word *)
(* on the stack may also point behind the start, by less than a block: the *)
(* collector does not promise to follow it farther than that.              *)
(***************************************************************************)
EXTENDS Integers, FiniteSets

CONSTANTS Cell,        \* the addresses of the heap
          BlockSize,   \* 2^GC_LOG2_OFFIGNORE, in words
          Kind,        \* what is allocated: words, and whether it is atomic
          Global,      \* the addresses of the global variables
          Dummy,       \* the one that main registers, and that stays NULL
          StackSize    \* words on the stack

ASSUME CellAssumption == Cell \subseteq Nat \ {0} /\ Cell # {} /\ IsFiniteSet(Cell)
ASSUME BlockAssumption == BlockSize \in Nat \ {0}
ASSUME KindAssumption == Kind \subseteq [words : Nat \ {0}, atomic : BOOLEAN]
ASSUME GlobalAssumption == Global \subseteq Nat \ {0} /\ Dummy \in Global
ASSUME StackAssumption == StackSize \in Nat

VARIABLES objs,    \* the objects by their addresses
          mem,     \* the words of the heap; 0 is no pointer
          data,    \* the values of the global variables
          rooted,  \* those that are registered
          stack

heapVars == <<objs, mem, data, rooted, stack>>

Extent(kind, a) == a .. a + kind.words - 1

Body(a) == Extent(objs[a], a)

Within(a) == Body(a) \cap a .. a + BlockSize - 1

Held == {a \in DOMAIN objs : \/ \E g \in rooted : data[g] = a
                             \/ \E s \in 1 .. StackSize : stack[s] \in Within(a)}

Closed(S) == \A a \in S : ~objs[a].atomic =>
                \A c \in Body(a) : mem[c] \in DOMAIN objs => mem[c] \in S

(* The least closed set around some objects. *)
Around(first) == {a \in DOMAIN objs : \A S \in SUBSET DOMAIN objs :
                                         first \subseteq S /\ Closed(S) => a \in S}

Reachable == Around(Held)

-----------------------------------------------------------------------------
HeapInit == /\ objs = [a \in {} |-> [words |-> 1, atomic |-> FALSE]]
            /\ mem = [c \in Cell |-> 0]
            /\ data = [g \in Global |-> 0]
            /\ rooted = {Dummy}
            /\ stack = [s \in 1 .. StackSize |-> 0]

(* Garbage may go when something new is allocated, and only then.  The     *)
(* cells of an object are cleared when it is allocated; here they are also *)
(* when it goes.                                                           *)
Allocate(kind, at, slot, gone) ==
    LET left == DOMAIN objs \ gone
        kept == UNION {Body(a) : a \in left}
    IN  /\ Extent(kind, at) \subseteq Cell \ kept
        /\ objs' = [a \in left \cup {at} |-> IF a = at THEN kind ELSE objs[a]]
        /\ mem' = [c \in Cell |-> IF c \in kept THEN mem[c] ELSE 0]
        /\ stack' = [stack EXCEPT ![slot] = at]
        /\ UNCHANGED <<data, rooted>>

(* GCVar(var, val) *)
GCVar(g, w) == /\ rooted' = rooted \cup {g}
               /\ data' = [data EXCEPT ![g] = w]
               /\ UNCHANGED <<objs, mem, stack>>

(* The program stores the address of an object it can reach, or forgets    *)
(* one: in a registered variable, in an object, or on the stack, where it  *)
(* may also point into the object.                                         *)
StoreGlobal(g, w) == /\ g \in rooted \ {Dummy}
                     /\ data' = [data EXCEPT ![g] = w]
                     /\ UNCHANGED <<objs, mem, rooted, stack>>

StoreInside(a, c, w) == /\ ~objs[a].atomic
                        /\ mem' = [mem EXCEPT ![c] = w]
                        /\ UNCHANGED <<objs, data, rooted, stack>>

StoreOnStack(s, w) == /\ stack' = [stack EXCEPT ![s] = w]
                      /\ UNCHANGED <<objs, mem, data, rooted>>

Store == LET known == Reachable
             inside == UNION {Body(a) : a \in known}
         IN  \/ \E g \in Global, w \in known \cup {0} : StoreGlobal(g, w)
             \/ \E a \in known, w \in known \cup {0} :
                  \E c \in Body(a) : StoreInside(a, c, w)
             \/ \E s \in 1 .. StackSize, w \in inside \cup {0} : StoreOnStack(s, w)

Register == LET known == Reachable
            IN  \E g \in Global \ rooted, w \in known \cup {0} : GCVar(g, w)

HeapNext ==
    \/ Store
    \/ Register
    \/ LET garbage == DOMAIN objs \ Reachable
       IN  \E kind \in Kind, at \in Cell, slot \in 1 .. StackSize :
             \E gone \in SUBSET garbage : Allocate(kind, at, slot, gone)

HeapSpec == HeapInit /\ [][HeapNext]_heapVars
=============================================================================
