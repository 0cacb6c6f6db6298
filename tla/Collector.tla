----------------------------- MODULE Collector -----------------------------
(***************************************************************************)
(* The collector under the program, tinygc (src/gclib/tinygc.c), as it is  *)
(* built here: one thread, no finalizers and no disappearing links, and    *)
(* pointers into an object count only on the stack.                        *)
(*                                                                         *)
(* Each object has a link, which is in a chain of the hash table or on one *)
(* of three lists.  A collection moves what it finds from the table to     *)
(* marked_list, at once or over follow_list; what stays in the table is    *)
(* garbage and goes to free_list.  Neither is undone at once: the next     *)
(* allocations put a few marked links back into the table and free a few   *)
(* objects each, so the next collection may begin in the middle.           *)
(*                                                                         *)
(* When to collect is a matter of sizes and is left open, as is the order  *)
(* of the lists, which are sets here.  Nothing runs beside a collection,   *)
(* so it is one step.                                                      *)
(***************************************************************************)
EXTENDS Heap, Basic

LOCAL INSTANCE Sequences

CONSTANTS Log2Size,         \* log2_size at the start
          LazyRefillCount,  \* GC_LAZYREFILL_COUNT
          MaxObjects        \* bound on the objects there are at a time

ASSUME TableAssumption == Log2Size \in Nat \ {0} /\ LazyRefillCount \in Nat \ {0}

VARIABLES dataroots,      \* the regions, in order
          table,          \* obj_htable
          recycling

gcVars == <<dataroots, table, recycling>>

NULL == 0
Greatest(S) == CHOOSE k \in S : \A j \in S : j <= k

MaxAddr == Greatest(Cell)

block(addr) == addr \div BlockSize

(* (((addr >> log2_size) ^ addr) >> GC_LOG2_OFFIGNORE) & hmask, by bits. *)
bucket(b, log2_size) ==
    LET bit(k) == (b \div Power2[k] + b \div Power2[k + log2_size]) % 2
        low[k \in 0 .. log2_size] == IF k = 0 THEN 0 ELSE low[k - 1] + Power2[k - 1] * bit(k - 1)
    IN  low[log2_size]

Chains(log2_size) == [n \in 0 .. Power2[log2_size] - 1 |-> {}]

InTable(t) == UNION {t.hroots[n] : n \in DOMAIN t.hroots}

-----------------------------------------------------------------------------
(* GC_roots_add: a region that touches others is merged with them. *)
size(r) == r.to - r.from

(* Mutant: the regions that the extended one now touches stay beside it. *)
RootsExtended(from, to) ==
    LET old == CHOOSE n \in 1 .. Len(dataroots) + 1 :
                 /\ n <= Len(dataroots) => dataroots[n].to >= from
                 /\ \A k \in 1 .. n - 1 : dataroots[k].to < from
    IN  IF old <= Len(dataroots) /\ dataroots[old].from <= to
        THEN [dataroots EXCEPT ![old] = [from |-> IF @.from < from THEN @.from ELSE from,
                                         to |-> IF @.to > to THEN @.to ELSE to]]
        ELSE SubSeq(dataroots, 1, old - 1) \o <<[from |-> from, to |-> to]>>
               \o SubSeq(dataroots, old, Len(dataroots))

RootsAdded(from, to) ==
    LET end == Len(dataroots) + 1
        old == Least({n \in 1 .. end : n < end => dataroots[n].to >= from})
        next == Least({n \in old .. end : n < end => dataroots[n].from > to})
        near == old .. next - 1
        merged == [from |-> Least({from} \cup {dataroots[n].from : n \in near}),
                   to |-> Greatest({to} \cup {dataroots[n].to : n \in near})]
    IN  SubSeq(dataroots, 1, old - 1) \o <<merged>> \o SubSeq(dataroots, next, end - 1)

-----------------------------------------------------------------------------
(* GC_objlink_add, for some objects. *)
Linked(t, links) ==
    [t EXCEPT !.hroots = [n \in DOMAIN t.hroots |->
                            t.hroots[n] \cup {a \in links : bucket(block(a), t.log2_size) = n}],
              !.count = @ + Cardinality(links),
              !.min_obj_addr = Least({@} \cup links),
              !.max_obj_addr = Greatest({@} \cup {a + BlockSize : a \in links})]

(* GC_objlink_some_refill *)
SomeRefill(t, links) == Linked([t EXCEPT !.marked_list = @ \ links], links)

(* Mutant: the marked links are left to the next allocations. *)
RefilledLazily(t) ==
    SomeRefill(t, {a \in t.marked_list : \A d \in t.marked_list : a <= d})

Refilled(t) == SomeRefill(t, t.marked_list)

(* The first link of the chain that does not lie above addr. *)
FirstBelow(t, b, addr) ==
    LET below == {a \in t.hroots[bucket(b, t.log2_size)] : a <= addr}
    IN  IF below = {} THEN NULL ELSE Greatest(below)

Covers(a, addr) == a # NULL /\ addr - a < objs[a].words

(* Mutant: only the chain of the block that the word points to is searched. *)
FoundHere(t, addr, interior_pointers) ==
    LET here == FirstBelow(t, block(addr), addr)
    IN  IF addr < t.min_obj_addr \/ addr >= t.max_obj_addr THEN NULL
        ELSE IF ~interior_pointers THEN IF here = addr THEN here ELSE NULL
        ELSE IF Covers(here, addr) THEN here ELSE NULL

(* The object GC_scan_region finds for a word, if any. *)
Found(t, addr, interior_pointers) ==
    LET here == FirstBelow(t, block(addr), addr)
        before == FirstBelow(t, block(addr) - 1, addr)
    IN  IF addr < t.min_obj_addr \/ addr >= t.max_obj_addr THEN NULL
        ELSE IF ~interior_pointers THEN IF here = addr THEN here ELSE NULL
        ELSE IF Covers(here, addr) THEN here
        ELSE IF Covers(before, addr) THEN before
        ELSE NULL

Marked(t, a) ==
    LET out == [t EXCEPT !.hroots[bucket(block(a), t.log2_size)] = @ \ {a},
                         !.count = @ - 1]
    IN  IF objs[a].atomic THEN [out EXCEPT !.marked_list = @ \cup {a}]
                          ELSE [out EXCEPT !.follow_list = @ \cup {a}]

(* The words are words[1] to words[n]. *)
ScanRegion(t, words, n, interior_pointers) ==
    LET scanned[k \in 0 .. n] ==
          IF k = 0 THEN t
          ELSE LET u == scanned[k - 1]
                   a == Found(u, words[k], interior_pointers)
               IN  IF a = NULL THEN u ELSE Marked(u, a)
    IN  scanned[n]

StackScan(t) == ScanRegion(t, stack, StackSize, TRUE)

RootScan(t, r) ==
    ScanRegion(t, [n \in 1 .. size(r) |-> data[r.from + n - 1]], size(r), FALSE)

RootsScan(t) ==
    LET scanned[k \in 0 .. Len(dataroots)] ==
          IF k = 0 THEN t ELSE RootScan(scanned[k - 1], dataroots[k])
    IN  scanned[Len(dataroots)]

-----------------------------------------------------------------------------
NoObjects == [log2_size |-> Log2Size, hroots |-> Chains(Log2Size), count |-> 0,
              min_obj_addr |-> MaxAddr + 1, max_obj_addr |-> BlockSize,
              marked_list |-> {}, follow_list |-> {}, free_list |-> {}]

GcInit == /\ HeapInit
          /\ dataroots = <<[from |-> Dummy, to |-> Dummy + 1]>>
          /\ table = NoObjects
          /\ recycling = FALSE

AddRoots(g, w) ==
    /\ GCVar(g, w)
    /\ dataroots' = RootsAdded(g, g + 1)
    /\ UNCHANGED <<table, recycling>>

(* What an allocation recycles of an old collection, if anything: marked   *)
(* links up to a number, and after them two objects; or, when there are no *)
(* such links left, at least three objects.                                *)
Share(t, back, gone) ==
    LET all == Cardinality(t.free_list)
        atLeast(n) == IF all < n THEN all ELSE n
    IN  /\ back \subseteq t.marked_list /\ gone \subseteq t.free_list
        /\ \/ Cardinality(back) = LazyRefillCount
           \/ Cardinality(back) < LazyRefillCount /\ back = t.marked_list
        /\ IF back = {} THEN Cardinality(gone) >= atLeast(3)
                        ELSE Cardinality(gone) = atLeast(2)

(* dlmalloc is taken to give the lowest room there is beside some objects. *)
Rooms(kind, others) ==
    LET used == UNION {Body(a) : a \in others}
        fits == {c \in Cell : Extent(kind, c) \subseteq Cell \ used}
    IN  {c \in fits : \A d \in fits : c <= d}

(* GC_general_malloc, after the collection if there is one.  If dlmalloc   *)
(* finds no room, all of free_list is freed first.                         *)
Malloc(kind, slot) ==
    LET early == IF Rooms(kind, DOMAIN objs) = {} THEN table.free_list ELSE {}
        kept == DOMAIN objs \ early
        freed == [table EXCEPT !.free_list = @ \ early]
    IN  /\ Cardinality(kept) < MaxObjects
        /\ \E at \in Rooms(kind, kept) :
             LET t == Linked(freed, {at})
             IN  \/ /\ Allocate(kind, at, slot, early)
                    /\ table' = t
                    /\ UNCHANGED recycling
                 \/ \E back \in SUBSET t.marked_list, gone \in SUBSET t.free_list :
                      /\ recycling
                      /\ Share(t, back, gone)
                      /\ Allocate(kind, at, slot, early \cup gone)
                      /\ table' = [SomeRefill(t, back) EXCEPT !.free_list = @ \ gone]
                      /\ recycling' = (back # {} \/ gone # {})
        /\ UNCHANGED dataroots

(* GC_scan_followable: each turn follows one link, if there is one. *)
FollowOne(t) ==
    LET a == CHOOSE a \in t.follow_list : TRUE
    IN  IF t.follow_list = {} THEN t
        ELSE ScanRegion([t EXCEPT !.follow_list = @ \ {a},
                                  !.marked_list = @ \cup {a}],
                        [n \in 1 .. objs[a].words |-> mem[a + n - 1]], objs[a].words, FALSE)

ScanFollowable(t) ==
    LET N == Cardinality(DOMAIN objs)
        turn[k \in 0 .. N] == IF k = 0 THEN t ELSE FollowOne(turn[k - 1])
    IN  turn[N]

RemoveAll(t) ==
    [t EXCEPT !.free_list = @ \cup InTable(t), !.hroots = Chains(t.log2_size),
              !.count = 0, !.min_obj_addr = MaxAddr + 1, !.max_obj_addr = BlockSize]

(* A larger table, if most of many objects have stayed; the old one is empty. *)
Resized(t, oldcnt) ==
    IF oldcnt \div 2 < Cardinality(t.marked_list) /\ 3 * Power2[t.log2_size] <= 4 * oldcnt
    THEN [t EXCEPT !.log2_size = @ + 1, !.hroots = Chains(t.log2_size + 1)]
    ELSE t

CollectUnreachable ==
    LET full == Refilled(table)
        scanned == ScanFollowable(RootsScan(StackScan(full)))
        swept == IF scanned.count = 0 THEN scanned ELSE RemoveAll(scanned)
    IN  /\ dataroots # <<>>
        /\ table' = IF full.count = 0 THEN full ELSE Resized(swept, full.count)
        /\ recycling' = TRUE
        /\ UNCHANGED <<heapVars, dataroots>>

GcNext ==
    \/ Store /\ UNCHANGED gcVars
    \/ LET known == Reachable
       IN  \E g \in Global \ rooted, w \in known \cup {0} : AddRoots(g, w)
    \/ \E kind \in Kind, slot \in 1 .. StackSize : Malloc(kind, slot)
    \/ CollectUnreachable

GcSpec == GcInit /\ [][GcNext]_<<heapVars, gcVars>>

-----------------------------------------------------------------------------
(* The table and the lists. *)
Lists(t) == <<InTable(t), t.marked_list, t.follow_list, t.free_list>>

(* Every object has its link in exactly one place, in the chain where it   *)
(* is looked for if it is in the table, whose range of addresses covers    *)
(* it; what has been found stays found.  The regions are the registered    *)
(* variables, in order and apart.                                          *)
CollectorInv ==
    /\ DOMAIN objs = UNION {Lists(table)[n] : n \in 1 .. 4}
    /\ \A n \in 1 .. 4 : \A k \in 1 .. n - 1 : Lists(table)[n] \cap Lists(table)[k] = {}
    /\ DOMAIN table.hroots = 0 .. Power2[table.log2_size] - 1
    /\ \A n \in DOMAIN table.hroots : \A a \in table.hroots[n] :
         /\ n = bucket(block(a), table.log2_size)
         /\ table.min_obj_addr <= a /\ a + BlockSize <= table.max_obj_addr
    /\ table.count = Cardinality(InTable(table))
    /\ table.follow_list = {}
    /\ rooted = UNION {dataroots[n].from .. dataroots[n].to - 1 : n \in DOMAIN dataroots}
    /\ \A n \in DOMAIN dataroots : /\ dataroots[n].from < dataroots[n].to
                                   /\ n > 1 => dataroots[n - 1].to < dataroots[n].from

(* What the program can reach is not freed, whenever the collections come, *)
(* and however much of the last one is still undone.                       *)
ImplementsHeap == HeapSpec

(* A collection leaves nothing but what is held by a registered variable   *)
(* or by a word on the stack that points into it, or what can be reached   *)
(* from there: no garbage survives because it was marked before.           *)
HeldLoosely == {a \in DOMAIN objs : \/ \E g \in rooted : data[g] = a
                                    \/ \E s \in 1 .. StackSize : stack[s] \in Body(a)}

CollectsGarbage ==
    [][CollectUnreachable => DOMAIN objs \ table'.free_list \subseteq Around(HeldLoosely)
      ]_<<heapVars, gcVars>>
=============================================================================
