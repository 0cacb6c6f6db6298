------------------------------- MODULE BitSet -------------------------------
(***************************************************************************)
(* BitSet of src/adlib/bitset.h: a row of a bit matrix, held in words.     *)
(* Operations work on whole words, and the last word has bits that belong  *)
(* to no element; one that is left set there would count as an element,    *)
(* and would become one when the set is expanded.                          *)
(*                                                                         *)
(* A word is the set of its bits that are 1, and | & ~ are union,          *)
(* intersection and complement in the word; the popcount in bitcount is    *)
(* the cardinality.                                                        *)
(***************************************************************************)
EXTENDS Integers, FiniteSets

CONSTANTS WordBits,   \* bits of a Word32 (32 in the code)
          MaxBits     \* bound on the length of the sets that are enumerated

ASSUME WordBitsAssumption == WordBits \in Nat \ {0}
ASSUME MaxBitsAssumption == MaxBits \in Nat

VARIABLE bitset   \* _bits as bits, _data as a function data on 0 .. _words - 1

Word == 0 .. WordBits - 1
MEMSIZE(n) == (n + WordBits - 1) \div WordBits

Words(b) == DOMAIN b.data

new(n) == [bits |-> n, data |-> [w \in 0 .. MEMSIZE(n) - 1 |-> {}]]

test(b, i) == i % WordBits \in b.data[i \div WordBits]

setBit(b, i) == [b EXCEPT !.data[i \div WordBits] = @ \cup {i % WordBits}]

clear(b, i) == [b EXCEPT !.data[i \div WordBits] = @ \ {i % WordBits}]

(* What Each visits. *)
Elements(b) == {i \in 0 .. b.bits - 1 : test(b, i)}

(* The sum over the words, the bits past the last element included. *)
count(b) == Cardinality({p \in Words(b) \X Word : p[2] \in b.data[p[1]]})

resize(b, n) ==
    [bits |-> n,
     data |-> [w \in 0 .. MEMSIZE(n) - 1 |->
                 IF w \in Words(b) THEN b.data[w] ELSE {}]]

expand(b, n) == IF n > b.bits THEN resize(b, n) ELSE b

complementWords(b) ==
    LET n == b.bits % WordBits
        flipped == [b EXCEPT !.data = [w \in Words(b) |-> Word \ @[w]]]
    IN  IF n = 0 THEN flipped
        ELSE [flipped EXCEPT !.data[MEMSIZE(b.bits) - 1] = @ \cap 0 .. n - 1]

(* The loops below run over the words of the receiver, and read the same   *)
(* words of the argument: Fits says that they exist.                       *)
Fits(b, that) == Words(b) \subseteq Words(that) \/ b.bits < that.bits

(* Mutant: no expand. *)
UnionOldWords(b, that) ==
    [b EXCEPT !.data = [w \in Words(b) |-> @[w] \cup that.data[w]]]

unionWords(b, that) ==
    LET e == expand(b, that.bits)
    IN  [e EXCEPT !.data = [w \in Words(e) |-> @[w] \cup that.data[w]]]

intersectWords(b, that) ==
    LET e == expand(b, that.bits)
    IN  [e EXCEPT !.data = [w \in Words(e) |-> @[w] \cap that.data[w]]]

diffWords(b, that) ==
    LET e == expand(b, that.bits)
    IN  [e EXCEPT !.data = [w \in Words(e) |-> @[w] \ that.data[w]]]

-----------------------------------------------------------------------------
(* The arguments: every set of at most MaxBits elements. *)
BitSets ==
    UNION {{[bits |-> n,
             data |-> [w \in 0 .. MEMSIZE(n) - 1 |->
                         {j \in Word : w * WordBits + j \in members}]] :
              members \in SUBSET (0 .. n - 1)} : n \in 0 .. MaxBits}

BitInit == bitset \in {new(n) : n \in 0 .. MaxBits}

SetBit(i) == i < bitset.bits /\ bitset' = setBit(bitset, i)

ClearBit(i) == i < bitset.bits /\ bitset' = clear(bitset, i)

Complement == bitset' = complementWords(bitset)

UnionBits(that) == Fits(bitset, that) /\ bitset' = unionWords(bitset, that)

IntersectBits(that) ==
    Fits(bitset, that) /\ bitset' = intersectWords(bitset, that)

DiffBits(that) == Fits(bitset, that) /\ bitset' = diffWords(bitset, that)

BitNext == \/ \E i \in 0 .. MaxBits - 1 : SetBit(i) \/ ClearBit(i)
           \/ Complement
           \/ \E that \in BitSets :
                UnionBits(that) \/ IntersectBits(that) \/ DiffBits(that)

BitSpec == BitInit /\ [][BitNext]_bitset

-----------------------------------------------------------------------------
(* No operation leaves a bit set past the last element, so count agrees    *)
(* with the elements an iterator visits and none appears when the set is   *)
(* expanded.                                                               *)
WordsRight == /\ bitset.bits \in 0 .. MaxBits
              /\ Words(bitset) = 0 .. MEMSIZE(bitset.bits) - 1
              /\ \A w \in Words(bitset) : bitset.data[w] \subseteq Word
              /\ count(bitset) = Cardinality(Elements(bitset))

(* In every state each word-wise operation is the operation on sets, for   *)
(* an argument of the same length or another: the closure of the call      *)
(* graph may take a row for the set of its members.                        *)
BitsRight ==
    LET old == Elements(bitset)
    IN  /\ WordsRight
        /\ Elements(complementWords(bitset)) = (0 .. bitset.bits - 1) \ old
        /\ \A that \in {b \in BitSets : Fits(bitset, b)} :
              LET other == Elements(that)
              IN  /\ Elements(unionWords(bitset, that)) = old \cup other
                  /\ Elements(intersectWords(bitset, that))
                       = old \cap other
                  /\ Elements(diffWords(bitset, that)) = old \ other
=============================================================================
