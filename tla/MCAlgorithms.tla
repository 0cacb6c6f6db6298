---------------------------- MODULE MCAlgorithms ----------------------------
(* What is done on flat memory, one thing in each behaviour: the closure   *)
(* of every relation on three nodes, the operations of a bit set, the      *)
(* sorting of every array of up to six elements, and the collector, once   *)
(* with objects and once with nothing but variables to register.           *)
(*                                                                         *)
(* Three nodes are the least number at which an edge found late in a sweep *)
(* must be seen by a row visited early in it.  Two bits to a word and up   *)
(* to five elements make sets of no word and of several, with a full and   *)
(* with a part-filled last one.  Five and six elements end passes with a   *)
(* missing, a short and a full second run.                                 *)
(*                                                                         *)
(* Three cells in two blocks, which share a chain until the table grows,   *)
(* make a path from a word on the stack or a variable over two nodes to a  *)
(* third, cycles that nothing holds, and a text that reaches into the      *)
(* second block.  No object points to itself.  Variables 1 and 2 are       *)
(* registered in both orders beside variable 3.                            *)
EXTENDS TransitiveClosure, BitSet, MergeSort, Collector

VARIABLE inUse

algorithms == <<vars, bitset, sortVars>>
memory == <<heapVars, gcVars>>

MCInit == /\ inUse \in {"closure", "bits", "array", "heap", "roots"}
          /\ Init /\ (inUse = "closure" \/ arg = NoEdges)
          /\ BitInit /\ (inUse = "bits" \/ bitset = new(0))
          /\ SortInit /\ (inUse = "array" \/ _len = 0)
          /\ GcInit

(* What has returned is not an end that the deadlock check should report.  *)
Returned == \/ pc = "return" /\ UNCHANGED vars
            \/ ~sorting /\ UNCHANGED sortVars
            \/ rooted = Global /\ UNCHANGED memory

MCNext == /\ \/ /\ inUse = "closure" /\ Next
                /\ UNCHANGED <<bitset, sortVars, memory>>
             \/ /\ inUse = "bits" /\ BitNext
                /\ UNCHANGED <<vars, sortVars, memory>>
             \/ /\ inUse = "array" /\ SortNext
                /\ UNCHANGED <<vars, bitset, memory>>
             \/ /\ inUse = "heap" /\ GcNext /\ rooted' \subseteq {1, 3}
                /\ \A c \in Cell : mem'[c] # c
                /\ UNCHANGED algorithms
             \/ /\ inUse = "roots" /\ \E g \in Global \ rooted : AddRoots(g, NULL)
                /\ UNCHANGED algorithms
             \/ Returned /\ UNCHANGED <<algorithms, memory>>
          /\ UNCHANGED inUse

MCSpec == MCInit /\ [][MCNext]_<<algorithms, memory, inUse>>

MCKind == {[words |-> 1, atomic |-> FALSE], [words |-> 2, atomic |-> TRUE]}
=============================================================================
