----------------------------- MODULE MCLibrary -----------------------------
(* The set, the map, an array and a string of AdLib, one of them in use in *)
(* each behaviour: they share nothing but the hash function of the first   *)
(* two.                                                                    *)
(*                                                                         *)
(* Items of the tables differ in nothing but their hash, and the hash      *)
(* function ranges over all of them, so they are interchangeable; so are   *)
(* the values.  The hash value 0 is given the first of the two             *)
(* interchangeable fingerprints, and the others share one with it, or do   *)
(* not.                                                                    *)
EXTENDS HashMap, Buffers, TLC

VARIABLE inUse

tables == <<hash, occ, set, last, map>>

Symmetry == Permutations(Item) \cup Permutations(Value)

MCInit ==
    /\ inUse \in {"set", "map", "array", "string"}
    /\ SetInit /\ MapInit /\ occ[0] = 1 /\ occ[1] = occ[5]
    /\ inUse \in {"array", "string"} => hash = [x \in Item |-> 0] /\ occ[1] = 1
    /\ ArrInit /\ (inUse # "array" => arr = NewArr(0))
    /\ StrInit /\ (inUse # "string" => str = NewStr(0))

MCNext == /\ UNCHANGED inUse
          /\ \/ inUse = "set" /\ SetNext /\ UNCHANGED <<map, arrayVars, stringVars>>
             \/ inUse = "map" /\ MapNext
                  /\ UNCHANGED <<set, last, arrayVars, stringVars>>
             \/ inUse = "array" /\ ArrNext /\ UNCHANGED <<tables, stringVars>>
             \/ inUse = "string" /\ StrNext /\ UNCHANGED <<tables, arrayVars>>

MCSpec == MCInit /\ [][MCNext]_<<tables, arrayVars, stringVars, inUse>>
=============================================================================
