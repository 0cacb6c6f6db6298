--------------------------- MODULE MCCallAnalysis ---------------------------
(* The inputs TLC starts from.  Closing a graph takes about NFuncs^2 steps *)
(* per input, so each specification keeps to the inputs that can tell its  *)
(* properties apart.                                                       *)
EXTENDS CallAnalysis, TLC

(* Names that are neither roots nor blacklisted are interchangeable. *)
Symmetry == Permutations(Name \ (Roots \cup Blacklist))

(* A root, an ordinary function and one more, which may be blacklisted or  *)
(* a variant of another, as in the branches of an #if; every call relation *)
(* among them, and sections that call at most two.  The order of distinct  *)
(* definitions does not matter: the root comes first.                      *)
MCInit == /\ Init
          /\ fname[0] \in Roots
          /\ fname[1] \notin Blacklist
          /\ Cardinality(section) <= 2
          /\ \A f \in Func : body[f] \subseteq FuncNames(Func)

MCSpec == MCInit /\ [][Next]_vars

(* Four definitions of at most three names, each calling at most one, and *)
(* a section that calls one of them.  Four is the least number with a     *)
(* root, a caller, and two variants of the function between them; the     *)
(* root is defined once and calls nothing.                                *)
OneRootSpec == /\ Init
               /\ ~UniqueNames
               /\ fname[0] \in Roots
               /\ Cardinality(section) = 1
               /\ \A f \in Func : /\ Cardinality(body[f]) <= 1
                                  /\ body[f] \subseteq FuncNames(Func)
               /\ body[0] = {}
               /\ \A f \in Func : fname[f] \in Roots => f = 0
               /\ [][Next]_vars
=============================================================================
