------------------------------- MODULE Closure -------------------------------
(***************************************************************************)
(* What the call-graph analysis needs from TransitiveClosure of            *)
(* src/adlib/bitset.cc, said without an algorithm: given a relation, one   *)
(* answer, and the answer is the least transitive relation that contains   *)
(* it.  BuildCallGraph (src/src/analyzer.cc) relies on exactly this:       *)
(* "calls directly or indirectly".                                         *)
(*                                                                         *)
(* A bit matrix is the function that gives each row its set of columns.    *)
(***************************************************************************)
CONSTANT Node

Relation == [Node -> SUBSET Node]

(* Every edge of a is an edge of b. *)
Contains(b, a) == \A i \in Node : a[i] \subseteq b[i]

Transitive(m) == \A i \in Node : \A j \in m[i] : m[j] \subseteq m[i]

(* c is the least transitive relation that contains m. *)
IsClosureOf(c, m) ==
    /\ Contains(c, m)
    /\ Transitive(c)
    /\ \A t \in Relation : Contains(t, m) /\ Transitive(t) => Contains(t, c)

VARIABLES arg,       \* the relation asked about
          answered,  \* whether the call has returned
          closure    \* what it returned; the empty relation before that

vars == <<arg, answered, closure>>

Init == /\ arg \in Relation
        /\ answered = FALSE
        /\ closure = [i \in Node |-> {}]

Answer == /\ ~answered
          /\ answered' = TRUE
          /\ closure' \in Relation
          /\ IsClosureOf(closure', arg)
          /\ UNCHANGED arg

Next == Answer

Spec == Init /\ [][Next]_vars
=============================================================================
