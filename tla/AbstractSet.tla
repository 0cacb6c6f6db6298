---------------------------- MODULE AbstractSet ----------------------------
(***************************************************************************)
(* What the callers of Set<T> (src/adlib/set.h) rely on: a mathematical    *)
(* set and the last call.  No table, no hash, no tombstone.  *)
(***************************************************************************)
CONSTANT Item

VARIABLES members,
          last   \* the last call: the operation, its argument, and its answer,
                 \* TRUE where it answers nothing about membership

vars == <<members, last>>

Init == members = {} /\ last = <<"none", {}, TRUE>>

Add(x) == members' = members \cup {x} /\ last' = <<"add", x, TRUE>>

Remove(x) == /\ members' = members \ {x}
             /\ last' = <<"remove", x, x \in members>>

Contains(x) == /\ last' = <<"contains", x, x \in members>>
               /\ UNCHANGED members

Intersect(that) == /\ members' = members \cap that
                   /\ last' = <<"intersect", that, TRUE>>

Next == \/ \E x \in Item : Add(x) \/ Remove(x) \/ Contains(x)
        \/ \E that \in SUBSET Item : Intersect(that)

Spec == Init /\ [][Next]_vars
=============================================================================
