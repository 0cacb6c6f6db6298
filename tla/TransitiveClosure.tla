-------------------------- MODULE TransitiveClosure --------------------------
(***************************************************************************)
(* TransitiveClosure of src/adlib/bitset.cc, one inner iteration per step. *)
(* The matrix is updated in place: row unions read rows that earlier       *)
(* unions of the same sweep have already changed, and the result is right  *)
(* only because the columns are the OUTER loop.                            *)
(*                                                                         *)
(* A BitSet of _bits columns is the set of its members (module BitSet has  *)
(* the words behind it); a BitMatrix is a function from rows to sets.      *)
(***************************************************************************)
EXTENDS Integers

CONSTANT Len   \* rows and columns of the matrix: one per inline function

ASSUME LenAssumption == Len \in Nat

Index == 0 .. Len - 1
Matrix == [Index -> SUBSET Index]

VARIABLES arg,   \* the caller's matrix, never written (it is cloned)
          mat,   \* the local clone
          col, row,   \* the two loop variables
          pc     \* "entry", "loop" or "return"

vars == <<arg, mat, col, row, pc>>

NoEdges == [i \in Index |-> {}]

Init == /\ arg \in Matrix
        /\ mat = NoEdges
        /\ col = 0
        /\ row = 0
        /\ pc = "entry"

(* With rows == 0 the code returns a fresh empty matrix without entering   *)
(* the loops; here the loop is entered and left, with the same result.     *)
CloneArg == /\ pc = "entry"
            /\ mat' = arg
            /\ pc' = "loop"
            /\ UNCHANGED <<arg, col, row>>

(* Mutant: without Clone, the union also changes the caller's matrix. *)
UnionRowOfArg == /\ pc = "loop" /\ col < Len /\ row < Len
                 /\ col \in mat[row]
                 /\ mat' = [mat EXCEPT ![row] = @ \cup mat[col]]
                 /\ arg' = mat'
                 /\ row' = row + 1
                 /\ UNCHANGED <<col, pc>>

(* mat->at(row)->test(col), then mat->at(row)->union_in_place(mat->at(col)) *)
UnionRow == /\ pc = "loop" /\ col < Len /\ row < Len
            /\ col \in mat[row]
            /\ mat' = [mat EXCEPT ![row] = @ \cup mat[col]]
            /\ row' = row + 1
            /\ UNCHANGED <<arg, col, pc>>

SkipRow == /\ pc = "loop" /\ col < Len /\ row < Len
           /\ col \notin mat[row]
           /\ row' = row + 1
           /\ UNCHANGED <<arg, mat, col, pc>>

NextCol == /\ pc = "loop" /\ col < Len /\ row = Len
           /\ col' = col + 1
           /\ row' = 0
           /\ UNCHANGED <<arg, mat, pc>>

Return == /\ pc = "loop" /\ col = Len
          /\ pc' = "return"
          /\ UNCHANGED <<arg, mat, col, row>>

Next == CloneArg \/ UnionRow \/ SkipRow \/ NextCol \/ Return

Spec == Init /\ [][Next]_vars

-----------------------------------------------------------------------------
TypeOK == /\ arg \in Matrix
          /\ mat \in Matrix
          /\ col \in 0 .. Len
          /\ row \in 0 .. Len
          /\ pc \in {"entry", "loop", "return"}

(* The abstract specification: answered once, with the least transitive    *)
(* relation that contains the argument.                                    *)
Abstract == INSTANCE Closure
              WITH Node <- Index,
                   answered <- (pc = "return"),
                   closure <- (IF pc = "return" THEN mat ELSE NoEdges)

(* What BuildCallGraph gets back is the transitive closure of the direct   *)
(* calls: no indirect call is missing from it and none is invented.        *)
ReturnsClosure == pc = "return" => Abstract!IsClosureOf(mat, arg)

(* The property of a half-finished in-place sweep: whatever two edges can  *)
(* be joined at a node already swept is an edge, or will become one when   *)
(* the row is joined with the column now being swept.                      *)
SweptJoined ==
    \A m \in 0 .. col - 1 : \A i \in Index : \A j \in Index :
        m \in mat[i] /\ j \in mat[m] =>
            \/ j \in mat[i]
            \/ col < Len /\ col \in mat[i] /\ j \in mat[col]

(* The rows of the current sweep already visited have their union. *)
VisitedJoined ==
    col < Len => \A r \in 0 .. row - 1 :
                     col \in mat[r] => mat[col] \subseteq mat[r]

(* Nothing is lost from the argument, and no edge is invented: at no step  *)
(* of the in-place update is there an edge outside every transitive        *)
(* relation that contains the argument.                                    *)
Between ==
    pc # "entry" =>
      /\ Abstract!Contains(mat, arg)
      /\ \A t \in Matrix :
            Abstract!Contains(t, arg) /\ Abstract!Transitive(t)
               => Abstract!Contains(t, mat)

ReturnedAtEnd == pc = "return" => col = Len

EntryState == pc = "entry" => col = 0 /\ row = 0

(* The inductive invariant: TypeOK and the four facts about the sweep. *)
IInv == TypeOK /\ EntryState /\ ReturnedAtEnd /\ Between
               /\ SweptJoined /\ VisitedJoined

(* The detailed loop implements the one-step abstract specification. *)
ImplementsClosure == Abstract!Spec
=============================================================================
