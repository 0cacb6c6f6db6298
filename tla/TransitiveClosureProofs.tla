----------------------- MODULE TransitiveClosureProofs -----------------------
(***************************************************************************)
(* For every number of functions, and every call relation among them, the  *)
(* in-place Warshall sweep of src/adlib/bitset.cc returns the least        *)
(* transitive relation that contains its argument, and implements the      *)
(* one-step specification Closure.  The invariant is IInv; its two parts   *)
(* that matter are SweptJoined (for completeness) and Between (soundness). *)
(***************************************************************************)
EXTENDS TransitiveClosure, TLAPS

(* The loop variables and the matrix keep their types. *)
LEMMA TypeInitial == Init => TypeOK
  BY LenAssumption DEF Init, TypeOK, Matrix, NoEdges, Index

LEMMA TypeStep == TypeOK /\ [Next]_vars => TypeOK'
<1> SUFFICES ASSUME TypeOK, [Next]_vars PROVE TypeOK'
  OBVIOUS
<1> USE LenAssumption
<1>1. CASE CloneArg  BY <1>1 DEF CloneArg, TypeOK
<1>2. CASE UnionRow
  <2>1. mat' \in Matrix
    BY <1>2 DEF UnionRow, TypeOK, Matrix, Index
  <2> QED BY <1>2, <2>1 DEF UnionRow, TypeOK
<1>3. CASE SkipRow  BY <1>3 DEF SkipRow, TypeOK
<1>4. CASE NextCol  BY <1>4 DEF NextCol, TypeOK
<1>5. CASE Return  BY <1>5 DEF Return, TypeOK
<1>6. CASE UNCHANGED vars  BY <1>6 DEF vars, TypeOK
<1> QED BY <1>1, <1>2, <1>3, <1>4, <1>5, <1>6 DEF Next

(* Every variable keeps its type in every behaviour of the loop. *)
THEOREM TypeCorrect == Spec => []TypeOK
<1>1. Init => TypeOK  BY TypeInitial
<1>2. TypeOK /\ [Next]_vars => TypeOK'  BY TypeStep
<1> QED BY <1>1, <1>2, PTL DEF Spec

-----------------------------------------------------------------------------
(* What one union does: the visited row gains the row of the column being *)
(* swept, every other row, and that row itself, stay as they are.         *)
LEMMA UnionEffect ==
  ASSUME TypeOK, UnionRow
  PROVE  /\ row \in Index /\ col \in Index /\ col \in mat[row]
         /\ mat'[row] = mat[row] \cup mat[col]
         /\ \A i \in Index : i # row => mat'[i] = mat[i]
         /\ mat'[col] = mat[col]
         /\ \A i \in Index : mat[i] \subseteq mat'[i]
         /\ \A i \in Index : mat[i] \subseteq Index /\ mat'[i] \subseteq Index
<1> USE LenAssumption
<1>1. row \in Index /\ col \in Index /\ col \in mat[row]
  BY DEF TypeOK, UnionRow, Index
<1>2. /\ mat'[row] = mat[row] \cup mat[col]
      /\ \A i \in Index : i # row => mat'[i] = mat[i]
  BY <1>1 DEF TypeOK, UnionRow, Matrix
<1>3. mat'[col] = mat[col]
  BY <1>1, <1>2
<1>4. \A i \in Index : mat[i] \subseteq mat'[i]
  BY <1>1, <1>2
<1>5. \A i \in Index : mat[i] \subseteq Index /\ mat'[i] \subseteq Index
  BY <1>1, <1>2 DEF TypeOK, Matrix
<1> QED BY <1>1, <1>2, <1>3, <1>4, <1>5

(* Joining two edges already joined up to the column being swept: the     *)
(* heart of the algorithm, and where the loop order is used.              *)
LEMMA UnionKeepsSweptJoined ==
  ASSUME TypeOK, SweptJoined, UnionRow
  PROVE  SweptJoined'
<1> USE UnionEffect
<1>1. col' = col /\ col < Len
  BY DEF UnionRow
<1> SUFFICES ASSUME NEW m \in 0 .. col - 1, NEW i \in Index, NEW j \in Index,
                    m \in mat'[i], j \in mat'[m]
             PROVE  j \in mat'[i] \/ (col \in mat'[i] /\ j \in mat'[col])
  BY <1>1 DEF SweptJoined
<1>2. m \in Index
  BY LenAssumption, <1>1 DEF TypeOK, Index
<1>3. \A x \in Index, y \in Index : m \in mat[x] /\ y \in mat[m]
         => y \in mat[x] \/ (col \in mat[x] /\ y \in mat[col])
  BY <1>1 DEF SweptJoined
<1>4. CASE j \in mat[m]
  <2>1. CASE m \in mat[i]
    BY <1>3, <1>4, <2>1
  <2>2. CASE m \notin mat[i]
    <3>1. i = row /\ m \in mat[col]
      BY <2>2
    <3>2. j \in mat[col]
      BY <1>3, <1>4, <3>1
    <3> QED BY <3>1, <3>2
  <2> QED BY <2>1, <2>2
<1>5. CASE j \notin mat[m]
  <2>1. m = row /\ j \in mat[col]
    BY <1>2, <1>5
  <2>2. CASE m \in mat[i]
    <3>1. col \in mat[i]
      BY <1>2, <1>3, <2>1, <2>2
    <3> QED BY <2>1, <3>1
  <2>3. CASE m \notin mat[i]
    <3>1. i = m
      BY <2>1, <2>3
    <3> QED BY <3>1
  <2> QED BY <2>2, <2>3
<1> QED BY <1>4, <1>5

(* A transitive relation above the matrix stays above it after a union. *)
LEMMA UnionKeepsBetween ==
  ASSUME TypeOK, Between, UnionRow
  PROVE  Between'
<1> USE UnionEffect DEF Abstract!Contains
<1>1. pc = "loop" /\ pc' = "loop" /\ arg' = arg
  BY DEF UnionRow
<1>2. Abstract!Contains(mat', arg)
  BY <1>1 DEF Between
<1>3. ASSUME NEW t \in Matrix, Abstract!Contains(t, arg), Abstract!Transitive(t)
      PROVE  Abstract!Contains(t, mat')
  <2>1. Abstract!Contains(t, mat)
    BY <1>1, <1>3 DEF Between
  <2>2. mat[col] \subseteq t[row]
    <3>1. col \in t[row] /\ mat[col] \subseteq t[col]
      BY <2>1
    <3>2. t[col] \subseteq t[row]
      BY <1>3, <3>1 DEF Abstract!Transitive
    <3> QED BY <3>1, <3>2
  <2> QED BY <2>1, <2>2
<1> QED BY <1>1, <1>2, <1>3 DEF Between

LEMMA UnionKeepsVisitedJoined ==
  ASSUME TypeOK, VisitedJoined, UnionRow
  PROVE  VisitedJoined'
<1> USE UnionEffect
<1>1. col' = col /\ row' = row + 1 /\ col < Len /\ row < Len
  BY DEF UnionRow
<1> SUFFICES ASSUME NEW r \in 0 .. row, col \in mat'[r]
             PROVE  mat'[col] \subseteq mat'[r]
  BY <1>1 DEF VisitedJoined, TypeOK
<1>2. CASE r = row
  BY <1>2
<1>3. CASE r # row
  <2>1. r \in 0 .. row - 1 /\ r \in Index
    BY <1>1, <1>3, LenAssumption DEF TypeOK, Index
  <2>2. col \in mat[r] => mat[col] \subseteq mat[r]
    BY <1>1, <2>1 DEF VisitedJoined
  <2> QED BY <1>3, <2>1, <2>2
<1> QED BY <1>2, <1>3

-----------------------------------------------------------------------------
(* At the end of a sweep the column just done moves from the promise (the *)
(* second disjunct of SweptJoined) to the fact (the first).               *)
LEMMA NextColKeepsSweptJoined ==
  ASSUME TypeOK, SweptJoined, VisitedJoined, NextCol
  PROVE  SweptJoined'
<1>1. mat' = mat /\ col' = col + 1 /\ col < Len /\ row = Len
  BY DEF NextCol
<1> SUFFICES ASSUME NEW m \in 0 .. col, NEW i \in Index, NEW j \in Index,
                    m \in mat[i], j \in mat[m]
             PROVE  j \in mat[i]
  BY <1>1 DEF SweptJoined, TypeOK
<1>2. \A r \in Index : col \in mat[r] => mat[col] \subseteq mat[r]
  BY <1>1, LenAssumption DEF VisitedJoined, Index
<1>3. CASE m = col
  BY <1>2, <1>3
<1>4. CASE m # col
  <2>1. m \in 0 .. col - 1
    BY <1>4, <1>1 DEF TypeOK
  <2>2. j \in mat[i] \/ (col \in mat[i] /\ j \in mat[col])
    BY <2>1 DEF SweptJoined
  <2> QED BY <1>2, <2>2
<1> QED BY <1>3, <1>4

LEMMA InvInitial == Init => IInv
<1> SUFFICES ASSUME Init PROVE IInv
  OBVIOUS
<1>1. TypeOK
  BY TypeInitial
<1>2. EntryState /\ ReturnedAtEnd /\ Between
  BY DEF Init, EntryState, ReturnedAtEnd, Between
<1>3. SweptJoined
  BY DEF Init, SweptJoined, NoEdges
<1>4. VisitedJoined
  BY DEF Init, VisitedJoined, NoEdges
<1> QED BY <1>1, <1>2, <1>3, <1>4 DEF IInv

LEMMA InvStep == IInv /\ [Next]_vars => IInv'
<1> SUFFICES ASSUME IInv, [Next]_vars PROVE IInv'
  OBVIOUS
<1> USE LenAssumption
<1>1. TypeOK /\ TypeOK'
  BY TypeStep DEF IInv
<1>2. CASE CloneArg
  <2>1. /\ mat' = arg /\ arg' = arg /\ pc' = "loop"
        /\ col = 0 /\ row = 0 /\ col' = 0 /\ row' = 0
    BY <1>2 DEF CloneArg, IInv, EntryState
  <2>2. EntryState' /\ ReturnedAtEnd'
    BY <2>1 DEF EntryState, ReturnedAtEnd
  <2>3. Between'
    BY <2>1 DEF Between, Abstract!Contains
  <2>4. SweptJoined' /\ VisitedJoined'
    BY <2>1 DEF SweptJoined, VisitedJoined
  <2> QED BY <1>1, <2>2, <2>3, <2>4 DEF IInv
<1>3. CASE UnionRow
  <2>1. EntryState' /\ ReturnedAtEnd'
    BY <1>3 DEF UnionRow, EntryState, ReturnedAtEnd
  <2>2. Between' /\ SweptJoined' /\ VisitedJoined'
    BY <1>3, UnionKeepsBetween, UnionKeepsSweptJoined,
       UnionKeepsVisitedJoined DEF IInv
  <2> QED BY <1>1, <2>1, <2>2 DEF IInv
<1>4. CASE SkipRow
  <2>1. /\ mat' = mat /\ arg' = arg /\ col' = col /\ row' = row + 1
        /\ pc = "loop" /\ pc' = "loop" /\ col \notin mat[row]
    BY <1>4 DEF SkipRow
  <2>2. EntryState' /\ ReturnedAtEnd' /\ SweptJoined'
    BY <2>1 DEF IInv, EntryState, ReturnedAtEnd, SweptJoined
  <2>3. Between'
    BY <2>1 DEF IInv, Between
  <2>4. VisitedJoined'
    <3> SUFFICES ASSUME col < Len, NEW r \in 0 .. row, col \in mat[r]
                 PROVE  mat[col] \subseteq mat[r]
      BY <1>1, <2>1 DEF VisitedJoined, TypeOK
    <3>1. r \in 0 .. row - 1
      BY <1>1, <2>1 DEF TypeOK
    <3> QED BY <3>1 DEF IInv, VisitedJoined
  <2> QED BY <1>1, <2>2, <2>3, <2>4 DEF IInv
<1>5. CASE NextCol
  <2>1. mat' = mat /\ arg' = arg /\ pc = "loop" /\ pc' = "loop" /\ row' = 0
    BY <1>5 DEF NextCol
  <2>2. EntryState' /\ ReturnedAtEnd'
    BY <2>1 DEF EntryState, ReturnedAtEnd
  <2>3. Between'
    BY <2>1 DEF IInv, Between
  <2>4. SweptJoined'
    BY <1>5, NextColKeepsSweptJoined DEF IInv
  <2>5. VisitedJoined'
    BY <2>1 DEF VisitedJoined
  <2> QED BY <1>1, <2>2, <2>3, <2>4, <2>5 DEF IInv
<1>6. CASE Return
  <2>1. /\ mat' = mat /\ arg' = arg /\ col' = col /\ row' = row
        /\ pc = "loop" /\ pc' = "return" /\ col = Len
    BY <1>6 DEF Return
  <2>2. EntryState' /\ ReturnedAtEnd' /\ SweptJoined' /\ VisitedJoined'
    BY <2>1 DEF IInv, EntryState, ReturnedAtEnd, SweptJoined, VisitedJoined
  <2>3. Between'
    BY <2>1 DEF IInv, Between
  <2> QED BY <1>1, <2>2, <2>3 DEF IInv
<1>7. CASE UNCHANGED vars
  BY <1>1, <1>7 DEF vars, IInv, EntryState, ReturnedAtEnd, Between,
     SweptJoined, VisitedJoined
<1> QED BY <1>2, <1>3, <1>4, <1>5, <1>6, <1>7 DEF Next

(* The inductive invariant holds throughout. *)
THEOREM InvCorrect == Spec => []IInv
<1>1. Init => IInv  BY InvInitial
<1>2. IInv /\ [Next]_vars => IInv'  BY InvStep
<1> QED BY <1>1, <1>2, PTL DEF Spec

(* At the return nothing is left to promise: every swept node is joined,  *)
(* and every node has been swept.                                         *)
LEMMA InvImpliesClosure == IInv => ReturnsClosure
<1> SUFFICES ASSUME IInv, pc = "return" PROVE Abstract!IsClosureOf(mat, arg)
  BY DEF ReturnsClosure
<1>1. col = Len /\ mat \in Matrix
  BY DEF IInv, ReturnedAtEnd, TypeOK
<1>2. Abstract!Transitive(mat)
  <2> SUFFICES ASSUME NEW i \in Index, NEW m \in mat[i], NEW j \in mat[m]
               PROVE  j \in mat[i]
    BY DEF Abstract!Transitive
  <2>1. m \in Index /\ j \in Index /\ m \in 0 .. col - 1
    BY <1>1 DEF Matrix, Index
  <2> QED BY <1>1, <2>1, LenAssumption DEF IInv, SweptJoined
<1>3. Abstract!Relation = Matrix
  BY DEF Abstract!Relation, Matrix
<1> QED BY <1>2, <1>3 DEF IInv, Between, Abstract!IsClosureOf

(* What BuildCallGraph gets back is the least transitive relation that    *)
(* contains the direct calls, whatever they are and however many          *)
(* functions there are.                                                   *)
THEOREM ClosureCorrect == Spec => []ReturnsClosure
<1>1. IInv => ReturnsClosure  BY InvImpliesClosure
<1> QED BY <1>1, InvCorrect, PTL

-----------------------------------------------------------------------------
LEMMA RefinesInitial == Init => Abstract!Init
  BY DEF Init, Abstract!Init, Abstract!Relation, Matrix, NoEdges

LEMMA RefinesStep ==
  IInv /\ ReturnsClosure' /\ [Next]_vars => [Abstract!Next]_(Abstract!vars)
<1> SUFFICES ASSUME IInv, ReturnsClosure', [Next]_vars
             PROVE  [Abstract!Next]_(Abstract!vars)
  OBVIOUS
<1> USE DEF Abstract!vars
<1>1. CASE CloneArg  BY <1>1 DEF CloneArg
<1>2. CASE UnionRow  BY <1>2 DEF UnionRow
<1>3. CASE SkipRow  BY <1>3 DEF SkipRow
<1>4. CASE NextCol  BY <1>4 DEF NextCol
<1>5. CASE Return
  <2>1. pc = "loop" /\ pc' = "return" /\ mat' = mat /\ arg' = arg
    BY <1>5 DEF Return
  <2>2. Abstract!IsClosureOf(mat, arg) /\ mat \in Abstract!Relation
    BY <2>1 DEF ReturnsClosure, Abstract!Relation, IInv, TypeOK, Matrix
  <2> QED BY <2>1, <2>2 DEF Abstract!Next, Abstract!Answer
<1>6. CASE UNCHANGED vars  BY <1>6 DEF vars
<1> QED BY <1>1, <1>2, <1>3, <1>4, <1>5, <1>6 DEF Next

(* The loop implements the one-step specification. *)
THEOREM ClosureRefined == Spec => ImplementsClosure
<1>1. Init => Abstract!Init  BY RefinesInitial
<1>2. IInv /\ ReturnsClosure' /\ [Next]_vars => [Abstract!Next]_(Abstract!vars)
  BY RefinesStep
<1> QED BY <1>1, <1>2, InvCorrect, ClosureCorrect, PTL DEF Spec, ImplementsClosure, Abstract!Spec
=============================================================================
