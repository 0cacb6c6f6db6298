------------------------- MODULE CallAnalysisProofs -------------------------
(***************************************************************************)
(* For any inline functions, calls and sections: the names Main redirects  *)
(* are needed (RedirectsOnlyNeeded), and when no two definitions share a   *)
(* name they are all the needed ones (RedirectsExactly).  Indexes, bit     *)
(* matrices and closures are the code's; names, Calls and Reaches the      *)
(* meaning.  The lemmas of the first part tie the two together; the second *)
(* part follows the phases.                                                *)
(***************************************************************************)
EXTENDS CallAnalysis, WellFoundedInduction, TLAPS

(* The loop of bitset.cc, with its theorems, at the size of this call. *)
TC == INSTANCE TransitiveClosureProofs WITH Len <- NFuncs

LEMMA SameInv == CallGraph!IInv <=> TC!IInv
  BY DEF CallGraph!IInv, TC!IInv, CallGraph!TypeOK, TC!TypeOK,
     CallGraph!EntryState, TC!EntryState,
     CallGraph!ReturnedAtEnd, TC!ReturnedAtEnd,
     CallGraph!Between, TC!Between, CallGraph!SweptJoined, TC!SweptJoined,
     CallGraph!VisitedJoined, TC!VisitedJoined,
     CallGraph!Matrix, TC!Matrix, CallGraph!Index, TC!Index,
     CallGraph!Abstract!Contains, TC!Abstract!Contains,
     CallGraph!Abstract!Transitive, TC!Abstract!Transitive

LEMMA SameNext == CallGraph!Next <=> TC!Next
  BY DEF CallGraph!Next, TC!Next, CallGraph!CloneArg, TC!CloneArg,
     CallGraph!UnionRow, TC!UnionRow, CallGraph!SkipRow, TC!SkipRow,
     CallGraph!NextCol, TC!NextCol, CallGraph!Return, TC!Return

(* A step of the closure loop keeps the invariant of the closure loop. *)
LEMMA CloseKeeps == CallGraph!IInv /\ CallGraph!Next => CallGraph!IInv'
<1>1. TC!IInv /\ [TC!Next]_(TC!vars) => TC!IInv'
  BY NFuncsAssumption, TC!InvStep
<1>2. (CallGraph!IInv <=> TC!IInv)'
  BY SameInv, PTL
<1> QED BY <1>1, <1>2, SameInv, SameNext

(* Calling TransitiveClosure establishes it. *)
LEMMA CallStarts ==
  ASSUME arg \in CallGraph!Matrix, mat = CallGraph!NoEdges,
         col = 0, row = 0, pc = "entry"
  PROVE  CallGraph!IInv
<1>1. TC!Init
  BY DEF TC!Init, TC!NoEdges, TC!Matrix, TC!Index,
     CallGraph!NoEdges, CallGraph!Matrix, CallGraph!Index
<1>2. TC!Init => TC!IInv
  BY NFuncsAssumption, TC!InvInitial
<1> QED BY <1>1, <1>2, SameInv

(* What a finished call leaves: the least transitive relation above arg. *)
LEMMA CallReturns ==
  ASSUME CallGraph!IInv, pc = "return"
  PROVE  /\ arg \in [Func -> SUBSET Func] /\ mat \in [Func -> SUBSET Func]
         /\ \A f \in Func : arg[f] \subseteq mat[f]
         /\ \A f \in Func : \A g \in mat[f] : mat[g] \subseteq mat[f]
         /\ \A t \in [Func -> SUBSET Func] :
              /\ \A f \in Func : arg[f] \subseteq t[f]
              /\ \A f \in Func : \A g \in t[f] : t[g] \subseteq t[f]
              => \A f \in Func : mat[f] \subseteq t[f]
<1>1. TC!IInv /\ pc = "return"
  BY SameInv
<1>2. TC!Abstract!IsClosureOf(mat, arg)
  BY <1>1, NFuncsAssumption, TC!InvImpliesClosure DEF TC!ReturnsClosure
<1>3. arg \in [Func -> SUBSET Func] /\ mat \in [Func -> SUBSET Func]
  BY <1>1 DEF TC!IInv, TC!TypeOK, TC!Matrix, TC!Index, Func
<1> QED BY <1>2, <1>3
        DEF TC!Abstract!IsClosureOf, TC!Abstract!Contains,
            TC!Abstract!Transitive, TC!Abstract!Relation, TC!Index, Func

-----------------------------------------------------------------------------
(* Map::add keeps the first definition, and there is a first one. *)
LEMMA FindFinds ==
  ASSUME NEW n \in FuncNames(Func)
  PROVE  Find(Func, n) \in Func /\ fname[Find(Func, n)] = n
<1> DEFINE T == {f \in Func : fname[f] = n}
<1>1. T \subseteq Nat /\ T # {}
  BY NFuncsAssumption DEF FuncNames, Func
<1>2. PICK f \in T : \A g \in T : ~(<<g, f>> \in OpToRel(<, Nat))
  BY <1>1, NatLessThanWellFounded, WFMin
<1>3. \A g \in T : f <= g
  <2> TAKE g \in T
  <2>1. f \in Nat /\ g \in Nat /\ ~(g < f)
    BY <1>1, <1>2 DEF OpToRel
  <2> QED BY <2>1
<1> QED BY <1>2, <1>3 DEF Find

(* An edge of the code's graph is a call between the two names. *)
LEMMA EdgeIsCall ==
  ASSUME NEW f \in Func, NEW g \in DirectCalls[f]
  PROVE  g \in Func /\ Calls(fname[f], fname[g])
<1>1. PICK n \in body[f] \cap FuncNames(Func) : g = Find(Func, n)
  BY DEF DirectCalls
<1> QED BY <1>1, FindFinds DEF Calls

(* With distinct names, a call between two names is an edge. *)
LEMMA CallIsEdge ==
  ASSUME UniqueNames, NEW f \in Func, NEW g \in Func,
         Calls(fname[f], fname[g])
  PROVE  g \in DirectCalls[f]
<1>1. fname[g] \in body[f] \cap FuncNames(Func)
  BY DEF Calls, UniqueNames, FuncNames
<1>2. Find(Func, fname[g]) = g
  BY <1>1, FindFinds DEF UniqueNames
<1> QED BY <1>1, <1>2 DEF DirectCalls

LEMMA DirectCallsType == DirectCalls \in [Func -> SUBSET Func]
  BY EdgeIsCall DEF DirectCalls

LEMMA ReachesRefl == \A a : Reaches(a, a)
  BY DEF Reaches

LEMMA ReachesTrans ==
  ASSUME NEW a, NEW b, NEW c, Reaches(a, b), Reaches(b, c)
  PROVE  Reaches(a, c)
  BY DEF Reaches

LEMMA CallReaches ==
  ASSUME NEW a, NEW b \in FuncNames(Func), Calls(a, b)
  PROVE  Reaches(a, b)
  BY DEF Reaches

(* The closed graph of callers: its rows are what a function reaches. *)
LEMMA CallersSound ==
  ASSUME CallGraph!IInv, pc = "return", arg = DirectCalls,
         NEW f \in Func, NEW g \in mat[f]
  PROVE  g \in Func /\ Reaches(fname[f], fname[g])
<1> DEFINE t == [i \in Func |-> {j \in Func : Reaches(fname[i], fname[j])}]
<1>1. \A i \in Func : arg[i] \subseteq t[i]
  <2> SUFFICES ASSUME NEW i \in Func, NEW j \in arg[i] PROVE j \in t[i]
    OBVIOUS
  <2>1. j \in Func /\ Calls(fname[i], fname[j])
    BY EdgeIsCall
  <2> QED BY <2>1, CallReaches DEF FuncNames
<1>2. \A i \in Func : \A j \in t[i] : t[j] \subseteq t[i]
  BY ReachesTrans
<1>3. t \in [Func -> SUBSET Func]
  OBVIOUS
<1>4. mat[f] \subseteq t[f]
  <2> HIDE DEF t
  <2> QED BY <1>1, <1>2, <1>3, CallReturns
<1> QED BY <1>4

LEMMA CallersComplete ==
  ASSUME CallGraph!IInv, pc = "return", arg = DirectCalls, UniqueNames,
         NEW f \in Func, NEW g \in Func, Reaches(fname[f], fname[g])
  PROVE  g = f \/ g \in mat[f]
<1> DEFINE s == {fname[x] : x \in {f} \cup mat[f]}
<1>1. mat[f] \subseteq Func
  BY CallReturns
<1>2. s \in SUBSET FuncNames(Func) /\ fname[f] \in s
  BY <1>1 DEF FuncNames
<1>3. ASSUME NEW a \in s, NEW b \in FuncNames(Func), Calls(a, b)
      PROVE  b \in s
  <2>1. PICK x \in {f} \cup mat[f] : a = fname[x]
    OBVIOUS
  <2>2. PICK y \in Func : b = fname[y]
    BY DEF FuncNames
  <2>3. y \in mat[x] /\ x \in Func
    BY <1>1, <1>3, <2>1, <2>2, CallIsEdge, CallReturns
  <2>4. y \in mat[f]
    BY <2>1, <2>3, CallReturns
  <2> QED BY <2>2, <2>4
<1>4. fname[g] \in s
  <2> HIDE DEF s
  <2> QED BY <1>2, <1>3 DEF Reaches
<1> QED BY <1>1, <1>4 DEF UniqueNames

(* The closed graph of callees: its rows are what reaches a function. *)
LEMMA CalleesSound ==
  ASSUME CallGraph!IInv, pc = "return", calls = DirectCalls,
         arg = CalleesMatrix, NEW f \in Func, NEW g \in mat[f]
  PROVE  g \in Func /\ Reaches(fname[g], fname[f])
<1> DEFINE t == [i \in Func |-> {j \in Func : Reaches(fname[j], fname[i])}]
<1>1. \A i \in Func : arg[i] \subseteq t[i]
  <2> SUFFICES ASSUME NEW i \in Func, NEW j \in arg[i] PROVE j \in t[i]
    OBVIOUS
  <2>1. j \in Func /\ i \in DirectCalls[j]
    BY DEF CalleesMatrix
  <2>2. Calls(fname[j], fname[i])
    BY <2>1, EdgeIsCall
  <2> QED BY <2>1, <2>2, CallReaches DEF FuncNames
<1>2. \A i \in Func : \A j \in t[i] : t[j] \subseteq t[i]
  BY ReachesTrans
<1>3. t \in [Func -> SUBSET Func]
  OBVIOUS
<1>4. mat[f] \subseteq t[f]
  <2> HIDE DEF t
  <2> QED BY <1>1, <1>2, <1>3, CallReturns
<1> QED BY <1>4

LEMMA CalleesComplete ==
  ASSUME CallGraph!IInv, pc = "return", calls = DirectCalls,
         arg = CalleesMatrix, UniqueNames,
         NEW f \in Func, NEW g \in Func, Reaches(fname[g], fname[f])
  PROVE  g = f \/ g \in mat[f]
<1> DEFINE s == {fname[x] : x \in Func \ ({f} \cup mat[f])}
<1>1. mat[f] \subseteq Func
  BY CallReturns
<1> SUFFICES ASSUME g \notin {f} \cup mat[f] PROVE FALSE
  OBVIOUS
<1>2. s \in SUBSET FuncNames(Func) /\ fname[g] \in s
  BY DEF FuncNames
<1>3. ASSUME NEW a \in s, NEW b \in FuncNames(Func), Calls(a, b)
      PROVE  b \in s
  <2>1. PICK x \in Func \ ({f} \cup mat[f]) : a = fname[x]
    OBVIOUS
  <2>2. PICK y \in Func : b = fname[y]
    BY DEF FuncNames
  <2>3. x \in arg[y]
    BY <1>3, <2>1, <2>2, CallIsEdge DEF CalleesMatrix
  <2>4. x \in mat[y]
    BY <2>3, CallReturns
  <2>5. y \notin {f} \cup mat[f]
    BY <2>1, <2>4, CallReturns
  <2> QED BY <2>2, <2>5
<1>4. fname[f] \in s
  <2> HIDE DEF s
  <2> QED BY <1>2, <1>3 DEF Reaches
<1> QED BY <1>4 DEF UniqueNames

(* Step 3: the functions the callee graph gives for the roots are guarded, *)
(* and with distinct names they are all the guarded ones.                  *)
LEMMA WardCorrect ==
  ASSUME CallGraph!IInv, pc = "return", calls = DirectCalls,
         arg = CalleesMatrix
  PROVE  /\ FindAllCalls(Roots) \in SUBSET Func
         /\ \A f \in FindAllCalls(Roots) : Guarded(fname[f])
         /\ UniqueNames => \A f \in Func :
                              Guarded(fname[f]) => f \in FindAllCalls(Roots)
<1>1. ASSUME NEW f \in FindAllCalls(Roots)
      PROVE  f \in Func /\ Guarded(fname[f])
  <2>1. PICK r \in Func : fname[r] \in Roots /\ (f = r \/ f \in mat[r])
    BY <1>1 DEF FindAllCalls
  <2>2. f \in Func /\ Reaches(fname[f], fname[r])
    BY <2>1, CalleesSound, ReachesRefl
  <2> QED BY <2>1, <2>2 DEF Guarded, FuncNames
<1>2. ASSUME UniqueNames, NEW f \in Func, Guarded(fname[f])
      PROVE  f \in FindAllCalls(Roots)
  <2>1. PICK r \in Func : fname[r] \in Roots /\ Reaches(fname[f], fname[r])
    BY <1>2 DEF Guarded, FuncNames
  <2>2. f = r \/ f \in mat[r]
    BY <1>2, <2>1, CalleesComplete
  <2> QED BY <2>1, <2>2 DEF FindAllCalls
<1> QED BY <1>1, <1>2

(* Step 5: the functions the caller graph gives for the section calls. *)
LEMMA UsedCorrect ==
  ASSUME CallGraph!IInv, pc = "return", arg = DirectCalls,
         used = section \cap FuncNames(ward), ward \in SUBSET Func,
         UniqueNames => \A f \in Func : Guarded(fname[f]) => f \in ward
  PROVE  /\ \A n \in FuncNames(FindAllCalls(used)) :
                n \in FuncNames(Func) /\ SectionReaches(n)
         /\ UniqueNames => \A n \in FuncNames(Func) :
                SectionReaches(n) /\ Guarded(n)
                   => n \in FuncNames(FindAllCalls(used))
<1>1. ASSUME NEW n \in FuncNames(FindAllCalls(used))
      PROVE  n \in FuncNames(Func) /\ SectionReaches(n)
  <2>1. PICK f \in FindAllCalls(used) : n = fname[f]
    BY <1>1 DEF FuncNames
  <2>2. PICK g \in Func : fname[g] \in used /\ (f = g \/ f \in mat[g])
    BY <2>1 DEF FindAllCalls
  <2>3. f \in Func /\ Reaches(fname[g], n)
    BY <2>1, <2>2, CallersSound, ReachesRefl
  <2> QED BY <2>1, <2>2, <2>3 DEF SectionReaches, FuncNames
<1>2. ASSUME UniqueNames, NEW n \in FuncNames(Func),
             SectionReaches(n), Guarded(n)
      PROVE  n \in FuncNames(FindAllCalls(used))
  <2>1. PICK f \in Func : n = fname[f]
    BY <1>2 DEF FuncNames
  <2>2. PICK s \in section \cap FuncNames(Func) : Reaches(s, n)
    BY <1>2 DEF SectionReaches
  <2>3. PICK g \in Func : s = fname[g]
    BY <2>2 DEF FuncNames
  <2>4. Guarded(fname[g])
    BY <1>2, <2>2, <2>3, ReachesTrans DEF Guarded
  <2>5. fname[g] \in used
    BY <1>2, <2>2, <2>3, <2>4 DEF FuncNames
  <2>6. f = g \/ f \in mat[g]
    BY <1>2, <2>1, <2>2, <2>3, CallersComplete
  <2>7. f \in FindAllCalls(used)
    BY <2>1, <2>5, <2>6 DEF FindAllCalls
  <2> QED BY <2>1, <2>7 DEF FuncNames
<1> QED BY <1>1, <1>2

(* The meaning of the input does not change while it is analysed. *)
LEMMA SameMeaning ==
  ASSUME UNCHANGED input
  PROVE  /\ FuncNames(Func)' = FuncNames(Func)
         /\ UniqueNames' <=> UniqueNames
         /\ DirectCalls' = DirectCalls
         /\ \A a : Guarded(a)' <=> Guarded(a)
         /\ \A a : SectionReaches(a)' <=> SectionReaches(a)
         /\ Needed' = Needed
<1>1. fname' = fname /\ body' = body /\ section' = section
  BY DEF input
<1>2. FuncNames(Func)' = FuncNames(Func)
  BY <1>1 DEF FuncNames
<1>3. UniqueNames' <=> UniqueNames
  BY <1>1 DEF UniqueNames
<1>4. DirectCalls' = DirectCalls
  BY <1>1 DEF DirectCalls, Find, FuncNames
<1>5. \A a, b : Calls(a, b)' <=> Calls(a, b)
  BY <1>1 DEF Calls
<1>6. \A a, b : Reaches(a, b)' <=> Reaches(a, b)
  BY <1>2, <1>5 DEF Reaches
<1>7. \A a : Guarded(a)' <=> Guarded(a)
  BY <1>2, <1>6 DEF Guarded
<1>8. \A a : SectionReaches(a)' <=> SectionReaches(a)
  BY <1>1, <1>2, <1>6 DEF SectionReaches
<1>9. Needed' = Needed
  BY <1>2, <1>7, <1>8 DEF Needed
<1> QED BY <1>2, <1>3, <1>4, <1>7, <1>8, <1>9

-----------------------------------------------------------------------------
LEMMA InvInitial == Init => IInv
<1> SUFFICES ASSUME Init PROVE IInv
  OBVIOUS
<1>1. CallGraph!NoEdges \in CallGraph!Matrix
  BY DEF CallGraph!NoEdges, CallGraph!Matrix
<1>2. CallGraph!IInv
  BY <1>1, CallStarts DEF Init
<1>3. TypeOK
  BY <1>2 DEF Init, TypeOK, Phases, CallGraph!IInv
<1>4. /\ CallsKnown /\ ClosingRight /\ WardRight /\ SectionsRight
      /\ UsedRight /\ RedirectsOnlyNeeded /\ RedirectsExactly
  BY DEF Init, CallsKnown, ClosingRight, WardRight, SectionsRight,
     UsedRight, RedirectsOnlyNeeded, RedirectsExactly
<1> QED BY <1>2, <1>3, <1>4 DEF IInv, PhaseInv

(* Preparing a call of TransitiveClosure. *)
LEMMA BuildStarts ==
  ASSUME NEW edges \in [Func -> SUBSET Func], BuildCallGraph(edges)
  PROVE  CallGraph!IInv'
<1>1. /\ arg' \in CallGraph!Matrix /\ mat' = CallGraph!NoEdges
      /\ col' = 0 /\ row' = 0 /\ pc' = "entry"
  BY DEF BuildCallGraph, CallGraph!Matrix, CallGraph!Index, Func
<1>2. ( arg \in CallGraph!Matrix /\ mat = CallGraph!NoEdges
        /\ col = 0 /\ row = 0 /\ pc = "entry" => CallGraph!IInv )'
  BY CallStarts, PTL
<1> QED BY <1>1, <1>2 DEF CallGraph!NoEdges, CallGraph!Index

(* Every step but a step of the loop or a call of it leaves it alone. *)
LEMMA GraphKept == CallGraph!IInv /\ UNCHANGED graph => CallGraph!IInv'
<1>1. TC!IInv /\ [TC!Next]_(TC!vars) => TC!IInv'
  BY NFuncsAssumption, TC!InvStep
<1>2. UNCHANGED graph => UNCHANGED TC!vars
  BY DEF graph, TC!vars
<1>3. (CallGraph!IInv <=> TC!IInv)'
  BY SameInv, PTL
<1> QED BY <1>1, <1>2, <1>3, SameInv

(* The loop's invariant, in every step. *)
LEMMA GraphStep == IInv /\ [Next]_vars => CallGraph!IInv'
<1> SUFFICES ASSUME IInv, [Next]_vars PROVE CallGraph!IInv'
  OBVIOUS
<1>1. CallGraph!IInv /\ calls \in [Func -> SUBSET Func]
  BY DEF IInv, PhaseInv, TypeOK
<1>2. CASE UNCHANGED graph
  BY <1>1, <1>2, GraphKept
<1>3. CASE BuildCallees
  <2>1. CalleesMatrix \in [Func -> SUBSET Func]
    BY DEF CalleesMatrix
  <2> QED BY <1>3, <2>1, BuildStarts DEF BuildCallees
<1>4. CASE BuildCallers
  BY <1>1, <1>4, BuildStarts DEF BuildCallers, CallersMatrix
<1>5. CASE Close
  BY <1>1, <1>5, CloseKeeps DEF Close
<1>6. UNCHANGED vars => UNCHANGED graph
  BY DEF vars
<1>7. ASSUME FindCalls \/ FindWardFuncs \/ FindSectionCalls \/ FindUsedFuncs
             \/ RemoveHarmless
      PROVE  UNCHANGED graph
  BY <1>7 DEF FindCalls, FindWardFuncs, FindSectionCalls, FindUsedFuncs,
              RemoveHarmless
<1> QED BY <1>2, <1>3, <1>4, <1>5, <1>6, <1>7 DEF Next

LEMMA TypeStep == IInv /\ [Next]_vars => TypeOK'
<1> SUFFICES ASSUME IInv, [Next]_vars PROVE TypeOK'
  OBVIOUS
<1>1. TypeOK /\ CallGraph!IInv
  BY DEF IInv, PhaseInv
<1>2. CallGraph!TypeOK'
  BY GraphStep DEF CallGraph!IInv
<1> USE <1>1, <1>2 DEF TypeOK
<1>3. CASE FindCalls
  BY <1>3, DirectCallsType DEF FindCalls, input, Phases, Closing
<1>4. CASE BuildCallees
  BY <1>4 DEF BuildCallees, input, Phases, Closing
<1>5. CASE FindWardFuncs
  <2>1. FindAllCalls(Roots) \in SUBSET Func
    BY <1>5, WardCorrect
       DEF FindWardFuncs, IInv, PhaseInv, CallsKnown, ClosingRight
  <2> QED BY <1>5, <2>1 DEF FindWardFuncs, input, Phases
<1>6. CASE FindSectionCalls
  BY <1>6 DEF FindSectionCalls, input, Phases
<1>7. CASE BuildCallers
  BY <1>7 DEF BuildCallers, input, Phases, Closing
<1>8. CASE FindUsedFuncs
  <2>1. /\ used = section \cap FuncNames(ward) /\ arg = DirectCalls
        /\ UniqueNames => \A f \in Func : Guarded(fname[f]) => f \in ward
    BY <1>8 DEF FindUsedFuncs, IInv, PhaseInv, SectionsRight, ClosingRight,
                WardRight, CallersMatrix, CallsKnown
  <2>2. FuncNames(FindAllCalls(used)) \subseteq FuncNames(Func)
    BY <1>8, <2>1, UsedCorrect DEF FindUsedFuncs
  <2>3. FuncNames(Func) \subseteq Name
    BY DEF FuncNames
  <2> QED BY <1>8, <2>2, <2>3 DEF FindUsedFuncs, input, Phases
<1>9. CASE RemoveHarmless
  BY <1>9 DEF RemoveHarmless, input, Phases
<1>10. CASE Close
  BY <1>10 DEF Close, input
<1>11. CASE UNCHANGED vars
  BY <1>11 DEF vars, input
<1> QED BY <1>3, <1>4, <1>5, <1>6, <1>7, <1>8, <1>9, <1>10, <1>11 DEF Next

(* Each phase leaves behind what the next one relies on. *)
LEMMA PhaseStep == IInv /\ [Next]_vars => PhaseInv'
<1> SUFFICES ASSUME IInv, [Next]_vars PROVE PhaseInv'
  OBVIOUS
<1> DEFINE Frame == /\ CallsKnown' /\ ClosingRight' /\ WardRight'
                    /\ SectionsRight' /\ UsedRight'
                    /\ RedirectsOnlyNeeded' /\ RedirectsExactly'
<1>1. TypeOK'
  BY TypeStep
<1>2. /\ TypeOK /\ CallsKnown /\ ClosingRight /\ WardRight
      /\ SectionsRight /\ UsedRight /\ RedirectsOnlyNeeded
      /\ RedirectsExactly /\ CallGraph!IInv
  BY DEF IInv, PhaseInv
<1>3. UNCHANGED input
  BY DEF Next, vars, input, FindCalls, BuildCallees, FindWardFuncs,
         FindSectionCalls, BuildCallers, FindUsedFuncs, RemoveHarmless, Close
<1> USE DEF CallsKnown, ClosingRight, WardRight, SectionsRight, UsedRight,
            RedirectsOnlyNeeded, RedirectsExactly
<1>4. CASE FindCalls
  <2>1. phase' = "callees" /\ calls' = DirectCalls'
    BY <1>3, <1>4, SameMeaning DEF FindCalls
  <2>2. Frame
    BY <2>1
  <2> QED BY <1>1, <2>2 DEF PhaseInv
<1>5. CASE BuildCallees
  <2>1. /\ phase' = "closing callees" /\ calls' = DirectCalls'
        /\ arg' = CalleesMatrix'
    BY <1>2, <1>3, <1>5, SameMeaning
       DEF BuildCallees, BuildCallGraph, CalleesMatrix
  <2>2. Frame
    BY <2>1
  <2> QED BY <1>1, <2>2 DEF PhaseInv
<1>6. CASE FindWardFuncs
  <2>1. phase' = "sections" /\ calls' = DirectCalls'
    BY <1>2, <1>3, <1>6, SameMeaning DEF FindWardFuncs
  <2>2. /\ \A f \in ward' : Guarded(fname[f])
        /\ UniqueNames => \A f \in Func : Guarded(fname[f]) => f \in ward'
    BY <1>2, <1>6, WardCorrect DEF FindWardFuncs
  <2>3. WardRight'
    BY <1>3, <2>2, SameMeaning DEF input
  <2>4. Frame
    BY <2>1, <2>3
  <2> QED BY <1>1, <2>4 DEF PhaseInv
<1>7. CASE FindSectionCalls
  <2>1. /\ phase = "sections" /\ phase' = "callers" /\ calls' = DirectCalls'
        /\ ward' = ward
    BY <1>2, <1>3, <1>7, SameMeaning DEF FindSectionCalls
  <2>2. WardRight'
    BY <1>2, <1>3, <2>1, SameMeaning DEF input
  <2>3. SectionsRight'
    BY <1>3, <1>7, <2>1 DEF FindSectionCalls, input, FuncNames
  <2>4. Frame
    BY <2>1, <2>2, <2>3
  <2> QED BY <1>1, <2>4 DEF PhaseInv
<1>8. CASE BuildCallers
  <2>1. /\ phase = "callers" /\ phase' = "closing callers"
        /\ calls' = DirectCalls' /\ ward' = ward /\ used' = used
        /\ arg' = CallersMatrix'
    BY <1>2, <1>3, <1>8, SameMeaning
       DEF BuildCallers, BuildCallGraph, CallersMatrix
  <2>2. WardRight'
    BY <1>2, <1>3, <2>1, SameMeaning DEF input
  <2>3. SectionsRight'
    BY <1>2, <1>3, <2>1 DEF input, FuncNames
  <2>4. Frame
    BY <2>1, <2>2, <2>3
  <2> QED BY <1>1, <2>4 DEF PhaseInv
<1>9. CASE FindUsedFuncs
  <2>1. /\ phase = "closing callers" /\ phase' = "used"
        /\ calls' = DirectCalls' /\ ward' = ward
        /\ used' = FuncNames(FindAllCalls(used)) /\ pc = "return"
    BY <1>2, <1>3, <1>9, SameMeaning DEF FindUsedFuncs
  <2>2. WardRight'
    BY <1>2, <1>3, <2>1, SameMeaning DEF input
  <2>3. /\ \A n \in used' : n \in FuncNames(Func) /\ SectionReaches(n)
        /\ UniqueNames => \A n \in FuncNames(Func) :
              SectionReaches(n) /\ Guarded(n) => n \in used'
    BY <1>2, <2>1, UsedCorrect DEF CallersMatrix, TypeOK
  <2>4. UsedRight'
    BY <1>3, <2>3, SameMeaning
  <2>5. Frame
    BY <2>1, <2>2, <2>4
  <2> QED BY <1>1, <2>5 DEF PhaseInv
<1>10. CASE RemoveHarmless
  <2>1. /\ phase = "used" /\ phase' = "done" /\ calls' = DirectCalls'
        /\ used' = (used \cap FuncNames(ward)) \ Blacklist
    BY <1>2, <1>3, <1>10, SameMeaning DEF RemoveHarmless
  <2>2. used' \subseteq Needed
    BY <1>2, <2>1 DEF Needed, FuncNames
  <2>3. UniqueNames => Needed \subseteq used'
    <3> SUFFICES ASSUME UniqueNames, NEW n \in Needed PROVE n \in used'
      OBVIOUS
    <3>1. PICK f \in Func : n = fname[f]
      BY DEF Needed, FuncNames
    <3>2. Guarded(n) /\ SectionReaches(n) /\ n \in FuncNames(Func)
          /\ n \notin Blacklist
      BY DEF Needed
    <3>3. n \in used /\ n \in FuncNames(ward)
      BY <1>2, <2>1, <3>1, <3>2 DEF FuncNames
    <3> QED BY <2>1, <3>2, <3>3
  <2>4. RedirectsOnlyNeeded' /\ RedirectsExactly'
    BY <1>3, <2>2, <2>3, SameMeaning
  <2>5. Frame
    BY <2>1, <2>4
  <2> QED BY <1>1, <2>5 DEF PhaseInv
<1>11. CASE Close
  <2>1. /\ phase \in Closing /\ phase' = phase /\ calls' = calls
        /\ ward' = ward /\ used' = used /\ arg' = arg
    BY <1>11 DEF Close, CallGraph!Next, CallGraph!CloneArg, CallGraph!UnionRow,
                 CallGraph!SkipRow, CallGraph!NextCol, CallGraph!Return
  <2>2. CallsKnown' /\ ClosingRight'
    BY <1>2, <1>3, <2>1, SameMeaning DEF CalleesMatrix, CallersMatrix, Closing
  <2>3. WardRight'
    BY <1>2, <1>3, <2>1, SameMeaning DEF input, Closing
  <2>4. SectionsRight'
    BY <1>2, <1>3, <2>1 DEF input, FuncNames, Closing
  <2>5. Frame
    BY <2>1, <2>2, <2>3, <2>4 DEF Closing
  <2> QED BY <1>1, <2>5 DEF PhaseInv
<1>12. CASE UNCHANGED vars
  <2>1. /\ phase' = phase /\ calls' = calls /\ ward' = ward /\ used' = used
        /\ arg' = arg
    BY <1>12 DEF vars, graph
  <2>2. CallsKnown' /\ ClosingRight'
    BY <1>2, <1>3, <2>1, SameMeaning DEF CalleesMatrix, CallersMatrix
  <2>3. WardRight' /\ UsedRight' /\ RedirectsOnlyNeeded' /\ RedirectsExactly'
    BY <1>2, <1>3, <2>1, SameMeaning DEF input
  <2>4. SectionsRight'
    BY <1>2, <1>3, <2>1 DEF input, FuncNames
  <2> QED BY <1>1, <2>2, <2>3, <2>4 DEF PhaseInv
<1> QED BY <1>4, <1>5, <1>6, <1>7, <1>8, <1>9, <1>10, <1>11, <1>12 DEF Next

(* The inductive invariant of the analysis holds throughout. *)
THEOREM InvCorrect == Spec => []IInv
<1>1. Init => IInv  BY InvInitial
<1>2. IInv /\ [Next]_vars => IInv'
  BY GraphStep, PhaseStep DEF IInv
<1> QED BY <1>1, <1>2, PTL DEF Spec

(* main.cc, Steps 3, 5 and 6: when no two inline functions share a name,  *)
(* the redirected names are exactly those that an unprotected section     *)
(* reaches and that reach a root, directly or indirectly.                 *)
THEOREM RedirectsCorrect == Spec => []RedirectsExactly
<1>1. IInv => RedirectsExactly  BY DEF IInv, PhaseInv
<1> QED BY <1>1, InvCorrect, PTL

(* And whatever the definitions, nothing is redirected without need. *)
THEOREM RedirectsSound == Spec => []RedirectsOnlyNeeded
<1>1. IInv => RedirectsOnlyNeeded  BY DEF IInv, PhaseInv
<1> QED BY <1>1, InvCorrect, PTL

(* The unsafe versions never run into a guard. *)
THEOREM UnsafeCodeCorrect == Spec => []UnsafeCodeIsClosed
<1>1. IInv => UnsafeCodeIsClosed
  <2> SUFFICES ASSUME IInv, phase = "done", UniqueNames,
                      NEW f \in Func, fname[f] \in used,
                      NEW n \in body[f] \cap FuncNames(Func), Guarded(n)
               PROVE  n \in used \cup Blacklist
    BY DEF UnsafeCodeIsClosed
  <2>1. used = Needed
    BY DEF IInv, PhaseInv, RedirectsExactly
  <2>2. Reaches(fname[f], n)
    BY CallReaches DEF Calls
  <2>3. SectionReaches(n)
    BY <2>1, <2>2, ReachesTrans DEF Needed, SectionReaches
  <2> QED BY <2>1, <2>3 DEF Needed
<1> QED BY <1>1, InvCorrect, PTL
=============================================================================
