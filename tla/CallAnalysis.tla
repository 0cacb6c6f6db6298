---------------------------- MODULE CallAnalysis ----------------------------
(***************************************************************************)
(* Steps 2 to 7 of Main (src/src/main.cc): from the inline functions of    *)
(* the headers and the calls made in the unprotected sections, the set of  *)
(* names that will be redirected to unsafe versions.  The helpers are      *)
(* those of src/src/analyzer.cc; the closure of each call graph is         *)
(* computed by the loop of TransitiveClosure, which this module runs.      *)
(*                                                                         *)
(* A function is its name and the set of names its body calls (a name and  *)
(* an opening parenthesis after the first left brace).  The same name may  *)
(* be defined more than once, in the branches of an #if.                   *)
(***************************************************************************)
EXTENDS Integers, FiniteSets

CONSTANTS Name,       \* identifiers
          Roots,      \* ROOT_FUNCS: the accessors that hold the guards
          Blacklist,  \* BLACKLIST: known to be safe, never redirected
          NFuncs      \* how many inline functions the headers define

ASSUME NamesAssumption == Roots \subseteq Name /\ Blacklist \subseteq Name
ASSUME NFuncsAssumption == NFuncs \in Nat

Func == 0 .. NFuncs - 1

VARIABLES fname, body,  \* the functions found by FindInlineFunctions
          section,      \* names called in the unprotected sections
          phase,        \* how far Main has come
          calls,        \* func->calls, as indexes into the function list
          ward,         \* wardfuncs: functions that may trigger a guard
          used,         \* used_funcnames
          arg, mat, col, row, pc   \* the call of TransitiveClosure

input == <<fname, body, section>>
graph == <<arg, mat, col, row, pc>>
vars == <<fname, body, section, phase, calls, ward, used, graph>>

CallGraph == INSTANCE TransitiveClosure WITH Len <- NFuncs

Init == /\ fname \in [Func -> Name]
        /\ body \in [Func -> SUBSET Name]
        /\ section \in SUBSET Name
        /\ phase = "calls"
        /\ calls = [f \in Func |-> {}]
        /\ ward = {}
        /\ used = {}
        /\ arg = CallGraph!NoEdges
        /\ mat = CallGraph!NoEdges
        /\ col = 0 /\ row = 0 /\ pc = "entry"

-----------------------------------------------------------------------------
FuncNames(fs) == {fname[f] : f \in fs}

(* BuildFuncMap: Map::add does not replace, so the first definition of a  *)
(* name is the one the map finds.                                         *)
Find(funcs, n) == CHOOSE f \in funcs : /\ fname[f] = n
                                      /\ \A g \in funcs : fname[g] = n => f <= g

DirectCalls == [f \in Func |->
                  {Find(Func, n) : n \in body[f] \cap FuncNames(Func)}]

(* Step 2: FindCalls(funcs). *)
FindCalls == /\ phase = "calls"
             /\ calls' = DirectCalls
             /\ phase' = "callees"
             /\ UNCHANGED <<input, ward, used, graph>>

(* BuildCallGraph, up to its call of TransitiveClosure. *)
BuildCallGraph(edges) == /\ arg' = edges
                         /\ mat' = CallGraph!NoEdges
                         /\ col' = 0 /\ row' = 0 /\ pc' = "entry"

CalleesMatrix == [g \in Func |-> {f \in Func : g \in calls[f]}]
CallersMatrix == calls

(* Mutant: the functions named in base are not part of the result. *)
CalledOnly(base) == UNION {mat[f] : f \in {g \in Func : fname[g] \in base}}

(* FindAllCalls: the functions named in base, and every column set in one *)
(* of their rows.                                                         *)
FindAllCalls(base) ==
    LET named == {f \in Func : fname[f] \in base}
    IN  named \cup UNION {mat[f] : f \in named}

(* Step 3. *)
BuildCallees == /\ phase = "callees"
                /\ BuildCallGraph(CalleesMatrix)
                /\ phase' = "closing callees"
                /\ UNCHANGED <<input, calls, ward, used>>

FindWardFuncs == /\ phase = "closing callees" /\ pc = "return"
                 /\ ward' = FindAllCalls(Roots)
                 /\ phase' = "sections"
                 /\ UNCHANGED <<input, calls, used, graph>>

(* Steps 4 and 5: FindUnsafeSections records only calls of ward functions; *)
(* FindCalls(funcmap, sections) collects their names.                      *)
FindSectionCalls == /\ phase = "sections"
                    /\ used' = section \cap FuncNames(ward)
                    /\ phase' = "callers"
                    /\ UNCHANGED <<input, calls, ward, graph>>

BuildCallers == /\ phase = "callers"
                /\ BuildCallGraph(CallersMatrix)
                /\ phase' = "closing callers"
                /\ UNCHANGED <<input, calls, ward, used>>

(* Mutant: only what the sections call directly. *)
DirectlyUsed == /\ phase = "closing callers" /\ pc = "return"
                /\ phase' = "used"
                /\ UNCHANGED <<input, calls, ward, used, graph>>

FindUsedFuncs == /\ phase = "closing callers" /\ pc = "return"
                 /\ used' = FuncNames(FindAllCalls(used))
                 /\ phase' = "used"
                 /\ UNCHANGED <<input, calls, ward, graph>>

(* Mutant: the intersection with wardfuncnames is forgotten. *)
KeepHarmless == /\ phase = "used"
                /\ used' = used \ Blacklist
                /\ phase' = "done"
                /\ UNCHANGED <<input, calls, ward, graph>>

(* Steps 6 and 7: intersect_in_place(wardfuncnames), diff_in_place. *)
RemoveHarmless == /\ phase = "used"
                  /\ used' = (used \cap FuncNames(ward)) \ Blacklist
                  /\ phase' = "done"
                  /\ UNCHANGED <<input, calls, ward, graph>>

Closing == {"closing callees", "closing callers"}

Close == /\ phase \in Closing
         /\ CallGraph!Next
         /\ UNCHANGED <<input, phase, calls, ward, used>>

Next == \/ FindCalls \/ BuildCallees \/ FindWardFuncs \/ FindSectionCalls
        \/ BuildCallers \/ FindUsedFuncs \/ RemoveHarmless \/ Close

Spec == Init /\ [][Next]_vars

-----------------------------------------------------------------------------
Phases == {"calls", "callees", "sections", "callers", "used", "done"}
             \cup Closing

TypeOK == /\ fname \in [Func -> Name]
          /\ body \in [Func -> SUBSET Name]
          /\ section \in SUBSET Name
          /\ phase \in Phases
          /\ calls \in [Func -> SUBSET Func]
          /\ ward \in SUBSET Func
          /\ used \in SUBSET Name
          /\ CallGraph!TypeOK

(* Name-level reachability, independent of how the code computes it: some *)
(* definition of a calls b; b is in every set closed under calls that     *)
(* holds a.                                                               *)
Calls(a, b) == \E f \in Func : fname[f] = a /\ b \in body[f]

Reaches(a, b) == \A s \in SUBSET FuncNames(Func) :
    /\ a \in s
    /\ \A x \in s : \A y \in FuncNames(Func) : Calls(x, y) => y \in s
    => b \in s

Guarded(n) == \E r \in Roots \cap FuncNames(Func) : Reaches(n, r)

SectionReaches(n) == \E s \in section \cap FuncNames(Func) : Reaches(s, n)

(* What should be redirected: what a section calls directly or indirectly *)
(* and calls a root directly or indirectly, save the blacklist.           *)
Needed == {n \in FuncNames(Func) :
              SectionReaches(n) /\ Guarded(n)} \ Blacklist

UniqueNames == \A f \in Func, g \in Func : fname[f] = fname[g] => f = g

(* Comment of Steps 3, 5 and 6 in main.cc: the redirected functions are   *)
(* exactly those that a section reaches, directly or indirectly, and that *)
(* reach a guard, directly or indirectly.                                 *)
RedirectsExactly == phase = "done" /\ UniqueNames => used = Needed

(* Whatever the definitions, nothing is redirected without need: a        *)
(* function that keeps its guards in protected code is not given an       *)
(* unsafe version, and an unguarded one is never renamed.                 *)
RedirectsOnlyNeeded == phase = "done" => used \subseteq Needed

(* main.cc:133-134, "functions that call any element of ROOT_FUNCS        *)
(* directly or indirectly": none of them is missed.                       *)
RedirectsAllNeeded == phase = "done" => Needed \subseteq used

(* An unsafe version never runs into a guard: every guarded function it   *)
(* calls has an unsafe version too, or is blacklisted.                    *)
UnsafeCodeIsClosed ==
    phase = "done" /\ UniqueNames =>
      \A f \in Func : fname[f] \in used =>
         \A n \in body[f] \cap FuncNames(Func) :
            Guarded(n) => n \in used \cup Blacklist

-----------------------------------------------------------------------------
(* The inductive invariant: each phase leaves behind what its name says,  *)
(* in terms of Calls and Reaches.                                         *)
CallsKnown == phase # "calls" => calls = DirectCalls

ClosingRight == /\ phase = "closing callees" => arg = CalleesMatrix
                /\ phase = "closing callers" => arg = CallersMatrix

WardRight ==
    phase \in {"sections", "callers", "closing callers", "used"} =>
      /\ \A f \in ward : Guarded(fname[f])
      /\ UniqueNames => \A f \in Func : Guarded(fname[f]) => f \in ward

SectionsRight == phase \in {"callers", "closing callers"} =>
                    used = section \cap FuncNames(ward)

UsedRight ==
    phase = "used" =>
      /\ \A n \in used : n \in FuncNames(Func) /\ SectionReaches(n)
      /\ UniqueNames => \A n \in FuncNames(Func) :
                           SectionReaches(n) /\ Guarded(n) => n \in used

PhaseInv == /\ TypeOK /\ CallsKnown /\ ClosingRight /\ WardRight
            /\ SectionsRight /\ UsedRight
            /\ RedirectsOnlyNeeded /\ RedirectsExactly

IInv == PhaseInv /\ CallGraph!IInv
=============================================================================
