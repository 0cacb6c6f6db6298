----------------------------- MODULE MCAnalysis -----------------------------
(* Both halves of the analysis: what the sections of every source of       *)
(* NTokens tokens call, and what every call relation makes of the names    *)
(* that are called.  One of the two in each behaviour.                     *)
EXTENDS MCCallAnalysis, MCUnsafeSections

VARIABLE inUse

NoFuncs == [f \in Func |-> {}]

NothingToAnalyse == /\ fname = [f \in Func |-> CHOOSE n \in Roots : TRUE]
                    /\ body = NoFuncs /\ section = {} /\ phase = "calls"
                    /\ calls = NoFuncs /\ ward = {} /\ used = {}
                    /\ arg = NoFuncs /\ mat = NoFuncs
                    /\ col = 0 /\ row = 0 /\ pc = "entry"

NothingToScan == /\ tokens = [p \in Pos |-> "call"]
                 /\ progress = "scan"
                 /\ i = 0 /\ if_level = 0 /\ prot = TRUE
                 /\ start = <<>> /\ end = <<>> /\ unsafe_calls = {}
                 /\ depth = 0 /\ at = 0 /\ hidden = {} /\ odd = {}

AnalysisInit == \/ inUse = "calls" /\ MCInit /\ NothingToScan
                \/ inUse = "sections" /\ SectionsInit /\ NothingToAnalyse

AnalysisNext == /\ \/ inUse = "calls" /\ Next /\ UNCHANGED sectionVars
                   \/ inUse = "sections" /\ SectionsNext /\ UNCHANGED vars
                /\ UNCHANGED inUse

AnalysisSpec == AnalysisInit /\ [][AnalysisNext]_<<vars, sectionVars, inUse>>
=============================================================================
