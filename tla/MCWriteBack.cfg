CONSTANTS
  Source = {a, b}
  Fun = {F, G}
  MaxRuns = 3
SPECIFICATION FairSpec
INVARIANTS IInv SourcesWhole GeneratedOnce CallsRedirected DefinitionsFollow OutputsSafe OutputsComplete
PROPERTIES OutputsArrive
CHECK_DEADLOCK FALSE
