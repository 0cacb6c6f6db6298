CONSTANTS
  Source = {a, b}
  Fun = {F, G}
  MaxRuns = 3
SPECIFICATION Spec
INVARIANTS CallsDefined
CHECK_DEADLOCK FALSE
