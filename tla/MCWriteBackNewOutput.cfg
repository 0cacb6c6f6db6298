CONSTANTS
  Source = {a, b}
  Fun = {F, G}
  MaxRuns = 3
SPECIFICATION Spec
INVARIANTS NeverAborts
CHECK_DEADLOCK FALSE
