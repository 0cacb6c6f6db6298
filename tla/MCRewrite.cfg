CONSTANTS
  Header <- MCHeader
  NewSection <- MCNewSection
  Roots <- MCRoots
  Blacklist <- MCBlacklist
  Lower = {"g"}
  Line <- MCLine
  Numeral <- ToString
  MaxRuns = 3
SPECIFICATION Spec
INVARIANTS TextKept LinesRight Resolved UnsafeIsUnguarded SecondRunIdle
CHECK_DEADLOCK FALSE
