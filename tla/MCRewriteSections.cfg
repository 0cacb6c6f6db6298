CONSTANTS
  Header <- SectionHeader
  NewSection <- OneCall
  Roots <- MCRoots
  Blacklist <- MCBlacklist
  Lower = {"g"}
  Line <- MCLine
  Numeral <- ToString
  MaxRuns = 1
SPECIFICATION Spec
INVARIANT FunctionsKeepNames
CHECK_DEADLOCK FALSE
