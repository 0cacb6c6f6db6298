CONSTANTS
  Name = {PTR_BAG, CHANGED_BAG, F, G}
  Roots = {PTR_BAG}
  Blacklist = {CHANGED_BAG}
  NFuncs = 3
  NTokens = 6
  Kind = {"ifndef ward", "ifdef ward", "if", "else", "elif", "endif", "call"}
SPECIFICATION AnalysisSpec
INVARIANTS RedirectsExactly RedirectsOnlyNeeded UnsafeCodeIsClosed
INVARIANTS SectionsInv FindsHiddenCalls SectionsPaired
SYMMETRY Symmetry
CHECK_DEADLOCK FALSE
