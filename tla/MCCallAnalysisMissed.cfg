CONSTANTS
  Name = {PTR_BAG, F, G}
  Roots = {PTR_BAG}
  Blacklist = {}
  NFuncs = 4
SPECIFICATION OneRootSpec
INVARIANTS RedirectsAllNeeded
SYMMETRY Symmetry
CHECK_DEADLOCK FALSE
