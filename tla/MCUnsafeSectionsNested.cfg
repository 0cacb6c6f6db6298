CONSTANTS
  NTokens = 5
  Kind = {"ifndef ward", "if", "else", "endif", "call"}
SPECIFICATION SectionsSpec
INVARIANTS SectionsMatchUp
CHECK_DEADLOCK FALSE
