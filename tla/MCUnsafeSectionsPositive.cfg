CONSTANTS
  NTokens = 5
  Kind = {"ifndef ward", "ifdef ward", "if", "else", "endif", "call"}
SPECIFICATION SectionsSpec
INVARIANTS OnlyHiddenCalls
CHECK_DEADLOCK FALSE
