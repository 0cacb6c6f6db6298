CONSTANTS
  Item = {a, b, c}
  HashValue = {0, 1, 5}
  Value = {v, w}
  MaxList = 2
  MinSize = 4
  None = None
  Items = {1, 2}
  Chars = {10, 13}
  CR = 13
  LF = 10
  HashMod = 8
  MaxItems = 6
SPECIFICATION MCSpec
INVARIANTS SetInv MapInv AnswersRight BuffersHold SearchRight
PROPERTIES ImplementsSet
SYMMETRY Symmetry
