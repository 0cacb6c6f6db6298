CONSTANTS
  Len = 3
  WordBits = 2
  MaxBits = 5
  SortKey = {1, 2, 3}
  MaxLen = 6
  Unset = Unset
  Cell = {3, 4, 5}
  BlockSize = 2
  Kind <- MCKind
  Global = {1, 2, 3}
  Dummy = 3
  StackSize = 1
  Log2Size = 1
  LazyRefillCount = 1
  MaxObjects = 3
SPECIFICATION MCSpec
INVARIANTS BitsRight SortInv CollectorInv
PROPERTIES ImplementsClosure SortsArray ImplementsHeap CollectsGarbage
