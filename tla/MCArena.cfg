SPECIFICATION Spec
CONSTANTS
  PageSizes = {0, 8}
  Sizes = {0, 3, 4, 8, 9}
  Alignments = {0, 1, 3, 4, 8}
  Bases <- MCBases
  MallocAlign = 4
INVARIANTS TypeOK BlocksApart ListHoldsEveryPage FreshPageFits
PROPERTIES DestroyEnds
