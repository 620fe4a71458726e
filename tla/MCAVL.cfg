SPECIFICATION Spec
CONSTANTS
  Grades = {1, 2}
  StudentIds = {1, 2, 3, 4, 5, 6}
  Arrays <- MCArrays
INVARIANTS Ordered HeightsBalanced NodeCountExact RangePassesAgree
PROPERTIES ImplementsEntrySet
VIEW TreeView
