SPECIFICATION Spec
CONSTANTS
  ChildCount = 2
  NibbleCount = 3
  Ids <- MCIds
  TombstoneId = 7
  Locations = {z, a}
  ZeroLocation = z
  Absent = Absent
INVARIANTS TypeOK OneNodePerPrefix PathsExact OccupiedAtBottom
PROPERTIES ImplementsMap
