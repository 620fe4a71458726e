SPECIFICATION HSpec
CONSTANTS
  Ids <- MCIds
  TombstoneId <- MCTombstone
  Grades = {1, 2, 7}
  MaxGpa = 2
  NaN = NaN
  Names = {n1, n2}
  Junk = Junk
  Lines <- MCLines
  NoFile = NoFile
  Blank = Blank
  InitialCapacity = 2
  Contents <- MCContents
  Absent = Absent
  InDoubt = InDoubt
  Faults = {"memory", "read"}
  MaxLines = 4
  n1 = n1
  n2 = n2
INVARIANTS TypeOK MessagesTellTheDatabase OnlyValidReachesEngine CleanExitSaved
PROPERTIES EndOfInputExits ErrorLineIsBad
CHECK_DEADLOCK FALSE
