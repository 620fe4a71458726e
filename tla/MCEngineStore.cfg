SPECIFICATION HSpec
CONSTANTS
  ChunkCapacity = 2
  Ids <- MCIds
  TombstoneId <- MCTombstone
  Gpas <- MCGpas
  Names = {n1, n2}
  EmptyName = EmptyName
  NoLocation = NoLocation
  Batches <- MCBatches
  ArgIds <- MCArgIds
  ArgGpas <- MCArgGpas
  ArgNames <- MCArgNames
  Images <- MCImages
  Faults = {"chunk", "radix", "avl", "hydrate"}
  MaxSlots = 3
  n1 = n1
INVARIANTS EveryRecordAnswers RangeReturnsEveryRecord
PROPERTY ImplementsStore
