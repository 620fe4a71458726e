SPECIFICATION HSpec
CONSTANTS
  ChunkCapacity = 2
  Ids <- MCIds
  TombstoneId <- MCTombstone
  Gpas <- MCGpas
  Names = {n1}
  EmptyName = EmptyName
  NoLocation = NoLocation
  Batches <- MCBatches
  ArgIds <- MCArgIds
  ArgGpas <- MCArgGpas
  ArgNames <- MCArgNames
  Images <- MCImages
  Faults = {"chunk", "radix", "avl", "restore", "hydrate"}
  MaxSlots = 2
  n1 = n1
INVARIANT RangeCountsEveryRecord
