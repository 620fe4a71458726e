SPECIFICATION HSpec
CONSTANTS
  ChunkCapacity = 3
  Ids = {1, 2, 3}
  TombstoneId <- MCTombstone
  Gpas = {1}
  Names = {n1}
  EmptyName = EmptyName
  NoSuperblock = NoSuperblock
  NoRecords = NoRecords
  Batches <- TornBatches
  Faults = {}
  MaxSlots = 4
  n1 = n1
PROPERTY BootShowsWholeBatches
CONSTRAINT OneCutSave
