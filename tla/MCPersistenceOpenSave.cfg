SPECIFICATION HSpec
CONSTANTS
  ChunkCapacity = 2
  Ids = {1, 2}
  TombstoneId <- MCTombstone
  Gpas = {1, 2}
  Names = {n1}
  EmptyName = EmptyName
  NoSuperblock = NoSuperblock
  NoRecords = NoRecords
  Batches <- MCBatches
  Faults = {"open"}
  MaxSlots = 3
  n1 = n1
PROPERTY OkSaveIsComplete
CONSTRAINT OneCutSave
