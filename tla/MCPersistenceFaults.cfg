SPECIFICATION HSpec
CONSTANTS
  ChunkCapacity = 2
  Ids = {1, 2}
  TombstoneId <- MCTombstone
  Gpas = {1}
  Names = {n1}
  EmptyName = EmptyName
  NoSuperblock = NoSuperblock
  NoRecords = NoRecords
  Batches <- MCBatches
  Faults = {"write", "open", "replace"}
  MaxSlots = 3
  n1 = n1
PROPERTY FaultyBootIsAllOrNothing
CONSTRAINT OneCutSave
