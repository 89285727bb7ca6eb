SPECIFICATION Spec
CONSTANTS
  Fanout = 2
  Slots = 1
  RecordsPerBlock = 2
  CellCount = 6
  RootFanout = 2
  NodeFanout = 4
  MaxInlineExtents = 1
  BlockUnits = 2
  PayloadUnits = 1
  Writes <- LargeWrites
  FileSizes = {0, 3, 10}
  MaxWrite = 3
  MaxSize = 16
  Residents = {0}
  MaxChurn = 0
INVARIANTS Reclaimable
CHECK_DEADLOCK FALSE
