SPECIFICATION Spec
CONSTANTS
  Fanout = 2
  Slots = 1
  RecordsPerBlock = 2
  CellCount = 5
  RootFanout = 2
  NodeFanout = 2
  MaxInlineExtents = 1
  BlockUnits = 2
  PayloadUnits = 1
  Writes <- SmallWrites
  FileSizes = {0, 1, 3, 10}
  MaxWrite = 2
  MaxSize = 10
  Residents = {0, 5}
  MaxChurn = 1
INVARIANTS TypeOK   TreeShape Reclaimable
CHECK_DEADLOCK FALSE
