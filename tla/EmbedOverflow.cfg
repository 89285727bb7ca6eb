SPECIFICATION Spec
CONSTANTS
  Fanout = 2
  Slots = 1
  RecordsPerBlock = 2
  CellCount = 5
  RootFanout = 2
  NodeFanout = 2
  MaxInlineExtents = 1
  BlockUnits = 2
  PayloadUnits = 1
  Writes <- SmallWrites
  FileSizes = {0, 3, 10}
  MaxWrite = 2
  MaxSize = 10
  Residents = {0}
  MaxChurn = 0
INVARIANTS EmbeddedFits
CHECK_DEADLOCK FALSE
