SPECIFICATION RetrySpec
CONSTANTS
  Fanout = 2
  Slots = 2
  RecordsPerBlock = 1
  CellCount = 6
  Sizes = {2}
  MaxHeld = 9
INVARIANTS RecordsExact
CHECK_DEADLOCK FALSE
