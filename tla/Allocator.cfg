SPECIFICATION Spec
CONSTANTS
  Fanout = 2
  Slots = 2
  RecordsPerBlock = 1
  CellCount = 4
  Sizes = {2, 3, 5}
  MaxHeld = 3
INVARIANTS TypeOK RecordsExact OwnershipExact FsckClean SlotsExact Coarsened FreeSucceeds NoFalseENOSPC
CHECK_DEADLOCK FALSE
