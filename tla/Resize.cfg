SPECIFICATION Spec
CONSTANTS
  BootLength = 1
  InitialGroups = 2
  InitialLength = 2
  MinLength = 2
  Lengths = {2, 3}
  MaxSize = 6
  MaxGroups = 3
  MaxOps = 3
  MaxCuts = 2
  MaxTorn = 1
  Risks = {}
INVARIANTS TypeOK SegmentsApart Durable GapSound
PROPERTIES ImplementsGroups ComesToRest
CHECK_DEADLOCK FALSE
