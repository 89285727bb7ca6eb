SPECIFICATION Spec
CONSTANTS
  Blocks = {1, 2}
  AgHeader = 1
  KernelInode = 2
  JournalLength = 6
  MaxTargets = 2
  OpKinds = {"metadata"}
  MaxTxns = 3
  MaxData = 1
  MaxCuts = 2
  MaxTorn = 0
  MaxKills = 0
  MixedFaults = FALSE
  LaggingCuts = TRUE
INVARIANTS Atomic
CHECK_DEADLOCK FALSE
