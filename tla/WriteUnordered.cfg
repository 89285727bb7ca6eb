SPECIFICATION Spec
CONSTANTS
  Blocks = {1, 2}
  AgHeader = 1
  KernelInode = 2
  JournalLength = 6
  MaxTargets = 2
  OpKinds = {"write"}
  MaxTxns = 1
  MaxData = 1
  MaxCuts = 1
  MaxTorn = 0
  MaxKills = 0
  MixedFaults = FALSE
  LaggingCuts = FALSE
INVARIANTS Ordered
CHECK_DEADLOCK FALSE
