SPECIFICATION RSpec
CONSTANTS
  Blocks = {1, 2}
  AgHeader = 1
  KernelInode = 2
  JournalLength = 6
  MaxTargets = 2
  OpKinds = {"metadata", "kernelUpdate"}
  MaxTxns = 3
  MaxData = 1
  MaxCuts = 2
  MaxTorn = 1
  MaxKills = 2
  MixedFaults = FALSE
  LaggingCuts = FALSE
INVARIANTS TypeOK Atomic WriteAhead Ordered LagBounded FsckClean
PROPERTIES ImplementsStore ComesToRest
CHECK_DEADLOCK FALSE
