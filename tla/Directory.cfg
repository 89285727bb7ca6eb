SPECIFICATION Spec
CONSTANTS
  Names <- MCNames
  Inodes = {1, 2}
  HashBits = 4
  HashOf <- MCHashOf
  SizeOf <- MCSizeOf
  EmbedRoom = 1
  BucketRoom = 2
  HeaderRoom = 13
  MaxDepth = 3
INVARIANTS TypeOK LookupFinds TableSound Compact NoFalseFull
PROPERTY ImplementsMap
CHECK_DEADLOCK FALSE
