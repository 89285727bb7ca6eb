SPECIFICATION MountSpec
CONSTANTS
  i1 = i1
  i2 = i2
  Root = root
  Kernel = kernel
  Inodes = {root, kernel, i1, i2}
  Names <- MCNames
  KernelName = "kernel.bin"
  Dot = "."
  Paths <- MCPaths
  Order <- MCOrder
  EmbedNames = 2
  MaxLinks = 3
  WalkDepth = 4
SYMMETRY MCSymmetry
INVARIANTS TypeOK FsckClean EntriesSound Tree HandleKept ScanSound
PROPERTY KernelKept
CHECK_DEADLOCK FALSE
