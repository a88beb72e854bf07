CONSTANTS
  Servers = {"a", "b"}
  Bound = "a"
  Start <- MCRoot
  Home <- MCHome
  Disk <- MCDisk
  NewNames <- MCNames
  ArchiveNames <- MCArchives
  Loads = {1, 2}
  Ops = {1, 2}
  MaxAsks = 3
  MaxFlips = 1
  None = None
SPECIFICATION FairSpec
INVARIANT Coherent
PROPERTIES NothingLost LoadingEnds
CHECK_DEADLOCK FALSE
