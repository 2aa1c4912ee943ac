\* The bounds of MCBddIo.cfg: a collection marks what a client writes.
SPECIFICATION IoSpec
CONSTANTS
  t1 = t1
  t2 = t2
  Threads = {t1, t2}
  NoThread = NoThread
  Size = 14
  Addr <- MCAddr
  Malloc <- HighestFree
  NumVars = 4
  BootAddr <- MCBootAddr
  InitBuckets = 16
  InitSlots = 1
  CacheHash <- SumHash
  Workload <- OnlyGc
  MaxCalls = 2
  Mark = 100
  Files <- MCFiles
  Wanted <- MCWanted
INVARIANTS
  LevelInRange
SYMMETRY Alike
CHECK_DEADLOCK FALSE
