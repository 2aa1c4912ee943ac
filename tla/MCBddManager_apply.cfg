SPECIFICATION SafeSpec
CONSTANTS
  Threads = {t1}
  NoThread = none
  Size = 14
  Addr <- MCAddr
  Malloc <- LowestFree
  NumVars = 3
  BootAddr <- DescendingBootAddr
  InitBuckets = 64
  InitSlots = 2
  CacheHash <- SumHash
  Workload <- AnyWorkload
  MaxCalls = 2
INVARIANTS
  ResultCorrect
CHECK_DEADLOCK FALSE
