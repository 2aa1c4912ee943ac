SPECIFICATION SafeSpec
CONSTANTS
  Threads = {t1, t2}
  NoThread = none
  Size = 9
  Addr <- MCAddr
  Malloc <- LowestFree
  NumVars = 2
  BootAddr <- MCBootAddr
  InitBuckets = 8
  InitSlots = 2
  CacheHash <- SumHash
  Workload <- OverlapWorkload
  MaxCalls = 3
PROPERTIES
  CollectsOnlyIfWorthIt
CHECK_DEADLOCK FALSE
