SPECIFICATION SafeSpec
CONSTANTS
  Threads = {t1, t2}
  NoThread = none
  Size = 12
  Addr <- MCAddr
  Malloc <- LowestFree
  NumVars = 3
  BootAddr <- MCBootAddr
  InitBuckets = 8
  InitSlots = 2
  CacheHash <- SumHash
  Workload <- MixedWorkload
  MaxCalls = 2
SYMMETRY Alike
INVARIANTS
  HandlesAlive
  Reduced
  InFlightAlive
  CacheSound
  ResultCorrect
PROPERTIES
  HeldFrozen
CHECK_DEADLOCK FALSE
