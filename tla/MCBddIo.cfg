\* Two clients, two calls each: one reads a foreign stream and writes what it made, the
\* other one reads that or collects.
SPECIFICATION IoSpec
CONSTANTS
  t1 = t1
  t2 = t2
  Threads = {t1, t2}
  NoThread = NoThread
  Size = 14
  Addr <- MCAddr
  Malloc <- HighestFree
  NumVars = 4
  BootAddr <- MCBootAddr
  InitBuckets = 16
  InitSlots = 1
  CacheHash <- SumHash
  Workload <- OnlyGc
  MaxCalls = 2
  Mark = 100
  Files <- MCFiles
  Wanted <- MCWanted
INVARIANTS
  ReadsBack
  HandlesAlive
  OnlyLostLeak
  PrintsTheFunction
SYMMETRY Alike
CHECK_DEADLOCK FALSE
