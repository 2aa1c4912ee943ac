SPECIFICATION Spec
CONSTANTS
  Threads = {t1, t2}
  NoThread = none
  Size = 9
  Addr <- MCAddr
  Malloc <- LowestFree
  NumVars = 2
  BootAddr <- MCBootAddr
  InitBuckets = 4
  InitSlots = 2
  CacheHash <- SumHash
  Workload <- FillingWorkload
  MaxCalls = 2
INVARIANTS
  TypeOK
PROPERTIES
  MaintenanceAlone
  CallsReturn
CHECK_DEADLOCK FALSE
