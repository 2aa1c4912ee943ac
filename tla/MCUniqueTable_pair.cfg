SPECIFICATION Spec
CONSTANTS
  main = main
  t2 = t2
  t3 = t3
  Threads = {main, t2}
  Main = main
  Size = 10
  Addr <- MCAddr
  Malloc <- LowestFree
  NumVars = 2
  NumBuckets = 2
  Hash <- HashByLevel
  Workload <- MixedWorkload
INVARIANTS
  TypeOK
  EntryCount
  ResultIsRequested
  SparesPrivate
PROPERTIES
  PublishedFrozen
  ImplementsNodeSet
  Terminates
