SPECIFICATION SafeSpec
CONSTANTS
  main = main
  t2 = t2
  t3 = t3
  Threads = {main, t2, t3}
  Main = main
  Size = 12
  Addr <- MCAddr
  Malloc <- LowestFree
  NumVars = 2
  NumBuckets = 2
  Hash <- HashByLevel
  Workload <- ContendedWorkload
SYMMETRY OthersAlike
INVARIANTS
  Canonical
  SanityCheck
