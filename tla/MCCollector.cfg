\* Two buckets as Manager::init(1, ..) makes them, and one growth.
SPECIFICATION Spec
CONSTANTS
  Addr = {1, 2, 3, 4, 5, 6, 7, 8, 9, 10, 11, 12}
  Boot <- MCBoot
  KeyAt <- MCKeyAt
  Tables <- MCTables
  NumVars = 3
  Hash <- SpreadHash
  InitSize = 2
  MaxSize = 4
  MaxRef = 2
INVARIANTS
  TypeOK
  SanityCheck
  HeldSurvive
  GarbageFreed
  EntryCount
  WalksLive
CHECK_DEADLOCK FALSE
