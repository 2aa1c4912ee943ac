\* The bounds of MCCollector.cfg and the assertion of mark_nodes.
SPECIFICATION Spec
CONSTANTS
  Addr = {1, 2, 3, 4, 5, 6, 7, 8, 9, 10, 11, 12}
  Boot <- MCBoot
  KeyAt <- MCKeyAt
  Tables <- MCTables
  NumVars = 3
  Hash <- SpreadHash
  InitSize = 2
  MaxSize = 4
  MaxRef = 2
INVARIANTS
  MarksBounded
CHECK_DEADLOCK FALSE
