SPECIFICATION Spec
CONSTANTS
  Threads = {t1, t2, t3}
  NoThread = none
  k1 = k1
  k2 = k2
  Keys = {k1, k2}
  NoKey = nokey
  NoValue = novalue
  Hash <- CollidingHash
  InitSlots = 2
  MaxSlots = 4
  MaxGen = 1
INVARIANTS
  TypeOK
  StateAgrees
  EntrySound
PROPERTIES
  ImplementsOpCache
  WritesReturn
