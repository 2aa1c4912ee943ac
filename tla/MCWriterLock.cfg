SPECIFICATION Spec
CONSTANTS
  Threads = {t1, t2, t3}
  NoThread = NoThread
INVARIANTS
  TypeOK
  MutualExclusion
  WordAgrees
PROPERTIES
  NoReaderPassesClaim
  ClaimBecomesWrite
  ImplementsRwLock
