CONSTANTS
  Thread = {t1, t2}
  Manager = {m1, m2}
  Lock = {l1}
  NoThread = NoThread
  NoManager = NoManager
  NoLock = NoLock
  MaxDepth = 2
SPECIFICATION FairSpec
INVARIANTS MutatorsStopped BuriedRecordsSafe RecordsDestroyedUnsafe
PROPERTY RequestServed
CHECK_DEADLOCK FALSE
