SPECIFICATION FairSpec
CONSTANTS
  t1 = t1
  t2 = t2
  t3 = t3
  Threads = {t1, t2, t3}
  Nobody = Nobody
  PoolSize = 2
INVARIANTS TypeOK ExclusiveUse ReleaseFindsSlot
PROPERTIES PoolImplemented MutexReleased MutexAdvances
