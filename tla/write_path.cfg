SPECIFICATION Spec
CONSTANTS
  Threads = {t1, t2}
  Flushers = {t1}
  MemtableBytes = 1
  CompactAt = 1
  SlowdownAt = 1
  StopAt = 2
  Budget = 1
  MaxWrites = 3
  MaxFlushes = 1
  MaxFaults = 1
INVARIANTS NoLostWrite RefusedNotStored GetSeesAcked FlushOkIsDurable
PROPERTIES CallsReturn
