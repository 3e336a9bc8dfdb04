SPECIFICATION BindingsSpec
CONSTANTS
  Kinds = {"partitioned", "window", "session", "versioned"}
  Partitions = {1, 2}
  Threads = {t1, t2}
  Keys = {k1, k2}
  MaxRecords = 3
  MaxFaults = 1
  UserKeys <- Nested
  Stamps = {0, 3, 6}
  Starts = {0}
  Base = 3
  Interval = 2
  Retention = 4
  MaxPuts = 3
  MaxMishaps = 1
INVARIANTS FoldSeesLog ServedIsCommitted StoreOnlyLags RetainedIsReadable 
CHECK_DEADLOCK FALSE
SYMMETRY Symmetry
