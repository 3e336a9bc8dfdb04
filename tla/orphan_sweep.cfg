SPECIFICATION SweepSpec
CONSTANTS
  Writers = {w1}
  Readers = {}
  EditsPerGeneration = 1
  RecoverAttempts = 2
  SnapshotAttempts = 2
  Retention = 1
  Residue = {1}
  Rotating = FALSE
  TornWrites = FALSE
  UnreadableIsEmpty = FALSE
  RereadFails = FALSE
  Pinning = TRUE
  MaxCommits = 3
  MaxFile = 3
  MaxFaults = 1
  MaxCrashes = 0
  MaxTime = 2
  OrphanRetention = 1
INVARIANTS LiveVersionsReadable LiveGenerationKept
