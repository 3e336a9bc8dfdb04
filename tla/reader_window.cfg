SPECIFICATION Spec
CONSTANTS
  Writers = {w1}
  Readers = {r1}
  EditsPerGeneration = 2
  RecoverAttempts = 2
  SnapshotAttempts = 2
  Retention = 1
  Residue = {}
  Rotating = FALSE
  TornWrites = FALSE
  UnreadableIsEmpty = FALSE
  RereadFails = FALSE
  Pinning = FALSE
  MaxCommits = 4
  MaxFile = 2
  MaxFaults = 0
  MaxCrashes = 1
  MaxTime = 1
INVARIANTS ServesPublished RetentionWindow
