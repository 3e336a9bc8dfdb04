SPECIFICATION Spec
CONSTANTS
  Writers = {w1,w2}
  Readers = {}
  EditsPerGeneration = 1
  RecoverAttempts = 2
  SnapshotAttempts = 1
  Retention = 0
  Residue = {}
  Rotating = TRUE
  TornWrites = FALSE
  UnreadableIsEmpty = TRUE
  RereadFails = TRUE
  Pinning = FALSE
  MaxCommits = 3
  MaxFile = 2
  MaxFaults = 1
  MaxCrashes = 0
  MaxTime = 0
SYMMETRY WriterSymmetry
INVARIANTS ReplayIsHistory
PROPERTIES PointerAdvances
