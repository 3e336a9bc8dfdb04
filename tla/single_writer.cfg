SPECIFICATION FairSpec
CONSTANTS
  Writers = {w1}
  Readers = {}
  EditsPerGeneration = 2
  RecoverAttempts = 2
  SnapshotAttempts = 1
  Retention = 1
  Residue = {1}
  Rotating = FALSE
  TornWrites = TRUE
  UnreadableIsEmpty = FALSE
  RereadFails = FALSE
  Pinning = TRUE
  MaxCommits = 4
  MaxFile = 3
  MaxFaults = 1
  MaxCrashes = 1
  MaxTime = 1
INVARIANTS NoDangling AckedSurvives WriterReopens
PROPERTIES NumbersNotReused DeadFilesReclaimed RefinesVersionHistory
