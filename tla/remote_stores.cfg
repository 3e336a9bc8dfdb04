SPECIFICATION Spec

CONSTANTS
    Instances = {1, 2}
    Options <- MCOptions
    MaxFaults = 3
    MaxGen = 3
    MaxName = 3
    PerShard = 1

INVARIANTS CasAnswersAreTrue SnapshotIsTheInstallers  ObjectsAreExact

\* The calls are bounded.
CHECK_DEADLOCK FALSE
