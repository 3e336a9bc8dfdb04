SPECIFICATION ReadSpec

CONSTANTS
    Names <- MCNames
    Size <- MCSize
    Written = {1, 3}
    Threads = {t1, t2}
    Workers = {w1, w2}
    Reads <- MCReads
    Options <- MCOptions
    MaxBytes = 4
    Total = 4
    Width = 16
    Blocks <- MCBlocks
    ShardOf <- MCShardOf
    ShardCapacity = 1
    MaxReaders = 1
    WindowBytes = 2
    WindowReads <- MCWindowReads
    MaxByte = 1
    Image <- MCImage
    Scenes <- MCScenes
    ScanKeys <- MCScanKeys

INVARIANTS
    ServedIsExact
    BudgetBalances
    WaitersAreLed
    ScanIsExact
    GetIsExact

SYMMETRY Symmetry

\* The calls are bounded.
CHECK_DEADLOCK FALSE
