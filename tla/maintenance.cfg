CONSTANTS
    Interval = 2
    Skew = 1
    MaxAge = 2
    StallAge = 4
    SweepInterval = 4
    BypassEvery = 3
    CompactAt = 1
    MaxTime = 7
    MaxEvents = 1
SPECIFICATION Spec
INVARIANTS QuietIsConverged 
PROPERTIES WorkResumes HeldWriterReturns
