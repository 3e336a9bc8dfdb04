CONSTANTS
    KeyCount = 3
    Truncators = {t1, t2}
    Last = 2
    TargetEntries = 1
    Setups <- SmallSetups
SPECIFICATION Spec
INVARIANTS GetReturnsNewest ScanAgreesWithGet AcceptedIsReadable
VIEW Canonical
SYMMETRY Symmetry
CHECK_DEADLOCK FALSE
