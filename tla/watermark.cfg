SPECIFICATION Spec
CONSTANTS
  Key = {k1, k2}
  Tiers = 3
  TransientTiers = 2
  FlushBeforeMark = TRUE
  MaxLog = 2
  MaxFiles = 2
  MaxCrashes = 2
SYMMETRY Symmetry
INVARIANTS  GaugeSurvives
