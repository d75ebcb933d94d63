SPECIFICATION MCSpec
CONSTANTS
  Workers = 2
  Target = 10
  Start = 0
  Batch = 2
  MaxFails = 1
  MaxEnds = 2
  Categories = 2
  CategoryOf <- MCCategoryOf
  Written = 2
  StallLimit = 2
  Slack = 0
  Spots <- MCSpots
  Points = 1
  Canary <- MCCanary
INVARIANTS
  SweepTypeOK
  NeverOverstates
  LossIsCounted
  ParentNotStuck
  CountsNeverAccuse
  MissesAreHoles
  BgScanFair
  AccusedOnlyWhileScanning
PROPERTIES
  StallIsReal
CHECK_DEADLOCK FALSE
