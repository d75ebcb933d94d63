SPECIFICATION Spec
CONSTANTS
  TotalDocs = 1
  Workers = 2
  NoCkpt = NoCkpt
  MaxK = 2
  MaxVer = 1
  MaxErrors = 1
  MaxStops = 2
INVARIANTS
  NeverReusesId
CHECK_DEADLOCK FALSE
