SPECIFICATION RunFairSpec
CONSTANTS
  TotalDocs = 5
  Workers = 1
  Batch = 2
  NoCkpt = NoCkpt
  MaxErrors = 1
  MaxKills = 1
  Parts = 2
  Verticals = 2
  MaxOps = 1
  MaxRuns = 2
INVARIANTS
  RunTypeOK
  PromisesKept
  ResumeRedoesOneBatch
  SearchableUnlessDropped
  ReportTrue
PROPERTIES
  EventuallyLoaded
  ReportComes
  TallySpec
CHECK_DEADLOCK FALSE
