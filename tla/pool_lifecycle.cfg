SPECIFICATION FairSpec
CONSTANTS
  Mutators = {m}
  Loops = {l}
  Concurrency = 2
  MaxWorkers = 2
  MaxIds = 4
  MaxChanges = 3
INVARIANTS
  PoolInv
  OneOperationAfterPause
PROPERTIES
  ShutsDown
  FollowsConcurrency
  PauseIdles
CHECK_DEADLOCK FALSE
