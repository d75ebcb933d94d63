SPECIFICATION Spec
CONSTANTS
  q1 = q1
  q2 = q2
  Queryer = {q1, q2}
  Bounds <- MCBounds
  Latency = {1, 3, 9}
  SlowMs = 4
  Rank <- MCRank
  MaxQueries = 4
INVARIANTS
  WindowInv
