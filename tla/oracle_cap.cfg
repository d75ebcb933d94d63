SPECIFICATION Spec
CONSTANTS
  k1 = k1
  k2 = k2
  k3 = k3
  k4 = k4
  i1 = i1
  i2 = i2
  q1 = q1
  NoKey = NoKey
  Key = {k1, k2, k3, k4}
  Sampled = {k1, k2, k3, k4}
  Ingester = {i1, i2}
  Queryer = {}
  Active = {"pruner"}
  Pipeline = 2
  TTL = {1}
  Cap = 1
  Skew = 2
  Grace = 2
  Retain = 1
  Never = 99
  Drift = 0
  SlideLag = 2
  DeleteLag = 1
  DeindexLag = 1
  MaxNow = 3
SYMMETRY KeySymmetry
INVARIANTS
  CountWithinCap
PROPERTIES
  PruneForgetsOnlyDead
