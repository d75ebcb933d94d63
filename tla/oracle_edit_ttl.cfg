SPECIFICATION Spec
CONSTANTS
  k1 = k1
  k2 = k2
  k3 = k3
  k4 = k4
  i1 = i1
  i2 = i2
  q1 = q1
  NoKey = NoKey
  Key = {k1}
  Sampled = {k1}
  Ingester = {i1}
  Queryer = {q1}
  Active = {"editor"}
  Pipeline = 1
  TTL = {1, 3}
  Cap = 1
  Skew = 2
  Grace = 2
  Retain = 3
  Never = 99
  Drift = 1
  SlideLag = 2
  DeleteLag = 1
  DeindexLag = 1
  MaxNow = 6
INVARIANTS
  EditKeepsTTL
