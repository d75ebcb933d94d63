SPECIFICATION Spec
CONSTANTS
  s1 = s1
  Nothing = Nothing
  N = 2
  Stranger = {s1}
  Cats = 2
  b1 = b1
  Bucket = {b1}
  Initials = {1, 2}
  K = 5
  MaxFlaws = 2
INVARIANTS
  MirrorInv
  FlawIsVisible
PROPERTIES
  CatalogSpec
