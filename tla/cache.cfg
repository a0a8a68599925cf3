CONSTANTS
  p = p
  px = px
  q = q
  l1 = l1
  l2 = l2
  s1 = s1
  Urls = {p, px, q}
  Page <- MCPage
  Loads = {l1, l2, s1}
  SyncLoads = {s1}
  Blocks = 1
  MaxVersion = 1
  MaxFaults = 1
SPECIFICATION Spec
SYMMETRY LoadSymmetry
INVARIANTS TypeOK CacheTruth ServedWhole
CHECK_DEADLOCK FALSE
