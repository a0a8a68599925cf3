CONSTANTS
  r1 = r1
  r2 = r2
  r3 = r3
  u = u
  h1 = h1
  h2 = h2
  Preload = Preload
  None = None
  Resources = {r1, r2, r3}
  Urls = {u}
  Holders = {h1, h2}
  Capacity = 3
  MinDeadCapacity = 0
  MaxDeadCapacity = 3
  MaxAccess = 2
  MaxDepth = 2
SPECIFICATION Spec
SYMMETRY MCSymmetry
INVARIANTS BooksExact ReferencedIsAlive DeletableIsDeleted LoadedIsTold
PROPERTY PrunedEnough
CHECK_DEADLOCK FALSE
