CONSTANTS
  l1 = l1
  l2 = l2
  l3 = l3
  Loaders = {l1, l2, l3}
  None = None
  MaxDepth = 2
SPECIFICATION Spec
SYMMETRY LoaderSymmetry
INVARIANTS TypeOK ProtectedWhileLoading AbortReachesAll NobodyWaitsInVain
PROPERTY ReadyStateForward
CHECK_DEADLOCK FALSE
