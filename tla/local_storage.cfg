CONSTANTS
  k1 = k1
  k2 = k2
  Keys = {k1, k2}
  None = None
  MaxWrites = 2
  MaxTroubles = 1
SPECIFICATION Spec
INVARIANTS ChangesAreScheduled MapIsCurrent
PROPERTIES SavesInOrder MainThreadReturns ChangesReachDisk
CHECK_DEADLOCK FALSE
