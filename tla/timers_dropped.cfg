CONSTANTS
  t1 = t1
  t2 = t2
  Timers = {t1, t2}
  None = None
  Off = Off
  Lost = Lost
  MaxDelay = 1
  Quick = 1
  MaxLate = 1
  MaxDepth = 2
SPECIFICATION Spec
INVARIANT CollectedTimersFire
