CONSTANTS
  h1 = h1
  h2 = h2
  d1 = d1
  f1 = f1
  u1 = u1
  b1 = b1
  Jobs = {h1, h2, d1, b1}
  DataJobs = {d1}
  FileJobs = {}
  UploadJobs = {}
  RefusedJobs = {b1}
  MaxRunning = 1
  MaxAddErrors = 1
  MaxSelectErrors = 1
SPECIFICATION Spec
SYMMETRY HttpSymmetry
INVARIANTS TypeOK SlotAccounting NoStrandedWork
PROPERTY HttpClientProtocol
CHECK_DEADLOCK FALSE
