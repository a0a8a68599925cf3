CONSTANTS
  h1 = h1
  h2 = h2
  d1 = d1
  f1 = f1
  u1 = u1
  b1 = b1
  Jobs = {f1, u1}
  DataJobs = {}
  FileJobs = {f1}
  UploadJobs = {u1}
  RefusedJobs = {}
  MaxRunning = 1
  MaxAddErrors = 1
  MaxSelectErrors = 1
SPECIFICATION FairSpec
PROPERTIES EveryLoadEnds CancelledSlotsComeBack
CHECK_DEADLOCK FALSE
