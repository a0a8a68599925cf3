CONSTANTS
  d1 = d1
  d2 = d2
  s1 = s1
  i1 = i1
  j1 = j1
  Requests = {s1, i1}
  Docs = {d1}
  DocOf <- MCDocOf
  PriorityOf <- MCPriorityOf
  Revalidations = {}
  Preloads = {}
  IsHTTP = TRUE
  MaxInFlight = 1
  MaxDepth = 2
SPECIFICATION FairSpec
PROPERTY EveryRequestServed
CHECK_DEADLOCK FALSE
