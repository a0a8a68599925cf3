CONSTANTS
  d1 = d1
  d2 = d2
  s1 = s1
  i1 = i1
  j1 = j1
  Requests = {s1, i1, j1}
  Docs = {d1, d2}
  DocOf <- MCDocOf
  PriorityOf <- MCPriorityOf
  Revalidations = {i1}
  Preloads = {s1}
  IsHTTP = TRUE
  MaxInFlight = 1
  MaxDepth = 2
SPECIFICATION Spec
INVARIANTS TypeOK CountsRequests NoStrandedRequests
PROPERTY HigherFirst
CHECK_DEADLOCK FALSE
