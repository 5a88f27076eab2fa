SPECIFICATION Spec
CONSTANTS
  w1 = w1
  w2 = w2
  w3 = w3
  c1 = c1
  c2 = c2
  c3 = c3
  Workers <- MCWorkers
  Clients <- MCTwoClients
  NumShmSegments = 1
  ShmSegmentSize = 12
  InternalRepSize = 4
  Strategy = "ROUND_ROBIN"
  Priorities = {1}
  FileSizes = {9}
  DefaultPriority = 1
  FileCreditMultiplier = 1
  MaxRequests = 2
  MaxBypass = 2
  Departures = "idle"
  NodeIterators = TRUE
CHECK_DEADLOCK FALSE
INVARIANT NoFault
