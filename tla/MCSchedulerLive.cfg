SPECIFICATION Spec
CONSTANTS
  w1 = w1
  w2 = w2
  w3 = w3
  c1 = c1
  c2 = c2
  c3 = c3
  Workers <- MCThreeWorkers
  Clients <- MCTwoClients
  NumShmSegments = 2
  ShmSegmentSize = 4
  InternalRepSize = 4
  Strategy = "ROUND_ROBIN"
  Priorities = {1}
  FileSizes = {4}
  DefaultPriority = 1
  FileCreditMultiplier = 1
  MaxRequests = 2
  MaxBypass = 0
  Departures = "never"
  NodeIterators = TRUE
PROPERTIES AllServed
