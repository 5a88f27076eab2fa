SPECIFICATION Spec
CONSTANTS
  w1 = w1
  w2 = w2
  w3 = w3
  c1 = c1
  c2 = c2
  c3 = c3
  Workers <- MCWorkers
  Clients <- MCThreeClients
  NumShmSegments = 1
  ShmSegmentSize = 12
  InternalRepSize = 4
  Strategy = "CREDIT"
  Priorities = {1, 3}
  FileSizes = {4}
  DefaultPriority = 2
  FileCreditMultiplier = 1
  MaxRequests = 2
  MaxBypass = 0
  Departures = "idle"
  NodeIterators = FALSE
SYMMETRY Symmetry
INVARIANTS TypeOK NoFault ListsMatch
PROPERTIES UnderServedFirst
