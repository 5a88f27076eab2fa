SPECIFICATION Spec
CONSTANTS
  main = main
  s1 = s1
  s2 = s2
  None = None
  Callers <- MCCallers
  NumWorkers = 2
  MaxMsg = 1
  Segments <- MCSegments
  MaxRequests = 3
  SegmentReuse = TRUE
  TornBitmap = TRUE
CHECK_DEADLOCK FALSE
INVARIANTS TypeOK OnlyAllocationThrows RequestsTracked AssignmentHasWorker CallersAwake
PROPERTIES CallsReturn DestructorReturns
