SPECIFICATION Spec
CONSTANTS
  p1 = p1
  p2 = p2
  w1 = w1
  None = None
  Procs <- MCProcs
  Workers <- MCWorkers
  RegistrationMaxMsg = 1
  ClientMaxMsg = 1
  ClientWorkers = 2
  MaxRequests <- MCRequests
  MaxRuns = 2
  Mortal <- MCMortal
CHECK_DEADLOCK FALSE
INVARIANTS TypeOK ServiceDeathsExplained RequestsTracked
PROPERTIES Implements ConstructorReturns Served
