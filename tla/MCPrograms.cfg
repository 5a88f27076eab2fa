SPECIFICATION Spec
CONSTANTS
  None = None
  IntMax = 63
  MaxLines = 2
  InternalRepSize = 2
  NumWorkers = 1
  RegistrationMsgSize = 36
  ClientMsgSize = 28
  ClientIds = {0, 300}
  FileSizes = {0, 5, 300}
  MaxWaiting = 1
  MaxWrites = 2
  ServiceCommands <- MCServiceCommands
  AppCommands <- MCAppCommands
CHECK_DEADLOCK FALSE
INVARIANTS
  CommandLinesDecide
  NoRequestLeftBehind
  MessagesArrive
  PoolUsable
  ReadsWhatWasWritten
