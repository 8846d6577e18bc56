SPECIFICATION FairSpec
CONSTANTS
  Streams = {a, b, c}
  MAX_CONNECTIONS = 2
  NumDevices = 1
  MaxFds = 4
  CtlCommands = {"START", "STOP", "KILL"}
INVARIANTS
  TypeOK
PROPERTIES
  PoolService
  GoneStreamsEnd
  WaitingIsAnswered
CHECK_DEADLOCK FALSE
