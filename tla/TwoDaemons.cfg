SPECIFICATION FairSpec
CONSTANTS
  Senders = {s1}
  MainThread = main
  Nobody = nobody
  Commands = {"START", "STOP", "RELOAD"}
  ReloadFlags = {FALSE}
  DeviceCounts = {1}
  Faults = {"recv", "socket", "connect", "open", "send", "sigpipe", "stall", "display"}
  Conns = {c1, c2}
  NoConn = noconn
  MAX_CONNECTIONS = 1
  NumDevices = 1
  MaxFds = 3
  CtlCommands = {"START", "KILL"}
  MaxCommands = 2
INVARIANTS
  HeardWhileTaken
PROPERTIES
  PeersAnswered
  EndReleasesPeer
  StopNeedsReader
CHECK_DEADLOCK FALSE
