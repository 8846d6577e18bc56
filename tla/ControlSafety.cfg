SPECIFICATION Spec
CONSTANTS
  Senders = {s1, s2}
  MainThread = main
  Nobody = nobody
  XClients = {wm}
  Commands = {"NONE", "LIST", "START", "STOP", "SWITCH", "RELOAD", "KILL"}
  ReloadFlags = {FALSE}
  DeviceCounts = {1, 2}
  Faults = {"recv", "socket", "connect", "open", "send", "sigpipe", "stall", "display"}
SYMMETRY SenderSymmetry
INVARIANTS
  TypeOK
  FlagStillAsRead
  LockedAfterHello
  
PROPERTIES
  OnlyStartLeaks
  ServiceSpec
CHECK_DEADLOCK FALSE
