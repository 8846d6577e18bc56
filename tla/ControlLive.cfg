SPECIFICATION FairSpec
CONSTANTS
  Senders = {s1, s2}
  MainThread = main
  Nobody = nobody
  XClients = {}
  Commands = {"STOP", "SWITCH", "RELOAD", "KILL"}
  ReloadFlags = {TRUE}
  DeviceCounts = {1}
  Faults = {"socket", "connect", "open", "send", "stall"}
PROPERTIES
  CommandReturns
  KillEndsDaemon
  StopTakesEffect
  ServiceFairSpec
CHECK_DEADLOCK FALSE
