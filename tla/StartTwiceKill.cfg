SPECIFICATION FairSpec
CONSTANTS
  Senders = {s1, s2}
  MainThread = main
  Nobody = nobody
  XClients = {}
  Commands = {"START", "KILL"}
  ReloadFlags = {FALSE}
  DeviceCounts = {1}
  Faults = {}
PROPERTY KillEndsDaemon
CHECK_DEADLOCK FALSE
