SPECIFICATION FairSpec
CONSTANTS
  Senders = {s1, s2}
  MainThread = main
  Nobody = nobody
  XClients = {}
  Commands = {"STOP", "SWITCH"}
  ReloadFlags = {FALSE}
  DeviceCounts = {1}
  Faults = {}
PROPERTY StopEndsSenders
CHECK_DEADLOCK FALSE
