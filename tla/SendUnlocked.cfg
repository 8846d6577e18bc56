SPECIFICATION Spec
CONSTANTS
  Senders = {s1, s2}
  MainThread = main
  Nobody = nobody
  XClients = {}
  Commands = {"START", "STOP"}
  ReloadFlags = {FALSE}
  DeviceCounts = {1}
  Faults = {}
INVARIANT SendingMeansLocked
CHECK_DEADLOCK FALSE
