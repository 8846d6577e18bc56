SPECIFICATION FairSpec
CONSTANTS
  CtlTypes = {"LIST", "ADD_DEVICE", "RM_DEVICE", "DISABLE", "KILL"}
  Ctls = {c}
  Nobody = nobody
  Streams = {r, s}
  Threads = {t1, t2}
  Devices = {mouse, keys}
  NoDevice = nodevice
  MAX_SENDERS = 1
  MAX_LISTENERS = 1
INVARIANTS
  TypeOK
  ListenersOwnSlots
  LeakFreezesFlags
PROPERTIES
  CtlAnswered
  ClearedSendersEnd
CHECK_DEADLOCK FALSE
