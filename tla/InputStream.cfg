SPECIFICATION FairSpec
CONSTANTS
  NumDevices = 2
  Capacity = 4
  MaxEvents = 2
INVARIANTS
  TypeOK
  InOrderWhileWhole
  WaitsBriefly
PROPERTIES
  ChannelWhileWhole
  
CHECK_DEADLOCK FALSE
