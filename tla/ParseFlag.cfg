SPECIFICATION Spec
CONSTANTS
  Letters <- LettersDef
  Vars <- VarsDef
  DestIp <- DestIpDef
  DestPort <- DestPortDef
  Devices <- DevicesDef
  Words <- WordsDef
  Number <- NumberDef
  Settings <- SettingsDef
  MaxSize = 8
  MaxSlips = 2
  DaemonIp <- DestIpDef
  DaemonPort <- DestPortDef
  Localhost <- LocalhostDef
  Argvs <- ArgvsDef
INVARIANTS
  ParseFlagHonoured
CHECK_DEADLOCK FALSE
