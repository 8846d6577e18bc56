SPECIFICATION Spec
CONSTANTS
  SuperL = SuperL
  ControlL = ControlL
  Period = Period
  Letter = Letter
  Keys <- KeysDef
  ChordLen = 3
  Chord <- ChordDef
  NoKey = NoKey
INVARIANTS
  TypeOK
  UnlockIsChord
  TwoPressesUnlock
CHECK_DEADLOCK FALSE
