---------------------------- MODULE MCUnlockBind ----------------------------
(* The daemon's chord, typed on a keyboard with one key that is not in it.   *)
EXTENDS UnlockBind

CONSTANTS SuperL, ControlL, Period, Letter

KeysDef == {SuperL, ControlL, Period, Letter}
ChordDef == <<SuperL, ControlL, Period>>

ASSUME DistinctKeys
=============================================================================
