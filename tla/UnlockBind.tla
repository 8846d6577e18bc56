----------------------------- MODULE UnlockBind -----------------------------
(***************************************************************************)
(* How a lock thread recognises the unlock chord: try_unlock, called once  *)
(* per X event until the screen is unlocked.  The daemon's own chord is    *)
(* Super_L, Control_L, period.                                             *)
(*                                                                         *)
(* Events other than KeyPress change nothing and are left out, as is the   *)
(* counter that is 1 on every call and never reaches 100.                  *)
(***************************************************************************)
EXTENDS Naturals

CONSTANTS
  Keys,       \* the keysyms a keyboard sends
  ChordLen,   \* bind.len
  Chord,      \* bind.keys
  NoKey       \* stands for the time before the screen was locked

ASSUME ChordAssumption ==
  /\ ChordLen \in Nat \ {0}
  /\ Chord \in [1 .. ChordLen -> Keys]
  /\ NoKey \notin Keys

\* What spawn_lock_thread's chord satisfies besides: no key occurs twice.
DistinctKeys == \A i, j \in 1 .. ChordLen : Chord[i] = Chord[j] => i = j

VARIABLES
  idx,      \* bind.idx: how much of the chord is matched
  locked,   \* disp_lock->locked
  recent    \* history: the last presses since the screen was locked, newest last

vars == <<idx, locked, recent>>

\* Two chords' worth of presses.
Window == 2 * ChordLen

TypeOK ==
  /\ idx \in 0 .. ChordLen
  /\ locked \in BOOLEAN
  /\ recent \in [1 .. Window -> Keys \cup {NoKey}]

\* spawn_lock_thread, once lock() has returned.
Init ==
  /\ idx = 0
  /\ locked = TRUE
  /\ recent = [i \in 1 .. Window |-> NoKey]

\* Mutant: a wrong key does not start the chord anew.
AdvanceKeeps(k) == IF Chord[idx + 1] = k THEN idx + 1 ELSE idx

\* Mutant: the index wraps before it is compared with the length.
AdvanceWraps(k) == IF Chord[idx + 1] = k THEN (idx + 1) % ChordLen ELSE 0

\* Mutant: the debugging printf increments the index as well.
AdvanceSkips(k) == IF Chord[idx + 1] = k THEN idx + 2 ELSE 0

\* The press that breaks a partial match is not tried as the chord's first key.
Advance(k) == IF Chord[idx + 1] = k THEN idx + 1 ELSE 0

KeyPress(k) ==
  /\ locked
  /\ idx' = Advance(k)
  /\ locked' = (idx' # ChordLen)
  /\ recent' = [i \in 1 .. Window |-> IF i < Window THEN recent[i + 1] ELSE k]

Next == \E k \in Keys : KeyPress(k)

Spec == Init /\ [][Next]_vars

-----------------------------------------------------------------------------

\* The press p presses ago is the one p places before the end of m chord keys.
EndsWith(m) == \A p \in 1 .. m : recent[Window - m + p] = Chord[p]

\* A whole chord, then the first m keys of another.
EndsWithChordAnd(m) ==
  /\ EndsWith(m)
  /\ \A p \in 1 .. ChordLen : recent[ChordLen - m + p] = Chord[p]

\* The screen is unlocked only by the chord, typed without a key in between.
UnlockIsChord == ~locked => EndsWith(ChordLen)

\* One chord may be lost on a partial match left over from earlier presses, but
\* the second of two chords in a row always unlocks: "lock bind requires 2
\* presses" is the worst case, and never a lock-out.
TwoPressesUnlock == EndsWithChordAnd(ChordLen) => ~locked

\* After a press of a key that is not in the chord, one chord is enough.
CleanPressUnlocks ==
  /\ EndsWith(ChordLen)
  /\ recent[ChordLen] \in Keys
  /\ \A p \in 1 .. ChordLen : recent[ChordLen] # Chord[p]
  => ~locked
=============================================================================
