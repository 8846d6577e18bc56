-------------------------- MODULE UnlockBindProofs --------------------------
(***************************************************************************)
(* Theorems about the unlock chord, for every keyboard and every chord.    *)
(***************************************************************************)
EXTENDS UnlockBind, TLAPS

\* The index counts chord keys that are the latest presses, and the screen is
\* unlocked when it reaches the chord's length.
MatchInv ==
  /\ TypeOK
  /\ EndsWith(idx)
  /\ locked <=> idx # ChordLen

LEMMA MatchInit == Init => MatchInv
  BY ChordAssumption DEF Init, MatchInv, TypeOK, EndsWith, Window

\* A press shifts the window: what ended it before ends all but the last place.
LEMMA PressShifts ==
  ASSUME TypeOK, NEW k \in Keys, KeyPress(k),
         NEW m \in 0 .. ChordLen - 1
  PROVE  /\ EndsWith(m) /\ k = Chord[m + 1] => EndsWith(m + 1)'
         /\ EndsWith(m + 1)' => EndsWith(m) /\ k = Chord[m + 1]
<1> USE ChordAssumption DEF TypeOK, Window
<1> DEFINE W == 2 * ChordLen
<1>1. W \in Nat /\ m + 1 <= W /\ m + 1 <= ChordLen
  OBVIOUS
<1>2. recent' = [i \in 1 .. W |-> IF i < W THEN recent[i + 1] ELSE k]
  BY DEF KeyPress
<1> HIDE DEF W
<1>3. \A p \in 1 .. m : recent'[W - (m + 1) + p] = recent[W - m + p]
  BY <1>1, <1>2
<1>4. recent'[W - (m + 1) + (m + 1)] = k
  BY <1>1, <1>2
<1>5. EndsWith(m) <=> \A p \in 1 .. m : recent[W - m + p] = Chord[p]
  BY DEF EndsWith, W
<1>6. EndsWith(m + 1)' <=> \A p \in 1 .. m + 1 : recent'[W - (m + 1) + p] = Chord[p]
  BY DEF EndsWith, W
<1> QED
  BY <1>3, <1>4, <1>5, <1>6

LEMMA MatchStep == MatchInv /\ [Next]_vars => MatchInv'
<1> USE ChordAssumption DEF MatchInv
<1>1. ASSUME MatchInv, NEW k \in Keys, KeyPress(k)
      PROVE  MatchInv'
  <2>1. idx \in 0 .. ChordLen - 1
    BY <1>1 DEF KeyPress, TypeOK
  <2>2. TypeOK'
    BY <1>1, <2>1 DEF KeyPress, Advance, TypeOK, Window
  <2>3. EndsWith(idx)'
    <3>1. CASE Chord[idx + 1] = k
      BY <1>1, <2>1, <3>1, PressShifts DEF KeyPress, Advance, EndsWith, Window
    <3>2. CASE Chord[idx + 1] # k
      BY <1>1, <3>2 DEF KeyPress, Advance, EndsWith
    <3> QED
      BY <3>1, <3>2
  <2> QED
    BY <1>1, <2>2, <2>3 DEF KeyPress
<1>2. ASSUME MatchInv, UNCHANGED vars
      PROVE  MatchInv'
  BY <1>2 DEF vars, TypeOK, EndsWith, Window
<1> QED
  BY <1>1, <1>2 DEF Next

LEMMA MatchInvariant == Spec => []MatchInv
  BY MatchInit, MatchStep, PTL DEF Spec

\* try_unlock never reads a key behind the end of the chord: its index stays
\* between 0 and the chord's length.
THEOREM UnlockTypeCorrect == Spec => []TypeOK
<1>1. MatchInv => TypeOK
  BY DEF MatchInv
<1> QED
  BY <1>1, MatchInvariant, PTL

\* Only the whole chord, with no key in between, unlocks the screen.
THEOREM ChordUnlocks == Spec => []UnlockIsChord
<1>1. MatchInv => UnlockIsChord
  BY DEF MatchInv, UnlockIsChord
<1> QED
  BY <1>1, MatchInvariant, PTL

-----------------------------------------------------------------------------
(* Two presses of the chord *)

\* After p chord keys the index says p, or 0 when the chord met a partial match.
InStepOrLost ==
  \A p \in 1 .. ChordLen : EndsWith(p) => idx \in {0, p}

\* A second chord starts from index 0.
SecondInStep ==
  \A m \in 0 .. ChordLen : EndsWithChordAnd(m) /\ locked => idx = m

PressesInv == MatchInv /\ InStepOrLost /\ SecondInStep

\* EndsWithChordAnd shifts like EndsWith.
LEMMA PressShiftsChord ==
  ASSUME TypeOK, NEW k \in Keys, KeyPress(k),
         NEW m \in 0 .. ChordLen - 1, EndsWithChordAnd(m + 1)'
  PROVE  EndsWithChordAnd(m) /\ k = Chord[m + 1]
<1> USE ChordAssumption DEF TypeOK
<1>1. \A p \in 1 .. ChordLen : recent'[ChordLen - (m + 1) + p] = recent[ChordLen - m + p]
  <2> SUFFICES ASSUME NEW p \in 1 .. ChordLen
               PROVE  recent'[ChordLen - (m + 1) + p] = recent[ChordLen - m + p]
    OBVIOUS
  <2> DEFINE i == ChordLen - (m + 1) + p
  <2>1. i \in 1 .. Window /\ i < Window /\ i + 1 = ChordLen - m + p
    BY DEF Window
  <2> HIDE DEF i
  <2>2. recent'[i] = recent[i + 1]
    BY <2>1 DEF KeyPress, Window
  <2> QED
    BY <2>1, <2>2 DEF i
<1>2. EndsWith(m + 1)' /\ \A p \in 1 .. ChordLen : recent'[ChordLen - (m + 1) + p] = Chord[p]
  BY DEF EndsWithChordAnd
<1> QED
  BY <1>1, <1>2, PressShifts DEF EndsWithChordAnd

LEMMA PressesInit == Init => PressesInv
<1> USE ChordAssumption DEF Init, Window
<1>1. Init => InStepOrLost
  BY DEF InStepOrLost
<1>2. Init => SecondInStep
  <2> SUFFICES ASSUME Init, NEW m \in 0 .. ChordLen, EndsWithChordAnd(m)
               PROVE  FALSE
    BY DEF SecondInStep
  <2>1. recent[ChordLen - m + 1] = Chord[1]
    BY DEF EndsWithChordAnd
  <2>2. ChordLen - m + 1 \in 1 .. 2 * ChordLen
    OBVIOUS
  <2> QED
    BY <2>1, <2>2
<1> QED
  BY <1>1, <1>2, MatchInit DEF PressesInv

LEMMA PressesStep ==
  ASSUME DistinctKeys
  PROVE  PressesInv /\ [Next]_vars => PressesInv'
<1> USE ChordAssumption
<1>1. ASSUME PressesInv, NEW k \in Keys, KeyPress(k)
      PROVE  InStepOrLost' /\ SecondInStep'
  <2>1. TypeOK /\ idx \in 0 .. ChordLen - 1 /\ InStepOrLost /\ SecondInStep /\ locked
    BY <1>1 DEF PressesInv, MatchInv, KeyPress, TypeOK
  <2>2. InStepOrLost'
    <3> SUFFICES ASSUME NEW p \in 1 .. ChordLen, EndsWith(p)'
                 PROVE  idx' \in {0, p}
      BY DEF InStepOrLost
    <3>1. p - 1 \in 0 .. ChordLen - 1 /\ (p - 1) + 1 = p
      OBVIOUS
    <3>2. EndsWith(p - 1) /\ k = Chord[p]
      BY <1>1, <2>1, <3>1, PressShifts
    <3>3. CASE idx + 1 = p
      BY <1>1, <3>2, <3>3 DEF KeyPress, Advance
    <3>4. CASE idx + 1 # p
      <4>1. Chord[idx + 1] # k
        BY <2>1, <3>2, <3>4 DEF DistinctKeys
      <4> QED
        BY <1>1, <4>1 DEF KeyPress, Advance
    <3> QED
      BY <3>3, <3>4
  <2>3. SecondInStep'
    <3> SUFFICES ASSUME NEW m \in 0 .. ChordLen, EndsWithChordAnd(m)', locked'
                 PROVE  idx' = m
      BY DEF SecondInStep
    <3>1. CASE m = 0
      <4>1. EndsWith(ChordLen)'
        BY <3>1 DEF EndsWithChordAnd, EndsWith, Window
      <4>2. idx' # ChordLen
        BY <1>1 DEF KeyPress
      <4> QED
        BY <2>2, <3>1, <4>1, <4>2 DEF InStepOrLost
    <3>2. CASE m # 0
      <4>1. m - 1 \in 0 .. ChordLen - 1 /\ (m - 1) + 1 = m
        BY <3>2
      <4>2. EndsWithChordAnd(m - 1) /\ k = Chord[m]
        BY <1>1, <2>1, <4>1, PressShiftsChord
      <4>3. idx = m - 1
        BY <2>1, <4>1, <4>2 DEF SecondInStep
      <4> QED
        BY <1>1, <4>1, <4>2, <4>3 DEF KeyPress, Advance
    <3> QED
      BY <3>1, <3>2
  <2> QED
    BY <2>2, <2>3
<1>2. ASSUME PressesInv, UNCHANGED vars
      PROVE  InStepOrLost' /\ SecondInStep'
  BY <1>2 DEF PressesInv, vars, InStepOrLost, SecondInStep, EndsWithChordAnd, EndsWith
<1> QED
  BY <1>1, <1>2, MatchStep DEF Next, PressesInv

\* For every chord without a repeated key, typing it twice in a row unlocks the
\* screen whatever was typed before.
THEOREM SecondChordUnlocks ==
  ASSUME DistinctKeys
  PROVE  Spec => []TwoPressesUnlock
<1>1. PressesInv => TwoPressesUnlock
  BY ChordAssumption DEF PressesInv, MatchInv, SecondInStep, TwoPressesUnlock
<1> QED
  BY <1>1, PressesInit, PressesStep, PTL DEF Spec

-----------------------------------------------------------------------------
(* One press of the chord after another key *)

\* After a press of a key outside the chord and m chord keys, the index says m.
CleanInStep ==
  \A m \in 0 .. ChordLen :
    EndsWith(m) /\ recent[Window - m] \in Keys
    /\ (\A p \in 1 .. ChordLen : recent[Window - m] # Chord[p])
    => idx = m

CleanInv == MatchInv /\ CleanInStep

LEMMA CleanStep == CleanInv /\ [Next]_vars => CleanInv'
<1> USE ChordAssumption
<1>1. ASSUME CleanInv, NEW k \in Keys, KeyPress(k)
      PROVE  CleanInStep'
  <2>1. TypeOK /\ idx \in 0 .. ChordLen - 1 /\ CleanInStep
    BY <1>1 DEF CleanInv, MatchInv, KeyPress, TypeOK
  <2> SUFFICES ASSUME NEW m \in 0 .. ChordLen, EndsWith(m)', recent'[Window - m] \in Keys,
                      \A p \in 1 .. ChordLen : recent'[Window - m] # Chord[p]
               PROVE  idx' = m
    BY DEF CleanInStep, Window
  <2>2. CASE m = 0
    <3>1. recent'[Window] = k
      BY <1>1 DEF KeyPress, Window
    <3>2. idx + 1 \in 1 .. ChordLen /\ Window - m = Window
      BY <2>1, <2>2 DEF Window
    <3>3. k # Chord[idx + 1]
      BY <3>1, <3>2
    <3> QED
      BY <1>1, <2>2, <3>3 DEF KeyPress, Advance
  <2>3. CASE m # 0
    <3>1. m - 1 \in 0 .. ChordLen - 1 /\ (m - 1) + 1 = m
      BY <2>3
    <3>2. EndsWith(m - 1) /\ k = Chord[m]
      BY <1>1, <2>1, <3>1, PressShifts
    <3>3. recent'[Window - m] = recent[Window - (m - 1)]
      <4> DEFINE i == Window - m
      <4>1. i \in 1 .. Window /\ i < Window /\ i + 1 = Window - (m - 1)
        BY <2>3 DEF Window
      <4> HIDE DEF i
      <4>2. recent'[i] = recent[i + 1]
        BY <1>1, <4>1 DEF KeyPress, Window
      <4> QED
        BY <4>1, <4>2 DEF i
    <3>4. idx = m - 1
      BY <2>1, <3>1, <3>2, <3>3 DEF CleanInStep
    <3> QED
      BY <1>1, <3>1, <3>2, <3>4 DEF KeyPress, Advance
  <2> QED
    BY <2>2, <2>3
<1>2. ASSUME CleanInv, UNCHANGED vars
      PROVE  CleanInStep'
  BY <1>2 DEF CleanInv, vars, CleanInStep, EndsWith
<1> QED
  BY <1>1, <1>2, MatchStep DEF Next, CleanInv

LEMMA CleanInit == Init => CleanInv
<1> USE ChordAssumption
<1>1. Init => CleanInStep
  <2> SUFFICES ASSUME Init, NEW m \in 0 .. ChordLen, recent[Window - m] \in Keys
               PROVE  FALSE
    BY DEF CleanInStep
  <2>1. Window - m \in 1 .. Window
    BY DEF Window
  <2> QED
    BY <2>1 DEF Init
<1> QED
  BY <1>1, MatchInit DEF CleanInv

\* For every chord, repeated keys or not, one chord typed after a key that is
\* not in it unlocks the screen.
THEOREM CleanChordUnlocks == Spec => []CleanPressUnlocks
<1>1. CleanInv => CleanPressUnlocks
  <2> SUFFICES ASSUME CleanInv, EndsWith(ChordLen), recent[ChordLen] \in Keys,
                      \A p \in 1 .. ChordLen : recent[ChordLen] # Chord[p]
               PROVE  ~locked
    BY DEF CleanPressUnlocks
  <2>1. Window - ChordLen = ChordLen /\ ChordLen \in 0 .. ChordLen
    BY ChordAssumption DEF Window
  <2>2. idx = ChordLen
    BY <2>1 DEF CleanInv, CleanInStep
  <2> QED
    BY <2>2 DEF CleanInv, MatchInv
<1> QED
  BY <1>1, CleanInit, CleanStep, PTL DEF Spec
=============================================================================
