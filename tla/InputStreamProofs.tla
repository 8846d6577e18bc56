------------------------- MODULE InputStreamProofs -------------------------
(***************************************************************************)
(* Theorems about an input stream with any number of devices, any length   *)
(* of input and any capacity of the socket buffers.                        *)
(***************************************************************************)
EXTENDS InputStream, TLAPS

\* The packets sent and not yet read.
Unread == (read \div 2) + 1 .. Len(sent)

\* A device that poll found readable stays so until the loop reaches it, and only
\* the event in packet.ie was read and not sent.
ReadyInv ==
  /\ at = "for" => \A d \in ready : d >= i => taken[d] < typed[d]
  /\ at = "send" => /\ i \in Devs
                    /\ taken = [handed EXCEPT ![i] = @ + 1]
                    /\ \A d \in ready : d > i => taken[d] < typed[d]
  /\ at \in {"poll", "for", "check"} => taken = handed
  /\ \A d \in Devs : handed[d] <= taken[d] /\ taken[d] <= typed[d]

StateInv == TypeOK /\ ReadyInv

LEMMA StateInit == Init => StateInv
<1> SUFFICES ASSUME Init
             PROVE  StateInv
  OBVIOUS
<1> USE StreamAssumption DEF Init
<1>1. sent \in Seq(Packets) /\ Len(sent) = 0 /\ applied \in [Devs -> Seq(Nat)]
  OBVIOUS
<1>2. arrived \in 0 .. After(Len(sent)) /\ read \in 0 .. arrived
  BY <1>1 DEF After
<1>3. i \in 0 .. NumDevices /\ ready \in SUBSET Devs
  OBVIOUS
<1>4. /\ typed \in [Devs -> 0 .. MaxEvents] /\ taken \in [Devs -> 0 .. MaxEvents]
      /\ handed \in [Devs -> 0 .. MaxEvents] /\ passed \in [Devs -> Nat]
      /\ ReadyInv
  BY DEF ReadyInv
<1> QED
  BY <1>1, <1>2, <1>3, <1>4 DEF StateInv, TypeOK

LEMMA ReadDeviceType ==
  ASSUME StateInv, ReadDevice
  PROVE  StateInv'
<1> USE StreamAssumption DEF StateInv, ReadDevice, receiverVars
<1>1. i \in Devs /\ taken[i] < typed[i] /\ taken[i] \in Nat /\ typed[i] \in Nat
      /\ typed[i] <= MaxEvents /\ taken = handed
  BY DEF TypeOK, ReadyInv, Devs
<1>2. passed' \in [Devs -> Nat]
  BY DEF TypeOK, PassedBy
<1>3. /\ taken' = [taken EXCEPT ![i] = @ + 1]
      /\ taken' \in [Devs -> 0 .. MaxEvents]
      /\ taken'[i] = taken[i] + 1
      /\ \A d \in Devs : d # i => taken'[d] = taken[d]
  BY <1>1 DEF TypeOK
<1>4. TypeOK'
  BY <1>2, <1>3 DEF TypeOK
<1>5. \A d \in ready : d \in Devs /\ d \in Nat /\ i \in Nat
  BY DEF TypeOK, Devs
<1>6. \A d \in ready : d > i => taken'[d] < typed[d]
  BY <1>3, <1>5 DEF ReadyInv
<1>7. \A d \in Devs : handed[d] \in Nat /\ handed[d] <= taken'[d] /\ taken'[d] <= typed[d]
  <2> SUFFICES ASSUME NEW d \in Devs
               PROVE  handed[d] \in Nat /\ handed[d] <= taken'[d] /\ taken'[d] <= typed[d]
    OBVIOUS
  <2>1. handed[d] \in Nat /\ handed[d] <= taken[d] /\ taken[d] <= typed[d] /\ taken[d] \in Nat
    BY DEF TypeOK, ReadyInv
  <2> QED
    BY <1>1, <1>3, <2>1
<1> QED
  BY <1>1, <1>3, <1>4, <1>6, <1>7 DEF ReadyInv

LEMMA SendPacketType ==
  ASSUME StateInv, SendPacket
  PROVE  StateInv'
<1> USE StreamAssumption DEF StateInv, SendPacket, receiverVars, deviceVars
<1>1. i \in Devs /\ i \in Nat /\ i < NumDevices /\ taken = [handed EXCEPT ![i] = @ + 1]
  BY DEF TypeOK, ReadyInv, Devs
<1>2. taken \in [Devs -> Nat] /\ handed \in [Devs -> Nat] /\ taken[i] = handed[i] + 1
  BY <1>1 DEF TypeOK
<1>3. PacketOf(i) \in Packets
  BY <1>1, <1>2 DEF PacketOf, Packets
<1>4. sent' \in Seq(Packets) /\ Len(sent') = Len(sent) + 1
  BY <1>3 DEF TypeOK
<1>5. handed' = taken
  BY <1>1
<1>6. TypeOK'
  <2>1. arrived' \in 0 .. After(Len(sent')) /\ read' \in 0 .. arrived'
    BY <1>4 DEF TypeOK, After
  <2>2. i' \in 0 .. NumDevices /\ at' = "for"
    BY <1>1
  <2>3. UNCHANGED <<typed, taken, passed, ready, sending, short, created, listener, applied>>
    OBVIOUS
  <2> QED
    BY <1>4, <1>5, <2>1, <2>2, <2>3 DEF TypeOK
<1>7. \A d \in ready : d \in Nat
  BY DEF TypeOK, Devs
<1>8. \A d \in ready : d >= i + 1 => taken[d] < typed[d]
  BY <1>1, <1>7 DEF ReadyInv
<1>9. \A d \in Devs : taken[d] <= taken[d] /\ taken[d] <= typed[d]
  BY <1>2 DEF ReadyInv
<1> QED
  BY <1>5, <1>6, <1>8, <1>9 DEF ReadyInv

LEMMA ListenerType ==
  ASSUME StateInv, Listener
  PROVE  StateInv'
<1> USE StreamAssumption
        DEF StateInv, TypeOK, ReadyInv, CanRead, After, WholePackets, deviceVars, senderVars
<1>1. CASE ReadPacket
  <2> DEFINE p == sent[read \div 2 + 1]
  <2>1. read \div 2 + 1 \in 1 .. Len(sent)
    BY <1>1 DEF ReadPacket
  <2>2. p \in Packets
    BY <2>1
  <2>3. p.dev_id \in Devs /\ p.ie \in Nat
    BY <2>2 DEF Packets
  <2>4. Write(p.dev_id, p.ie)
    BY <1>1 DEF ReadPacket
  <2> HIDE DEF p
  <2>5. applied' \in [Devs -> Seq(Nat)]
    BY <2>3, <2>4 DEF Write
  <2> QED
    BY <1>1, <2>5 DEF ReadPacket
<1>2. ASSUME NEW d \in Devs, ReadGarbage(d)
      PROVE  StateInv'
  <2>1. applied' \in [Devs -> Seq(Nat)]
    BY <1>2 DEF ReadGarbage, Write
  <2>2. read' \in 0 .. arrived' /\ arrived' \in 0 .. After(Len(sent'))
    BY <1>2 DEF ReadGarbage
  <2>3. UNCHANGED <<typed, taken, handed, passed, at, i, ready, sending, sent, short, created, listener>>
    BY <1>2 DEF ReadGarbage
  <2> HIDE DEF WholePackets, CanRead, After
  <2> QED
    BY <2>1, <2>2, <2>3
<1>3. CASE ReadPart
  BY <1>3 DEF ReadPart
<1>4. CASE ReadEnd
  BY <1>4 DEF ReadEnd
<1> QED
  BY <1>1, <1>2, <1>3, <1>4 DEF Listener

LEMMA StateStep == StateInv /\ [Next]_vars => StateInv'
<1> SUFFICES ASSUME StateInv, [Next]_vars
             PROVE  StateInv'
  OBVIOUS
<1> USE StreamAssumption
<1>1. ASSUME NEW d \in Devs, Produce(d)
      PROVE  StateInv'
  <2>1. /\ typed' \in [Devs -> 0 .. MaxEvents]
        /\ \A e \in Devs : typed[e] <= typed'[e] /\ typed[e] \in Nat /\ typed'[e] \in Nat
        /\ UNCHANGED <<taken, passed, senderVars, sending, sent, receiverVars>>
    BY <1>1 DEF Produce, StateInv, TypeOK
  <2>2. TypeOK'
    BY <2>1 DEF StateInv, TypeOK, senderVars, receiverVars
  <2>3. /\ \A e \in Devs : taken[e] \in Nat
        /\ \A e \in ready : e \in Devs
    BY DEF StateInv, TypeOK
  <2> QED
    BY <2>1, <2>2, <2>3 DEF StateInv, ReadyInv, senderVars
<1>2. CASE Poll \/ SkipDevice
  <2>1. CASE Poll
    <3>1. ready' \in SUBSET Devs /\ i' \in 0 .. NumDevices
      BY <2>1 DEF Poll
    <3> QED
      BY <2>1, <3>1 DEF Poll, StateInv, TypeOK, ReadyInv, deviceVars, receiverVars
  <2>2. CASE SkipDevice
    <3>1. \A d \in ready : d \in Nat /\ i \in Nat
      BY DEF StateInv, TypeOK, Devs
    <3>2. i' \in 0 .. NumDevices
      BY <2>2 DEF SkipDevice, StateInv, TypeOK
    <3> QED
      BY <2>2, <3>1, <3>2 DEF SkipDevice, StateInv, TypeOK, ReadyInv, deviceVars, receiverVars
  <2> QED
    BY <1>2, <2>1, <2>2
<1>3. CASE ForEnds \/ CheckFlag \/ SendFails \/ RelayFails
  BY <1>3 DEF ForEnds, CheckFlag, SendFails, RelayFails, StateInv, TypeOK, ReadyInv, deviceVars, receiverVars
<1>4. CASE Stop \/ DaemonEnds \/ ReceiverEnds
  BY <1>4 DEF Stop, DaemonEnds, ReceiverEnds, StateInv, TypeOK, ReadyInv, deviceVars,
     senderVars, receiverVars
<1>5. CASE Network
  BY <1>5 DEF Network, Arrive, StateInv, TypeOK, ReadyInv, deviceVars, senderVars, After
<1>6. CASE UNCHANGED vars
  BY <1>6 DEF vars, StateInv, TypeOK, ReadyInv, deviceVars, senderVars, receiverVars
<1> QED
  BY <1>1, <1>2, <1>3, <1>4, <1>5, <1>6, ReadDeviceType, SendPacketType, ListenerType
  DEF Next, Sender

\* Every behaviour of a stream keeps every variable in its type.
THEOREM StreamTypeCorrect == Spec => []TypeOK
<1>1. StateInv => TypeOK
  BY DEF StateInv
<1> QED
  BY <1>1, StateInit, StateStep, PTL DEF Spec

-----------------------------------------------------------------------------
(* Turns *)

\* The devices below this one had their turn in the loop.
Reached == IF at = "send" THEN i + 1 ELSE i

\* How often a device was passed over, by what poll found of it and whether the
\* loop has been there.
TurnOf(d) ==
  /\ ~Waits(d) => passed[d] = 0
  /\ at \in {"poll", "check"} => passed[d] <= NumDevices - 1
  /\ at \in {"for", "send"} =>
       /\ d \in ready /\ d >= Reached => passed[d] <= NumDevices - 1 + Reached
       /\ d \in ready /\ d < Reached => passed[d] <= Reached - d - 1
       /\ d \notin ready /\ d >= Reached => passed[d] <= Reached
       /\ d \notin ready /\ d < Reached => passed[d] <= Reached - 1
  /\ at \in {"exited", "dead"} => passed[d] <= NumDevices - 1 + d

TurnInv == \A d \in Devs : TurnOf(d)

TurnsInv == StateInv /\ TurnInv

LEMMA TurnsType ==
  ASSUME StateInv
  PROVE  /\ NumDevices \in Nat /\ i \in Nat /\ i <= NumDevices
         /\ (at = "send" => i < NumDevices)
         /\ \A d \in Devs : d \in Nat /\ d < NumDevices /\ passed[d] \in Nat
         /\ Reached \in Nat /\ Reached <= NumDevices
<1>1. NumDevices \in Nat /\ i \in 0 .. NumDevices
  BY StreamAssumption DEF StateInv, TypeOK
<1>2. at = "send" => i < NumDevices
  BY <1>1 DEF StateInv, ReadyInv, Devs
<1>3. \A d \in Devs : d \in Nat /\ d < NumDevices
  BY <1>1 DEF Devs
<1>4. \A d \in Devs : passed[d] \in Nat
  BY DEF StateInv, TypeOK
<1>5. Reached \in Nat /\ Reached <= NumDevices
  BY <1>1, <1>2 DEF Reached
<1> QED
  BY <1>1, <1>2, <1>3, <1>4, <1>5

LEMMA ReadKeepsTurns ==
  ASSUME TurnsInv, ReadDevice
  PROVE  TurnInv'
<1> SUFFICES ASSUME NEW d \in Devs
             PROVE  TurnOf(d)'
  BY DEF TurnInv, Devs
<1>1. /\ i \in Nat /\ i < NumDevices /\ NumDevices \in Nat /\ i \in ready
      /\ Reached = i /\ Reached' = i + 1 /\ at = "for" /\ at' = "send" /\ ready' = ready
  BY TurnsType DEF TurnsInv, ReadDevice, Reached
<1>2. /\ d \in Nat /\ d < NumDevices /\ passed[d] \in Nat
      /\ passed'[d] = IF d # i /\ Waits(d) THEN passed[d] + 1 ELSE 0
  BY TurnsType DEF TurnsInv, ReadDevice, PassedBy
<1>3. d # i => (Waits(d)' <=> Waits(d))
  BY DEF TurnsInv, StateInv, TypeOK, ReadDevice, Waits
<1>4. /\ d \in ready /\ d >= i => passed[d] <= NumDevices - 1 + i
      /\ d \in ready /\ d < i => passed[d] <= i - d - 1
      /\ d \notin ready /\ d >= i => passed[d] <= i
      /\ d \notin ready /\ d < i => passed[d] <= i - 1
  BY <1>1 DEF TurnsInv, TurnInv, TurnOf
<1>5. /\ d \in ready /\ d >= i + 1 => passed'[d] <= NumDevices - 1 + (i + 1)
      /\ d \in ready /\ d < i + 1 => passed'[d] <= (i + 1) - d - 1
      /\ d \notin ready /\ d >= i + 1 => passed'[d] <= i + 1
      /\ d \notin ready /\ d < i + 1 => passed'[d] <= (i + 1) - 1
  BY <1>1, <1>2, <1>4
<1>6. ~Waits(d)' => passed'[d] = 0
  BY <1>2, <1>3
<1>7. at' \notin {"poll", "check"} /\ at' \notin {"exited", "dead"}
  BY <1>1
<1> QED
  BY <1>1, <1>5, <1>6, <1>7 DEF TurnOf

LEMMA TurnsInit == Init => TurnsInv
<1> SUFFICES ASSUME Init, NEW d \in Devs
             PROVE  /\ passed[d] = 0
                    /\ passed[d] <= NumDevices - 1
                    /\ at \notin {"for", "send"} /\ at \notin {"exited", "dead"}
  BY StateInit DEF TurnsInv, TurnInv, TurnOf
<1>1. passed[d] = 0
  BY DEF Init
<1>2. at = "poll"
  BY DEF Init
<1>3. 0 <= NumDevices - 1
  BY StreamAssumption DEF Devs
<1> QED
  BY <1>1, <1>2, <1>3

LEMMA TurnsStep == TurnsInv /\ [Next]_vars => TurnsInv'
<1> SUFFICES ASSUME TurnsInv, [Next]_vars
             PROVE  TurnInv'
  BY StateStep DEF TurnsInv
<1>1. /\ NumDevices \in Nat /\ i \in Nat /\ i <= NumDevices
      /\ (at = "send" => i < NumDevices)
      /\ \A d \in Devs : d \in Nat /\ d < NumDevices /\ passed[d] \in Nat
  BY TurnsType DEF TurnsInv
<1>2. TurnInv
  BY DEF TurnsInv
<1>3. ASSUME NEW d \in Devs, Produce(d)
      PROVE  TurnInv'
  <2>1. \A e \in Devs : Waits(e) => Waits(e)'
    BY <1>3, StreamAssumption DEF Produce, Waits, TurnsInv, StateInv, TypeOK
  <2>2. UNCHANGED <<passed, at, i, ready>>
    BY <1>3 DEF Produce, senderVars
  <2> QED
    BY <1>2, <2>1, <2>2 DEF TurnInv, TurnOf, Reached
<1>4. CASE Poll
  <2>1. /\ at = "poll" /\ at' = "for" /\ i' = 0 /\ Reached' = 0
        /\ UNCHANGED <<passed, taken, typed>> /\ ready' = {d \in Devs : Waits(d)}
    BY <1>4 DEF Poll, deviceVars, Waits, Reached
  <2>2. \A d \in Devs : (Waits(d)' <=> Waits(d)) /\ (d \notin ready' => passed[d] = 0)
    BY <1>2, <2>1 DEF TurnInv, TurnOf, Waits
  <2> QED
    BY <1>1, <1>2, <2>1, <2>2 DEF TurnInv, TurnOf
<1>5. CASE SendPacket
  <2>1. /\ at = "send" /\ at' = "for" /\ Reached' = Reached
        /\ UNCHANGED <<passed, taken, typed, ready>>
    BY <1>5 DEF SendPacket, deviceVars, Reached
  <2> QED
    BY <1>2, <2>1 DEF TurnInv, TurnOf, Waits
<1>6. CASE SkipDevice
  <2>1. /\ at = "for" /\ at' = "for" /\ Reached = i /\ Reached' = i + 1 /\ i \notin ready
        /\ UNCHANGED <<passed, taken, typed, ready>>
    BY <1>6 DEF SkipDevice, deviceVars, Reached
  <2> QED
    BY <1>1, <1>2, <2>1 DEF TurnInv, TurnOf, Waits
<1>7. CASE ForEnds
  <2>1. /\ at = "for" /\ at' = "check" /\ Reached = NumDevices
        /\ UNCHANGED <<passed, taken, typed>>
    BY <1>7 DEF ForEnds, deviceVars, Reached
  <2> QED
    BY <1>1, <1>2, <2>1 DEF TurnInv, TurnOf, Waits
<1>8. CASE CheckFlag
  <2>1. at = "check" /\ at' \in {"poll", "exited"} /\ UNCHANGED <<passed, taken, typed>>
    BY <1>8 DEF CheckFlag, deviceVars
  <2> QED
    BY <1>1, <1>2, <2>1 DEF TurnInv, TurnOf, Waits
<1>9. CASE SendFails \/ RelayFails \/ DaemonEnds
  <2>1. at' \in {"exited", "dead"} /\ UNCHANGED <<passed, taken, typed>>
    BY <1>9 DEF SendFails, RelayFails, DaemonEnds, deviceVars
  <2>2. at \in {"poll", "for", "send", "check", "exited", "dead"}
    BY DEF TurnsInv, StateInv, TypeOK
  <2>3. \A d \in Devs : passed[d] <= NumDevices - 1 + d
    BY <1>1, <1>2, <2>2 DEF TurnInv, TurnOf, Reached
  <2> QED
    BY <1>2, <2>1, <2>3 DEF TurnInv, TurnOf, Waits
<1>10. CASE Stop \/ ReceiverEnds \/ Network \/ Listener \/ UNCHANGED vars
  <2>1. UNCHANGED <<passed, taken, typed, at, i, ready>>
    BY <1>10 DEF Stop, ReceiverEnds, Network, Arrive, Listener, ReadPacket, ReadGarbage, ReadPart,
       ReadEnd, vars, deviceVars, senderVars
  <2> QED
    BY <1>2, <2>1 DEF TurnInv, TurnOf, Waits, Reached
<1> QED
  BY <1>3, <1>4, <1>5, <1>6, <1>7, <1>8, <1>9, <1>10, ReadKeepsTurns DEF Next, Sender

\* No device is passed over more often than there are other devices and devices
\* before it, however much the others produce.
THEOREM TurnsAreShort == Spec => []WaitsBriefly
<1>1. TurnsInv => WaitsBriefly
  <2> SUFFICES ASSUME TurnsInv, NEW d \in Devs
               PROVE  passed[d] <= NumDevices - 1 + d
    BY DEF WaitsBriefly
  <2>1. at \in {"poll", "for", "send", "check", "exited", "dead"}
    BY DEF TurnsInv, StateInv, TypeOK
  <2> QED
    BY <2>1, TurnsType DEF TurnsInv, TurnInv, TurnOf
<1> QED
  BY <1>1, TurnsInit, TurnsStep, PTL DEF Spec

-----------------------------------------------------------------------------
(* Order *)

\* The unread packets of a device are the events between the last one applied
\* and the last one sent, in order and all of them.
QueueInv ==
  /\ WholePackets(read)
  /\ \A p \in Unread :
       sent[p].dev_id \in created =>
         sent[p].ie \in Len(applied[sent[p].dev_id]) + 1 .. handed[sent[p].dev_id]
  /\ \A p, q \in Unread :
       p < q /\ sent[p].dev_id = sent[q].dev_id => sent[p].ie < sent[q].ie
  /\ \A p \in Unread : sent[p].ie <= handed[sent[p].dev_id]
  /\ \A d \in created : \A n \in Len(applied[d]) + 1 .. handed[d] :
       \E p \in Unread : sent[p].dev_id = d /\ sent[p].ie = n

OrderInv ==
  /\ StateInv
  /\ \A d \in Devs \ created : applied[d] = <<>>
  /\ ~short => AppliedInOrder /\ \A d \in Devs : Len(applied[d]) <= handed[d]
  /\ ~short /\ listener # "dead" => QueueInv

LEMMA OrderInit == Init => OrderInv
<1> SUFFICES ASSUME Init
             PROVE  OrderInv
  OBVIOUS
<1>1. StateInv /\ created \subseteq Devs
  BY StateInit DEF Init
<1>2. \A d \in Devs : applied[d] = <<>> /\ Len(applied[d]) = 0 /\ handed[d] = 0
  BY DEF Init
<1>3. Unread = {}
  BY DEF Unread, Init
<1> QED
  BY <1>1, <1>2, <1>3 DEF OrderInv, QueueInv, AppliedInOrder, WholePackets, Init

\* The packet a read returns is its device's next event.
LEMMA NextInOrder ==
  ASSUME OrderInv, ReadPacket, ~short
  PROVE  LET p == sent[read \div 2 + 1]
         IN  /\ p.dev_id \in Devs
             /\ read \div 2 + 1 \in Unread
             /\ p.dev_id \in created =>
                  p.ie = Len(applied[p.dev_id]) + 1 /\ p.ie <= handed[p.dev_id]
<1> DEFINE h == read \div 2 + 1
<1> DEFINE d == sent[h].dev_id
<1>1. QueueInv
  BY DEF OrderInv, ReadPacket, CanRead
<1>2. h \in Unread /\ h \in 1 .. Len(sent) /\ read \in Nat
  BY DEF OrderInv, StateInv, TypeOK, ReadPacket, CanRead, After, Unread
<1>3. sent[h] \in Packets
  BY <1>2 DEF OrderInv, StateInv, TypeOK
<1>4. d \in Devs
  BY <1>3 DEF Packets
<1>5. ASSUME d \in created
      PROVE  sent[h].ie = Len(applied[d]) + 1 /\ sent[h].ie <= handed[d]
  <2>1. sent[h].ie \in Len(applied[d]) + 1 .. handed[d]
    BY <1>1, <1>2, <1>5 DEF QueueInv
  <2>2. Len(applied[d]) \in Nat /\ handed[d] \in Nat
    BY <1>4, StreamAssumption DEF OrderInv, StateInv, TypeOK
  <2>3. PICK q \in Unread : sent[q].dev_id = d /\ sent[q].ie = Len(applied[d]) + 1
    <3>1. Len(applied[d]) + 1 \in Len(applied[d]) + 1 .. handed[d]
      BY <2>1, <2>2
    <3>2. \A e \in created : \A n \in Len(applied[e]) + 1 .. handed[e] :
            \E q \in Unread : sent[q].dev_id = e /\ sent[q].ie = n
      BY <1>1 DEF QueueInv
    <3> HIDE DEF d
    <3> QED
      BY <1>5, <3>1, <3>2
  <2>4. q = h \/ h < q
    BY <1>2, <2>3 DEF Unread
  <2>5. ~(h < q)
    BY <1>1, <1>2, <2>1, <2>2, <2>3 DEF QueueInv
  <2> QED
    BY <2>1, <2>2, <2>3, <2>4, <2>5
<1> QED
  BY <1>2, <1>4, <1>5

LEMMA ReadKeepsOrder ==
  ASSUME OrderInv, ReadPacket, ~short
  PROVE  OrderInv'
<1> DEFINE h == read \div 2 + 1
<1> DEFINE d == sent[h].dev_id
<1>1. /\ d \in Devs
      /\ h \in Unread
      /\ d \in created => sent[h].ie = Len(applied[d]) + 1 /\ sent[h].ie <= handed[d]
  BY NextInOrder
<1>2. StateInv'
  BY StateStep DEF OrderInv, Next, Listener
<1>3. QueueInv /\ AppliedInOrder /\ \A e \in Devs : Len(applied[e]) <= handed[e]
  BY DEF OrderInv, ReadPacket, CanRead
<1>4. applied \in [Devs -> Seq(Nat)] /\ read \in Nat /\ WholePackets(read)
      /\ created \subseteq Devs
  BY <1>3 DEF OrderInv, StateInv, TypeOK, QueueInv
<1>5. applied' = IF d \in created THEN [applied EXCEPT ![d] = Append(@, sent[h].ie)] ELSE applied
  BY DEF ReadPacket, Write
<1>6. UNCHANGED <<handed, sent, short, created, listener>> /\ read' = read + 2
  BY DEF ReadPacket, deviceVars, senderVars
<1>7. Unread' = Unread \ {h} /\ WholePackets(read')
  <2>1. (read + 2) \div 2 = read \div 2 + 1 /\ (read + 2) % 2 = 0
    BY <1>4 DEF WholePackets
  <2>2. Len(sent) \in Nat
    BY DEF OrderInv, StateInv, TypeOK
  <2> QED
    BY <1>4, <1>6, <2>1, <2>2 DEF Unread, WholePackets
<1>8. /\ \A e \in Devs : e # d \/ d \notin created => applied'[e] = applied[e]
      /\ d \in created =>
           /\ Len(applied'[d]) = Len(applied[d]) + 1
           /\ \A n \in 1 .. Len(applied[d]) : applied'[d][n] = applied[d][n]
           /\ applied'[d][Len(applied[d]) + 1] = sent[h].ie
  BY <1>1, <1>4, <1>5
<1>9. AppliedInOrder'
  <2> SUFFICES ASSUME NEW e \in Devs, NEW n \in DOMAIN applied'[e]
               PROVE  applied'[e][n] = n
    BY DEF AppliedInOrder
  <2>1. CASE e # d \/ d \notin created
    BY <1>3, <1>8, <2>1 DEF AppliedInOrder
  <2>2. CASE e = d /\ d \in created
    <3>1. applied'[d] \in Seq(Nat) /\ applied[d] \in Seq(Nat)
      BY <1>1, <1>2, <1>4 DEF StateInv, TypeOK
    <3>2. n \in 1 .. Len(applied[d]) + 1
      BY <1>8, <2>2, <3>1
    <3>3. \A m \in 1 .. Len(applied[d]) : applied[d][m] = m
      BY <1>1, <1>3, <3>1 DEF AppliedInOrder
    <3>4. CASE n = Len(applied[d]) + 1
      BY <1>1, <1>8, <2>2, <3>4
    <3>5. CASE n \in 1 .. Len(applied[d])
      BY <1>8, <2>2, <3>3, <3>5
    <3>6. Len(applied[d]) \in Nat
      BY <3>1
    <3> QED
      BY <3>2, <3>4, <3>5, <3>6
  <2> QED
    BY <2>1, <2>2
<1>10. \A e \in Devs : Len(applied'[e]) <= handed'[e]
  BY <1>1, <1>3, <1>6, <1>8
<1>11. QueueInv'
  <2>1. \A p \in Unread' :
          sent[p].dev_id \in created =>
            sent[p].ie \in Len(applied'[sent[p].dev_id]) + 1 .. handed[sent[p].dev_id]
    <3> SUFFICES ASSUME NEW p \in Unread, p # h, sent[p].dev_id \in created
                 PROVE  sent[p].ie \in Len(applied'[sent[p].dev_id]) + 1 .. handed[sent[p].dev_id]
      BY <1>7
    <3>1. sent[p].ie \in Len(applied[sent[p].dev_id]) + 1 .. handed[sent[p].dev_id]
      BY <1>3 DEF QueueInv
    <3>2. p \in 1 .. Len(sent) /\ h < p
      BY <1>4 DEF Unread
    <3>3. CASE sent[p].dev_id = d
      <4>1. sent[h].ie < sent[p].ie
        BY <1>1, <1>3, <3>2, <3>3 DEF QueueInv
      <4>2. Len(applied[d]) \in Nat /\ handed[d] \in Nat
        BY <1>1, <1>4 DEF OrderInv, StateInv, TypeOK
      <4> QED
        BY <1>1, <1>8, <3>1, <3>3, <4>1, <4>2
    <3>4. CASE sent[p].dev_id # d
      <4>1. applied'[sent[p].dev_id] = applied[sent[p].dev_id]
        BY <1>4, <1>8, <3>4
      <4> QED
        BY <3>1, <4>1
    <3> QED
      BY <3>3, <3>4
  <2>2. \A p, q \in Unread' :
          p < q /\ sent[p].dev_id = sent[q].dev_id => sent[p].ie < sent[q].ie
    BY <1>3, <1>7 DEF QueueInv
  <2>3. \A e \in created : \A n \in Len(applied'[e]) + 1 .. handed[e] :
          \E p \in Unread' : sent[p].dev_id = e /\ sent[p].ie = n
    <3> SUFFICES ASSUME NEW e \in created, NEW n \in Len(applied'[e]) + 1 .. handed[e]
                 PROVE  \E p \in Unread \ {h} : sent[p].dev_id = e /\ sent[p].ie = n
      BY <1>7
    <3>1. n \in Len(applied[e]) + 1 .. handed[e] /\ (e = d => n # sent[h].ie)
      <4>1. Len(applied[e]) \in Nat /\ handed[e] \in Nat /\ e \in Devs
        BY <1>4 DEF OrderInv, StateInv, TypeOK
      <4> QED
        BY <1>1, <1>8, <4>1
    <3> QED
      BY <1>3, <3>1 DEF QueueInv
  <2>4. \A p \in Unread' : sent[p].ie <= handed[sent[p].dev_id]
    BY <1>3, <1>7 DEF QueueInv
  <2> QED
    BY <1>6, <1>7, <2>1, <2>2, <2>3, <2>4 DEF QueueInv
<1>12. \A e \in Devs \ created' : applied'[e] = <<>>
  BY <1>6, <1>8 DEF OrderInv
<1> QED
  BY <1>2, <1>9, <1>10, <1>11, <1>12 DEF OrderInv

LEMMA SendKeepsOrder ==
  ASSUME OrderInv, SendPacket
  PROVE  OrderInv'
<1>1. StateInv'
  BY StateStep DEF OrderInv, Next, Sender
<1>2. i \in Devs /\ i \in Nat /\ handed \in [Devs -> Nat] /\ sent \in Seq(Packets)
      /\ applied \in [Devs -> Seq(Nat)] /\ created \subseteq Devs
  <2>1. i \in Devs
    BY DEF SendPacket, OrderInv, StateInv, ReadyInv
  <2>2. handed \in [Devs -> Nat]
    BY StreamAssumption DEF OrderInv, StateInv, TypeOK
  <2> QED
    BY <2>1, <2>2 DEF OrderInv, StateInv, TypeOK, Devs
<1>3. /\ sent' = Append(sent, [dev_id |-> i, ie |-> handed[i] + 1])
      /\ handed' = [handed EXCEPT ![i] = @ + 1]
      /\ UNCHANGED <<read, short, created, listener, applied>>
  <2>1. taken[i] = handed[i] + 1
    BY <1>2 DEF SendPacket, OrderInv, StateInv, ReadyInv
  <2> QED
    BY <2>1 DEF SendPacket, PacketOf, receiverVars
<1>4. ASSUME ~short
      PROVE  AppliedInOrder' /\ \A d \in Devs : Len(applied'[d]) <= handed'[d]
  BY <1>2, <1>3, <1>4 DEF OrderInv, AppliedInOrder
<1>5. ASSUME ~short, listener # "dead"
      PROVE  QueueInv'
  <2> DEFINE last == Len(sent) + 1
  <2>1. QueueInv /\ \A d \in Devs : Len(applied[d]) <= handed[d]
    BY <1>5 DEF OrderInv
  <2>2. /\ sent'[last] = [dev_id |-> i, ie |-> handed[i] + 1]
        /\ Len(sent') = last
        /\ \A p \in 1 .. Len(sent) : sent'[p] = sent[p]
    BY <1>2, <1>3
  <2>3. read \in Nat /\ read \div 2 <= Len(sent) /\ Len(sent) \in Nat
    BY DEF OrderInv, StateInv, TypeOK, After
  <2>4. Unread' = Unread \cup {last} /\ Unread \subseteq 1 .. Len(sent)
    BY <1>3, <2>2, <2>3 DEF Unread
  <2>5. \A p \in Unread : sent'[p] = sent[p] /\ sent[p].dev_id \in Devs
                          /\ sent[p].ie \in Nat /\ sent[p].ie <= handed[sent[p].dev_id]
    <3> SUFFICES ASSUME NEW p \in Unread
                 PROVE  sent'[p] = sent[p] /\ sent[p].dev_id \in Devs
                        /\ sent[p].ie \in Nat /\ sent[p].ie <= handed[sent[p].dev_id]
      OBVIOUS
    <3>1. sent'[p] = sent[p] /\ sent[p] \in Packets
      BY <1>2, <2>2, <2>4
    <3>2. sent[p].dev_id \in Devs /\ sent[p].ie \in Nat
      BY <3>1 DEF Packets
    <3> QED
      BY <2>1, <3>1, <3>2 DEF QueueInv
  <2>6. \A p \in Unread' :
          sent'[p].dev_id \in created =>
            sent'[p].ie \in Len(applied[sent'[p].dev_id]) + 1 .. handed'[sent'[p].dev_id]
    <3>1. ASSUME NEW p \in Unread, sent[p].dev_id \in created
          PROVE  sent'[p].ie \in Len(applied[sent'[p].dev_id]) + 1 .. handed'[sent'[p].dev_id]
      <4>1. sent[p].ie \in Len(applied[sent[p].dev_id]) + 1 .. handed[sent[p].dev_id]
        BY <2>1, <3>1 DEF QueueInv
      <4>2. \A d \in Devs : handed'[d] \in Nat /\ handed[d] \in Nat /\ handed[d] <= handed'[d]
                            /\ Len(applied[d]) \in Nat
        <5>1. \A d \in Devs : handed'[d] = IF d = i THEN handed[d] + 1 ELSE handed[d]
          BY <1>2, <1>3
        <5>2. \A d \in Devs : handed[d] \in Nat /\ Len(applied[d]) \in Nat
          BY <1>2
        <5> QED
          BY <5>1, <5>2
      <4>3. sent'[p] = sent[p] /\ sent[p].dev_id \in Devs
        BY <2>5
      <4> QED
        BY <4>1, <4>2, <4>3
    <3>2. sent'[last].ie \in Len(applied[sent'[last].dev_id]) + 1 .. handed'[sent'[last].dev_id]
      <4>1. sent'[last].dev_id = i /\ sent'[last].ie = handed[i] + 1
        BY <2>2
      <4>2. handed[i] \in Nat /\ handed'[i] = handed[i] + 1 /\ Len(applied[i]) \in Nat
        BY <1>2, <1>3
      <4> QED
        BY <1>2, <2>1, <4>1, <4>2
    <3> QED
      BY <2>4, <2>5, <3>1, <3>2
  <2>7. \A p, q \in Unread' :
          p < q /\ sent'[p].dev_id = sent'[q].dev_id => sent'[p].ie < sent'[q].ie
    <3> SUFFICES ASSUME NEW p \in Unread', NEW q \in Unread', p < q,
                        sent'[p].dev_id = sent'[q].dev_id
                 PROVE  sent'[p].ie < sent'[q].ie
      OBVIOUS
    <3>1. p \in Unread
      BY <2>3, <2>4
    <3>2. CASE q \in Unread
      BY <2>1, <2>5, <3>1, <3>2 DEF QueueInv
    <3>3. CASE q = last
      <4>1. sent'[q].dev_id = i /\ sent'[q].ie = handed[i] + 1 /\ handed[i] \in Nat
        BY <1>2, <2>2, <3>3
      <4> QED
        BY <2>5, <3>1, <4>1
    <3> QED
      BY <2>4, <3>2, <3>3
  <2>8. \A d \in created : \A n \in Len(applied[d]) + 1 .. handed'[d] :
          \E p \in Unread' : sent'[p].dev_id = d /\ sent'[p].ie = n
    <3> SUFFICES ASSUME NEW d \in created, NEW n \in Len(applied[d]) + 1 .. handed'[d]
                 PROVE  \E p \in Unread' : sent'[p].dev_id = d /\ sent'[p].ie = n
      OBVIOUS
    <3>1. CASE n \in Len(applied[d]) + 1 .. handed[d]
      <4>1. PICK p \in Unread : sent[p].dev_id = d /\ sent[p].ie = n
        BY <2>1, <3>1 DEF QueueInv
      <4> QED
        BY <2>4, <2>5, <4>1
    <3>2. CASE n \notin Len(applied[d]) + 1 .. handed[d]
      <4>1. d = i /\ n = handed[i] + 1
        BY <1>2, <1>3, <3>2
      <4>2. sent'[last].dev_id = d /\ sent'[last].ie = n
        BY <2>2, <4>1
      <4> QED
        BY <2>4, <4>2
    <3> QED
      BY <3>1, <3>2
  <2>9. \A p \in Unread' : sent'[p].ie <= handed'[sent'[p].dev_id]
    <3>1. \A d \in Devs : handed[d] \in Nat /\ handed'[d] = IF d = i THEN handed[d] + 1 ELSE handed[d]
      BY <1>2, <1>3
    <3>2. ASSUME NEW p \in Unread
          PROVE  sent'[p].ie <= handed'[sent'[p].dev_id]
      BY <2>5, <3>1
    <3>3. sent'[last].ie <= handed'[sent'[last].dev_id]
      BY <1>2, <2>2, <3>1
    <3> QED
      BY <2>4, <3>2, <3>3
  <2> QED
    BY <1>3, <2>1, <2>6, <2>7, <2>8, <2>9 DEF QueueInv
<1> QED
  BY <1>1, <1>3, <1>4, <1>5 DEF OrderInv

LEMMA OrderStep == OrderInv /\ [Next]_vars => OrderInv'
<1> SUFFICES ASSUME OrderInv, [Next]_vars
             PROVE  OrderInv'
  OBVIOUS
<1>1. StateInv'
  BY StateStep DEF OrderInv
<1>2. ASSUME UNCHANGED <<handed, sent, read, short, created, applied>>, listener' \in {listener, "dead", "ended"},
             listener = "dead" => listener' = "dead"
      PROVE  OrderInv'
  BY <1>1, <1>2 DEF OrderInv, QueueInv, AppliedInOrder, Unread
<1>3. CASE Listener
  <2>1. CASE ReadPacket /\ short
    BY <1>1, <2>1 DEF ReadPacket, Write, OrderInv
  <2>2. ASSUME NEW d \in Devs, ReadGarbage(d)
        PROVE  OrderInv'
    <3>1. short
      BY <2>2 DEF OrderInv, QueueInv, ReadGarbage, CanRead
    <3> QED
      BY <1>1, <2>2, <3>1 DEF ReadGarbage, Write, OrderInv, StateInv, TypeOK
  <2>3. CASE ReadPart
    BY <1>1, <2>3 DEF ReadPart, OrderInv
  <2>4. CASE ReadEnd
    BY <1>2, <2>4 DEF ReadEnd, deviceVars, senderVars
  <2> QED
    BY <1>3, <2>1, <2>2, <2>3, <2>4, ReadKeepsOrder DEF Listener
<1>4. CASE Poll \/ ReadDevice \/ SkipDevice \/ ForEnds \/ CheckFlag \/ SendFails \/ RelayFails
  BY <1>2, <1>4 DEF Poll, ReadDevice, SkipDevice, ForEnds, CheckFlag, SendFails, RelayFails,
     deviceVars, senderVars, receiverVars
<1>5. CASE (\E d \in Devs : Produce(d)) \/ Stop \/ DaemonEnds \/ ReceiverEnds \/ UNCHANGED vars
  BY <1>2, <1>5 DEF Produce, Stop, DaemonEnds, ReceiverEnds, vars, deviceVars, senderVars, receiverVars
<1>6. CASE Network
  BY <1>2, <1>6 DEF Network, Arrive, deviceVars, senderVars
<1> QED
  BY <1>3, <1>4, <1>5, <1>6, SendKeepsOrder DEF Next, Sender

LEMMA OrderInvariant == Spec => []OrderInv
  BY OrderInit, OrderStep, PTL DEF Spec

\* Until a read is short, each virtual device repeats its device in order.
THEOREM InOrder == Spec => []InOrderWhileWhole
<1>1. OrderInv => InOrderWhileWhole
  BY DEF OrderInv, InOrderWhileWhole
<1> QED
  BY <1>1, OrderInvariant, PTL

\* Nothing is applied that was not typed, read and sent.
THEOREM NothingAdded == Spec => []NothingInvented
<1>1. OrderInv => NothingInvented
  BY DEF OrderInv, StateInv, ReadyInv, NothingInvented
<1> QED
  BY <1>1, OrderInvariant, PTL

-----------------------------------------------------------------------------
(* Refinement *)

LEMMA ChannelStep == OrderInv /\ [Next]_vars => [short' \/ Channel!Next]_(Channel!vars)
<1> SUFFICES ASSUME OrderInv, OrderInv', [Next]_vars, ~short'
             PROVE  Channel!Next \/ UNCHANGED Channel!vars
  BY OrderStep
<1> USE DEF Channel!vars
<1>1. ASSUME NEW d \in Devs, Produce(d)
      PROVE  Channel!Next
  BY <1>1 DEF Produce, receiverVars, Channel!Next, Channel!Produce
<1>2. CASE Listener
  <2>1. CASE ReadPacket
    <3> DEFINE p == sent[read \div 2 + 1]
    <3>1. ~short /\ p.dev_id \in Devs
      BY <2>1, NextInOrder DEF ReadPacket
    <3>2. CASE p.dev_id \notin created
      BY <2>1, <3>2 DEF ReadPacket, Write, deviceVars
    <3>3. CASE p.dev_id \in created
      <4>1. p.ie = Len(applied[p.dev_id]) + 1 /\ p.ie <= handed[p.dev_id]
        BY <2>1, <3>1, <3>3, NextInOrder
      <4>2. Len(applied[p.dev_id]) < typed[p.dev_id]
        <5>1. \A d \in Devs : /\ handed[d] <= taken[d] /\ taken[d] <= typed[d]
                              /\ handed[d] \in Nat /\ taken[d] \in Nat /\ typed[d] \in Nat
                              /\ Len(applied[d]) \in Nat
          BY StreamAssumption DEF OrderInv, StateInv, ReadyInv, TypeOK
        <5> HIDE DEF p
        <5> QED
          BY <3>1, <4>1, <5>1
      <4>3. applied' = [applied EXCEPT ![p.dev_id] = Append(@, Len(@) + 1)] /\ UNCHANGED typed
        BY <2>1, <3>3, <4>1 DEF ReadPacket, Write, deviceVars
      <4> QED
        BY <3>1, <4>2, <4>3 DEF Channel!Next, Channel!Copy
    <3> QED
      BY <3>2, <3>3
  <2>2. ASSUME NEW d \in Devs, ReadGarbage(d)
        PROVE  FALSE
    BY <2>2 DEF OrderInv, QueueInv, ReadGarbage, CanRead
  <2>3. CASE ReadPart
    BY <2>3 DEF ReadPart
  <2>4. CASE ReadEnd
    BY <2>4 DEF ReadEnd, deviceVars
  <2> QED
    BY <1>2, <2>1, <2>2, <2>3, <2>4 DEF Listener
<1>3. CASE Sender \/ SendFails \/ RelayFails
  BY <1>3 DEF Sender, Poll, ReadDevice, SendPacket, SkipDevice, ForEnds, CheckFlag, SendFails, RelayFails,
     deviceVars, receiverVars
<1>4. CASE Stop \/ DaemonEnds \/ ReceiverEnds \/ Network \/ UNCHANGED vars
  BY <1>4 DEF Stop, DaemonEnds, ReceiverEnds, Network, Arrive, vars, deviceVars, receiverVars
<1> QED
  BY <1>1, <1>2, <1>3, <1>4 DEF Next

\* Until a read is short, the stream implements the input channel.
THEOREM ImplementsChannel == Spec => ChannelWhileWhole
<1>1. Init => Channel!Init
  BY DEF Init, Channel!Init
<1> QED
  BY <1>1, ChannelStep, OrderInvariant, PTL DEF Spec, ChannelWhileWhole
=============================================================================
