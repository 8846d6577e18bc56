----------------------------- MODULE InputStream -----------------------------
(***************************************************************************)
(* One input stream from end to end: the devices of the sending computer,  *)
(* the relay loop of a sender thread (spawn_sender_thread and              *)
(* send_input_event), the TCP connection, and the listener thread that     *)
(* writes to the virtual devices of the receiving computer.                *)
(*                                                                         *)
(* TCP carries bytes, not packets.  A packet is two units here, so that a  *)
(* read may find half of one; `sent' is all that was ever sent, and what   *)
(* has arrived and what has been read are positions in it.                 *)
(***************************************************************************)
EXTENDS Naturals, Sequences

CONSTANTS
  NumDevices,   \* conn.num_devices
  Capacity,     \* units the socket buffers hold before send() blocks
  MaxEvents     \* bound: events a device produces

ASSUME StreamAssumption ==
  /\ NumDevices \in Nat
  /\ Capacity \in Nat
  /\ MaxEvents \in Nat

\* dev_id: indices of device_fds at the sender, of devices at the listener.
Devs == 0 .. NumDevices - 1

VARIABLES
  typed,      \* events each device produced
  taken,      \* events the sender read from each device
  handed,     \* history: events of each device that were also sent
  passed,     \* history: reads of other devices while an event of this one waited
  at,         \* where the sender thread is
  i,          \* the loop index of send_input_event
  ready,      \* the devices whose revents has POLLIN
  sending,    \* *sending
  sent,       \* the packets sent on the connection
  arrived,    \* units that have arrived at the receiver
  read,       \* units the listener has read
  short,      \* history: a read returned part of a packet
  created,    \* the devices for which the receiver could open /dev/uinput
  listener,   \* is the listener thread reading, ended, or dead with its daemon?
  applied     \* the events written to each virtual device; 0 is garbage

deviceVars == <<typed, taken, passed>>
senderVars == <<at, i, ready, handed>>
receiverVars == <<arrived, read, short, created, listener, applied>>
vars == <<deviceVars, senderVars, sending, sent, receiverVars>>

Packets == [dev_id : Devs, ie : Nat \ {0}]

\* The position in units after p packets.
After(p) == 2 * p

TypeOK ==
  /\ typed \in [Devs -> 0 .. MaxEvents]
  /\ taken \in [Devs -> 0 .. MaxEvents]
  /\ handed \in [Devs -> 0 .. MaxEvents]
  /\ passed \in [Devs -> Nat]
  /\ at \in {"poll", "for", "send", "check", "exited", "dead"}
  /\ i \in 0 .. NumDevices
  /\ ready \in SUBSET Devs
  /\ sending \in BOOLEAN
  /\ sent \in Seq(Packets)
  /\ arrived \in 0 .. After(Len(sent))
  /\ read \in 0 .. arrived
  /\ short \in BOOLEAN
  /\ created \in SUBSET Devs
  /\ listener \in {"reading", "ended", "dead"}
  /\ applied \in [Devs -> Seq(Nat)]

\* The destination took the NewConnection and created the virtual devices: those
\* it could, as nobody looks at what open of /dev/uinput returned.
Init ==
  /\ typed = [d \in Devs |-> 0]
  /\ taken = [d \in Devs |-> 0]
  /\ handed = [d \in Devs |-> 0]
  /\ passed = [d \in Devs |-> 0]
  /\ at = "poll"
  /\ i = 0
  /\ ready = {}
  /\ sending = TRUE
  /\ sent = <<>>
  /\ arrived = 0
  /\ read = 0
  /\ short = FALSE
  /\ created \in SUBSET Devs
  /\ listener = "reading"
  /\ applied = [d \in Devs |-> <<>>]

-----------------------------------------------------------------------------
(* The sending computer *)

\* The kernel queues an event for the open device.
Produce(d) ==
  /\ typed[d] < MaxEvents
  /\ typed' = [typed EXCEPT ![d] = @ + 1]
  /\ UNCHANGED <<taken, passed, senderVars, sending, sent, receiverVars>>

\* poll of the first k descriptors; a time-out leaves ready empty.
Poll ==
  /\ at = "poll"
  /\ ready' = {d \in Devs : taken[d] < typed[d]}
  /\ i' = 0
  /\ at' = "for"
  /\ UNCHANGED <<deviceVars, handed, sending, sent, receiverVars>>

Waits(d) == taken[d] < typed[d]

\* The turns of the others, counted while d has something to read.
PassedBy(d) ==
  [e \in Devs |-> IF e # d /\ Waits(e) THEN passed[e] + 1 ELSE 0]

\* One read per readable device and turn; the event is in packet.ie then.
ReadDevice ==
  /\ at = "for"
  /\ i < NumDevices
  /\ i \in ready
  /\ taken' = [taken EXCEPT ![i] = @ + 1]
  /\ passed' = PassedBy(i)
  /\ at' = "send"
  /\ UNCHANGED <<typed, i, ready, handed, sending, sent, receiverVars>>

PacketOf(d) == [dev_id |-> d, ie |-> taken[d]]

\* Mutant: a device that has more goes first.
SendDrains ==
  /\ at = "send"
  /\ After(Len(sent) + 1) - read <= Capacity
  /\ sent' = Append(sent, PacketOf(i))
  /\ handed' = [handed EXCEPT ![i] = @ + 1]
  /\ i' = IF Waits(i) THEN i ELSE i + 1
  /\ at' = "for"
  /\ UNCHANGED <<deviceVars, ready, sending, receiverVars>>

\* send blocks while the socket buffers are full.
SendPacket ==
  /\ at = "send"
  /\ After(Len(sent) + 1) - read <= Capacity
  /\ sent' = Append(sent, PacketOf(i))
  /\ handed' = [handed EXCEPT ![i] = @ + 1]
  /\ i' = i + 1
  /\ at' = "for"
  /\ UNCHANGED <<deviceVars, ready, sending, receiverVars>>

\* The receiver is gone: the send fails, the thread exits, the event is lost.
SendFails ==
  /\ at = "send"
  /\ listener = "dead"
  /\ at' = "exited"
  /\ UNCHANGED <<deviceVars, i, ready, handed, sending, sent, receiverVars>>

\* poll fails, or a device is unplugged and its read fails.
RelayFails ==
  /\ at = "for"
  /\ at' = "exited"
  /\ UNCHANGED <<deviceVars, i, ready, handed, sending, sent, receiverVars>>

\* Mutant: the loop runs once too often.
SkipDeviceTooOften ==
  /\ at = "for"
  /\ i <= NumDevices
  /\ i \notin ready
  /\ i' = i + 1
  /\ UNCHANGED <<deviceVars, at, ready, handed, sending, sent, receiverVars>>

SkipDevice ==
  /\ at = "for"
  /\ i < NumDevices
  /\ i \notin ready
  /\ i' = i + 1
  /\ UNCHANGED <<deviceVars, at, ready, handed, sending, sent, receiverVars>>

ForEnds ==
  /\ at = "for"
  /\ i = NumDevices
  /\ at' = "check"
  /\ UNCHANGED <<deviceVars, i, ready, handed, sending, sent, receiverVars>>

\* The thread exits and leaves the connection open.
CheckFlag ==
  /\ at = "check"
  /\ at' = IF sending THEN "poll" ELSE "exited"
  /\ UNCHANGED <<deviceVars, i, ready, handed, sending, sent, receiverVars>>

\* STOP, SWITCH or KILL (SenderControl).
Stop ==
  /\ sending
  /\ sending' = FALSE
  /\ UNCHANGED <<deviceVars, senderVars, sent, receiverVars>>

\* The sending daemon ends; the kernel closes the connection behind the data.
DaemonEnds ==
  /\ at # "dead"
  /\ at' = "dead"
  /\ sending' = FALSE
  /\ UNCHANGED <<deviceVars, i, ready, handed, sent, receiverVars>>

-----------------------------------------------------------------------------
(* The connection and the listener *)

WholePackets(n) == n % 2 = 0

\* A segment may end inside a packet.
Arrive(n) ==
  /\ n \in arrived + 1 .. After(Len(sent))
  /\ arrived' = n
  /\ UNCHANGED <<deviceVars, senderVars, sending, sent, read, short, created, listener, applied>>

\* A read returns what has arrived, at most one packet's worth.
CanRead(n) == listener = "reading" /\ read + n <= arrived

\* Mutant: without a first device the array starts with the second.
WriteShifted(d, ie) ==
  applied' = LET e == IF 0 \in created THEN d ELSE (d + 1) % NumDevices
             IN  IF e \in created THEN [applied EXCEPT ![e] = Append(@, ie)] ELSE applied

\* write to the virtual device; on one that does not exist it fails, unnoticed.
Write(d, ie) ==
  applied' = IF d \in created THEN [applied EXCEPT ![d] = Append(@, ie)] ELSE applied

\* Mutant: the listener reads two packets into one.
ReadPacketSkips ==
  /\ CanRead(2)
  /\ WholePackets(read)
  /\ read' = IF CanRead(4) THEN read + 4 ELSE read + 2
  /\ LET p == sent[read \div 2 + 1]
     IN  Write(p.dev_id, p.ie)
  /\ UNCHANGED <<deviceVars, senderVars, sending, sent, arrived, short, created, listener>>

\* read_bytes == sizeof(InputPacket), and it is one.
ReadPacket ==
  /\ CanRead(2)
  /\ WholePackets(read)
  /\ read' = read + 2
  /\ LET p == sent[read \div 2 + 1]
     IN  Write(p.dev_id, p.ie)
  /\ UNCHANGED <<deviceVars, senderVars, sending, sent, arrived, short, created, listener>>

\* As many bytes, but the end of one packet and the start of the next: dev_id
\* and the event are whatever these bytes say.
ReadGarbage(d) ==
  /\ CanRead(2)
  /\ ~WholePackets(read)
  /\ read' = read + 2
  /\ Write(d, 0)
  /\ UNCHANGED <<deviceVars, senderVars, sending, sent, arrived, short, created, listener>>

\* 0 < read_bytes < sizeof(InputPacket): the bytes are dropped.
ReadPart ==
  /\ CanRead(1)
  /\ ~CanRead(2)
  /\ read' = read + 1
  /\ short' = TRUE
  /\ UNCHANGED <<deviceVars, senderVars, sending, sent, arrived, created, listener, applied>>

\* Mutant: the listener leaves as soon as the peer is gone.
ReadEndEarly ==
  /\ listener = "reading"
  /\ at = "dead"
  /\ listener' = "ended"
  /\ UNCHANGED <<deviceVars, senderVars, sending, sent, arrived, read, short, created, applied>>

\* read returns 0: everything was read and the peer is gone.
ReadEnd ==
  /\ listener = "reading"
  /\ at = "dead"
  /\ read = After(Len(sent))
  /\ listener' = "ended"
  /\ UNCHANGED <<deviceVars, senderVars, sending, sent, arrived, read, short, created, applied>>

\* The receiving daemon ends, and what it did not read is lost.
ReceiverEnds ==
  /\ listener # "dead"
  /\ listener' = "dead"
  /\ UNCHANGED <<deviceVars, senderVars, sending, sent, arrived, read, short, created, applied>>

Sender == Poll \/ ReadDevice \/ SendPacket \/ SkipDevice \/ ForEnds \/ CheckFlag

Network == \E n \in arrived + 1 .. After(Len(sent)) : Arrive(n)

Listener ==
  \/ ReadPacket
  \/ \E d \in Devs : ReadGarbage(d)
  \/ ReadPart
  \/ ReadEnd

Next ==
  \/ \E d \in Devs : Produce(d)
  \/ Sender
  \/ Stop
  \/ SendFails
  \/ RelayFails
  \/ DaemonEnds
  \/ ReceiverEnds
  \/ Network
  \/ Listener

Spec == Init /\ [][Next]_vars

\* The threads run (the sender gets sender_mutex every turn, which SenderControl
\* shows unless a START leaked it), and TCP delivers what a live or closed
\* connection carries.  No fairness for input, failures, stops and ends.
FairSpec ==
  Spec /\ WF_vars(Sender) /\ WF_vars(Network) /\ WF_vars(Listener)

-----------------------------------------------------------------------------

\* A virtual device repeats the events of its device in order, none missing,
\* none twice, none of another device: what a user is told of the receiver.
AppliedInOrder ==
  \A d \in Devs : \A n \in DOMAIN applied[d] : applied[d][n] = n

\* So it is as long as the listener's reads return whole packets, whatever the
\* order in which the devices are served and however the stream ends.
InOrderWhileWhole == ~short => AppliedInOrder

\* No event is applied that its device did not produce and the sender not send.
NothingInvented ==
  \A d \in Devs :
    /\ ~short => Len(applied[d]) <= handed[d]
    /\ handed[d] <= taken[d]
    /\ taken[d] <= typed[d]

Channel == INSTANCE InputChannel WITH
  produced <- typed,
  copied <- applied

\* Until a read is short, the stream implements the channel a user expects.
ChannelWhileWhole ==
  Channel!Init /\ [][short' \/ Channel!Next]_(Channel!vars)

\* A device with something to read waits for one read of each other device, and,
\* if poll had just missed it, for those before it once more: also if the others
\* never stop.
WaitsBriefly == \A d \in Devs : passed[d] <= NumDevices - 1 + d

\* The one event that the end of the sending process may cut off: read, and not
\* yet sent.
CutOff(d, n) ==
  /\ at = "dead"
  /\ n = taken[d]
  /\ n = handed[d] + 1
  /\ \A e \in Devs \ {d} : taken[e] = handed[e]

\* What was read from a device reaches its copy, if there is one, also if the
\* sender is stopped or its daemon ends meanwhile, except for one event at the
\* end of the daemon, and unless the receiving daemon ends.
TakenIsApplied ==
  \A d \in Devs, n \in 1 .. MaxEvents :
    taken[d] >= n ~>
      Len(applied[d]) >= n \/ d \notin created \/ CutOff(d, n) \/ short \/ listener = "dead"
=============================================================================
