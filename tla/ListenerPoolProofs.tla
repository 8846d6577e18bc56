------------------------- MODULE ListenerPoolProofs -------------------------
(***************************************************************************)
(* Theorems about the listener pool with any number of streams, slots,     *)
(* devices, descriptors and commands.                                      *)
(***************************************************************************)
EXTENDS ListenerPool, FiniteSetTheorems, TLAPS

\* A connection has no listener before its NewConnection was received.
FreshHaveNone ==
  \A s \in Streams : stream[s] \in {"new", "backlog", "receiving"} => listener[s] = "none"

\* A listener belongs to a peer that announced itself or is gone.
HelloOrGone == Started \subseteq hello \cup gone

CommandsHoldFds == commands <= fds

PoolInv == TypeOK /\ FreshHaveNone /\ HelloOrGone /\ CommandsHoldFds /\ ConnsCountStarts

\* What the handlers and the receives leave behind has its type.
RecvOK ==
  /\ conn \in {"blank", "INPUT_STREAM", "COMMAND"}
  /\ args \in CtlCommands \cup {"blank"}
  /\ place \in {"loop", "args", "handler"}
  /\ place = "handler" => args # "blank"
  /\ flag \in BOOLEAN
  /\ leaked \in BOOLEAN

LEMMA TypedRecv == PoolInv => RecvOK
  BY DEF PoolInv, TypeOK, RecvOK

LEMMA SameRecv ==
  ASSUME PoolInv, UNCHANGED recvVars
  PROVE  RecvOK'
  BY TypedRecv DEF RecvOK, recvVars, handlerVars

LEMMA NoBlankCommand == "blank" \notin CtlCommands
<1>1. "blank" \notin CommandTypes
  BY DEF CommandTypes
<1> QED
  BY <1>1, PoolAssumption

\* The command that is carried out again is one.
LEMMA StaleRecv ==
  ASSUME PoolInv, RunStale
  PROVE  RecvOK'
<1>1. args' \in CtlCommands
  BY DEF RunStale, PoolInv, TypeOK
<1>2. args' # "blank"
  BY <1>1, NoBlankCommand
<1>3. conn' = conn /\ flag' = flag /\ leaked' = leaked /\ place' = "handler"
  BY DEF RunStale, handlerVars
<1> QED
  BY <1>1, <1>2, <1>3, TypedRecv DEF RecvOK

LEMMA PoolInit == Init => PoolInv
<1> SUFFICES ASSUME Init
             PROVE  PoolInv
  OBVIOUS
<1> USE PoolAssumption DEF Init
<1>1. TypeOK
  <2>1. flag \in BOOLEAN /\ leaked \in BOOLEAN
    BY Zenon
  <2>2. num_conns \in 0 .. MAX_CONNECTIONS /\ commands \in 0 .. MaxFds /\ fds \in 0 .. MaxFds
    OBVIOUS
  <2>3. connections \in [Slots -> {0}] /\ slot \in [Streams -> Slots \cup {-1}]
    BY DEF Slots
  <2> QED
    BY <2>1, <2>2, <2>3 DEF TypeOK
<1>2. Started = {}
  BY DEF Started
<1>3. ConnsCountStarts
  BY <1>2, FS_EmptySet DEF ConnsCountStarts
<1> QED
  BY <1>1, <1>2, <1>3 DEF PoolInv, FreshHaveNone, HelloOrGone, CommandsHoldFds

\* The slot search stays below the count, or takes slot 0.
LEMMA OpenSlotBelow ==
  ASSUME TypeOK
  PROVE  OpenSlot \in 0 .. num_conns
<1> DEFINE free == {k \in Slots : k < num_conns /\ connections[k] = 0}
<1>1. num_conns \in Nat /\ num_conns <= MAX_CONNECTIONS /\ MAX_CONNECTIONS \in Nat
  BY PoolAssumption DEF TypeOK
<1>2. CASE free = {}
  BY <1>1, <1>2 DEF OpenSlot
<1>3. CASE free # {}
  <2>1. \A k \in free : k \in 0 .. num_conns - 1
    BY <1>1 DEF Slots
  <2>2. num_conns - 1 \in free
    <3>1. num_conns > 0
      BY <1>1, <1>3, <2>1
    <3> QED
      BY <1>1, <3>1 DEF Slots, TypeOK
  <2>3. \A k \in free : num_conns - 1 >= k
    BY <1>1, <2>1
  <2>4. Max(free) \in free
    BY <2>2, <2>3 DEF Max
  <2>5. OpenSlot = Max(free)
    BY <1>3 DEF OpenSlot
  <2> QED
    BY <1>1, <2>1, <2>4, <2>5
<1> QED
  BY <1>2, <1>3

LEMMA StartedFinite == IsFiniteSet(Started) /\ Cardinality(Started) \in Nat
  BY PoolAssumption, FS_Subset, FS_CardinalityType DEF Started

\* Whatever made run_server think that s is a stream of n devices.
LEMMA StartKeeps ==
  ASSUME PoolInv,
         NEW s \in Streams, NEW n \in 0 .. NumDevices,
         stream[s] = "receiving",
         s \in hello \cup gone,
         StartListener(s, n),
         RecvOK',
         UNCHANGED <<daemon, peerVars, commands>>
  PROVE  PoolInv'
<1> USE PoolAssumption DEF PoolInv, StartListener, Becomes, peerVars
<1>1. OpenSlot \in 0 .. num_conns /\ OpenSlot \in Slots
  BY OpenSlotBelow DEF Slots, TypeOK
<1>4. fds' \in fds .. MaxFds
  BY DEF TypeOK, CreateDevices
<1>5. TypeOK'
  <2>2. slot' \in [Streams -> Slots \cup {-1}]
    BY <1>1 DEF TypeOK
  <2>3. stream' \in [Streams -> {"new", "backlog", "receiving", "closed"} \cup Outcomes]
    BY DEF TypeOK, Outcomes
  <2>4. num_conns' \in 0 .. MAX_CONNECTIONS /\ fds' \in 0 .. MaxFds
    BY <1>4 DEF TypeOK
  <2>5. listener' \in [Streams -> {"none", "reading", "ended"}]
    BY DEF TypeOK
  <2> QED
    BY <2>2, <2>3, <2>4, <2>5 DEF TypeOK, RecvOK
<1>6. Started' = Started \cup {s} /\ s \notin Started
  BY DEF Started, TypeOK, FreshHaveNone
<1>7. FreshHaveNone'
  BY DEF FreshHaveNone, TypeOK
<1>8. HelloOrGone' /\ CommandsHoldFds'
  BY <1>4, <1>6 DEF HelloOrGone, CommandsHoldFds, TypeOK
<1>9. ConnsCountStarts'
  <2>1. Cardinality(Started') = Cardinality(Started) + 1
    BY <1>6, StartedFinite, FS_AddElement
  <2>2. \A t \in Started' : slot'[t] \in 0 .. num_conns
    <3> SUFFICES ASSUME NEW t \in Started'
                 PROVE  slot'[t] \in 0 .. num_conns
      OBVIOUS
    <3>1. CASE t = s
      BY <1>1, <3>1 DEF TypeOK
    <3>2. CASE t # s
      BY <1>6, <3>2 DEF ConnsCountStarts, TypeOK, Started
    <3> QED
      BY <3>1, <3>2
  <2> QED
    BY <2>1, <2>2 DEF ConnsCountStarts, TypeOK
<1> QED
  BY <1>5, <1>7, <1>8, <1>9

\* A step that starts and ends no listener.
LEMMA QuietKeeps ==
  ASSUME PoolInv, TypeOK', FreshHaveNone',
         UNCHANGED poolVars,
         hello \subseteq hello', gone \subseteq gone',
         commands' <= fds'
  PROVE  PoolInv'
<1> USE PoolAssumption DEF PoolInv, poolVars
<1>1. Started' = Started
  BY DEF Started
<1>2. HelloOrGone' /\ CommandsHoldFds'
  BY <1>1 DEF HelloOrGone, CommandsHoldFds
<1>3. ConnsCountStarts'
  BY <1>1 DEF ConnsCountStarts
<1> QED
  BY <1>2, <1>3

\* The outcomes of a receive that start no listener.
LEMMA BecomesKeeps ==
  ASSUME PoolInv, NEW s \in Streams, NEW outcome \in Outcomes,
         Becomes(s, outcome),
         RecvOK',
         UNCHANGED <<daemon, poolVars, peerVars, commands, fds>>
  PROVE  PoolInv'
<1> USE DEF PoolInv, Becomes, peerVars
<1>1. stream' \in [Streams -> {"new", "backlog", "receiving", "closed"} \cup Outcomes]
  BY DEF TypeOK
<1>2. TypeOK'
  BY <1>1 DEF TypeOK, RecvOK, poolVars
<1>3. FreshHaveNone'
  BY DEF FreshHaveNone, TypeOK, Outcomes, poolVars
<1> QED
  BY <1>2, <1>3, QuietKeeps, PoolAssumption DEF TypeOK, CommandsHoldFds

LEMMA IgnoredKeeps ==
  ASSUME PoolInv, NEW s \in Streams, Becomes(s, "ignored"),
         RunStale \/ UNCHANGED <<daemon, recvVars, poolVars, peerVars, commands, fds>>
  PROVE  PoolInv'
<1>1. "ignored" \in Outcomes
  BY DEF Outcomes
<1>2. RecvOK' /\ UNCHANGED <<daemon, poolVars, peerVars, commands, fds>>
  BY StaleRecv, SameRecv DEF RunStale
<1> QED
  BY <1>1, <1>2, BecomesKeeps

LEMMA TakeKeeps ==
  ASSUME PoolInv,
         NEW s \in Streams, NEW n \in 0 .. NumDevices,
         stream[s] = "receiving",
         s \in hello \cup gone,
         TakeStream(s, n),
         RecvOK',
         UNCHANGED <<daemon, peerVars, commands>>
  PROVE  PoolInv'
<1>1. CASE StartListener(s, n)
  BY <1>1, StartKeeps
<1>2. CASE RefuseStream(s)
  <2>1. Becomes(s, "refused") /\ UNCHANGED <<poolVars, fds>>
    BY <1>2 DEF RefuseStream
  <2>2. "refused" \in Outcomes
    BY DEF Outcomes
  <2> QED
    BY <2>1, <2>2, BecomesKeeps
<1> QED
  BY <1>1, <1>2 DEF TakeStream

LEMMA StopKeeps ==
  ASSUME PoolInv, NEW how \in {"killed", "failed"}, DaemonStops(how)
  PROVE  PoolInv'
<1> USE DEF PoolInv, DaemonStops, handlerVars, peerVars
<1>1. TypeOK'
  BY DEF TypeOK
<1>2. Started' = Started
  BY DEF Started
<1>3. FreshHaveNone'
  BY DEF FreshHaveNone, TypeOK
<1> QED
  BY <1>1, <1>2, <1>3 DEF HelloOrGone, CommandsHoldFds, ConnsCountStarts

\* A peer that is received has no listener yet.
LEMMA HelloKeeps ==
  ASSUME PoolInv, NEW s \in Streams, Connect(s) \/ SendHello(s) \/ Accept(s)
  PROVE  PoolInv'
<1> USE PoolAssumption DEF PoolInv, CommandsHoldFds
<1>1. CASE Connect(s)
  <2>1. TypeOK'
    BY <1>1 DEF Connect, recvVars, handlerVars, poolVars, peerVars, TypeOK
  <2>2. FreshHaveNone'
    BY <1>1 DEF Connect, recvVars, handlerVars, poolVars, peerVars, TypeOK, FreshHaveNone
  <2> QED
    BY <1>1, <2>1, <2>2, QuietKeeps DEF Connect, peerVars, TypeOK
<1>2. CASE SendHello(s)
  <2>1. TypeOK' /\ FreshHaveNone'
    BY <1>2 DEF SendHello, recvVars, handlerVars, poolVars, TypeOK, FreshHaveNone
  <2> QED
    BY <1>2, <2>1, QuietKeeps DEF SendHello, TypeOK
<1>3. CASE Accept(s)
  <2>1. TypeOK'
    BY <1>3 DEF Accept, Becomes, recvVars, handlerVars, poolVars, peerVars, TypeOK
  <2>2. FreshHaveNone'
    BY <1>3 DEF Accept, Becomes, recvVars, handlerVars, poolVars, peerVars, TypeOK, FreshHaveNone
  <2> QED
    BY <1>3, <2>1, <2>2, QuietKeeps DEF Accept, peerVars, TypeOK
<1> QED
  BY <1>1, <1>2, <1>3

LEMMA PeersEndKeeps ==
  ASSUME PoolInv, NEW made \in SUBSET Streams, PeerEnds(made)
  PROVE  PoolInv'
<1> USE PoolAssumption DEF PoolInv, CommandsHoldFds
<1>1. TypeOK' /\ FreshHaveNone'
  BY DEF PeerEnds, recvVars, handlerVars, poolVars, TypeOK, FreshHaveNone
<1> QED
  BY <1>1, QuietKeeps DEF PeerEnds, TypeOK

\* The main thread between accept and the end of the handler it calls.
LEMMA CommandKeeps ==
  ASSUME PoolInv, RecvOK',
         UNCHANGED <<daemon, poolVars, stream, peerVars>>,
         \/ UNCHANGED <<commands, fds>>
         \/ fds < MaxFds /\ fds' = fds + 1 /\ commands' = commands + 1
  PROVE  PoolInv'
<1> USE PoolAssumption DEF PoolInv, CommandsHoldFds, poolVars, peerVars
<1>1. fds' >= fds /\ commands' <= fds' /\ commands' \in 0 .. MaxFds /\ fds' \in 0 .. MaxFds
  BY DEF TypeOK
<1>2. TypeOK'
  BY <1>1 DEF TypeOK, RecvOK
<1>3. FreshHaveNone'
  BY DEF FreshHaveNone
<1> QED
  BY <1>1, <1>2, <1>3, QuietKeeps

LEMMA ClientKeeps ==
  ASSUME PoolInv, AcceptCommand \/ \E c \in CtlCommands : ReceiveCommand(c)
  PROVE  PoolInv'
<1>1. CASE AcceptCommand
  <2>1. RecvOK'
    BY <1>1, TypedRecv DEF AcceptCommand, RecvOK, handlerVars
  <2> QED
    BY <1>1, <2>1, CommandKeeps DEF AcceptCommand
<1>2. ASSUME NEW c \in CtlCommands, ReceiveCommand(c)
      PROVE  PoolInv'
  <2>1. RecvOK'
    BY <1>2, TypedRecv, NoBlankCommand DEF ReceiveCommand, RecvOK, handlerVars
  <2> QED
    BY <1>2, <2>1, CommandKeeps DEF ReceiveCommand
<1> QED
  BY <1>1, <1>2

LEMMA ReturnKeeps ==
  ASSUME PoolInv, HandlerReturns
  PROVE  PoolInv'
<1>1. flag' \in BOOLEAN
  <2>1. CASE args \in {"START", "RELOAD"}
    BY <2>1 DEF HandlerReturns
  <2>2. CASE args = "STOP"
    BY <2>2 DEF HandlerReturns
  <2>3. CASE args = "SWITCH"
    BY <2>3 DEF HandlerReturns
  <2>4. CASE args \notin {"START", "RELOAD", "STOP", "SWITCH"}
    BY <2>4 DEF HandlerReturns, PoolInv, TypeOK
  <2> QED
    BY <2>1, <2>2, <2>3, <2>4
<1>2. leaked' \in BOOLEAN
  BY Zenon DEF HandlerReturns
<1>3. conn' = conn /\ args' = args /\ place' = "loop"
  BY DEF HandlerReturns
<1>4. RecvOK'
  BY <1>1, <1>2, <1>3, TypedRecv DEF RecvOK
<1> QED
  BY <1>4, CommandKeeps DEF HandlerReturns

\* A command that was not received.
LEMMA StaleKeeps ==
  ASSUME PoolInv, StaleStops \/ (RunStale /\ UNCHANGED stream)
  PROVE  PoolInv'
<1>1. CASE StaleStops
  BY <1>1, StopKeeps DEF StaleStops
<1>2. CASE RunStale /\ UNCHANGED stream
  BY <1>2, StaleRecv, CommandKeeps DEF RunStale
<1> QED
  BY <1>1, <1>2

\* A new process starts without listeners; old connections stay closed.
LEMMA RestartKeeps == PoolInv /\ Restart => PoolInv'
<1> SUFFICES ASSUME PoolInv, Restart
             PROVE  PoolInv'
  OBVIOUS
<1> USE PoolAssumption DEF PoolInv, Restart, peerVars
<1>1. TypeOK'
  <2>1. flag' \in BOOLEAN /\ leaked' \in BOOLEAN
    BY Zenon
  <2>2. num_conns' \in 0 .. MAX_CONNECTIONS /\ commands' \in 0 .. MaxFds /\ fds' \in 0 .. MaxFds
    OBVIOUS
  <2>3. connections' \in [Slots -> {0}] /\ slot' \in [Streams -> Slots \cup {-1}]
    OBVIOUS
  <2> QED
    BY <2>1, <2>2, <2>3 DEF TypeOK
<1>2. Started' = {}
  BY DEF Started
<1>3. ConnsCountStarts'
  BY <1>2, FS_EmptySet DEF ConnsCountStarts
<1> QED
  BY <1>1, <1>2, <1>3 DEF FreshHaveNone, HelloOrGone, CommandsHoldFds

LEMMA EndKeeps ==
  ASSUME PoolInv, NEW s \in Streams, ListenerEnds(s)
  PROVE  PoolInv'
<1> USE DEF PoolInv, ListenerEnds, recvVars, handlerVars, peerVars
<1>1. Started' = Started
  BY DEF Started, TypeOK
<1>2. TypeOK'
  BY DEF TypeOK
<1>3. FreshHaveNone'
  BY DEF FreshHaveNone, TypeOK
<1> QED
  BY <1>1, <1>2, <1>3 DEF HelloOrGone, CommandsHoldFds, ConnsCountStarts

LEMMA PoolStep == PoolInv /\ [Next]_vars => PoolInv'
<1> SUFFICES ASSUME PoolInv, [Next]_vars
             PROVE  PoolInv'
  OBVIOUS
<1>1. ASSUME NEW s \in Streams, Connect(s) \/ SendHello(s) \/ Accept(s)
      PROVE  PoolInv'
  BY <1>1, HelloKeeps
<1>2. ASSUME NEW s \in Streams, ReceiveStream(s)
      PROVE  PoolInv'
  <2>1. NumDevices \in 0 .. NumDevices
    BY PoolAssumption
  <2>2. RecvOK'
    BY <1>2, TypedRecv DEF ReceiveStream, RecvOK, handlerVars
  <2> QED
    BY <1>2, <2>1, <2>2, TakeKeeps DEF ReceiveStream
<1>3. ASSUME NEW s \in Streams, ServeStale(s)
      PROVE  PoolInv'
  <2>1. NumDevices \in 0 .. NumDevices
    BY PoolAssumption
  <2> QED
    BY <1>3, <2>1, SameRecv, TakeKeeps DEF ServeStale, Unannounced
<1>4. ASSUME NEW s \in Streams, ReplayCommand(s)
      PROVE  PoolInv'
  <2>1. CASE RunStale /\ Becomes(s, "ignored")
    BY <2>1, IgnoredKeeps
  <2>2. CASE StaleStops
    BY <2>2, StaleKeeps
  <2> QED
    BY <1>4, <2>1, <2>2 DEF ReplayCommand
<1>5. ASSUME NEW s \in Streams, ServeBlank(s)
      PROVE  PoolInv'
  <2>1. stream[s] = "receiving" /\ s \in gone \ hello /\ conn = "blank"
    BY <1>5 DEF ServeBlank, Unannounced
  <2>2. ASSUME NEW n \in 0 .. NumDevices, TakeStream(s, n), UNCHANGED <<daemon, recvVars, peerVars, commands>>
        PROVE  PoolInv'
    BY <2>1, <2>2, SameRecv, TakeKeeps
  <2>3. CASE Becomes(s, "ignored") /\ UNCHANGED <<daemon, recvVars, poolVars, peerVars, commands, fds>>
    BY <2>3, IgnoredKeeps
  <2>4. CASE RunStale /\ Becomes(s, "ignored")
    BY <2>4, IgnoredKeeps
  <2>5. CASE StaleStops
    BY <2>5, StaleKeeps
  <2> QED
    BY <1>5, <2>2, <2>3, <2>4, <2>5 DEF ServeBlank
<1>6. CASE AcceptFails \/ RecvFails \/ Kill
  BY <1>6, StopKeeps DEF AcceptFails, Kill, RecvFails
<1>7. CASE MissingCommand
  BY <1>7, StaleKeeps DEF MissingCommand
<1>8. CASE StartFails \/ UNCHANGED vars
  <2> USE DEF PoolInv, StartFails, vars, recvVars, handlerVars, poolVars, peerVars
  <2>1. Started' = Started
    BY <1>8 DEF Started
  <2>2. TypeOK' /\ FreshHaveNone'
    BY <1>8 DEF TypeOK, FreshHaveNone
  <2> QED
    BY <1>8, <2>1, <2>2 DEF HelloOrGone, CommandsHoldFds, ConnsCountStarts
<1> QED
  BY <1>1, <1>2, <1>3, <1>4, <1>5, <1>6, <1>7, <1>8, ClientKeeps, ReturnKeeps, RestartKeeps,
     EndKeeps, PeersEndKeeps
  DEF Next, Serves

LEMMA PoolInvariant == Spec => []PoolInv
  BY PoolInit, PoolStep, PTL DEF Spec

\* Every reachable state is type-correct: among others, num_conns never exceeds
\* MAX_CONNECTIONS, no slot is outside the array, and connections[] is always 0.
THEOREM PoolTypeCorrect == Spec => []TypeOK
<1>1. PoolInv => TypeOK
  BY DEF PoolInv
<1> QED
  BY <1>1, PoolInvariant, PTL

\* num_conns counts every listener started since the daemon started, and each
\* got a slot below it: run_server's slot search never leaves the array.
THEOREM ConnsCounted == Spec => []ConnsCountStarts
<1>1. PoolInv => ConnsCountStarts
  BY DEF PoolInv
<1> QED
  BY <1>1, PoolInvariant, PTL

-----------------------------------------------------------------------------
(* The pool implements the stream service *)

\* A daemon that ended left no connection open.
DownIsClosed == daemon # "up" => \A s \in Streams : stream[s] \in {"new", "closed"}

LEMMA DownStep == DownIsClosed /\ [Next]_vars => DownIsClosed'
<1> SUFFICES ASSUME DownIsClosed, [Next]_vars
             PROVE  DownIsClosed'
  OBVIOUS
<1> USE DEF DownIsClosed
<1>1. ASSUME NEW how, DaemonStops(how)
      PROVE  DownIsClosed'
  BY <1>1 DEF DaemonStops
<1>2. CASE \/ \E s \in Streams : Connect(s) \/ SendHello(s) \/ ListenerEnds(s)
           \/ \E made \in SUBSET Streams : PeerEnds(made)
  BY <1>2 DEF Connect, SendHello, PeerEnds, ListenerEnds
<1>3. CASE \E s \in Streams : Accept(s) \/ ReceiveStream(s) \/ ServeStale(s)
  BY <1>3 DEF Accept, InAccept, ReceiveStream, ServeStale, Unannounced
<1>4. CASE \E s \in Streams : ReplayCommand(s) \/ ServeBlank(s)
  BY <1>1, <1>4 DEF ReplayCommand, ServeBlank, Unannounced, StaleStops, RunStale
<1>5. CASE AcceptFails \/ RecvFails \/ Kill \/ MissingCommand
  BY <1>1, <1>5 DEF AcceptFails, RecvFails, Kill, MissingCommand, StaleStops, RunStale
<1>6. CASE \/ AcceptCommand \/ HandlerReturns
           \/ \E c \in CtlCommands : ReceiveCommand(c)
  BY <1>6 DEF AcceptCommand, ReceiveCommand, HandlerReturns, InAccept
<1>7. CASE StartFails \/ Restart \/ UNCHANGED vars
  BY <1>7 DEF StartFails, Restart, vars
<1> QED
  BY <1>2, <1>3, <1>4, <1>5, <1>6, <1>7 DEF Next, Serves

\* A step that touches one stream changes what the service sees of that one.
LEMMA OneIsSeen ==
  ASSUME NEW s \in Streams, PoolInv,
         stream' \in [Streams -> {"new", "backlog", "receiving", "closed"} \cup Outcomes],
         listener' \in [Streams -> {"none", "reading", "ended"}],
         \A t \in Streams \ {s} : stream'[t] = stream[t] /\ listener'[t] = listener[t]
  PROVE  Seen' = [Seen EXCEPT ![s] = SeenAs(stream'[s], listener'[s])]
<1>1. Seen' = [t \in Streams |-> SeenAs(stream'[t], listener'[t])]
  BY DEF Seen
<1>2. \A t \in Streams \ {s} : SeenAs(stream'[t], listener'[t]) = Seen[t]
  BY DEF Seen
<1> QED
  BY <1>1, <1>2 DEF Seen

\* What run_server makes of the connection it received from.
LEMMA TakeIsSeen ==
  ASSUME PoolInv, daemon = "up", daemon' = daemon, gone' = gone,
         NEW s \in Streams, stream[s] = "receiving",
         NEW n \in 0 .. NumDevices, TakeStream(s, n)
  PROVE  Service!Serve(s) \/ Service!Refuse(s)
<1> USE DEF PoolInv, TypeOK, Outcomes, Becomes
<1>1. Seen[s] = "offered"
  BY DEF Seen, SeenAs
<1>2. CASE StartListener(s, n)
  <2>1. stream' = [stream EXCEPT ![s] = "streaming"] /\ listener' = [listener EXCEPT ![s] = "reading"]
    BY <1>2 DEF StartListener
  <2>2. Seen' = [Seen EXCEPT ![s] = SeenAs(stream'[s], listener'[s])]
    BY <2>1, OneIsSeen
  <2>3. SeenAs(stream'[s], listener'[s]) = "served"
    BY <2>1 DEF SeenAs
  <2> QED
    BY <1>1, <1>2, <2>2, <2>3 DEF StartListener, Service!Serve, Service!Becomes
<1>3. CASE RefuseStream(s)
  <2>1. stream' = [stream EXCEPT ![s] = "refused"] /\ listener' = listener
    BY <1>3 DEF RefuseStream, poolVars
  <2>2. Seen' = [Seen EXCEPT ![s] = SeenAs(stream'[s], listener'[s])]
    BY <2>1, OneIsSeen
  <2>3. SeenAs(stream'[s], listener'[s]) = "refused"
    BY <2>1 DEF SeenAs
  <2> QED
    BY <1>1, <1>3, <2>2, <2>3 DEF RefuseStream, Service!Refuse, Service!Becomes, poolVars
<1> QED
  BY <1>2, <1>3 DEF TakeStream

LEMMA IgnoredIsSeen ==
  ASSUME PoolInv, NEW s \in Streams, Unannounced(s), Becomes(s, "ignored"),
         UNCHANGED <<daemon, poolVars, peerVars>>
  PROVE  Service!Ignore(s)
<1> USE DEF PoolInv, TypeOK, Outcomes, Becomes
<1>1. stream' = [stream EXCEPT ![s] = "ignored"] /\ listener' = listener
  BY DEF poolVars
<1>2. Seen' = [Seen EXCEPT ![s] = SeenAs(stream'[s], listener'[s])]
  BY <1>1, OneIsSeen
<1>3. SeenAs(stream'[s], listener'[s]) = "ignored"
  BY <1>1 DEF SeenAs, Unannounced
<1>4. Seen[s] = "offered"
  BY DEF Seen, SeenAs, Unannounced
<1> QED
  BY <1>2, <1>3, <1>4 DEF Service!Ignore, Service!Becomes, Unannounced, poolVars, peerVars

\* The end of the process, however it comes about.
LEMMA StopIsSeen ==
  ASSUME PoolInv, daemon = "up", NEW how, how # "up", DaemonStops(how)
  PROVE  Service!Stop
<1> USE DEF PoolInv, TypeOK, Outcomes, DaemonStops
<1>1. \A s \in Streams : Seen[s] = "new" <=> stream[s] = "new"
  BY DEF Seen, SeenAs
<1>2. \A s \in Streams : SeenAs(stream'[s], listener'[s]) = IF stream[s] = "new" THEN "new" ELSE "over"
  BY DEF SeenAs
<1>3. Seen' = [s \in Streams |-> SeenAs(stream'[s], listener'[s])]
  BY DEF Seen
<1>4. Seen' = [s \in Streams |-> IF Seen[s] = "new" THEN "new" ELSE "over"]
  BY <1>1, <1>2, <1>3
<1> QED
  BY <1>4 DEF Service!Stop, peerVars

\* Nothing that the service knows of changes.
LEMMA NothingSeen ==
  ASSUME UNCHANGED <<num_conns, stream, gone>>, (daemon = "up") <=> (daemon' = "up"),
         \A s \in Streams : listener'[s] = listener[s]
  PROVE  UNCHANGED Service!vars
<1>1. Seen' = Seen
  BY DEF Seen
<1>2. (daemon' = "up") = (daemon = "up")
  OBVIOUS
<1> QED
  BY <1>1, <1>2 DEF Service!vars

LEMMA StreamServiceInit == Init => Service!Init
<1> SUFFICES ASSUME Init PROVE Service!Init
  OBVIOUS
<1>1. Seen = [s \in Streams |-> "new"]
  BY DEF Init, Seen, SeenAs
<1>2. (daemon = "up") = TRUE
  BY DEF Init
<1> QED
  BY <1>1, <1>2 DEF Init, Service!Init

LEMMA StreamServiceStep ==
  PoolInv /\ DownIsClosed /\ [Next]_vars => [Service!Next]_(Service!vars)
<1> SUFFICES ASSUME PoolInv, DownIsClosed, [Next]_vars
             PROVE  Service!Next \/ UNCHANGED Service!vars
  OBVIOUS
<1> USE DEF PoolInv, TypeOK
<1>1. ASSUME NEW s \in Streams, Connect(s)
      PROVE  Service!Next
  <2>1. stream' = [stream EXCEPT ![s] = "backlog"] /\ listener' = listener
    BY <1>1 DEF Connect, poolVars
  <2>2. Seen' = [Seen EXCEPT ![s] = SeenAs(stream'[s], listener'[s])]
    BY <2>1, OneIsSeen
  <2>3. SeenAs(stream'[s], listener'[s]) = "offered"
    BY <2>1 DEF SeenAs
  <2>4. Seen[s] = "new"
    BY <1>1 DEF Connect, Seen, SeenAs
  <2>5. Service!Offer(s)
    BY <1>1, <2>2, <2>3, <2>4 DEF Connect, Service!Offer, Service!Becomes, poolVars, peerVars
  <2> QED
    BY <2>5 DEF Service!Next
<1>2. ASSUME NEW made \in SUBSET Streams, PeerEnds(made)
      PROVE  Service!Next
  <2>1. Seen' = Seen
    BY <1>2 DEF PeerEnds, poolVars, Seen
  <2>2. \A s \in made : Seen[s] # "new"
    BY <1>2 DEF PeerEnds, Seen, SeenAs, Outcomes
  <2>3. Service!Leave(made)
    BY <1>2, <2>1, <2>2 DEF PeerEnds, poolVars, Service!Leave
  <2> QED
    BY <2>3 DEF Service!Next
<1>3. ASSUME NEW s \in Streams, SendHello(s)
      PROVE  UNCHANGED Service!vars
  BY <1>3, NothingSeen DEF SendHello, poolVars
<1>4. ASSUME NEW s \in Streams, Accept(s)
      PROVE  UNCHANGED Service!vars
  <2>1. stream' = [stream EXCEPT ![s] = "receiving"] /\ listener' = listener
    BY <1>4 DEF Accept, Becomes, poolVars
  <2>2. SeenAs(stream'[s], listener'[s]) = SeenAs(stream[s], listener[s])
    BY <1>4, <2>1 DEF Accept, SeenAs
  <2>3. \A t \in Streams : SeenAs(stream'[t], listener'[t]) = SeenAs(stream[t], listener[t])
    BY <2>1, <2>2
  <2>4. Seen' = Seen
    BY <2>3 DEF Seen
  <2> QED
    BY <1>4, <2>4 DEF Accept, poolVars, peerVars, Service!vars
<1>5. ASSUME NEW s \in Streams, ReceiveStream(s) \/ ServeStale(s)
      PROVE  Service!Next
  <2>1. NumDevices \in 0 .. NumDevices
    BY PoolAssumption
  <2>2. Service!Serve(s) \/ Service!Refuse(s)
    BY <1>5, <2>1, TakeIsSeen DEF ReceiveStream, ServeStale, Unannounced, peerVars
  <2> QED
    BY <2>2 DEF Service!Next
<1>6. ASSUME daemon = "up", StaleStops \/ AcceptFails \/ RecvFails \/ Kill
      PROVE  Service!Next
  <2>1. DaemonStops("killed") \/ DaemonStops("failed")
    BY <1>6 DEF StaleStops, AcceptFails, RecvFails, Kill
  <2>2. Service!Stop
    BY <1>6, <2>1, StopIsSeen
  <2> QED
    BY <2>2 DEF Service!Next
<1>7. ASSUME NEW s \in Streams, ReplayCommand(s) \/ ServeBlank(s)
      PROVE  Service!Next
  <2>1. Unannounced(s) /\ daemon = "up" /\ stream[s] = "receiving"
    BY <1>7 DEF ReplayCommand, ServeBlank, Unannounced
  <2>2. CASE Becomes(s, "ignored") /\ UNCHANGED <<daemon, poolVars, peerVars>>
    BY <2>1, <2>2, IgnoredIsSeen DEF Service!Next
  <2>3. ASSUME NEW n \in 0 .. NumDevices, TakeStream(s, n), UNCHANGED <<daemon, recvVars, peerVars, commands>>
        PROVE  Service!Next
    <3>1. Service!Serve(s) \/ Service!Refuse(s)
      BY <2>1, <2>3, TakeIsSeen DEF peerVars
    <3> QED
      BY <3>1 DEF Service!Next
  <2>4. CASE StaleStops
    BY <1>6, <2>1, <2>4
  <2> QED
    BY <1>7, <2>2, <2>3, <2>4 DEF ReplayCommand, ServeBlank, RunStale
<1>8. CASE AcceptFails \/ RecvFails \/ Kill
  BY <1>6, <1>8 DEF AcceptFails, RecvFails, Kill, InAccept, Unannounced
<1>9. CASE \/ AcceptCommand \/ HandlerReturns
           \/ \E c \in CtlCommands : ReceiveCommand(c)
  BY <1>9, NothingSeen DEF AcceptCommand, ReceiveCommand, HandlerReturns, poolVars, peerVars
<1>10. CASE MissingCommand
  <2>1. CASE StaleStops
    BY <1>6, <1>10, <2>1 DEF MissingCommand
  <2>2. CASE RunStale /\ UNCHANGED stream
    BY <2>2, NothingSeen DEF RunStale, poolVars, peerVars
  <2> QED
    BY <1>10, <2>1, <2>2 DEF MissingCommand
<1>11. CASE StartFails
  BY <1>11, NothingSeen DEF StartFails, poolVars, peerVars
<1>12. CASE Restart
  <2>1. \A s \in Streams : SeenAs(stream'[s], listener'[s]) = SeenAs(stream[s], listener[s])
    BY <1>12 DEF Restart, DownIsClosed, SeenAs
  <2>2. Seen' = Seen
    BY <2>1 DEF Seen
  <2>3. Service!Restart
    BY <1>12, <2>2 DEF Restart, peerVars, Service!Restart
  <2> QED
    BY <2>3 DEF Service!Next
<1>13. ASSUME NEW s \in Streams, ListenerEnds(s)
      PROVE  Service!Next \/ UNCHANGED Service!vars
  <2>1. stream' = stream /\ listener' = [listener EXCEPT ![s] = "ended"]
    BY <1>13 DEF ListenerEnds
  <2>2. Seen' = [Seen EXCEPT ![s] = SeenAs(stream'[s], listener'[s])]
    BY <2>1, OneIsSeen
  <2>4. CASE stream[s] = "streaming"
    <3>1. SeenAs(stream'[s], listener'[s]) = "over" /\ Seen[s] = "served"
      BY <1>13, <2>1, <2>4 DEF ListenerEnds, Seen, SeenAs
    <3>2. Service!Finish(s)
      BY <1>13, <2>2, <3>1 DEF ListenerEnds, peerVars, Service!Finish, Service!Becomes
    <3> QED
      BY <3>2 DEF Service!Next
  <2>5. CASE stream[s] # "streaming"
    <3>1. SeenAs(stream'[s], listener'[s]) = Seen[s]
      BY <2>1, <2>5 DEF Seen, SeenAs
    <3>2. Seen' = Seen
      BY <2>2, <3>1 DEF Seen
    <3> QED
      BY <1>13, <3>2 DEF ListenerEnds, peerVars, Service!vars
  <2> QED
    BY <2>4, <2>5
<1>14. CASE UNCHANGED vars
  BY <1>14, NothingSeen DEF vars, poolVars, peerVars
<1> QED
  BY <1>1, <1>2, <1>3, <1>4, <1>5, <1>7, <1>8, <1>9, <1>10, <1>11, <1>12, <1>13, <1>14
  DEF Next, Serves

\* Whatever connections, commands and failures reach run_server in whatever
\* order, each stream is offered, served, refused, ignored and ended only as the
\* abstract service allows.
THEOREM ImplementsStreamService == Spec => PoolService
<1>1. Init => DownIsClosed
  BY DEF Init, DownIsClosed
<1>2. Spec => []DownIsClosed
  BY <1>1, DownStep, PTL DEF Spec
<1> QED
  BY <1>2, PoolInvariant, StreamServiceInit, StreamServiceStep, PTL DEF Spec, PoolService, Service!Spec
=============================================================================
