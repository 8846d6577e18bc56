-------------------------- MODULE TwoDaemonsProofs --------------------------
(***************************************************************************)
(* Theorems about two daemons, for any number of senders, connections and  *)
(* slots: a sender that relays is heard while the receiver has its stream, *)
(* and each half keeps to its own specification and its promises.          *)
(***************************************************************************)
EXTENDS TwoDaemons, TLAPS

StreamLabels == {"new", "backlog", "receiving", "closed"} \cup B!Outcomes

Types ==
  /\ sender \in [Senders -> A!SenderLabels]
  /\ link \in [Senders -> Conns \cup {NoConn}]
  /\ stream \in [Conns -> StreamLabels]
  /\ listener \in [Conns -> {"none", "reading", "ended"}]

\* From its connect to its end a sender thread has a connection.
Connecting == {"announce", "open", "hello"}
HasLink(s) == sender[s] \in Connecting \cup A!Loop

\* A connection belongs to one thread at most, which announced it before it
\* relays; its process has not ended.
Links ==
  \A s \in Senders :
    /\ HasLink(s) => link[s] \in Conns
    /\ link[s] \in Conns =>
         /\ Peer(s) # "new"
         /\ Peer(s) = "closed" \/ link[s] \notin gone
         /\ \A t \in Senders : link[t] = link[s] => t = s
    /\ sender[s] \in A!Loop => Peer(s) = "closed" \/ link[s] \in hello
    /\ sender[s] = "none" => link[s] = NoConn

\* A stream the receiver took has its listener as long as its sender is there.
Taken ==
  /\ \A c \in Conns : stream[c] = "new" => c \notin gone
  /\ \A c \in Conns : stream[c] = "streaming" /\ c \notin gone => listener[c] = "reading"
  /\ daemon # "up" => \A c \in Conns : stream[c] \in {"new", "closed"}

IInv == Types /\ Links /\ Taken

-----------------------------------------------------------------------------
(* Steps of the sending daemon *)

\* No thread gets further than it was on the way to a connection or to its loop.
Quietly ==
  /\ sender' \in [Senders -> A!SenderLabels]
  /\ \A s \in Senders : sender'[s] = sender[s] \/ sender'[s] \in {"none", "connect", "connecting"}
                          \/ (sender[s] \in Connecting /\ sender'[s] \in Connecting)
                          \/ (sender[s] \in A!Loop /\ sender'[s] \in A!Loop)

LEMMA QuietSteps ==
  ASSUME Types,
         \/ \E c \in Commands, r \in ReloadFlags : A!Receive(c, r)
         \/ A!TestFlag \/ A!SwapConfig \/ A!StopSending \/ A!StartSending \/ A!AlreadySending
         \/ A!DestroyServer \/ A!ReceiveFails
         \/ \E s \in Senders :
              \/ A!SpawnSender(s) \/ A!BeginConnect(s) \/ A!FillAnnouncement(s)
              \/ A!OpenDevices(s) \/ A!CountDevices(s) \/ A!Relay(s) \/ A!CheckFlag(s)
              \/ A!ConnectFails(s) \/ A!HelloFails(s) \/ A!RelayFails(s) \/ A!RelayBlocks(s)
              \/ A!Drain(s) \/ A!GrabKeyboard(s) \/ A!Unlock(s) \/ A!NoSocket(s)
              \/ A!OpenFails(s)
  PROVE  Quietly
<1> USE DEF Types, Quietly, Connecting, A!SenderLabels, A!Loop
<1>1. CASE \E c \in Commands, r \in ReloadFlags : A!Receive(c, r)
  BY <1>1 DEF A!Receive
<1>2. CASE \/ A!TestFlag \/ A!SwapConfig \/ A!StopSending \/ A!StartSending \/ A!AlreadySending
           \/ A!DestroyServer \/ A!ReceiveFails
  BY <1>2 DEF A!TestFlag, A!SwapConfig, A!StopSending, A!StartSending, A!AlreadySending,
     A!DestroyServer, A!ReceiveFails
<1>3. ASSUME NEW s \in Senders,
             \/ A!SpawnSender(s) \/ A!BeginConnect(s) \/ A!FillAnnouncement(s)
             \/ A!OpenDevices(s) \/ A!CountDevices(s) \/ A!Relay(s) \/ A!CheckFlag(s)
      PROVE  Quietly
  BY <1>3 DEF A!SpawnSender, A!BeginConnect, A!FillAnnouncement, A!OpenDevices, A!CountDevices,
     A!Relay, A!CheckFlag, A!GoTo, A!Exit
<1>4. ASSUME NEW s \in Senders,
             \/ A!ConnectFails(s) \/ A!HelloFails(s) \/ A!RelayFails(s) \/ A!RelayBlocks(s)
             \/ A!Drain(s) \/ A!NoSocket(s) \/ A!OpenFails(s)
      PROVE  Quietly
  BY <1>4 DEF A!ConnectFails, A!HelloFails, A!RelayFails, A!RelayBlocks, A!Drain, A!NoSocket,
     A!OpenFails, A!GoTo, A!Exit
<1>5. ASSUME NEW s \in Senders, A!GrabKeyboard(s) \/ A!Unlock(s) PROVE Quietly
  BY <1>5 DEF A!GrabKeyboard, A!Unlock
<1> QED
  BY <1>1, <1>2, <1>3, <1>4, <1>5

LEMMA QuietInv == ASSUME IInv, Quietly, Alone PROVE IInv'
<1> USE TwoAssumption DEF IInv, Types, Quietly, Alone, Forget, receiverVars
<1>1. Types'
  OBVIOUS
<1>2. Taken'
  BY DEF Taken
<1>3. \A s \in Senders : link'[s] \in Conns => link'[s] = link[s]
  OBVIOUS
<1>4. ASSUME NEW s \in Senders, HasLink(s)' PROVE HasLink(s) /\ link'[s] = link[s]
  BY <1>4 DEF HasLink, Connecting, A!Loop
<1>5. ASSUME NEW s \in Senders, sender'[s] \in A!Loop PROVE sender[s] \in A!Loop
  BY <1>5 DEF Connecting, A!Loop
<1>6. Links'
  BY <1>3, <1>4, <1>5 DEF Links, Peer, HasLink
<1> QED
  BY <1>1, <1>2, <1>6

LEMMA ConnectInv == ASSUME IInv, NEW s \in Senders, Connected(s) PROVE IInv'
<1> USE TwoAssumption DEF IInv, Types
<1>1. PICK c \in Conns : /\ A!Connected(s)
                         /\ B!Connect(c)
                         /\ link' = [link EXCEPT ![s] = c]
  BY DEF Connected
<1>2. /\ sender' = [sender EXCEPT ![s] = "announce"]
      /\ stream[c] = "new" /\ daemon = "up"
      /\ stream' = [stream EXCEPT ![c] = "backlog"]
      /\ daemon' = daemon /\ listener' = listener /\ hello' = hello /\ gone' = gone
  BY <1>1 DEF A!Connected, A!GoTo, B!Connect, B!poolVars, B!peerVars
<1>3. Types'
  BY <1>1, <1>2 DEF A!SenderLabels, A!Loop, StreamLabels
<1>4. Taken'
  BY <1>2 DEF Taken
<1>5. \A t \in Senders : link[t] # c
  BY <1>2 DEF Links, Peer
<1>6. ASSUME NEW t \in Senders
      PROVE  /\ HasLink(t)' => link'[t] \in Conns
             /\ link'[t] \in Conns =>
                  /\ Peer(t)' # "new"
                  /\ Peer(t)' = "closed" \/ link'[t] \notin gone'
                  /\ \A u \in Senders : link'[u] = link'[t] => u = t
             /\ sender'[t] \in A!Loop => Peer(t)' = "closed" \/ link'[t] \in hello'
             /\ sender'[t] = "none" => link'[t] = NoConn
  <2>1. CASE t = s
    BY <1>1, <1>2, <1>5, <2>1 DEF Taken, Peer, A!Loop
  <2>2. CASE t # s
    BY <1>1, <1>2, <1>5, <2>2 DEF Links, Peer, HasLink
  <2> QED
    BY <2>1, <2>2
<1> QED
  BY <1>3, <1>4, <1>6 DEF Links

LEMMA HelloInv == ASSUME IInv, NEW s \in Senders, SendHello(s) PROVE IInv'
<1> USE TwoAssumption DEF IInv, Types
<1>1. /\ sender[s] = "hello"
      /\ sender' = [sender EXCEPT ![s] = "count"]
      /\ link' = link
      /\ daemon' = daemon /\ stream' = stream /\ listener' = listener /\ gone' = gone
      /\ Peer(s) = "closed" \/ hello' = hello \cup {link[s]}
      /\ hello \subseteq hello'
  <2>1. sender[s] = "hello" /\ sender' = [sender EXCEPT ![s] = "count"]
    BY DEF SendHello, A!SendHello, A!GoTo
  <2>2. /\ daemon' = daemon /\ stream' = stream /\ listener' = listener /\ gone' = gone
        /\ Peer(s) = "closed" \/ hello' = hello \cup {link[s]}
        /\ hello \subseteq hello'
    BY DEF SendHello, B!SendHello, B!poolVars, receiverVars
  <2>3. \A t \in Senders : sender'[t] = "none" => link[t] = NoConn
    BY <2>1 DEF Links
  <2> QED
    BY <2>1, <2>2, <2>3 DEF SendHello, Forget
<1>2. Types'
  BY <1>1 DEF A!SenderLabels, A!Loop
<1>3. Taken'
  BY <1>1 DEF Taken
<1>4. \A t \in Senders : Peer(t)' = Peer(t) /\ (HasLink(t)' => HasLink(t))
  BY <1>1 DEF Peer, HasLink, Connecting, A!Loop
<1>5. \A t \in Senders : sender'[t] \in A!Loop => t = s \/ sender[t] \in A!Loop
  BY <1>1
<1>6. Links'
  BY <1>1, <1>4, <1>5 DEF Links
<1> QED
  BY <1>2, <1>3, <1>6

LEMMA EndInv == ASSUME IInv, ProcessEnds PROVE IInv'
<1> USE TwoAssumption DEF IInv, Types
<1>1. /\ sender' = [s \in Senders |-> "none"]
      /\ link' = [s \in Senders |-> NoConn]
      /\ gone' = gone \cup {c \in Conns : stream[c] \notin {"new", "closed"}}
      /\ daemon' = daemon /\ stream' = stream /\ listener' = listener
  <2>1. sender' = [s \in Senders |-> "none"]
    BY DEF ProcessEnds, A!MainReturns, A!Sigpipe, A!LockFails, A!ProcessEnds
  <2> QED
    BY <2>1 DEF ProcessEnds, Forget, B!PeerEnds, B!poolVars
<1>2. Types'
  BY <1>1 DEF A!SenderLabels
<1>3. Taken'
  BY <1>1 DEF Taken
<1>4. Links'
  BY <1>1 DEF Links, HasLink, Connecting, A!Loop
<1> QED
  BY <1>2, <1>3, <1>4

-----------------------------------------------------------------------------
(* Steps of the receiving daemon *)

\* What they do to a connection that some thread has: it may be closed, and it
\* may be taken, with a listener.
Receives ==
  /\ stream' \in [Conns -> StreamLabels]
  /\ listener' \in [Conns -> {"none", "reading", "ended"}]
  /\ hello' = hello /\ gone' = gone
  /\ \A c \in Conns :
       /\ stream[c] = "new" <=> stream'[c] = "new"
       /\ stream[c] = "closed" => stream'[c] = "closed"
  /\ Taken'

LEMMA StopReceives ==
  ASSUME Types, Taken, NEW how \in {"killed", "failed"}, B!DaemonStops(how)
  PROVE  Receives
BY DEF Types, Taken, Receives, B!DaemonStops, B!peerVars, StreamLabels

LEMMA TakeReceives ==
  ASSUME Types, Taken, NEW c \in Conns, NEW n, B!TakeStream(c, n), daemon = "up",
         stream[c] = "receiving", UNCHANGED <<daemon, hello, gone>>
  PROVE  Receives
BY DEF Types, Taken, Receives, B!TakeStream, B!StartListener, B!RefuseStream, B!Becomes,
   B!poolVars, StreamLabels, B!Outcomes

LEMMA IgnoreReceives ==
  ASSUME Types, Taken, NEW c \in Conns, stream[c] \in {"backlog", "receiving"},
         NEW outcome \in {"receiving", "ignored"}, daemon = "up",
         B!Becomes(c, outcome), UNCHANGED <<daemon, listener, hello, gone>>
  PROVE  Receives
BY DEF Types, Taken, Receives, B!Becomes, StreamLabels, B!Outcomes

LEMMA SameReceives ==
  ASSUME Types, Taken, UNCHANGED <<stream, listener, hello, gone>>,
         daemon' = daemon \/ daemon # "up"
  PROVE  Receives
BY DEF Types, Taken, Receives

LEMMA ReceiverReceives == ASSUME Types, Taken, ReceiverStep PROVE Receives
<1> USE DEF B!poolVars, B!recvVars, B!peerVars
<1>1. ASSUME NEW c \in Conns, B!Accept(c) PROVE Receives
  BY <1>1, IgnoreReceives DEF B!Accept, B!InAccept
<1>2. ASSUME NEW c \in Conns, B!ReceiveStream(c) \/ B!ServeStale(c) PROVE Receives
  BY <1>2, TakeReceives DEF B!ReceiveStream, B!ServeStale, B!Unannounced
<1>3. ASSUME NEW c \in Conns, B!ReplayCommand(c) \/ B!ServeBlank(c) PROVE Receives
  BY <1>3, TakeReceives, IgnoreReceives, StopReceives
  DEF B!ReplayCommand, B!ServeBlank, B!Unannounced, B!StaleStops, B!RunStale
<1>4. CASE B!AcceptFails \/ B!Kill \/ B!RecvFails
  BY <1>4, StopReceives DEF B!AcceptFails, B!Kill, B!RecvFails
<1>5. CASE \/ B!AcceptCommand \/ B!HandlerReturns
           \/ \E c \in CtlCommands : B!ReceiveCommand(c)
  BY <1>5, SameReceives DEF B!AcceptCommand, B!ReceiveCommand, B!HandlerReturns
<1>6. CASE B!MissingCommand
  BY <1>6, SameReceives, StopReceives DEF B!MissingCommand, B!StaleStops, B!RunStale
<1>7. CASE B!StartFails
  BY <1>7, SameReceives DEF B!StartFails
<1>8. CASE B!Restart
  BY <1>8 DEF B!Restart, Types, Taken, Receives
<1>9. ASSUME NEW c \in Conns, B!ListenerEnds(c) PROVE Receives
  BY <1>9 DEF B!ListenerEnds, Types, Taken, Receives
<1> QED
  BY <1>1, <1>2, <1>3, <1>4, <1>5, <1>6, <1>7, <1>8, <1>9 DEF ReceiverStep, B!Serves

LEMMA ReceiverInv == ASSUME IInv, Receiver(ReceiverStep) PROVE IInv'
<1>1. Receives /\ UNCHANGED <<sender, link>>
  BY ReceiverReceives DEF IInv, Receiver, senderVars
<1>2. Types' /\ Taken'
  BY <1>1 DEF IInv, Types, Receives
<1>3. Links'
  BY <1>1, TwoAssumption DEF IInv, Types, Links, Receives, Peer, HasLink
<1> QED
  BY <1>2, <1>3 DEF IInv

-----------------------------------------------------------------------------

LEMMA InitInv == Init => IInv
BY TwoAssumption DEF Init, A!Init, B!Init, IInv, Types, Links, Taken, Peer, HasLink, Connecting,
   StreamLabels, A!SenderLabels, A!Loop

LEMMA StepInv == ASSUME IInv, [Next]_vars PROVE IInv'
<1>1. CASE UNCHANGED vars
  <2>1. UNCHANGED <<sender, link, stream, listener, daemon, hello, gone>>
    BY <1>1 DEF vars, senderVars, receiverVars
  <2> QED
    BY <2>1 DEF IInv, Types, Links, Taken, Peer, HasLink
<1>2. ASSUME NEW c \in Commands, NEW r \in ReloadFlags, Receive(c, r) PROVE IInv'
  BY <1>2, QuietSteps, QuietInv DEF Receive, IInv
<1>3. CASE MainRuns
  BY <1>3, QuietSteps, QuietInv, EndInv DEF MainRuns, IInv
<1>4. ASSUME NEW s \in Senders, SenderRuns(s) \/ LockRuns(s) PROVE IInv'
  BY <1>4, QuietSteps, QuietInv, ConnectInv, HelloInv
  DEF SenderRuns, LockRuns, ConnectFails, Drain, IInv
<1>5. CASE Other
  BY <1>5, QuietSteps, QuietInv, EndInv DEF Other, HelloFails, RelayFails, RelayBlocks, IInv
<1>6. CASE Receiver(ReceiverStep)
  BY <1>6, ReceiverInv
<1> QED
  BY <1>1, <1>2, <1>3, <1>4, <1>5, <1>6 DEF Next

\* A sender that relays announced itself on a connection no other thread has, and
\* a listener reads it whenever the receiver took it, whatever the two daemons do.
THEOREM RelayIsHeard == Spec => []HeardWhileTaken
<1>1. IInv => HeardWhileTaken
  BY DEF IInv, Types, Links, Taken, HeardWhileTaken, HasLink, Peer
<1> QED
  BY <1>1, InitInv, StepInv, PTL DEF Spec

-----------------------------------------------------------------------------
(* The parts of the composition *)

LEMMA SenderHalfStep == [Next]_vars => [A!Next]_(A!vars)
<1> SUFFICES ASSUME [Next]_vars
             PROVE  A!Next \/ UNCHANGED A!vars
  OBVIOUS
<1> USE DEF A!Next, A!Internal
<1>1. CASE UNCHANGED senderVars
  BY <1>1 DEF senderVars, A!vars, A!mainVars, A!counts
<1>2. ASSUME NEW c \in Commands, NEW r \in ReloadFlags, Receive(c, r)
      PROVE  A!Next
  BY <1>2 DEF Receive
<1>3. CASE ProcessEnds
  BY <1>3 DEF ProcessEnds, A!MainStep, A!SenderStep, A!LockerStep
<1>4. CASE MainRuns
  BY <1>3, <1>4 DEF MainRuns, A!MainStep
<1>5. ASSUME NEW s \in Senders, SenderRuns(s) \/ LockRuns(s)
      PROVE  A!Next
  <2>1. A!SenderStep(s) \/ A!LockerStep(s)
    BY <1>5 DEF SenderRuns, LockRuns, Connected, ConnectFails, SendHello, Drain,
       A!SenderStep, A!SenderRuns, A!LockerStep
  <2> QED
    BY <2>1
<1>6. CASE Other
  <2>1. ASSUME NEW s \in Senders,
               \/ A!Unlock(s) \/ A!NoSocket(s) \/ A!OpenFails(s)
               \/ HelloFails(s) \/ RelayFails(s) \/ RelayBlocks(s)
        PROVE  A!Next
    <3>1. A!SenderStep(s) \/ A!Unlock(s)
      BY <2>1 DEF HelloFails, RelayFails, RelayBlocks, A!SenderStep
    <3> QED
      BY <3>1
  <2> QED
    BY <1>3, <1>6, <2>1 DEF Other
<1> QED
  BY <1>1, <1>2, <1>4, <1>5, <1>6 DEF Next, vars, Receiver

LEMMA ReceiverHalfStep == IInv /\ [Next]_vars => [B!Next]_(B!vars)
<1> SUFFICES ASSUME IInv, [Next]_vars
             PROVE  B!Next \/ UNCHANGED B!vars
  OBVIOUS
<1>1. CASE UNCHANGED receiverVars
  BY <1>1 DEF receiverVars, B!vars, B!recvVars, B!handlerVars, B!poolVars, B!peerVars
<1>2. CASE ProcessEnds
  BY <1>2 DEF ProcessEnds, B!Next
<1>3. ASSUME NEW s \in Senders, Connected(s)
      PROVE  B!Next
  BY <1>3 DEF Connected, B!Next
<1>4. ASSUME NEW s \in Senders, SendHello(s)
      PROVE  B!Next \/ UNCHANGED receiverVars
  <2>1. link[s] \in Conns
    BY <1>4 DEF SendHello, A!SendHello, IInv, Links, HasLink, Connecting
  <2> QED
    BY <1>4, <2>1 DEF SendHello, B!Next
<1>5. CASE Receiver(ReceiverStep)
  BY <1>5 DEF Receiver, ReceiverStep, B!Next
<1>6. ASSUME NEW c \in Commands, NEW r \in ReloadFlags, Receive(c, r)
      PROVE  UNCHANGED receiverVars
  BY <1>6 DEF Receive, Alone
<1>7. CASE MainRuns
  BY <1>1, <1>2, <1>7 DEF MainRuns, Alone
<1>8. ASSUME NEW s \in Senders, SenderRuns(s) \/ LockRuns(s)
      PROVE  B!Next \/ UNCHANGED receiverVars
  BY <1>3, <1>4, <1>8 DEF SenderRuns, LockRuns, ConnectFails, Drain, Alone
<1>9. CASE Other
  BY <1>1, <1>2, <1>9 DEF Other, HelloFails, RelayFails, RelayBlocks, Alone
<1> QED
  BY <1>1, <1>5, <1>6, <1>7, <1>8, <1>9 DEF Next, vars

\* Between two daemons the sending half does what SenderControl says and the
\* receiving half what ListenerPool says, each with the other as its peer: no
\* step of theirs, alone or together, leaves either specification.
THEOREM HalvesAreFaithful == Spec => A!Spec /\ B!Spec
<1>1. Init => A!Init /\ B!Init
  BY DEF Init
<1> QED
  BY <1>1, InitInv, StepInv, SenderHalfStep, ReceiverHalfStep, PTL DEF Spec, A!Spec, B!Spec

-----------------------------------------------------------------------------
(* What is proved of the parts alone holds of the two together *)

SC == INSTANCE SenderControlProofs WITH XClients <- {}
LP == INSTANCE ListenerPoolProofs WITH Streams <- Conns

\* A and SC, B and LP are the same modules, the second with the theorems.
LEMMA SameSender == A!Spec => SC!Spec
<1>1. A!MainStep <=> SC!MainStep
  BY
  DEF A!mainVars, SC!mainVars, A!counts, SC!counts, A!GoTo, SC!GoTo, A!Exit, SC!Exit,
      A!ServerUp, SC!ServerUp, A!ProcessEnds, SC!ProcessEnds, A!TestFlag, SC!TestFlag,
      A!SwapConfig, SC!SwapConfig, A!StopSending, SC!StopSending, A!AfterStop, SC!AfterStop,
      A!StartSending, SC!StartSending, A!AlreadySending, SC!AlreadySending, A!SpawnSender,
      SC!SpawnSender, A!Free, SC!Free, A!DestroyServer, SC!DestroyServer, A!MainReturns,
      SC!MainReturns, A!MainStep, SC!MainStep
<1>2. ASSUME NEW s \in Senders PROVE A!SenderStep(s) <=> SC!SenderStep(s)
  BY
  DEF A!mainVars, SC!mainVars, A!counts, SC!counts, A!GoTo, SC!GoTo, A!Exit, SC!Exit,
      A!ServerUp, SC!ServerUp, A!ProcessEnds, SC!ProcessEnds, A!BeginConnect, SC!BeginConnect,
      A!Connected, SC!Connected, A!FillAnnouncement, SC!FillAnnouncement, A!OpenDevices,
      SC!OpenDevices, A!SendHello, SC!SendHello, A!CountDevices, SC!CountDevices, A!Relay,
      SC!Relay, A!CheckFlag, SC!CheckFlag, A!Drain, SC!Drain, A!NoSocket, SC!NoSocket,
      A!ConnectFails, SC!ConnectFails, A!OpenFails, SC!OpenFails, A!HelloFails, SC!HelloFails,
      A!RelayFails, SC!RelayFails, A!RelayBlocks, SC!RelayBlocks, A!Sigpipe, SC!Sigpipe,
      A!SenderRuns, SC!SenderRuns, A!SenderStep, SC!SenderStep
<1>3. ASSUME NEW s \in Senders
      PROVE  (A!LockerStep(s) <=> SC!LockerStep(s)) /\ (A!Unlock(s) <=> SC!Unlock(s))
  BY
  DEF A!mainVars, SC!mainVars, A!counts, SC!counts, A!GoTo, SC!GoTo, A!Exit, SC!Exit,
      A!ServerUp, SC!ServerUp, A!ProcessEnds, SC!ProcessEnds, A!LockerStep, SC!LockerStep,
      A!GrabKeyboard, SC!GrabKeyboard, A!LockFails, SC!LockFails, A!Unlock, SC!Unlock
<1>4. ASSUME NEW c \in Commands, NEW r \in ReloadFlags
      PROVE  A!Receive(c, r) <=> SC!Receive(c, r)
  BY
  DEF A!Receive, SC!Receive, A!HasRoom, SC!HasRoom, A!Free, SC!Free, A!Entry, SC!Entry,
      A!counts, SC!counts
<1>5. /\ A!ReceiveFails <=> SC!ReceiveFails
      /\ A!OtherReleases <=> SC!OtherReleases
  BY
  DEF A!ReceiveFails, SC!ReceiveFails, A!counts, SC!counts, A!OtherReleases, SC!OtherReleases,
      A!mainVars, SC!mainVars
<1>6. A!Next <=> SC!Next
  BY <1>1, <1>2, <1>3, <1>4, <1>5 DEF A!Next, SC!Next, A!Internal, SC!Internal
<1>7. UNCHANGED A!vars => UNCHANGED SC!vars
  BY DEF A!vars, SC!vars, A!mainVars, SC!mainVars, A!counts, SC!counts
<1>8. [A!Next]_(A!vars) => [SC!Next]_(SC!vars)
  <2> SUFFICES ASSUME A!Next \/ UNCHANGED A!vars
               PROVE  SC!Next \/ UNCHANGED SC!vars
    OBVIOUS
  <2> QED
    BY <1>6, <1>7
<1>9. A!Init => SC!Init
  BY DEF A!Init, SC!Init
<1> QED
  BY <1>8, <1>9, PTL DEF A!Spec, SC!Spec

LEMMA SameReceiver == B!Spec => LP!Spec
<1>1. ASSUME NEW s \in Conns
      PROVE  /\ B!Connect(s) <=> LP!Connect(s)
             /\ B!SendHello(s) <=> LP!SendHello(s)
             /\ B!Accept(s) <=> LP!Accept(s)
             /\ B!ListenerEnds(s) <=> LP!ListenerEnds(s)
  BY
  DEF B!Connect, LP!Connect, B!SendHello, LP!SendHello, B!Accept, LP!Accept, B!ListenerEnds,
      LP!ListenerEnds, B!InAccept, LP!InAccept, B!Becomes, LP!Becomes, B!poolVars, LP!poolVars,
      B!recvVars, LP!recvVars, B!handlerVars, LP!handlerVars, B!peerVars, LP!peerVars
<1>2. ASSUME NEW made \in SUBSET Conns PROVE B!PeerEnds(made) <=> LP!PeerEnds(made)
  BY
  DEF B!PeerEnds, LP!PeerEnds, B!poolVars, LP!poolVars, B!recvVars, LP!recvVars, B!handlerVars, LP!handlerVars
<1>3. ASSUME NEW s \in Conns, NEW n PROVE B!TakeStream(s, n) <=> LP!TakeStream(s, n)
  BY
  DEF B!TakeStream, LP!TakeStream, B!StartListener, LP!StartListener, B!RefuseStream,
      LP!RefuseStream, B!OpenSlot, LP!OpenSlot, B!Slots, LP!Slots, B!Max, LP!Max,
      B!CreateDevices, LP!CreateDevices, B!Becomes, LP!Becomes, B!poolVars, LP!poolVars
<1>4. ASSUME NEW how PROVE B!DaemonStops(how) <=> LP!DaemonStops(how)
  BY
  DEF B!DaemonStops, LP!DaemonStops, B!handlerVars, LP!handlerVars, B!peerVars, LP!peerVars
<1>5. /\ B!StaleStops <=> LP!StaleStops
      /\ B!RunStale <=> LP!RunStale
  BY <1>4
  DEF B!StaleStops, LP!StaleStops, B!RunStale, LP!RunStale, B!handlerVars, LP!handlerVars,
      B!poolVars, LP!poolVars, B!peerVars, LP!peerVars
<1>6. ASSUME NEW s \in Conns
      PROVE  /\ B!ReceiveStream(s) <=> LP!ReceiveStream(s)
             /\ B!ServeStale(s) <=> LP!ServeStale(s)
             /\ B!ReplayCommand(s) <=> LP!ReplayCommand(s)
             /\ B!ServeBlank(s) <=> LP!ServeBlank(s)
  BY <1>3, <1>5
  DEF B!ReceiveStream, LP!ReceiveStream, B!ServeStale, LP!ServeStale, B!ReplayCommand,
      LP!ReplayCommand, B!ServeBlank, LP!ServeBlank, B!Unannounced, LP!Unannounced, B!Becomes,
      LP!Becomes, B!poolVars, LP!poolVars, B!recvVars, LP!recvVars, B!handlerVars, LP!handlerVars, B!peerVars, LP!peerVars
<1>7. /\ B!AcceptFails <=> LP!AcceptFails
      /\ B!RecvFails <=> LP!RecvFails
      /\ B!Kill <=> LP!Kill
      /\ B!MissingCommand <=> LP!MissingCommand
  BY <1>4, <1>5
  DEF B!AcceptFails, LP!AcceptFails, B!RecvFails, LP!RecvFails, B!Kill, LP!Kill,
      B!MissingCommand, LP!MissingCommand, B!Stuck, LP!Stuck, B!TakesMutex, LP!TakesMutex, B!InAccept, LP!InAccept, B!Unannounced,
      LP!Unannounced, B!poolVars, LP!poolVars, B!peerVars, LP!peerVars
<1>8. /\ B!AcceptCommand <=> LP!AcceptCommand
      /\ B!HandlerReturns <=> LP!HandlerReturns
      /\ B!StartFails <=> LP!StartFails
      /\ B!Restart <=> LP!Restart
  BY
  DEF B!AcceptCommand, LP!AcceptCommand, B!HandlerReturns, LP!HandlerReturns, B!Stuck, LP!Stuck,
      B!TakesMutex, LP!TakesMutex, B!handlerVars, LP!handlerVars, B!StartFails,
      LP!StartFails, B!Restart, LP!Restart, B!InAccept, LP!InAccept, B!Slots, LP!Slots,
      B!poolVars, LP!poolVars, B!recvVars, LP!recvVars, B!handlerVars, LP!handlerVars, B!peerVars, LP!peerVars
<1>9. ASSUME NEW c \in CtlCommands
      PROVE  B!ReceiveCommand(c) <=> LP!ReceiveCommand(c)
  BY
  DEF B!ReceiveCommand, LP!ReceiveCommand, B!handlerVars, LP!handlerVars, B!poolVars, LP!poolVars,
      B!peerVars, LP!peerVars
<1>10. B!Next <=> LP!Next
  BY <1>1, <1>2, <1>6, <1>7, <1>8, <1>9 DEF B!Next, LP!Next, B!Serves, LP!Serves
<1>11. UNCHANGED B!vars => UNCHANGED LP!vars
  BY
  DEF B!vars, LP!vars, B!poolVars, LP!poolVars, B!recvVars, LP!recvVars, B!handlerVars, LP!handlerVars, B!peerVars, LP!peerVars
<1>12. [B!Next]_(B!vars) => [LP!Next]_(LP!vars)
  <2> SUFFICES ASSUME B!Next \/ UNCHANGED B!vars
               PROVE  LP!Next \/ UNCHANGED LP!vars
    OBVIOUS
  <2> QED
    BY <1>10, <1>11
<1>13. B!Init => LP!Init
  BY DEF B!Init, LP!Init, B!Slots, LP!Slots
<1> QED
  BY <1>12, <1>13, PTL DEF B!Spec, LP!Spec

\* What is proved of either daemon alone holds of the two together: behind the
\* sender the mutex, the flag and the screen lock, behind the receiver the slots,
\* the counts and the streams, whatever one does to the other.
THEOREM PromisesHoldTogether ==
  Spec =>
    /\ [](/\ SC!MutexOwnerInside /\ SC!FlagStillAsRead
          /\ SC!LeakFreezesFlag /\ SC!LockedAfterHello)
    /\ SC!OnlyStartLeaks
    /\ SC!ServiceSpec
    /\ []LP!ConnsCountStarts
    /\ LP!PoolService
<1>1. SC!ControlAssumption
  BY TwoAssumption DEF SC!CommandTypes, A!CommandTypes, SC!FaultKinds, A!FaultKinds
<1>2. LP!PoolAssumption
  BY TwoAssumption DEF IsFiniteSet, LP!IsFiniteSet, A!CommandTypes, LP!CommandTypes
<1>3. SC!Spec =>
        /\ [](/\ SC!MutexOwnerInside /\ SC!FlagStillAsRead
              /\ SC!LeakFreezesFlag /\ SC!LockedAfterHello)
        /\ SC!OnlyStartLeaks
        /\ SC!ServiceSpec
  BY <1>1, SC!MutexReleased, SC!FlagIsStable, SC!LeakIsStuck, SC!LockFollowsHello,
     SC!StartAloneLeaks, SC!ImplementsService, PTL
<1>4. LP!Spec =>
        /\ []LP!ConnsCountStarts
        /\ LP!PoolService
  BY <1>2, LP!ConnsCounted, LP!ImplementsStreamService, PTL
<1> QED
  BY <1>3, <1>4, HalvesAreFaithful, SameSender, SameReceiver, PTL
=============================================================================
