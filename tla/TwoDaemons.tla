----------------------------- MODULE TwoDaemons -----------------------------
(***************************************************************************)
(* Two daemons and the connections between them: the sending half of one   *)
(* (SenderControl) and the receiving half of the other (ListenerPool).     *)
(* A sender's connect, its NewConnection and the end of its process are    *)
(* steps of both; a send blocks, or breaks the sending process, as what    *)
(* the receiver made of the connection lets it.                            *)
(*                                                                         *)
(* The other direction is the same with the daemons exchanged, and shares  *)
(* no state with this one but the main threads, the mutex and the flag:    *)
(* the receiver's are B's place, leaked and flag.  Other X clients are     *)
(* left out: what they do to a lock thread, its failures do as well.       *)
(***************************************************************************)
EXTENDS Naturals, FiniteSets

CONSTANTS
  Senders, MainThread, Nobody, Commands, ReloadFlags, DeviceCounts, Faults,
  Conns,          \* the connections the sender threads make, each once
  NoConn,         \* a sender thread has none yet
  MAX_CONNECTIONS, NumDevices, MaxFds,
  CtlCommands,    \* the commands clients send to the receiving daemon
  MaxCommands     \* bound: commands a run of the receiving daemon is sent

VARIABLES
  \* the sending daemon
  pc, cmd, reload_config, sender_mutex, sending, num_devices, sender, announced, opened,
  polled, locker, keyboard,
  \* the receiving daemon
  daemon, conn, args, place, flag, leaked, num_conns, connections, slot, listener, stream,
  hello, gone, commands, fds,
  link            \* the connection of each sender thread: its fd

A == INSTANCE SenderControl WITH XClients <- {}
B == INSTANCE ListenerPool WITH Streams <- Conns

senderVars == <<pc, cmd, reload_config, sender_mutex, sending, num_devices, sender, announced,
                opened, polled, locker, keyboard>>
receiverVars == <<daemon, conn, args, place, flag, leaked, num_conns, connections, slot,
                  listener, stream, hello, gone, commands, fds>>
vars == <<senderVars, receiverVars, link>>

ASSUME TwoAssumption ==
  /\ MainThread \notin Senders
  /\ Nobody \notin Senders \cup {MainThread}
  /\ Commands \subseteq A!CommandTypes
  /\ ReloadFlags \subseteq BOOLEAN
  /\ DeviceCounts \subseteq Nat /\ DeviceCounts # {}
  /\ Faults \subseteq A!FaultKinds
  /\ IsFiniteSet(Conns) /\ NoConn \notin Conns
  /\ MAX_CONNECTIONS \in Nat \ {0}
  /\ NumDevices \in Nat
  /\ CtlCommands \subseteq A!CommandTypes
  /\ MaxFds \in Nat
  /\ MaxCommands \in Nat

Init ==
  /\ A!Init
  /\ B!Init
  /\ link = [s \in Senders |-> NoConn]

-----------------------------------------------------------------------------
(* The sending daemon *)

\* The fd is a variable of the thread.
Forget == link' = [s \in Senders |-> IF sender'[s] = "none" THEN NoConn ELSE link[s]]

\* A step of it that the other daemon does not see.
Alone == UNCHANGED receiverVars /\ Forget

\* Bound: a command that may start a sender arrives only while a connection is
\* left for it.
HasConn(c) ==
  c \in {"START", "SWITCH", "RELOAD"} =>
    Cardinality({k \in Conns : stream[k] = "new"})
      > Cardinality({s \in Senders : sender[s] \in {"connect", "connecting"}})

Receive(c, r) == HasConn(c) /\ A!Receive(c, r) /\ Alone

\* What became of the connection a thread sends to.
Peer(s) == stream[link[s]]

\* Nobody reads it, for now or for ever.
Unread(s) == Peer(s) \in {"backlog", "receiving", "refused"}

\* connect succeeds once the receiver's kernel has queued it.
Connected(s) ==
  \E c \in Conns :
    /\ A!Connected(s)
    /\ B!Connect(c)
    /\ link' = [link EXCEPT ![s] = c]

\* A bad address, no route, a full backlog, or no daemon there.
ConnectFails(s) == A!ConnectFails(s) /\ Alone

\* A send to a connection that was closed may still succeed.
SendHello(s) ==
  /\ A!SendHello(s)
  /\ IF Peer(s) = "closed" THEN UNCHANGED receiverVars ELSE B!SendHello(link[s])
  /\ Forget

\* A send may fail on any connection, as the network may; poll and read fail when
\* a device is unplugged.
HelloFails(s) == A!HelloFails(s) /\ Alone
RelayFails(s) == A!RelayFails(s) /\ Alone

\* It does on one that was closed.
SendBreaks(s) == RelayFails(s) /\ Peer(s) = "closed"

RelayBlocks(s) == A!RelayBlocks(s) /\ Unread(s) /\ Alone
Drain(s) == A!Drain(s) /\ Peer(s) = "streaming" /\ Alone

\* The process ends and the kernel closes every connection it made.
ProcessEnds ==
  /\ \/ A!MainReturns
     \/ \E s \in Senders : A!Sigpipe(s) /\ Peer(s) = "closed"
     \/ \E s \in Senders : A!LockFails(s)
  /\ B!PeerEnds({c \in Conns : stream[c] \notin {"new", "closed"} /\ c \notin gone})
  /\ Forget

MainRuns ==
  \/ /\ \/ A!TestFlag \/ A!SwapConfig \/ A!StopSending \/ A!StartSending \/ A!AlreadySending
        \/ \E s \in Senders : A!SpawnSender(s)
        \/ A!DestroyServer
     /\ Alone
  \/ A!MainReturns /\ ProcessEnds

SenderRuns(s) ==
  \/ /\ \/ A!BeginConnect(s) \/ A!FillAnnouncement(s) \/ A!OpenDevices(s)
        \/ A!CountDevices(s) \/ A!Relay(s) \/ A!CheckFlag(s)
     /\ Alone
  \/ Connected(s) \/ ConnectFails(s)
  \/ SendHello(s)
  \/ Drain(s)

LockRuns(s) == A!GrabKeyboard(s) /\ Alone

\* The user, and what may fail.
Other ==
  \/ \E s \in Senders : (A!Unlock(s) \/ A!NoSocket(s) \/ A!OpenFails(s)) /\ Alone
  \/ A!ReceiveFails /\ Alone
  \/ \E s \in Senders : HelloFails(s) \/ RelayFails(s) \/ RelayBlocks(s)
  \/ ProcessEnds

-----------------------------------------------------------------------------
(* The receiving daemon *)

\* A step of it the sending daemon does not see.
Receiver(step) == step /\ UNCHANGED <<senderVars, link>>

ReceiverStep ==
  \/ B!Serves
  \/ commands < MaxCommands /\ B!AcceptCommand
  \/ B!MissingCommand
  \/ \E c \in CtlCommands : B!ReceiveCommand(c)
  \/ B!RecvFails
  \/ B!StartFails \/ B!Restart
  \/ \E c \in Conns : B!ListenerEnds(c)

-----------------------------------------------------------------------------

Next ==
  \/ \E c \in Commands, r \in ReloadFlags : Receive(c, r)
  \/ MainRuns
  \/ \E s \in Senders : SenderRuns(s) \/ LockRuns(s)
  \/ Other
  \/ Receiver(ReceiverStep)

Spec == Init /\ [][Next]_vars

\* The fairness of either daemon, and a send that waits returns when it can.
Fairness ==
  /\ SF_vars(MainRuns)
  /\ \A s \in Senders :
       SF_vars(SenderRuns(s)) /\ WF_vars(SendBreaks(s)) /\ WF_vars(LockRuns(s))
  /\ WF_vars(Receiver(B!Serves))
  /\ \A c \in Conns : WF_vars(Receiver(B!ListenerEnds(c)))

FairSpec == Spec /\ Fairness

-----------------------------------------------------------------------------

\* A sender that relays has announced itself on a connection of its own; as long
\* as the receiver runs and took that stream, a listener reads it.
HeardWhileTaken ==
  \A s \in Senders : sender[s] \in A!Loop =>
    /\ link[s] \in Conns
    /\ \A t \in Senders : link[t] = link[s] => t = s
    /\ Peer(s) = "closed" \/ link[s] \in hello
    /\ Peer(s) = "streaming" => listener[link[s]] = "reading"

\* The sender of a connection gave up without closing it, and without a word.
Abandoned(c) == c \notin hello \cup gone /\ \A s \in Senders : link[s] # c

\* The receiver's main thread waits for the second message of an ioswitchctl, or in
\* a handler for its own mutex, which a second START left locked.
KeptBusy == place = "args" \/ B!Stuck

\* Or for a sender that gave up between its connect and its NewConnection, or one
\* that waits for the mutex of its daemon, which a second START left locked.
KeptWaiting ==
  \/ KeptBusy
  \/ \E d \in Conns : stream[d] = "receiving" /\ Abandoned(d)
  \/ sender_mutex = MainThread

\* Nothing else lets a connection wait in the receiver's backlog for ever: not the
\* senders before it, whatever they do, for a sender never stops for long between
\* its connect and its NewConnection.
PeersAnswered ==
  []<>~KeptWaiting => \A c \in Conns : stream[c] = "backlog" ~> stream[c] # "backlog"

\* When the sending daemon is gone, nothing of it stays behind in the receiver,
\* whatever state its connections were in: unless the main thread there is kept
\* busy for ever, no connection is left waiting and no listener reading.
EndReleasesPeer ==
  []<>~KeptBusy /\ <>[](pc = "exited") =>
    <>[](\A c \in Conns : stream[c] \notin {"backlog", "receiving"} /\ listener[c] # "reading")

\* A sender outlives a stop only in a send to a receiver that refused its stream
\* or, held up, has not yet taken it: a listener that reads lets it end.
StopNeedsReader ==
  <>[](~sending) =>
    <>[](\A s \in Senders :
           sender[s] = "none" \/ (sender[s] = "blocked" /\ Unread(s)))
=============================================================================
