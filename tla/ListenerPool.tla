---------------------------- MODULE ListenerPool ----------------------------
(***************************************************************************)
(* The receiving half of the daemon: run_server accepts one connection at  *)
(* a time, waits for its NewConnection, gives each input stream a slot,    *)
(* virtual devices and a listener thread, and the listener ends with its   *)
(* stream.  Nothing a connection took is given back but the listener's     *)
(* memory.                                                                 *)
(*                                                                         *)
(* A connection whose peer ends before it sent anything makes recv return  *)
(* 0, and run_server goes on with what the last NewConnection left in      *)
(* conn, or the last command in args.  What was sent is received whole.    *)
(*                                                                         *)
(* The two sections under listener_mutex do not block, so each is part of  *)
(* one action and the mutex needs no variable.  What a listener reads and  *)
(* writes meanwhile is in InputStream, what the handler of a command does  *)
(* to the senders in SenderControl; here it is how long it keeps the main  *)
(* thread, which for a daemon whose mutex a START leaked is for ever.      *)
(***************************************************************************)
EXTENDS Integers, FiniteSets, FiniteSetsExt

CONSTANTS
  Streams,          \* the input streams other daemons open, each once
  MAX_CONNECTIONS,
  NumDevices,       \* conn.num_devices of every stream
  CtlCommands,      \* the commands clients send
  MaxFds            \* descriptors the process may open for its connections

CommandTypes == {"NONE", "LIST", "START", "STOP", "SWITCH", "RELOAD", "KILL"}

ASSUME PoolAssumption ==
  /\ IsFiniteSet(Streams)
  /\ MAX_CONNECTIONS \in Nat \ {0}
  /\ NumDevices \in Nat
  /\ CtlCommands \subseteq CommandTypes
  /\ MaxFds \in Nat

VARIABLES
  daemon,       \* is it running, was it killed, did it fail?
  conn,         \* what recv last left in conn: blank before the first time
  args,         \* and in args: a command
  place,        \* the main thread: in the loop, in the recv of args, in a handler
  flag,         \* *sending, as the handlers leave it
  leaked,       \* did a START leave sender_mutex locked?
  num_conns,    \* server->num_conns
  connections,  \* server->connections
  slot,         \* where each listener's args->connection points, -1 at first
  listener,     \* where each stream's listener thread is
  stream,       \* what became of each stream's connection
  hello,        \* the streams whose sender sent its NewConnection
  gone,         \* the streams whose sending daemon ended
  commands,     \* how many commands were served
  fds           \* descriptors opened for connections and devices

poolVars == <<num_conns, connections, slot, listener>>
handlerVars == <<flag, leaked>>
recvVars == <<conn, args, place, handlerVars>>
peerVars == <<hello, gone>>
vars == <<daemon, recvVars, poolVars, stream, peerVars, commands, fds>>

Slots == 0 .. MAX_CONNECTIONS - 1

\* What run_server made of a connection it accepted.
Outcomes == {"streaming", "refused", "ignored"}

TypeOK ==
  /\ daemon \in {"up", "killed", "failed"}
  /\ conn \in {"blank", "INPUT_STREAM", "COMMAND"}
  /\ args \in CtlCommands \cup {"blank"}
  /\ place \in {"loop", "args", "handler"}
  /\ place = "handler" => args # "blank"
  /\ flag \in BOOLEAN
  /\ leaked \in BOOLEAN
  /\ num_conns \in 0 .. MAX_CONNECTIONS
  /\ connections \in [Slots -> {0}]
  /\ slot \in [Streams -> Slots \cup {-1}]
  /\ listener \in [Streams -> {"none", "reading", "ended"}]
  /\ stream \in [Streams -> {"new", "backlog", "receiving", "closed"} \cup Outcomes]
  /\ hello \subseteq Streams
  /\ gone \subseteq Streams
  /\ commands \in 0 .. MaxFds
  /\ fds \in 0 .. MaxFds

\* create_server: memset to zero.
Init ==
  /\ daemon = "up"
  /\ conn = "blank"
  /\ args = "blank"
  /\ place = "loop"
  /\ flag = FALSE
  /\ leaked = FALSE
  /\ num_conns = 0
  /\ connections = [k \in Slots |-> 0]
  /\ slot = [s \in Streams |-> -1]
  /\ listener = [s \in Streams |-> "none"]
  /\ stream = [s \in Streams |-> "new"]
  /\ hello = {}
  /\ gone = {}
  /\ commands = 0
  /\ fds = 0

-----------------------------------------------------------------------------
(* The other daemons *)

\* A sender thread connects.
Connect(s) ==
  /\ daemon = "up"
  /\ stream[s] = "new"
  /\ stream' = [stream EXCEPT ![s] = "backlog"]
  /\ UNCHANGED <<daemon, recvVars, poolVars, peerVars, commands, fds>>

\* It opened its devices and announces them.  A sender that cannot open one
\* never does, and leaves the connection open.
SendHello(s) ==
  /\ stream[s] \in {"backlog", "receiving"}
  /\ s \notin hello \cup gone
  /\ hello' = hello \cup {s}
  /\ UNCHANGED <<daemon, recvVars, poolVars, stream, gone, commands, fds>>

\* A sending daemon ends, and every connection it made with it; a sender thread
\* alone leaves its socket open.
PeerEnds(made) ==
  /\ \A s \in made : stream[s] \notin {"new", "closed"} /\ s \notin gone
  /\ gone' = gone \cup made
  /\ UNCHANGED <<daemon, recvVars, poolVars, stream, hello, commands, fds>>

-----------------------------------------------------------------------------
(* The main thread *)

\* It is in accept, not in recv.
InAccept == daemon = "up" /\ place = "loop" /\ \A s \in Streams : stream[s] # "receiving"

Becomes(s, outcome) == stream' = [stream EXCEPT ![s] = outcome]

\* The kernel gives connections out in order; here any order.
Accept(s) ==
  /\ InAccept
  /\ stream[s] = "backlog"
  /\ fds < MaxFds
  /\ Becomes(s, "receiving")
  /\ fds' = fds + 1
  /\ UNCHANGED <<daemon, recvVars, poolVars, peerVars, commands>>

\* Mutant: the search starts after the slots in use.
OpenSlotNext == num_conns + 1

\* The last free slot below num_conns, else slot 0.
OpenSlot ==
  LET free == {k \in Slots : k < num_conns /\ connections[k] = 0}
  IN  IF free = {} THEN 0 ELSE Max(free)

\* create_device, n times.  open("/dev/uinput") may fail without anybody noticing,
\* and does once no descriptor is left.
CreateDevices(n) ==
  \E m \in 0 .. n :
    /\ m <= MaxFds - fds
    /\ fds' = fds + m

\* Mutant: the limit is compared off by one.
StartListenerOneMore(s, n) ==
  /\ num_conns <= MAX_CONNECTIONS
  /\ slot' = [slot EXCEPT ![s] = OpenSlot]
  /\ CreateDevices(n)
  /\ listener' = [listener EXCEPT ![s] = "reading"]
  /\ num_conns' = num_conns + 1
  /\ Becomes(s, "streaming")
  /\ UNCHANGED connections

StartListener(s, n) ==
  /\ num_conns < MAX_CONNECTIONS
  /\ slot' = [slot EXCEPT ![s] = OpenSlot]
  /\ CreateDevices(n)
  /\ listener' = [listener EXCEPT ![s] = "reading"]
  /\ num_conns' = num_conns + 1
  /\ Becomes(s, "streaming")
  /\ UNCHANGED connections

\* The connection stays open, unread: the sender never learns.
RefuseStream(s) ==
  /\ num_conns >= MAX_CONNECTIONS
  /\ Becomes(s, "refused")
  /\ UNCHANGED <<poolVars, fds>>

\* The INPUT_STREAM case, with conn.num_devices = n.
TakeStream(s, n) == StartListener(s, n) \/ RefuseStream(s)

\* recv returns the NewConnection.
ReceiveStream(s) ==
  /\ daemon = "up"
  /\ stream[s] = "receiving"
  /\ s \in hello
  /\ conn' = "INPUT_STREAM"
  /\ TakeStream(s, NumDevices)
  /\ UNCHANGED <<daemon, args, place, handlerVars, peerVars, commands>>

\* Every connection a process had is closed and its threads are gone.
DaemonStops(how) ==
  /\ daemon' = how
  /\ listener' = [s \in Streams |-> IF listener[s] = "reading" THEN "ended" ELSE listener[s]]
  /\ stream' = [s \in Streams |-> IF stream[s] = "new" THEN "new" ELSE "closed"]
  /\ place' = "loop"
  /\ UNCHANGED <<conn, args, handlerVars, num_conns, connections, slot, peerVars, commands, fds>>

\* The peer is gone and recv has nothing to return.
Unannounced(s) ==
  /\ daemon = "up"
  /\ stream[s] = "receiving"
  /\ s \in gone \ hello

\* recv returns 0 and conn still is the last stream's: another listener.
ServeStale(s) ==
  /\ Unannounced(s)
  /\ conn = "INPUT_STREAM"
  /\ TakeStream(s, NumDevices)
  /\ UNCHANGED <<daemon, recvVars, peerVars, commands>>

\* recv of args returns 0 too: the handler of the command in args runs, again.
\* One that is blank is any command, or no index of server->commands.
RunStale ==
  /\ IF args = "blank" THEN args' \in CtlCommands ELSE UNCHANGED args
  /\ place' = "handler"
  /\ UNCHANGED <<daemon, conn, handlerVars, poolVars, peerVars, commands, fds>>

StaleStops == args = "blank" /\ DaemonStops("failed")

\* conn still is a command's.
ReplayCommand(s) ==
  /\ Unannounced(s)
  /\ conn = "COMMAND"
  /\ \/ RunStale /\ Becomes(s, "ignored")
     \/ StaleStops

\* It never was anything: a stream of some devices, an invalid request, or a
\* command that never was anything.
ServeBlank(s) ==
  /\ Unannounced(s)
  /\ conn = "blank"
  /\ \/ /\ \E n \in 0 .. NumDevices : TakeStream(s, n)
        /\ UNCHANGED <<daemon, recvVars, peerVars, commands>>
     \/ /\ Becomes(s, "ignored")
        /\ UNCHANGED <<daemon, recvVars, poolVars, peerVars, commands, fds>>
     \/ RunStale /\ Becomes(s, "ignored")
     \/ StaleStops

\* ioswitchctl connects and sends the first of two messages.  This connection is
\* not closed by the daemon either.
AcceptCommand ==
  /\ InAccept
  /\ fds < MaxFds
  /\ conn' = "COMMAND"
  /\ place' = "args"
  /\ commands' = commands + 1
  /\ fds' = fds + 1
  /\ UNCHANGED <<daemon, args, handlerVars, poolVars, stream, peerVars>>

\* It sends the second, the command, and its handler is called.
ReceiveCommand(c) ==
  /\ daemon = "up"
  /\ place = "args"
  /\ args' = c
  /\ place' = "handler"
  /\ UNCHANGED <<daemon, conn, handlerVars, poolVars, stream, peerVars, commands, fds>>

\* It ends between the two, by a failing send or by its user.
MissingCommand ==
  /\ daemon = "up"
  /\ place = "args"
  /\ \/ RunStale /\ UNCHANGED stream
     \/ StaleStops

\* none and list do not look at the senders.
TakesMutex(c) == c \notin {"NONE", "LIST"}

\* The handler waits for a mutex that nobody will unlock.
Stuck == place = "handler" /\ leaked /\ TakesMutex(args)

\* kill: running = 0, unless stop inside it waits for ever.
Kill ==
  /\ daemon = "up"
  /\ place = "handler"
  /\ ~Stuck
  /\ args = "KILL"
  /\ DaemonStops("killed")

\* start, if it is already sending, returns with the mutex locked.
HandlerReturns ==
  /\ daemon = "up"
  /\ place = "handler"
  /\ ~Stuck
  /\ args # "KILL"
  /\ flag' = CASE args \in {"START", "RELOAD"} -> TRUE
               [] args = "STOP" -> FALSE
               [] args = "SWITCH" -> ~flag
               [] OTHER -> flag
  /\ leaked' = (leaked \/ (args = "START" /\ flag))
  /\ place' = "loop"
  /\ UNCHANGED <<daemon, conn, args, poolVars, stream, peerVars, commands, fds>>

\* Mutant: the loop goes on after a failed accept.
AcceptFailsRetries ==
  /\ InAccept
  /\ fds = MaxFds
  /\ UNCHANGED vars

\* accept returns EMFILE, and run_server returns -1.
AcceptFails ==
  /\ InAccept
  /\ fds = MaxFds
  /\ DaemonStops("failed")

\* The connection was reset: the same end, for all the streams of the daemon.
RecvFails ==
  /\ (\E s \in Streams : Unannounced(s)) \/ (daemon = "up" /\ place = "args")
  /\ DaemonStops("failed")

\* start_server fails, as bind does while connections of the last process linger:
\* setsockopt sets SO_REUSEADDR and SO_REUSEPORT to server->opt, which is 0.
StartFails ==
  /\ daemon = "killed"
  /\ daemon' = "failed"
  /\ UNCHANGED <<recvVars, poolVars, stream, peerVars, commands, fds>>

\* Started again by its user: a new process.
Restart ==
  /\ daemon # "up"
  /\ daemon' = "up"
  /\ conn' = "blank"
  /\ args' = "blank"
  /\ place' = "loop"
  /\ flag' = FALSE
  /\ leaked' = FALSE
  /\ num_conns' = 0
  /\ connections' = [k \in Slots |-> 0]
  /\ slot' = [s \in Streams |-> -1]
  /\ listener' = [s \in Streams |-> "none"]
  /\ commands' = 0
  /\ fds' = 0
  /\ UNCHANGED <<stream, peerVars>>

-----------------------------------------------------------------------------
(* A listener thread *)

\* Mutant: a listener ends only if its slot is marked as used.
ListenerEndsMarked(s) ==
  /\ listener[s] = "reading"
  /\ s \in gone
  /\ connections[slot[s]] # 0
  /\ connections' = [connections EXCEPT ![slot[s]] = 0]
  /\ listener' = [listener EXCEPT ![s] = "ended"]
  /\ UNCHANGED <<daemon, recvVars, num_conns, slot, stream, peerVars, commands, fds>>

\* Mutant: a listener takes a pause of its sender for the end.
ListenerEndsAtPause(s) ==
  /\ listener[s] = "reading"
  /\ connections' = [connections EXCEPT ![slot[s]] = 0]
  /\ listener' = [listener EXCEPT ![s] = "ended"]
  /\ UNCHANGED <<daemon, recvVars, num_conns, slot, stream, peerVars, commands, fds>>

\* read returned 0 or less: mark the slot free and exit.  The devices stay.
ListenerEnds(s) ==
  /\ listener[s] = "reading"
  /\ s \in gone
  /\ connections' = [connections EXCEPT ![slot[s]] = 0]
  /\ listener' = [listener EXCEPT ![s] = "ended"]
  /\ UNCHANGED <<daemon, recvVars, num_conns, slot, stream, peerVars, commands, fds>>

\* What the main thread does with the connections it finds and the commands it got.
Serves ==
  \/ \E s \in Streams : Accept(s) \/ ReceiveStream(s)
  \/ \E s \in Streams : ServeStale(s) \/ ReplayCommand(s) \/ ServeBlank(s)
  \/ AcceptFails
  \/ HandlerReturns \/ Kill

Next ==
  \/ \E s \in Streams : Connect(s) \/ SendHello(s)
  \/ \E made \in SUBSET Streams : PeerEnds(made)
  \/ Serves
  \/ AcceptCommand \/ MissingCommand
  \/ \E c \in CtlCommands : ReceiveCommand(c)
  \/ RecvFails
  \/ StartFails \/ Restart
  \/ \E s \in Streams : ListenerEnds(s)

Spec == Init /\ [][Next]_vars

\* The main thread runs unless it waits in accept or recv or for a leaked mutex (a
\* handler gets back from any other: CommandReturns in SenderControl), and a
\* listener whose read returned runs.  No fairness for the peers, clients, faults
\* and the user.
Fairness ==
  /\ WF_vars(Serves)
  /\ \A s \in Streams : WF_vars(ListenerEnds(s))

FairSpec == Spec /\ Fairness

-----------------------------------------------------------------------------

Started == {s \in Streams : listener[s] # "none"}

\* num_conns counts the listeners ever started, those for peers that never
\* announced themselves too and not those that are running, and each of them
\* got a slot of the array, below the count.
ConnsCountStarts ==
  /\ num_conns = Cardinality(Started)
  /\ \A s \in Started : slot[s] \in 0 .. num_conns - 1

\* When the peer is gone its listener ends, also one that was started for a
\* connection of which nothing was ever received.
GoneStreamsEnd ==
  \A s \in Streams : s \in gone ~> listener[s] # "reading"

\* The main thread waits in recv for the second message of an ioswitchctl, for a
\* peer that is alive and silent, or in a handler for a leaked mutex.
HeldUp ==
  \/ place = "args"
  \/ \E s \in Streams : stream[s] = "receiving" /\ s \notin hello \cup gone
  \/ Stuck

\* No connection is left in the backlog, unless one silent peer or a leaked mutex
\* holds up the main thread for ever.
WaitingIsAnswered ==
  []<>~HeldUp => \A s \in Streams : stream[s] = "backlog" ~> stream[s] # "backlog"

-----------------------------------------------------------------------------
(* The abstract service this module implements *)

\* What a sender could know of its stream, from its connection and listener.
SeenAs(connection, thread) ==
  IF connection \in {"backlog", "receiving"} THEN "offered"
  ELSE IF connection = "streaming" /\ thread = "reading" THEN "served"
  ELSE IF connection \in {"streaming", "closed"} THEN "over"
  ELSE connection

Seen == [s \in Streams |-> SeenAs(stream[s], listener[s])]

Service == INSTANCE StreamService WITH
  Limit <- MAX_CONNECTIONS,
  up <- daemon = "up",
  taken <- num_conns,
  state <- Seen

\* With left-over headers, replayed commands, silent peers, failing devices and
\* no free descriptor, the pool does to a stream only what the service allows:
\* it is served to the end of its sender, refused after MAX_CONNECTIONS others,
\* never ignored while its sender is there.
PoolService == Service!Spec
=============================================================================
