------------------------ MODULE SenderControlProofs ------------------------
(***************************************************************************)
(* Theorems about SenderControl for every set of sender ids, of X clients, *)
(* of commands, of device counts and of faults.                            *)
(***************************************************************************)
EXTENDS SenderControl, TLAPS

-----------------------------------------------------------------------------
(* Type correctness *)

LEMMA TypeInit == Init => TypeOK
  BY ControlAssumption DEF Init, TypeOK, MainLabels, CommandTypes, SenderLabels, LockerLabels

LEMMA TypeStep == TypeOK /\ [Next]_vars => TypeOK'
<1> SUFFICES ASSUME TypeOK, [Next]_vars
             PROVE  TypeOK'
  OBVIOUS
<1> USE ControlAssumption DEF TypeOK, MainLabels, Handling, SenderLabels, Loop,
        LockerLabels, counts, mainVars
<1>1. ASSUME NEW c \in Commands, NEW r \in ReloadFlags, Receive(c, r)
      PROVE  TypeOK'
  BY <1>1 DEF Receive, Entry
<1>2. CASE MainStep
  <2>1. CASE TestFlag
    BY <2>1 DEF TestFlag
  <2>2. CASE SwapConfig
    BY <2>2 DEF SwapConfig
  <2>3. CASE StopSending
    BY <2>3 DEF StopSending, AfterStop
  <2>4. CASE StartSending
    BY <2>4 DEF StartSending
  <2>5. CASE AlreadySending
    BY <2>5 DEF AlreadySending
  <2>6. ASSUME NEW s \in Senders, SpawnSender(s)
        PROVE  TypeOK'
    BY <2>6 DEF SpawnSender
  <2>7. CASE DestroyServer
    BY <2>7 DEF DestroyServer
  <2>8. CASE MainReturns
    BY <2>8 DEF MainReturns, ProcessEnds
  <2> QED
    BY <1>2, <2>1, <2>2, <2>3, <2>4, <2>5, <2>6, <2>7, <2>8 DEF MainStep
<1>3. ASSUME NEW s \in Senders, SenderStep(s)
      PROVE  TypeOK'
  <2> USE DEF GoTo, Exit
  <2>1. CASE BeginConnect(s) \/ Connected(s) \/ SendHello(s) \/ Relay(s) \/ Drain(s)
    BY <2>1 DEF BeginConnect, Connected, SendHello, Relay, Drain
  <2>2. CASE FillAnnouncement(s)
    BY <2>2 DEF FillAnnouncement
  <2>3. CASE OpenDevices(s)
    BY <2>3 DEF OpenDevices
  <2>4. CASE CountDevices(s)
    BY <2>4 DEF CountDevices
  <2>5. CASE CheckFlag(s)
    BY <2>5 DEF CheckFlag
  <2>6. CASE NoSocket(s) \/ ConnectFails(s) \/ OpenFails(s) \/ HelloFails(s)
    BY <2>6 DEF NoSocket, ConnectFails, OpenFails, HelloFails
  <2>7. CASE RelayFails(s) \/ RelayBlocks(s)
    BY <2>7 DEF RelayFails, RelayBlocks
  <2>8. CASE Sigpipe(s)
    BY <2>8 DEF Sigpipe, ProcessEnds
  <2> QED
    BY <1>3, <2>1, <2>2, <2>3, <2>4, <2>5, <2>6, <2>7, <2>8 DEF SenderStep, SenderRuns
<1>4. ASSUME NEW s \in Senders, LockerStep(s) \/ Unlock(s)
      PROVE  TypeOK'
  BY <1>4 DEF LockerStep, GrabKeyboard, LockFails, Unlock, ProcessEnds
<1>5. ASSUME NEW x \in XClients, OtherGrabs(x)
      PROVE  TypeOK'
  BY <1>5 DEF OtherGrabs
<1>6. CASE OtherReleases \/ ReceiveFails
  BY <1>6 DEF OtherReleases, ReceiveFails
<1>7. CASE UNCHANGED vars
  BY <1>7 DEF vars
<1> QED
  BY <1>1, <1>2, <1>3, <1>4, <1>5, <1>6, <1>7 DEF Next, Internal

\* Every behaviour of the daemon keeps every variable in its type.
THEOREM TypeCorrect == Spec => []TypeOK
  BY TypeInit, TypeStep, PTL DEF Spec

-----------------------------------------------------------------------------
(* The main thread and the mutex *)

\* A handler's step is reached only by the commands whose handler contains it.
RightHandler ==
  /\ pc = "test" => cmd = "SWITCH"
  /\ pc = "swap" => cmd = "RELOAD"
  /\ pc = "stop" => cmd \in {"STOP", "SWITCH", "RELOAD", "KILL"}
  /\ pc = "start" => cmd \in {"START", "SWITCH", "RELOAD"}
  /\ pc \in {"destroy", "freed"} => cmd = "KILL" \/ "recv" \in Faults

\* The inductive invariant about the mutex and the flag: the flag is stable
\* between the handlers' critical sections because only the main thread, which
\* is then somewhere else, writes it.
MutexInv == TypeOK /\ RightHandler /\ MutexOwnerInside /\ FlagStillAsRead /\ LeakFreezesFlag

LEMMA MutexInit == Init => MutexInv
  BY TypeInit, ControlAssumption
  DEF Init, MutexInv, RightHandler, MutexOwnerInside, FlagStillAsRead, LeakFreezesFlag

\* What a sender's step leaves alone, unless it ends the process.
LEMMA SenderFrame ==
  ASSUME NEW s \in Senders, SenderStep(s)
  PROVE  ProcessEnds \/ UNCHANGED <<pc, cmd, reload_config, sending, num_devices, keyboard>>
  BY DEF SenderStep, SenderRuns, BeginConnect, Connected, FillAnnouncement, OpenDevices,
         SendHello, CountDevices, Relay, CheckFlag, Drain, NoSocket, ConnectFails, OpenFails,
         HelloFails, RelayFails, RelayBlocks, Sigpipe, mainVars

\* What any step outside the main thread leaves alone.
LEMMA OthersFrame ==
  ASSUME NEW s \in Senders, LockerStep(s) \/ Unlock(s)
  PROVE  ProcessEnds \/ UNCHANGED <<mainVars, sender_mutex, sending, num_devices, sender, counts>>
  BY DEF LockerStep, GrabKeyboard, LockFails, Unlock

\* Process exit resets everything the invariant constrains.
LEMMA MutexExit == MutexInv /\ ProcessEnds => RightHandler' /\ MutexOwnerInside' /\ FlagStillAsRead' /\ LeakFreezesFlag'
  BY ControlAssumption
  DEF MutexInv, ProcessEnds, RightHandler, MutexOwnerInside, FlagStillAsRead, LeakFreezesFlag

\* A sender takes the mutex on entering connect and gives it up on leaving.
LEMMA SenderKeepsMutex ==
  ASSUME MutexInv, NEW s \in Senders, SenderStep(s), ~ProcessEnds
  PROVE  MutexOwnerInside' /\ LeakFreezesFlag'
<1> USE ControlAssumption DEF MutexInv, TypeOK, MutexOwnerInside, LeakFreezesFlag, GoTo, Exit, mainVars
<1>1. CASE BeginConnect(s)
  BY <1>1 DEF BeginConnect
<1>2. CASE Connected(s) \/ ConnectFails(s)
  BY <1>2 DEF Connected, ConnectFails
<1>3. CASE NoSocket(s) \/ FillAnnouncement(s) \/ OpenDevices(s) \/ OpenFails(s)
  BY <1>3 DEF NoSocket, FillAnnouncement, OpenDevices, OpenFails
<1>4. CASE SendHello(s) \/ HelloFails(s) \/ CountDevices(s) \/ CheckFlag(s)
  BY <1>4 DEF SendHello, HelloFails, CountDevices, CheckFlag
<1>5. CASE Relay(s) \/ RelayFails(s) \/ RelayBlocks(s) \/ Drain(s)
  BY <1>5 DEF Relay, RelayFails, RelayBlocks, Drain
<1> QED
  BY <1>1, <1>2, <1>3, <1>4, <1>5 DEF SenderStep, SenderRuns, Sigpipe

LEMMA MutexStep == MutexInv /\ [Next]_vars => MutexInv'
<1> SUFFICES ASSUME MutexInv, [Next]_vars
             PROVE  RightHandler' /\ MutexOwnerInside' /\ FlagStillAsRead' /\ LeakFreezesFlag'
  BY TypeStep DEF MutexInv
<1> USE ControlAssumption
        DEF RightHandler, MutexOwnerInside, FlagStillAsRead, LeakFreezesFlag
<1>1. ASSUME NEW c \in Commands, NEW r \in ReloadFlags, Receive(c, r)
      PROVE  RightHandler' /\ MutexOwnerInside' /\ FlagStillAsRead' /\ LeakFreezesFlag'
  BY <1>1 DEF MutexInv, Receive, Entry, CommandTypes
<1>2. CASE MainStep
  <2> USE DEF MutexInv
  <2>1. CASE TestFlag
    BY <2>1 DEF TestFlag
  <2>2. CASE SwapConfig
    BY <2>2 DEF SwapConfig
  <2>3. CASE StopSending
    BY <2>3 DEF StopSending, AfterStop
  <2>4. CASE StartSending \/ AlreadySending
    BY <2>4 DEF StartSending, AlreadySending
  <2>5. ASSUME NEW s \in Senders, SpawnSender(s)
        PROVE  RightHandler' /\ MutexOwnerInside' /\ FlagStillAsRead' /\ LeakFreezesFlag'
    BY <2>5 DEF SpawnSender, Free, TypeOK
  <2>6. CASE DestroyServer
    BY <2>6 DEF DestroyServer
  <2>7. CASE MainReturns
    BY <2>7, MutexExit DEF MainReturns
  <2> QED
    BY <1>2, <2>1, <2>2, <2>3, <2>4, <2>5, <2>6, <2>7 DEF MainStep
<1>3. CASE ProcessEnds
  BY <1>3, MutexExit
<1>4. ASSUME NEW s \in Senders, SenderStep(s)
      PROVE  RightHandler' /\ MutexOwnerInside' /\ FlagStillAsRead' /\ LeakFreezesFlag'
  BY <1>3, <1>4, SenderFrame, SenderKeepsMutex DEF MutexInv
<1>5. ASSUME NEW s \in Senders, LockerStep(s) \/ Unlock(s)
      PROVE  RightHandler' /\ MutexOwnerInside' /\ FlagStillAsRead' /\ LeakFreezesFlag'
  BY <1>3, <1>5, OthersFrame DEF MutexInv, mainVars
<1>6. CASE (\E x \in XClients : OtherGrabs(x)) \/ OtherReleases \/ UNCHANGED vars
  BY <1>6 DEF MutexInv, OtherGrabs, OtherReleases, vars, mainVars
<1>7. CASE ReceiveFails
  BY <1>7 DEF MutexInv, ReceiveFails
<1> QED
  BY <1>1, <1>2, <1>4, <1>5, <1>6, <1>7 DEF Next, Internal

LEMMA MutexInvariant == Spec => []MutexInv
  BY MutexInit, MutexStep, PTL DEF Spec

\* A sender holds the mutex exactly while it is inside connect: no error path
\* of spawn_sender_thread leaves with it.
THEOREM MutexReleased == Spec => []MutexOwnerInside
<1>1. MutexInv => MutexOwnerInside
  BY DEF MutexInv
<1> QED
  BY <1>1, MutexInvariant, PTL

\* The value switch_state reads, and the value reload sets, is still the flag's
\* value when they act on it after releasing the mutex.
THEOREM FlagIsStable == Spec => []FlagStillAsRead
<1>1. MutexInv => FlagStillAsRead
  BY DEF MutexInv
<1> QED
  BY <1>1, MutexInvariant, PTL

\* While the mutex is leaked the flag is set, so nothing can clear it.
THEOREM LeakIsStuck == Spec => []LeakFreezesFlag
<1>1. MutexInv => LeakFreezesFlag
  BY DEF MutexInv
<1> QED
  BY <1>1, MutexInvariant, PTL

\* Only start's early return leaks the mutex, and only for a START command.
THEOREM StartAloneLeaks == Spec => OnlyStartLeaks
<1> DEFINE Leak == sender_mutex' = MainThread => cmd = "START" \/ sender_mutex = MainThread
<1>1. MutexInv /\ [Next]_vars => [Leak]_vars
  <2> SUFFICES ASSUME MutexInv, Next, sender_mutex' = MainThread, sender_mutex # MainThread
               PROVE  cmd = "START"
    OBVIOUS
  <2> USE ControlAssumption
  <2>1. ~ProcessEnds
    BY DEF ProcessEnds
  <2>2. CASE MainStep
    BY <2>1, <2>2 DEF MainStep, TestFlag, SwapConfig, StopSending, StartSending, AlreadySending,
       SpawnSender, DestroyServer, MainReturns, MutexInv, RightHandler, FlagStillAsRead
  <2>3. ASSUME NEW s \in Senders, SenderStep(s)
        PROVE  cmd = "START"
    BY <2>1, <2>3 DEF SenderStep, SenderRuns, BeginConnect, Connected, FillAnnouncement,
       OpenDevices, SendHello, CountDevices, Relay, CheckFlag, Drain, NoSocket, ConnectFails,
       OpenFails, HelloFails, RelayFails, RelayBlocks, Sigpipe
  <2>4. ASSUME NEW s \in Senders, LockerStep(s) \/ Unlock(s)
        PROVE  cmd = "START"
    BY <2>1, <2>4, OthersFrame
  <2> QED
    BY <2>2, <2>3, <2>4 DEF Next, Internal, Receive, ReceiveFails, OtherGrabs, OtherReleases
<1> QED
  BY <1>1, MutexInvariant, PTL DEF Spec, OnlyStartLeaks

-----------------------------------------------------------------------------
(* The screen lock *)

LockInv == TypeOK /\ LockedAfterHello

LEMMA LockInit == Init => LockInv
  BY TypeInit, ControlAssumption DEF Init, LockInv, LockedAfterHello

LEMMA LockExit == TypeOK /\ ProcessEnds => LockedAfterHello'
  BY ControlAssumption DEF TypeOK, ProcessEnds, LockedAfterHello

LEMMA LockStep == LockInv /\ [Next]_vars => LockInv'
<1> SUFFICES ASSUME LockInv, [Next]_vars
             PROVE  LockedAfterHello'
  BY TypeStep DEF LockInv
<1> USE ControlAssumption DEF LockInv, LockedAfterHello
<1>1. ASSUME NEW c \in Commands, NEW r \in ReloadFlags, Receive(c, r)
      PROVE  LockedAfterHello'
  BY <1>1 DEF Receive
<1>2. CASE ProcessEnds
  BY <1>2, LockExit
<1>3. ASSUME NEW s \in Senders, SpawnSender(s)
      PROVE  LockedAfterHello'
  BY <1>3 DEF SpawnSender, Free, TypeOK
<1>4. CASE MainStep
  BY <1>2, <1>3, <1>4 DEF MainStep, TestFlag, SwapConfig, StopSending, StartSending,
     AlreadySending, DestroyServer, MainReturns
<1>5. ASSUME NEW s \in Senders, SenderStep(s)
      PROVE  LockedAfterHello'
  <2> USE DEF TypeOK, Loop, GoTo, Exit
  <2>1. CASE SendHello(s)
    BY <2>1 DEF SendHello
  <2>2. CASE BeginConnect(s) \/ Connected(s) \/ FillAnnouncement(s) \/ OpenDevices(s)
    BY <2>2 DEF BeginConnect, Connected, FillAnnouncement, OpenDevices
  <2>3. CASE NoSocket(s) \/ ConnectFails(s) \/ OpenFails(s) \/ HelloFails(s)
    BY <2>3 DEF NoSocket, ConnectFails, OpenFails, HelloFails
  <2>4. CASE CountDevices(s) \/ CheckFlag(s)
    BY <2>4 DEF CountDevices, CheckFlag
  <2>5. CASE Relay(s) \/ RelayFails(s) \/ RelayBlocks(s) \/ Drain(s)
    BY <2>5 DEF Relay, RelayFails, RelayBlocks, Drain
  <2> QED
    BY <1>2, <1>5, <2>1, <2>2, <2>3, <2>4, <2>5 DEF SenderStep, SenderRuns, Sigpipe
<1>6. ASSUME NEW s \in Senders, LockerStep(s) \/ Unlock(s)
      PROVE  LockedAfterHello'
  BY <1>2, <1>6 DEF LockerStep, GrabKeyboard, LockFails, Unlock, TypeOK
<1>7. CASE (\E x \in XClients : OtherGrabs(x)) \/ OtherReleases
  BY <1>7 DEF OtherGrabs, OtherReleases, TypeOK
<1>8. CASE ReceiveFails \/ UNCHANGED vars
  BY <1>8 DEF ReceiveFails, vars
<1> QED
  BY <1>1, <1>4, <1>5, <1>6, <1>7, <1>8 DEF Next, Internal

\* The screen is never locked before the destination was told of the stream,
\* and a lock thread that has the keyboard is the only one that has it.
THEOREM LockFollowsHello == Spec => []LockedAfterHello
<1>1. LockInv => LockedAfterHello
  BY DEF LockInv
<1> QED
  BY <1>1, LockInit, LockStep, PTL DEF Spec

-----------------------------------------------------------------------------
(* The device counts *)

\* What a sender read of config->num_devices is still what the Config says.
CountsCurrent ==
  \A s \in Senders :
    /\ sender[s] \in {"open", "hello"} \cup Loop => announced[s] = num_devices
    /\ sender[s] \in {"hello"} \cup Loop => opened[s] = num_devices
    /\ sender[s] \in {"relay", "blocked"} => polled[s] = num_devices

LEMMA CountsAgree == CountsCurrent => PollsWhatItOpened
  BY DEF CountsCurrent, PollsWhatItOpened, Loop

\* Only a swap of the Config can make a sender's counts stale.
LEMMA CountsStep ==
  TypeOK /\ CountsCurrent /\ [Next]_vars /\ ~(SwapConfig /\ reload_config) => CountsCurrent'
<1> SUFFICES ASSUME TypeOK, CountsCurrent, [Next]_vars, ~(SwapConfig /\ reload_config)
             PROVE  CountsCurrent'
  OBVIOUS
<1> USE DEF TypeOK, CountsCurrent, Loop, counts
<1>1. ASSUME NEW c \in Commands, NEW r \in ReloadFlags, Receive(c, r)
      PROVE  CountsCurrent'
  BY <1>1 DEF Receive
<1>2. CASE ProcessEnds
  BY <1>2 DEF ProcessEnds
<1>3. ASSUME NEW s \in Senders, SpawnSender(s)
      PROVE  CountsCurrent'
  BY <1>3 DEF SpawnSender
<1>4. CASE MainStep
  BY <1>2, <1>3, <1>4 DEF MainStep, TestFlag, SwapConfig, StopSending, StartSending,
     AlreadySending, DestroyServer, MainReturns
<1>5. ASSUME NEW s \in Senders, SenderStep(s)
      PROVE  CountsCurrent'
  <2> USE DEF GoTo, Exit
  <2>1. CASE BeginConnect(s) \/ Connected(s) \/ SendHello(s) \/ Relay(s) \/ Drain(s)
    BY <2>1 DEF BeginConnect, Connected, SendHello, Relay, Drain
  <2>2. CASE FillAnnouncement(s)
    BY <2>2 DEF FillAnnouncement
  <2>3. CASE OpenDevices(s)
    BY <2>3 DEF OpenDevices
  <2>4. CASE CountDevices(s)
    BY <2>4 DEF CountDevices
  <2>5. CASE CheckFlag(s)
    BY <2>5 DEF CheckFlag
  <2>6. CASE NoSocket(s) \/ ConnectFails(s) \/ OpenFails(s) \/ HelloFails(s)
    BY <2>6 DEF NoSocket, ConnectFails, OpenFails, HelloFails
  <2>7. CASE RelayFails(s) \/ RelayBlocks(s)
    BY <2>7 DEF RelayFails, RelayBlocks
  <2> QED
    BY <1>2, <1>5, <2>1, <2>2, <2>3, <2>4, <2>5, <2>6, <2>7 DEF SenderStep, SenderRuns, Sigpipe
<1>6. ASSUME NEW s \in Senders, LockerStep(s) \/ Unlock(s)
      PROVE  CountsCurrent'
  BY <1>2, <1>6, OthersFrame
<1>7. CASE (\E x \in XClients : OtherGrabs(x)) \/ OtherReleases \/ ReceiveFails \/ UNCHANGED vars
  BY <1>7 DEF OtherGrabs, OtherReleases, ReceiveFails, vars
<1> QED
  BY <1>1, <1>4, <1>5, <1>6, <1>7 DEF Next, Internal

\* As long as no client asks for a config reload, every sender polls exactly
\* the descriptors it opened, as many as it announced.
THEOREM PollsOpenedIfNoReload ==
  ASSUME ReloadFlags \subseteq {FALSE}
  PROVE  Spec => []PollsWhatItOpened
<1> DEFINE CountInv == TypeOK /\ ~reload_config /\ CountsCurrent
<1>1. Init => CountInv
  BY TypeInit DEF Init, CountsCurrent, Loop
<1>2. CountInv /\ [Next]_vars => CountInv'
  <2> SUFFICES ASSUME CountInv, [Next]_vars
               PROVE  ~reload_config'
    BY TypeStep, CountsStep
  <2>1. ASSUME NEW c \in Commands, NEW r \in ReloadFlags, Receive(c, r)
        PROVE  ~reload_config'
    BY <2>1 DEF Receive
  <2>2. CASE ProcessEnds
    BY <2>2 DEF ProcessEnds
  <2>3. ASSUME NEW s \in Senders, SenderStep(s) \/ LockerStep(s) \/ Unlock(s)
        PROVE  ~reload_config'
    BY <2>2, <2>3, SenderFrame, OthersFrame DEF mainVars
  <2>4. CASE MainStep
    BY <2>2, <2>4 DEF MainStep, TestFlag, SwapConfig, StopSending, StartSending,
       AlreadySending, SpawnSender, DestroyServer, MainReturns
  <2> QED
    BY <2>1, <2>3, <2>4 DEF Next, Internal, OtherGrabs, OtherReleases, ReceiveFails, vars, mainVars
<1>3. CountInv => PollsWhatItOpened
  BY CountsAgree
<1> QED
  BY <1>1, <1>2, <1>3, PTL DEF Spec

-----------------------------------------------------------------------------
(* The daemon implements the command service *)

\* The initial state serves no request.
LEMMA ServiceInit == Init => Service!Init
  BY DEF Init, Service!Init, Request, Handling

\* Every step performs the request, submits one, crashes or stutters.
LEMMA ServiceStep == MutexInv /\ [Next]_vars => [Service!Next]_(Service!vars)
<1> SUFFICES ASSUME MutexInv, [Next]_vars
             PROVE  Service!Next \/ UNCHANGED Service!vars
  OBVIOUS
<1> USE DEF Request, Handling, Service!vars
<1>1. ASSUME NEW c \in Commands, NEW r \in ReloadFlags, Receive(c, r)
      PROVE  Service!Next \/ UNCHANGED Service!vars
  <2>1. c \in CommandTypes
    BY ControlAssumption
  <2>2. CASE c \in {"START", "STOP", "SWITCH", "RELOAD", "KILL"}
    <3>1. Service!Submit(c)
      BY <1>1, <2>2 DEF Receive, Entry, Service!Submit
    <3> QED
      BY <3>1 DEF Service!Next
  <2>3. CASE c \in {"NONE", "LIST"}
    BY <1>1, <2>3 DEF Receive, Entry
  <2> QED
    BY <2>1, <2>2, <2>3 DEF CommandTypes
<1>2. CASE ProcessEnds
  <2>1. Service!Crash
    BY <1>2 DEF ProcessEnds, Service!Crash
  <2> QED
    BY <2>1 DEF Service!Next
<1>3. CASE MainStep
  <2> USE DEF MutexInv, RightHandler, FlagStillAsRead, TypeOK, Service!Next, Service!Perform
  <2>1. CASE TestFlag
    BY <2>1 DEF TestFlag
  <2>2. CASE SwapConfig
    BY <2>2 DEF SwapConfig
  <2>3. CASE StopSending
    <3>1. CASE cmd = "STOP"
      BY <2>3, <3>1 DEF StopSending, AfterStop, Service!Stop
    <3>2. CASE cmd = "SWITCH"
      BY <2>3, <3>2 DEF StopSending, AfterStop, Service!Switch
    <3>3. CASE cmd = "RELOAD"
      BY <2>3, <3>3 DEF StopSending, AfterStop, Service!Reload
    <3>4. CASE cmd = "KILL"
      BY <2>3, <3>4 DEF StopSending, AfterStop, Service!Kill
    <3> QED
      BY <2>3, <3>1, <3>2, <3>3, <3>4 DEF StopSending
  <2>4. CASE StartSending
    <3>1. CASE cmd \in {"START", "RELOAD"}
      BY <2>4, <3>1 DEF StartSending, Service!Start
    <3>2. CASE cmd = "SWITCH"
      BY <2>4, <3>2 DEF StartSending, Service!Switch
    <3> QED
      BY <2>4, <3>1, <3>2 DEF StartSending
  <2>5. CASE AlreadySending
    BY <2>5 DEF AlreadySending, Service!Start
  <2>6. ASSUME NEW s \in Senders, SpawnSender(s)
        PROVE  UNCHANGED Service!vars
    BY <2>6 DEF SpawnSender
  <2>7. CASE DestroyServer
    BY <2>7 DEF DestroyServer
  <2> QED
    BY <1>2, <1>3, <2>1, <2>2, <2>3, <2>4, <2>5, <2>6, <2>7 DEF MainStep, MainReturns
<1>4. ASSUME NEW s \in Senders, SenderStep(s) \/ LockerStep(s) \/ Unlock(s)
      PROVE  Service!Next \/ UNCHANGED Service!vars
  BY <1>2, <1>4, SenderFrame, OthersFrame DEF mainVars
<1>5. CASE ReceiveFails
  BY <1>5 DEF ReceiveFails, Service!Next, Service!Crash
<1>6. CASE (\E x \in XClients : OtherGrabs(x)) \/ OtherReleases \/ UNCHANGED vars
  BY <1>6 DEF OtherGrabs, OtherReleases, vars, mainVars
<1> QED
  BY <1>1, <1>3, <1>4, <1>5, <1>6 DEF Next, Internal

\* Serving a command changes the flag exactly as the command's name says,
\* whatever the sender threads, the lock threads and the faults do meanwhile.
THEOREM ImplementsService == Spec => ServiceSpec
  BY ServiceInit, ServiceStep, MutexInvariant, PTL DEF Spec, ServiceSpec, Service!Spec

-----------------------------------------------------------------------------
(* A patient user *)

\* While a start is on its way, and until its thread exists, all is quiet.
QuietWhenStarting ==
  /\ pc \in {"swap", "start", "spawn"} => Quiet
  /\ pc = "stop" /\ cmd = "RELOAD" => Quiet
  /\ pc = "test" => sending \/ Quiet

\* At most one sender has a live thread, be it its own or its lock thread.
OneActive == \A s, t \in Senders : ~Free(s) /\ ~Free(t) => s = t

PatientInv == MutexInv /\ LockInv /\ QuietWhenStarting /\ OneActive

LEMMA PatientInit == Init => PatientInv
  BY MutexInit, LockInit
  DEF Init, PatientInv, QuietWhenStarting, OneActive, Free, Quiet

LEMMA PatientIsNext == PatientNext => Next
  BY DEF PatientNext, Next

\* A thread that is not there takes no step, and a step adds no thread to
\* another sender id.
LEMMA StepIsLocal ==
  ASSUME TypeOK, LockedAfterHello, NEW s \in Senders, SenderStep(s) \/ LockerStep(s) \/ Unlock(s)
  PROVE  /\ ~Free(s)
         /\ \A t \in Senders \ {s} : Free(t) => Free(t)'
<1> USE DEF TypeOK, Free, GoTo, Exit, ProcessEnds, Loop, LockedAfterHello
<1>1. CASE LockerStep(s) \/ Unlock(s)
  BY <1>1 DEF LockerStep, GrabKeyboard, LockFails, Unlock
<1>2. CASE SenderRuns(s)
  BY <1>2 DEF SenderRuns, BeginConnect, Connected, FillAnnouncement, OpenDevices, SendHello,
     CountDevices, Relay, CheckFlag
<1>3. CASE SenderStep(s) /\ ~SenderRuns(s)
  BY <1>3 DEF SenderStep, Drain, NoSocket, ConnectFails, OpenFails, HelloFails, RelayFails,
     RelayBlocks, Sigpipe
<1> QED
  BY <1>1, <1>2, <1>3

LEMMA PatientStep == PatientInv /\ [PatientNext]_vars => PatientInv'
<1> SUFFICES ASSUME PatientInv, [PatientNext]_vars
             PROVE  QuietWhenStarting' /\ OneActive'
  BY PatientIsNext, MutexStep, LockStep DEF PatientInv
<1> USE DEF PatientInv, QuietWhenStarting, OneActive, Quiet
<1>1. ASSUME NEW c \in Commands, NEW r \in ReloadFlags, Patient(c), Receive(c, r)
      PROVE  QuietWhenStarting' /\ OneActive'
  BY <1>1, ControlAssumption DEF Patient, Receive, Entry, Free, CommandTypes
<1>2. CASE ProcessEnds
  BY <1>2 DEF ProcessEnds, Free
<1>3. ASSUME NEW s \in Senders, SpawnSender(s)
      PROVE  QuietWhenStarting' /\ OneActive'
  BY <1>3 DEF SpawnSender, Free, MutexInv, TypeOK
<1>4. CASE MainStep
  <2> USE DEF Free, MutexInv, RightHandler
  <2>1. CASE TestFlag
    BY <2>1 DEF TestFlag
  <2>2. CASE SwapConfig
    BY <2>2 DEF SwapConfig
  <2>3. CASE StopSending
    BY <2>3 DEF StopSending, AfterStop
  <2>4. CASE StartSending \/ AlreadySending \/ DestroyServer
    BY <2>4 DEF StartSending, AlreadySending, DestroyServer
  <2> QED
    BY <1>2, <1>3, <1>4, <2>1, <2>2, <2>3, <2>4 DEF MainStep, MainReturns
<1>5. ASSUME NEW s \in Senders, SenderStep(s) \/ LockerStep(s) \/ Unlock(s), ~ProcessEnds
      PROVE  QuietWhenStarting' /\ OneActive'
  <2>1. ~Free(s) /\ \A t \in Senders \ {s} : Free(t) => Free(t)'
    BY <1>5, StepIsLocal DEF LockInv
  <2>2. UNCHANGED <<pc, cmd, sending>>
    BY <1>5, SenderFrame, OthersFrame DEF mainVars
  <2>3. OneActive'
    BY <2>1
  <2> QED
    BY <2>1, <2>2, <2>3
<1>6. CASE ReceiveFails
  BY <1>6 DEF ReceiveFails, Free
<1>7. CASE (\E x \in XClients : OtherGrabs(x)) \/ OtherReleases \/ UNCHANGED vars
  BY <1>7 DEF OtherGrabs, OtherReleases, vars, mainVars, Free
<1> QED
  BY <1>1, <1>2, <1>4, <1>5, <1>6, <1>7 DEF PatientNext, Internal

LEMMA PatientInvariant == PatientSpec => []PatientInv
  BY PatientInit, PatientStep, PTL DEF PatientSpec

\* A patient user never has two senders relaying the same devices.
THEOREM OneSender == PatientSpec => []AtMostOneSender
<1>1. PatientInv => AtMostOneSender
  BY DEF PatientInv, OneActive, AtMostOneSender, Free
<1> QED
  BY <1>1, PatientInvariant, PTL
=============================================================================
