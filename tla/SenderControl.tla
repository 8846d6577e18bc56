--------------------------- MODULE SenderControl ---------------------------
(***************************************************************************)
(* The command and sending half of the ioswitch daemon: the main thread    *)
(* that serves START, STOP, SWITCH, RELOAD and KILL, the detached sender   *)
(* threads it creates, the screen-lock thread each sender creates, and     *)
(* what they share: sender_mutex, *sending, the Config and the X server's  *)
(* keyboard grab.                                                          *)
(*                                                                         *)
(* A section of code between pthread_mutex_lock and pthread_mutex_unlock   *)
(* that cannot block is one action, enabled when the mutex is free.  The   *)
(* one section that blocks, connect(), holds the mutex across two actions. *)
(***************************************************************************)
EXTENDS Naturals

CONSTANTS
  Senders,        \* sender thread ids; an id is reused once its threads ended
  MainThread,     \* the thread of run_server
  Nobody,         \* owner of a free mutex, holder of a free keyboard
  XClients,       \* other X clients that may grab the keyboard
  Commands,       \* the commands clients send
  ReloadFlags,    \* the values of args->reload_config clients send
  DeviceCounts,   \* the values config->num_devices may take
  Faults          \* the kinds of system-call failures that may happen

CommandTypes == {"NONE", "LIST", "START", "STOP", "SWITCH", "RELOAD", "KILL"}

FaultKinds == {"recv", "socket", "connect", "open", "send", "sigpipe", "stall", "display"}

ASSUME ControlAssumption ==
  /\ MainThread \notin Senders
  /\ Nobody \notin Senders \cup {MainThread} \cup XClients
  /\ XClients \cap Senders = {}
  /\ Commands \subseteq CommandTypes
  /\ ReloadFlags \subseteq BOOLEAN
  /\ DeviceCounts \subseteq Nat
  /\ DeviceCounts # {}
  /\ Faults \subseteq FaultKinds

VARIABLES
  pc,             \* where the main thread is
  cmd,            \* args->type of the last command received
  reload_config,  \* args->reload_config of that command
  sender_mutex,   \* the thread that holds it, or Nobody
  sending,        \* *server->sending
  num_devices,    \* server->config->num_devices
  sender,         \* where each sender thread is
  announced,      \* conn.num_devices, as each sender read it
  opened,         \* how many entries its device_fds has
  polled,         \* k, the number of entries it polls in this turn
  locker,         \* where each sender's lock thread is
  keyboard        \* who holds the X keyboard grab

mainVars == <<pc, cmd, reload_config>>
counts == <<announced, opened, polled>>
vars == <<mainVars, sender_mutex, sending, num_devices, sender, counts, locker, keyboard>>

Handling == {"test", "swap", "stop", "start"}
MainLabels == {"accept", "spawn", "destroy", "freed", "exited"} \cup Handling

\* From hello on, a sender has told its destination about itself.
Loop == {"count", "relay", "blocked", "check", "checkLast"}
SenderLabels == {"none", "connect", "connecting", "announce", "open", "hello"} \cup Loop

LockerLabels == {"none", "grabbing", "locked"}

Free(s) == sender[s] = "none" /\ locker[s] = "none"

TypeOK ==
  /\ pc \in MainLabels
  /\ cmd \in CommandTypes
  /\ reload_config \in BOOLEAN
  /\ sender_mutex \in Senders \cup {MainThread, Nobody}
  /\ sending \in BOOLEAN
  /\ num_devices \in DeviceCounts
  /\ sender \in [Senders -> SenderLabels]
  /\ announced \in [Senders -> DeviceCounts \cup {0}]
  /\ opened \in [Senders -> DeviceCounts \cup {0}]
  /\ polled \in [Senders -> DeviceCounts \cup {0}]
  /\ locker \in [Senders -> LockerLabels]
  /\ keyboard \in Senders \cup XClients \cup {Nobody}

\* create_server: the flag is 0, the mutex free, the config loaded.
Init ==
  /\ pc = "accept"
  /\ cmd = "NONE"
  /\ reload_config = FALSE
  /\ sender_mutex = Nobody
  /\ sending = FALSE
  /\ num_devices \in DeviceCounts
  /\ sender = [s \in Senders |-> "none"]
  /\ announced = [s \in Senders |-> 0]
  /\ opened = [s \in Senders |-> 0]
  /\ polled = [s \in Senders |-> 0]
  /\ locker = [s \in Senders |-> "none"]
  /\ keyboard = Nobody

-----------------------------------------------------------------------------
(* The main thread *)

\* The first step of a command's handler.
Entry(c) ==
  CASE c = "START"  -> "start"
    [] c = "STOP"   -> "stop"
    [] c = "SWITCH" -> "test"
    [] c = "RELOAD" -> "swap"
    [] c = "KILL"   -> "stop"
    [] OTHER        -> "accept"   \* none, list: return 0

\* Bound: a command that may start a sender arrives only while a thread id is
\* left for it.
HasRoom(c) == c \in {"START", "SWITCH", "RELOAD"} => \E s \in Senders : Free(s)

\* run_server: accept, recv the NewConnection and the CommandArgs, dispatch.
Receive(c, r) ==
  /\ pc = "accept"
  /\ HasRoom(c)
  /\ cmd' = c
  /\ reload_config' = r
  /\ pc' = Entry(c)
  /\ UNCHANGED <<sender_mutex, sending, num_devices, sender, counts, locker, keyboard>>

\* A failed accept or recv makes run_server return -1.
ReceiveFails ==
  /\ pc = "accept"
  /\ "recv" \in Faults
  /\ pc' = "destroy"
  /\ UNCHANGED <<cmd, reload_config, sender_mutex, sending, num_devices, sender, counts,
                 locker, keyboard>>

\* Mutant: switch_state with its branches swapped.
TestFlagSwapped ==
  /\ pc = "test"
  /\ sender_mutex = Nobody
  /\ pc' = IF sending THEN "start" ELSE "stop"
  /\ UNCHANGED <<cmd, reload_config, sender_mutex, sending, num_devices, sender, counts,
                 locker, keyboard>>

\* switch_state reads the flag, releases the mutex, then calls stop or start.
TestFlag ==
  /\ pc = "test"
  /\ sender_mutex = Nobody
  /\ pc' = IF sending THEN "stop" ELSE "start"
  /\ UNCHANGED <<cmd, reload_config, sender_mutex, sending, num_devices, sender, counts,
                 locker, keyboard>>

\* Mutant: reload does not stop before it starts.
SwapConfigThenStart ==
  /\ pc = "swap"
  /\ sender_mutex = Nobody
  /\ pc' = "start"
  /\ UNCHANGED <<cmd, reload_config, sender_mutex, sending, num_devices, sender, counts,
                 locker, keyboard>>

\* reload frees the Config and loads another; malloc hands back the chunk just
\* freed, so threads that kept the pointer see the new values.
SwapConfig ==
  /\ pc = "swap"
  /\ sender_mutex = Nobody
  /\ IF reload_config
     THEN num_devices' \in DeviceCounts
     ELSE UNCHANGED num_devices
  /\ pc' = "stop"
  /\ UNCHANGED <<cmd, reload_config, sender_mutex, sending, sender, counts, locker, keyboard>>

\* Mutant: kill returns 0, like the other handlers.
AfterStopKillIgnored == IF cmd = "RELOAD" THEN "start" ELSE "accept"

\* Where the handlers that call stop go on.
AfterStop ==
  CASE cmd = "RELOAD" -> "start"
    [] cmd = "KILL"   -> "destroy"
    [] OTHER          -> "accept"

\* Mutant: stop returns without unlocking.
StopKeepsMutex ==
  /\ pc = "stop"
  /\ sender_mutex = Nobody
  /\ sender_mutex' = MainThread
  /\ sending' = FALSE
  /\ pc' = AfterStop
  /\ UNCHANGED <<cmd, reload_config, num_devices, sender, counts, locker, keyboard>>

\* Mutant: every stop reloads the config, as architecture.txt plans.
StopReloads ==
  /\ pc = "stop"
  /\ sender_mutex = Nobody
  /\ sending' = FALSE
  /\ num_devices' \in DeviceCounts
  /\ pc' = AfterStop
  /\ UNCHANGED <<cmd, reload_config, sender_mutex, sender, counts, locker, keyboard>>

StopSending ==
  /\ pc = "stop"
  /\ sender_mutex = Nobody
  /\ sending' = FALSE
  /\ pc' = AfterStop
  /\ UNCHANGED <<cmd, reload_config, sender_mutex, num_devices, sender, counts, locker,
                 keyboard>>

StartSending ==
  /\ pc = "start"
  /\ sender_mutex = Nobody
  /\ ~sending
  /\ sending' = TRUE
  /\ pc' = "spawn"
  /\ UNCHANGED <<cmd, reload_config, sender_mutex, num_devices, sender, counts, locker,
                 keyboard>>

\* start returns from inside its critical section: the mutex stays locked.
AlreadySending ==
  /\ pc = "start"
  /\ sender_mutex = Nobody
  /\ sending
  /\ sender_mutex' = MainThread
  /\ pc' = "accept"
  /\ UNCHANGED <<cmd, reload_config, sending, num_devices, sender, counts, locker, keyboard>>

\* pthread_create, pthread_detach of a sender thread.
SpawnSender(s) ==
  /\ pc = "spawn"
  /\ Free(s)
  /\ sender' = [sender EXCEPT ![s] = "connect"]
  /\ pc' = "accept"
  /\ UNCHANGED <<cmd, reload_config, sender_mutex, sending, num_devices, counts, locker,
                 keyboard>>

\* destroy_server frees the mutex, the flag and the Config, whoever uses them.
DestroyServer ==
  /\ pc = "destroy"
  /\ pc' = "freed"
  /\ UNCHANGED <<cmd, reload_config, sender_mutex, sending, num_devices, sender, counts,
                 locker, keyboard>>

\* The process ends: its threads are gone and X drops its grab.
ProcessEnds ==
  /\ pc' = "exited"
  /\ sender' = [s \in Senders |-> "none"]
  /\ locker' = [s \in Senders |-> "none"]
  /\ announced' = [s \in Senders |-> 0]
  /\ opened' = [s \in Senders |-> 0]
  /\ polled' = [s \in Senders |-> 0]
  /\ sender_mutex' = Nobody
  /\ keyboard' = IF keyboard \in Senders THEN Nobody ELSE keyboard
  /\ UNCHANGED <<cmd, reload_config, sending, num_devices>>

MainReturns == pc = "freed" /\ ProcessEnds

MainStep ==
  \/ TestFlag
  \/ SwapConfig
  \/ StopSending
  \/ StartSending
  \/ AlreadySending
  \/ \E s \in Senders : SpawnSender(s)
  \/ DestroyServer
  \/ MainReturns

-----------------------------------------------------------------------------
(* A sender thread *)

\* The threads may still use what destroy_server has not freed yet.
ServerUp == pc \notin {"freed", "exited"}

\* pthread_exit: whatever the thread allocated or opened is gone or forgotten.
Exit(s) ==
  /\ sender' = [sender EXCEPT ![s] = "none"]
  /\ announced' = [announced EXCEPT ![s] = 0]
  /\ opened' = [opened EXCEPT ![s] = 0]
  /\ polled' = [polled EXCEPT ![s] = 0]

GoTo(s, label) ==
  /\ sender' = [sender EXCEPT ![s] = label]
  /\ UNCHANGED counts

NoSocket(s) ==
  /\ sender[s] = "connect"
  /\ "socket" \in Faults
  /\ Exit(s)
  /\ UNCHANGED <<mainVars, sender_mutex, sending, num_devices, locker, keyboard>>

BeginConnect(s) ==
  /\ ServerUp
  /\ sender[s] = "connect"
  /\ sender_mutex = Nobody
  /\ sender_mutex' = s
  /\ GoTo(s, "connecting")
  /\ UNCHANGED <<mainVars, sending, num_devices, locker, keyboard>>

\* Mutant: the screen is locked as soon as the connection is made.
ConnectedLocksNow(s) ==
  /\ sender[s] = "connecting"
  /\ sender_mutex' = Nobody
  /\ GoTo(s, "announce")
  /\ locker' = [locker EXCEPT ![s] = "grabbing"]
  /\ UNCHANGED <<mainVars, sending, num_devices, keyboard>>

Connected(s) ==
  /\ sender[s] = "connecting"
  /\ sender_mutex' = Nobody
  /\ GoTo(s, "announce")
  /\ UNCHANGED <<mainVars, sending, num_devices, locker, keyboard>>

\* Mutant: the error path forgets pthread_mutex_unlock.
ConnectFailsLocked(s) ==
  /\ sender[s] = "connecting"
  /\ "connect" \in Faults
  /\ Exit(s)
  /\ UNCHANGED <<mainVars, sender_mutex, sending, num_devices, locker, keyboard>>

\* Mutant: a sender that cannot connect clears the flag.
ConnectFailsClears(s) ==
  /\ sender[s] = "connecting"
  /\ "connect" \in Faults
  /\ sender_mutex' = Nobody
  /\ sending' = FALSE
  /\ Exit(s)
  /\ UNCHANGED <<mainVars, num_devices, locker, keyboard>>

\* The thread ends; the flag stays set.
ConnectFails(s) ==
  /\ sender[s] = "connecting"
  /\ "connect" \in Faults
  /\ sender_mutex' = Nobody
  /\ Exit(s)
  /\ UNCHANGED <<mainVars, sending, num_devices, locker, keyboard>>

\* conn.num_devices is filled in between two critical sections.
FillAnnouncement(s) ==
  /\ ServerUp
  /\ sender[s] = "announce"
  /\ announced' = [announced EXCEPT ![s] = num_devices]
  /\ sender' = [sender EXCEPT ![s] = "open"]
  /\ UNCHANGED <<mainVars, sender_mutex, sending, num_devices, opened, polled, locker,
                 keyboard>>

OpenDevices(s) ==
  /\ ServerUp
  /\ sender[s] = "open"
  /\ sender_mutex = Nobody
  /\ opened' = [opened EXCEPT ![s] = num_devices]
  /\ sender' = [sender EXCEPT ![s] = "hello"]
  /\ UNCHANGED <<mainVars, sender_mutex, sending, num_devices, announced, polled, locker,
                 keyboard>>

OpenFails(s) ==
  /\ ServerUp
  /\ sender[s] = "open"
  /\ sender_mutex = Nobody
  /\ "open" \in Faults
  /\ Exit(s)
  /\ UNCHANGED <<mainVars, sender_mutex, sending, num_devices, locker, keyboard>>

\* The NewConnection goes out; then the lock thread is created.
SendHello(s) ==
  /\ sender[s] = "hello"
  /\ GoTo(s, "count")
  /\ locker' = [locker EXCEPT ![s] = "grabbing"]
  /\ UNCHANGED <<mainVars, sender_mutex, sending, num_devices, keyboard>>

HelloFails(s) ==
  /\ sender[s] = "hello"
  /\ "send" \in Faults
  /\ Exit(s)
  /\ UNCHANGED <<mainVars, sender_mutex, sending, num_devices, locker, keyboard>>

\* Mutant: one descriptor too many.
CountDevicesOffByOne(s) ==
  /\ ServerUp
  /\ sender[s] = "count"
  /\ sender_mutex = Nobody
  /\ polled' = [polled EXCEPT ![s] = num_devices + 1]
  /\ sender' = [sender EXCEPT ![s] = "relay"]
  /\ UNCHANGED <<mainVars, sender_mutex, sending, num_devices, announced, opened, locker,
                 keyboard>>

\* Top of the loop: k = config->num_devices, under the mutex.
CountDevices(s) ==
  /\ ServerUp
  /\ sender[s] = "count"
  /\ sender_mutex = Nobody
  /\ polled' = [polled EXCEPT ![s] = num_devices]
  /\ sender' = [sender EXCEPT ![s] = "relay"]
  /\ UNCHANGED <<mainVars, sender_mutex, sending, num_devices, announced, opened, locker,
                 keyboard>>

\* send_input_event: poll for 5 ms, one read and one send per readable device.
Relay(s) ==
  /\ sender[s] = "relay"
  /\ GoTo(s, "check")
  /\ UNCHANGED <<mainVars, sender_mutex, sending, num_devices, locker, keyboard>>

RelayFails(s) ==
  /\ sender[s] \in {"relay", "blocked"}
  /\ "send" \in Faults
  /\ GoTo(s, "checkLast")
  /\ UNCHANGED <<mainVars, sender_mutex, sending, num_devices, locker, keyboard>>

\* The destination stopped reading and the socket buffer is full.
RelayBlocks(s) ==
  /\ sender[s] = "relay"
  /\ "stall" \in Faults
  /\ GoTo(s, "blocked")
  /\ UNCHANGED <<mainVars, sender_mutex, sending, num_devices, locker, keyboard>>

\* The destination reads again and send returns.
Drain(s) ==
  /\ sender[s] = "blocked"
  /\ GoTo(s, "check")
  /\ UNCHANGED <<mainVars, sender_mutex, sending, num_devices, locker, keyboard>>

\* send() to a connection the peer reset, without MSG_NOSIGNAL.
Sigpipe(s) ==
  /\ sender[s] \in {"hello", "relay", "blocked"}
  /\ "sigpipe" \in Faults
  /\ ProcessEnds

\* Mutant: the loop ends on errors only.
CheckFlagErrorsOnly(s) ==
  /\ ServerUp
  /\ sender[s] \in {"check", "checkLast"}
  /\ sender_mutex = Nobody
  /\ IF sender[s] = "check"
     THEN /\ sender' = [sender EXCEPT ![s] = "count"]
          /\ polled' = [polled EXCEPT ![s] = 0]
          /\ UNCHANGED <<announced, opened>>
     ELSE Exit(s)
  /\ UNCHANGED <<mainVars, sender_mutex, sending, num_devices, locker, keyboard>>

\* Bottom of the loop; pthread_join of a detached thread does not wait.
CheckFlag(s) ==
  /\ ServerUp
  /\ sender[s] \in {"check", "checkLast"}
  /\ sender_mutex = Nobody
  /\ IF sender[s] = "check" /\ sending
     THEN /\ sender' = [sender EXCEPT ![s] = "count"]
          /\ polled' = [polled EXCEPT ![s] = 0]
          /\ UNCHANGED <<announced, opened>>
     ELSE Exit(s)
  /\ UNCHANGED <<mainVars, sender_mutex, sending, num_devices, locker, keyboard>>

\* What a sender does when no call fails and the destination keeps reading.
SenderRuns(s) ==
  \/ BeginConnect(s)
  \/ Connected(s)
  \/ FillAnnouncement(s)
  \/ OpenDevices(s)
  \/ SendHello(s)
  \/ CountDevices(s)
  \/ Relay(s)
  \/ CheckFlag(s)

SenderStep(s) ==
  \/ SenderRuns(s)
  \/ Drain(s)
  \/ NoSocket(s)
  \/ ConnectFails(s)
  \/ OpenFails(s)
  \/ HelloFails(s)
  \/ RelayFails(s)
  \/ RelayBlocks(s)
  \/ Sigpipe(s)

-----------------------------------------------------------------------------
(* A lock thread, the X server and the user *)

GrabKeyboard(s) ==
  /\ locker[s] = "grabbing"
  /\ keyboard = Nobody
  /\ keyboard' = s
  /\ locker' = [locker EXCEPT ![s] = "locked"]
  /\ UNCHANGED <<mainVars, sender_mutex, sending, num_devices, sender, counts>>

\* A hundred attempts found the keyboard taken, or there is no display, or the
\* pointer is taken: exit(1) ends the daemon.
LockFails(s) ==
  /\ locker[s] = "grabbing"
  /\ keyboard # Nobody \/ "display" \in Faults
  /\ ProcessEnds

\* The user typed the unlock chord (UnlockBind).
Unlock(s) ==
  /\ locker[s] = "locked"
  /\ locker' = [locker EXCEPT ![s] = "none"]
  /\ keyboard' = Nobody
  /\ UNCHANGED <<mainVars, sender_mutex, sending, num_devices, sender, counts>>

LockerStep(s) == GrabKeyboard(s) \/ LockFails(s)

\* Another X client, such as the window manager, takes the keyboard for a while.
OtherGrabs(x) ==
  /\ keyboard = Nobody
  /\ keyboard' = x
  /\ UNCHANGED <<mainVars, sender_mutex, sending, num_devices, sender, counts, locker>>

OtherReleases ==
  /\ keyboard \in XClients
  /\ keyboard' = Nobody
  /\ UNCHANGED <<mainVars, sender_mutex, sending, num_devices, sender, counts, locker>>

-----------------------------------------------------------------------------

\* Everything but the arrival of a command.
Internal ==
  \/ MainStep
  \/ \E s \in Senders : SenderStep(s) \/ LockerStep(s) \/ Unlock(s)
  \/ \E x \in XClients : OtherGrabs(x)
  \/ OtherReleases
  \/ ReceiveFails

Next ==
  \/ Internal
  \/ \E c \in Commands, r \in ReloadFlags : Receive(c, r)

Spec == Init /\ [][Next]_vars

\* A thread that waits for the mutex gets it in the end: whoever holds it (but
\* for a leak) releases it within a system call, and a sender spends up to 5 ms
\* of every turn in poll without it.  No fairness for failures, for the user,
\* for clients, for other X clients or for a destination that stopped reading.
Fairness ==
  /\ SF_vars(MainStep)
  /\ \A s \in Senders : SF_vars(SenderRuns(s)) /\ WF_vars(LockerStep(s))

FairSpec == Spec /\ Fairness

(* A patient user starts a sender only when the last one and its screen lock   *)
(* are gone, and never sends START to a daemon that is sending.               *)
Quiet == \A s \in Senders : Free(s)

Patient(c) ==
  /\ c \in {"START", "RELOAD"} => Quiet
  /\ c = "START" => ~sending
  /\ c = "SWITCH" => sending \/ Quiet

PatientNext ==
  \/ Internal
  \/ \E c \in Commands, r \in ReloadFlags : Patient(c) /\ Receive(c, r)

PatientSpec == Init /\ [][PatientNext]_vars

-----------------------------------------------------------------------------
(* Safety *)

\* A sender holds sender_mutex exactly while it is inside connect(): every way
\* out of connect_to_server and of the device-opening section, failures
\* included, has released it, and no thread ends with it.
MutexOwnerInside ==
  \A s \in Senders : sender_mutex = s <=> sender[s] = "connecting"

\* switch_state and reload act on the flag after they released the mutex under
\* which they read or set it; it still has that value when they act, so SWITCH
\* stops only what is sending and neither ever takes start's early return.
FlagStillAsRead ==
  /\ pc = "stop" /\ cmd = "SWITCH" => sending
  /\ pc = "start" /\ cmd \in {"SWITCH", "RELOAD"} => ~sending

\* Only a START to a daemon that is already sending leaves a handler with the
\* mutex locked, and then the flag is stuck at 1: nobody can clear it any more.
OnlyStartLeaks ==
  [][sender_mutex' = MainThread => cmd = "START" \/ sender_mutex = MainThread]_vars

LeakFreezesFlag == sender_mutex = MainThread => sending

\* A lock thread exists only once the send of its sender's NewConnection returned
\* (the sender may have ended since), and one lock thread at a time has the grab.
\* It does not say that the destination read the message, nor that a lock goes
\* away with its sender: spawn_lock_thread has no part in the sender's end.
LockedAfterHello ==
  \A s \in Senders :
    /\ locker[s] # "none" => sender[s] \in {"none"} \cup Loop
    /\ locker[s] = "locked" <=> keyboard = s

\* A sender polls exactly the descriptors it opened, and as many as it announced
\* to its destination, although it reads config->num_devices anew every turn.
\* RELOAD with reload_config set changes num_devices under a running sender, and
\* then it is false; of clients that never set it, as ioswitchctl never does, it
\* holds whatever commands they send and whenever they send them.
PollsWhatItOpened ==
  \A s \in Senders :
    /\ sender[s] \in {"relay", "blocked"} => polled[s] = opened[s]
    /\ sender[s] \in {"hello"} \cup Loop => opened[s] = announced[s]

\* With a patient user, at most one sender relays the devices.
AtMostOneSender ==
  \A s, t \in Senders : sender[s] # "none" /\ sender[t] # "none" => s = t

(* Liveness *)

\* A command that changes the daemon's state is carried out and the main thread
\* is back in accept, or the process is gone.
CommandReturns == pc \in Handling ~> pc \in {"accept", "exited"}

\* KILL ends the daemon.
KillEndsDaemon == cmd = "KILL" ~> pc = "exited"

\* If the flag stays clear, every sender ends, unless send() blocks it.
StopTakesEffect ==
  <>[](~sending) => <>[](\A s \in Senders : sender[s] \in {"none", "blocked"})

(* What the repository says and the code does not do *)

\* "When the host daemon is sending, input is locked on that computer."
SendingMeansLocked ==
  (\E s \in Senders : sender[s] = "relay") => keyboard \in Senders

\* "stop # stops sending all devices": the senders a STOP finds, end.
StopEndsSenders ==
  \A s \in Senders :
    (pc = "stop" /\ cmd = "STOP" /\ sender[s] # "none") ~> sender[s] \in {"none", "blocked"}

-----------------------------------------------------------------------------
(* The abstract command service this module implements *)

\* The command being served, as far as its effect on the flag is outstanding.
Request ==
  IF pc \notin Handling THEN Nobody
  ELSE IF pc = "start" /\ cmd = "RELOAD" THEN "START"
  ELSE cmd

Service == INSTANCE CommandService WITH
  Served <- Commands,
  NoRequest <- Nobody,
  request <- Request,
  flag <- sending,
  up <- pc \notin {"destroy", "freed", "exited"}

ServiceSpec == Service!Spec
ServiceFairSpec == Service!FairSpec
=============================================================================
