------------------------------ MODULE OldDaemon ------------------------------
(***************************************************************************)
(* The daemon of src.old.d, which the present one replaces: its main       *)
(* thread serves one connection at a time, ioswitchctl adds and removes    *)
(* devices one command each, and every device and every input stream has a *)
(* slot of a table, a flag in it and a detached thread.                    *)
(*                                                                         *)
(* A section under sender_mutex or listener_mutex does not block, so it is *)
(* one action, enabled when the mutex is free; sender_mutex is free unless *)
(* add_device left it locked.  What a thread finds in the memory that      *)
(* destroy_server frees, until main returns, is left out.                  *)
(***************************************************************************)
EXTENDS Integers, FiniteSets

CONSTANTS
  CtlTypes,       \* the commands users ask ioswitchctl for
  Ctls,           \* runs of ioswitchctl; an id is reused once its run ended
  Nobody,         \* whom the main thread serves in accept
  Streams,        \* the input streams other daemons open, each once
  Threads,        \* sender thread ids, reused as well
  Devices,        \* the devices of the configuration ioswitchctl reads
  NoDevice,       \* a name that is no device's
  MAX_SENDERS,
  MAX_LISTENERS

Handlers == {"NONE", "LIST", "ADD_DEVICE", "RM_DEVICE"}
NoHandlers == {"DISABLE", "ENABLE"}

ASSUME OldAssumption ==
  /\ CtlTypes \subseteq Handlers \cup NoHandlers \cup {"KILL"}
  /\ Ctls \cap Streams = {}
  /\ Nobody \notin Ctls \cup Streams
  /\ NoDevice \notin Devices
  /\ MAX_SENDERS \in Nat
  /\ MAX_LISTENERS \in Nat

VARIABLES
  main,           \* where the main thread is
  peer,           \* the connection it serves
  name,           \* command.name of an ADD_DEVICE or RM_DEVICE
  next,           \* i, in the search for a listener's slot
  leaked,         \* did add_device return with sender_mutex locked?
  sender_flags,
  sender_names,
  sender,         \* where each sender thread is
  flag,           \* the slot its args->flag points to
  listen_flags,
  listener,       \* the slot of a stream's listener, -1 without one
  stream,         \* what became of each stream's connection
  gone,           \* those whose sender ended and closed its socket, as far as it matters
  ctl,            \* where each run of ioswitchctl is
  asked,          \* its ctl_type
  todo            \* the devices it has not sent its command for

mainVars == <<main, peer, name, next>>
senderVars == <<leaked, sender_flags, sender_names, sender, flag>>
listenVars == <<listen_flags, listener>>
streamVars == <<stream, gone>>
ctlVars == <<ctl, asked, todo>>
vars == <<mainVars, senderVars, listenVars, streamVars, ctlVars>>

SenderSlots == 0 .. MAX_SENDERS - 1
ListenSlots == 0 .. MAX_LISTENERS - 1
Names == Devices \cup {NoDevice}

\* The handlers that wait for sender_mutex, or for a connect.
Handling == {"list", "connect", "slot", "remove"}
MainLabels == {"accept", "type", "search", "command", "gone", "exited"} \cup Handling
SenderLabels == {"none", "polling", "blocked", "check", "last", "bound", "script"}

TypeOK ==
  /\ main \in MainLabels
  /\ peer \in Ctls \cup Streams \cup {Nobody}
  /\ name \in Names
  /\ next \in 0 .. MAX_LISTENERS
  /\ leaked \in BOOLEAN
  /\ sender_flags \in [SenderSlots -> BOOLEAN]
  /\ sender_names \in [SenderSlots -> Names]
  /\ sender \in [Threads -> SenderLabels]
  /\ flag \in [Threads -> SenderSlots \cup {-1}]
  /\ listen_flags \in [ListenSlots -> BOOLEAN]
  /\ listener \in [Streams -> ListenSlots \cup {-1}]
  /\ stream \in [Streams -> {"new", "served", "reading", "refused", "over"}]
  /\ gone \subseteq Streams
  /\ ctl \in [Ctls -> {"idle", "connect", "waiting", "greeted", "dead"}]
  /\ asked \in [Ctls -> CtlTypes \cup {"NONE"}]
  /\ todo \in [Ctls -> SUBSET Devices]

\* create_server: both tables zeroed, both mutexes free.
Init ==
  /\ main = "accept"
  /\ peer = Nobody
  /\ name = NoDevice
  /\ next = 0
  /\ leaked = FALSE
  /\ sender_flags = [k \in SenderSlots |-> FALSE]
  /\ sender_names = [k \in SenderSlots |-> NoDevice]
  /\ sender = [t \in Threads |-> "none"]
  /\ flag = [t \in Threads |-> -1]
  /\ listen_flags = [k \in ListenSlots |-> FALSE]
  /\ listener = [s \in Streams |-> -1]
  /\ stream = [s \in Streams |-> "new"]
  /\ gone = {}
  /\ ctl = [c \in Ctls |-> "idle"]
  /\ asked = [c \in Ctls |-> "NONE"]
  /\ todo = [c \in Ctls |-> {}]

\* The process ends, and its threads and connections with it.  A run of
\* ioswitchctl that waits for it ends too, by an error or by a failing send.
ProcessEnds ==
  /\ main' = "exited"
  /\ peer' = Nobody
  /\ name' = NoDevice
  /\ next' = 0
  /\ leaked' = FALSE
  /\ sender_flags' = [k \in SenderSlots |-> FALSE]
  /\ sender_names' = [k \in SenderSlots |-> NoDevice]
  /\ sender' = [t \in Threads |-> "none"]
  /\ flag' = [t \in Threads |-> -1]
  /\ listen_flags' = [k \in ListenSlots |-> FALSE]
  /\ listener' = [s \in Streams |-> -1]
  /\ stream' = [s \in Streams |-> IF stream[s] = "new" THEN "new" ELSE "over"]
  /\ ctl' = [c \in Ctls |-> "idle"]
  /\ asked' = [c \in Ctls |-> "NONE"]
  /\ todo' = [c \in Ctls |-> {}]
  /\ gone' = {}

-----------------------------------------------------------------------------
(* ioswitchctl and the senders of other daemons *)

\* Run c goes to a step; nothing is left of it when it ended.
CtlGoes(c, label, left) ==
  /\ ctl' = [ctl EXCEPT ![c] = label]
  /\ todo' = [todo EXCEPT ![c] = left]
  /\ asked' = [asked EXCEPT ![c] = IF label \in {"idle", "dead"} THEN "NONE" ELSE @]

CtlEnds(c) == CtlGoes(c, "idle", {})

\* One command per device of its configuration: none without a device.  connect
\* succeeds once the kernel has queued it; the MESSAGE follows, and then the wait
\* for the handshake.
RunCtl(c, type) ==
  /\ main # "exited"
  /\ Devices # {}
  /\ ctl[c] = "idle"
  /\ ctl' = [ctl EXCEPT ![c] = "waiting"]
  /\ asked' = [asked EXCEPT ![c] = type]
  /\ todo' = [todo EXCEPT ![c] = Devices]
  /\ UNCHANGED <<mainVars, senderVars, listenVars, streamVars>>

\* The same for its next device.
CtlConnects(c) ==
  /\ ctl[c] = "connect"
  /\ ctl' = [ctl EXCEPT ![c] = "waiting"]
  /\ UNCHANGED <<mainVars, senderVars, listenVars, streamVars, asked, todo>>

\* Its user ends it.
CtlDies(c) ==
  /\ ctl[c] \in {"waiting", "greeted"}
  /\ CtlGoes(c, "dead", {})
  /\ UNCHANGED <<mainVars, senderVars, listenVars, streamVars>>

\* The sender thread at the other end, or its process, ended.
StreamEnds(s) ==
  /\ stream[s] \in {"served", "reading"}
  /\ s \notin gone
  /\ gone' = gone \cup {s}
  /\ UNCHANGED <<mainVars, senderVars, listenVars, stream, ctlVars>>

-----------------------------------------------------------------------------
(* The main thread: connections *)

\* Bound: an ADD_DEVICE is served only while a thread id is left for it.
HasRoom == \E t \in Threads : sender[t] = "none"

AcceptCtl(c) ==
  /\ main = "accept"
  /\ ctl[c] \in {"waiting", "dead"}
  /\ asked[c] = "ADD_DEVICE" => HasRoom
  /\ main' = "type"
  /\ peer' = c
  /\ UNCHANGED <<name, next, senderVars, listenVars, streamVars, ctlVars>>

\* One that connected, however long ago.
AcceptStream(s) ==
  /\ main = "accept"
  /\ stream[s] = "new"
  /\ main' = "type"
  /\ peer' = s
  /\ stream' = [stream EXCEPT ![s] = "served"]
  /\ UNCHANGED <<name, next, senderVars, listenVars, gone, ctlVars>>

\* accept fails, as it does when no descriptor is left: main returns -1.
AcceptFails ==
  /\ main = "accept"
  /\ ProcessEnds

\* Back to the top of the loop.
Serve(label) ==
  /\ main' = label
  /\ peer' = IF label = "accept" THEN Nobody ELSE peer
  /\ UNCHANGED <<name, next>>

\* Mutant: the handshake waits for the command.
GreetLate(c) ==
  /\ main = "type"
  /\ peer = c
  /\ Serve("command")
  /\ UNCHANGED <<senderVars, listenVars, streamVars, ctlVars>>

\* recv of the SocketType, then the handshake.
Greet(c) ==
  /\ main = "type"
  /\ peer = c
  /\ Serve("command")
  /\ ctl' = [ctl EXCEPT ![c] = IF ctl[c] = "waiting" THEN "greeted" ELSE "dead"]
  /\ UNCHANGED <<senderVars, listenVars, streamVars, asked, todo>>

\* It died before it sent its type: recv fails, or returns 0 and the type is
\* UNKNOWN.  The connection is closed and the loop goes on.
CtlUnknown(c) ==
  /\ main = "type"
  /\ peer = c
  /\ ctl[c] = "dead"
  /\ Serve("accept")
  /\ CtlEnds(c)
  /\ UNCHANGED <<senderVars, listenVars, streamVars>>

StreamUnknown(s) ==
  /\ main = "type"
  /\ peer = s
  /\ s \in gone
  /\ Serve("accept")
  /\ stream' = [stream EXCEPT ![s] = "over"]
  /\ gone' = gone \ {s}
  /\ UNCHANGED <<senderVars, listenVars, ctlVars>>

\* INPUT_CONN: search the table, without the mutex.
GreetStream(s) ==
  /\ main = "type"
  /\ peer = s
  /\ main' = "search"
  /\ next' = 0
  /\ UNCHANGED <<peer, name, senderVars, listenVars, streamVars, ctlVars>>

\* Mutant: the loop goes on at its end.
NextSlotNoEnd ==
  /\ main = "search"
  /\ next < MAX_LISTENERS => listen_flags[next]
  /\ next' = next + 1
  /\ UNCHANGED <<main, peer, name, senderVars, listenVars, streamVars, ctlVars>>

NextSlot ==
  /\ main = "search"
  /\ next < MAX_LISTENERS
  /\ listen_flags[next]
  /\ next' = next + 1
  /\ UNCHANGED <<main, peer, name, senderVars, listenVars, streamVars, ctlVars>>

\* The flag is set under the mutex and the listener thread created.
StartListener(s) ==
  /\ main = "search"
  /\ peer = s
  /\ next < MAX_LISTENERS
  /\ ~listen_flags[next]
  /\ listen_flags' = [listen_flags EXCEPT ![next] = TRUE]
  /\ listener' = [listener EXCEPT ![s] = next]
  /\ stream' = [stream EXCEPT ![s] = "reading"]
  /\ main' = "accept"
  /\ peer' = Nobody
  /\ next' = 0
  /\ UNCHANGED <<name, senderVars, gone, ctlVars>>

\* The connection stays open, and nobody reads it.
ListenersFull(s) ==
  /\ main = "search"
  /\ peer = s
  /\ next = MAX_LISTENERS
  /\ stream' = [stream EXCEPT ![s] = "refused"]
  /\ gone' = gone \ {s}
  /\ main' = "accept"
  /\ peer' = Nobody
  /\ next' = 0
  /\ UNCHANGED <<name, senderVars, listenVars, ctlVars>>

-----------------------------------------------------------------------------
(* The main thread: commands *)

\* process_command with the CtlCommand it has.  Nobody set an entry of
\* ctl_handlers for DISABLE and ENABLE: the call crashes.  KILL ends main.
Handles(type, d) ==
  /\ type \in Handlers
  /\ main' = CASE type = "LIST"       -> "list"
               [] type = "RM_DEVICE"  -> "remove"
               [] type = "ADD_DEVICE" -> "connect"
               [] OTHER               -> "accept"
  /\ name' = IF type \in {"RM_DEVICE", "ADD_DEVICE"} THEN d ELSE NoDevice
  /\ peer' = Nobody
  /\ UNCHANGED next

\* add_device cannot open the device: pthread_exit ends the main thread, and
\* the other threads stay.
OpenFails(type) ==
  /\ type = "ADD_DEVICE"
  /\ main' = "gone"
  /\ peer' = Nobody
  /\ UNCHANGED <<name, next>>

\* The command arrives; ioswitchctl goes on to its next device, or ends.
TakeCommand(c) ==
  /\ main = "command"
  /\ peer = c
  /\ ctl[c] = "greeted"
  /\ \E d \in todo[c] :
       \/ /\ Handles(asked[c], d) \/ OpenFails(asked[c])
          /\ LET more == asked[c] \in {"ADD_DEVICE", "RM_DEVICE"} /\ todo[c] # {d}
             IN  IF more THEN CtlGoes(c, "connect", todo[c] \ {d}) ELSE CtlEnds(c)
          /\ UNCHANGED <<senderVars, listenVars, streamVars>>
       \/ asked[c] \notin Handlers /\ ProcessEnds

\* It died after the handshake: recv fails, or returns 0 and the CtlCommand on
\* the stack is whatever was there.
TakeGarbage(c) ==
  /\ main = "command"
  /\ peer = c
  /\ ctl[c] = "dead"
  /\ \/ /\ \E type \in Handlers, d \in Names :
             \/ /\ type = "ADD_DEVICE" => HasRoom /\ d # NoDevice
                /\ Handles(type, d)
             \/ OpenFails(type)
        /\ CtlEnds(c)
        /\ UNCHANGED <<senderVars, listenVars, streamVars>>
     \/ ProcessEnds

\* Every handler's return, and process_command's.
Return ==
  /\ main' = "accept"
  /\ name' = NoDevice
  /\ UNCHANGED <<peer, next>>

ListDevices ==
  /\ main = "list"
  /\ ~leaked
  /\ Return
  /\ UNCHANGED <<senderVars, listenVars, streamVars, ctlVars>>

\* Mutant: the slot is cleared without the mutex.
RemoveUnlocked ==
  /\ main = "remove"
  /\ \E k \in SenderSlots :
       /\ sender_flags[k] /\ sender_names[k] = name
       /\ sender_flags' = [sender_flags EXCEPT ![k] = FALSE]
  /\ Return
  /\ UNCHANGED <<leaked, sender_names, sender, flag, listenVars, streamVars, ctlVars>>

Named == {k \in SenderSlots : sender_flags[k] /\ sender_names[k] = name}

\* The first used slot with that name is cleared.
RemoveDevice ==
  /\ main = "remove"
  /\ ~leaked
  /\ \/ \E k \in Named :
          /\ \A j \in Named : k <= j
          /\ sender_flags' = [sender_flags EXCEPT ![k] = FALSE]
     \/ Named = {} /\ UNCHANGED sender_flags
  /\ Return
  /\ UNCHANGED <<leaked, sender_names, sender, flag, listenVars, streamVars, ctlVars>>

\* add_device opened the device; socket, connect and send of INPUT_CONN.
Connected ==
  /\ main = "connect"
  /\ main' = "slot"
  /\ UNCHANGED <<peer, name, next, senderVars, listenVars, streamVars, ctlVars>>

ConnectFails ==
  /\ main = "connect"
  /\ Return
  /\ UNCHANGED <<senderVars, listenVars, streamVars, ctlVars>>

\* The first free slot is taken and the sender thread created.  Without key_binds
\* get_variable returns an empty list, never NULL (tokenizer.c of src.old.d).
StartSender(t) ==
  /\ main = "slot"
  /\ ~leaked
  /\ sender[t] = "none"
  /\ \E k \in SenderSlots :
       /\ ~sender_flags[k]
       /\ \A j \in SenderSlots : j < k => sender_flags[j]
       /\ sender_flags' = [sender_flags EXCEPT ![k] = TRUE]
       /\ sender_names' = [sender_names EXCEPT ![k] = name]
       /\ flag' = [flag EXCEPT ![t] = k]
  /\ sender' = [sender EXCEPT ![t] = "polling"]
  /\ Return
  /\ UNCHANGED <<leaked, listenVars, streamVars, ctlVars>>

\* add_device returns from inside its critical section.
SendersFull ==
  /\ main = "slot"
  /\ ~leaked
  /\ \A k \in SenderSlots : sender_flags[k]
  /\ leaked' = TRUE
  /\ Return
  /\ UNCHANGED <<sender_flags, sender_names, sender, flag, listenVars, streamVars, ctlVars>>

MainStep ==
  \/ \E c \in Ctls : Greet(c) \/ CtlUnknown(c) \/ TakeCommand(c) \/ TakeGarbage(c)
  \/ \E s \in Streams : GreetStream(s) \/ StreamUnknown(s)
  \/ NextSlot
  \/ \E s \in Streams : StartListener(s) \/ ListenersFull(s)
  \/ ListDevices \/ RemoveDevice
  \/ Connected \/ ConnectFails
  \/ \E t \in Threads : StartSender(t)
  \/ SendersFull

-----------------------------------------------------------------------------
(* A sender thread *)

GoTo(t, label) ==
  /\ sender' = [sender EXCEPT ![t] = label]
  /\ flag' = [flag EXCEPT ![t] = IF label = "none" THEN -1 ELSE @]
  /\ UNCHANGED <<mainVars, leaked, sender_flags, sender_names, listenVars, streamVars, ctlVars>>

\* send_input_event forwards one event, fails, or finds every bind pressed.  A
\* poll of 100 ms without an event is a failure too.
SendInputEvent(t) ==
  /\ sender[t] = "polling"
  /\ GoTo(t, "check") \/ GoTo(t, "last") \/ GoTo(t, "bound")

\* The receiver does not read: send waits, and returns when it does or is gone.
SendBlocks(t) == sender[t] = "polling" /\ GoTo(t, "blocked")
SendReturns(t) == sender[t] = "blocked" /\ (GoTo(t, "check") \/ GoTo(t, "last"))

\* The receiver reset the connection: SIGPIPE.
Sigpipe(t) == sender[t] \in {"polling", "blocked"} /\ ProcessEnds

\* Mutant: the flag ends the loop only after an error.
CheckFlagErrorsOnly(t) ==
  /\ ~leaked
  /\ \/ sender[t] = "check" /\ GoTo(t, "polling")
     \/ sender[t] = "last" /\ GoTo(t, "none")
     \/ sender[t] = "bound" /\ GoTo(t, "script")

\* The rest of the turn.  A sender that ends for a reason of its own leaves its
\* flag set and its slot taken.
CheckFlag(t) ==
  /\ ~leaked
  /\ \/ sender[t] = "check" /\ GoTo(t, IF sender_flags[flag[t]] THEN "polling" ELSE "none")
     \/ sender[t] = "last" /\ GoTo(t, "none")
     \/ sender[t] = "bound" /\ GoTo(t, "script")

\* system("ioswitchstop") returns.
ScriptEnds(t) == sender[t] = "script" /\ GoTo(t, "none")

SenderTurn(t) == SendInputEvent(t) \/ CheckFlag(t)

-----------------------------------------------------------------------------
(* A listener thread *)

\* Mutant: the flag is cleared before the loop instead of after it.
ListenerClearsFirst(s) ==
  /\ stream[s] = "reading"
  /\ listen_flags' = [listen_flags EXCEPT ![listener[s]] = FALSE]
  /\ UNCHANGED <<mainVars, senderVars, listener, streamVars, ctlVars>>

\* read returned 0 or less: the flag is cleared, the virtual device destroyed.
ListenerEnds(s) ==
  /\ stream[s] = "reading"
  /\ s \in gone
  /\ listen_flags' = [listen_flags EXCEPT ![listener[s]] = FALSE]
  /\ listener' = [listener EXCEPT ![s] = -1]
  /\ stream' = [stream EXCEPT ![s] = "over"]
  /\ gone' = gone \ {s}
  /\ UNCHANGED <<mainVars, senderVars, ctlVars>>

\* Without its main thread the process ends with its last thread.
LastThreadEnds ==
  /\ main = "gone"
  /\ \A t \in Threads : sender[t] = "none"
  /\ \A s \in Streams : stream[s] # "reading"
  /\ ProcessEnds

-----------------------------------------------------------------------------

Next ==
  \/ \E c \in Ctls, type \in CtlTypes : RunCtl(c, type)
  \/ \E c \in Ctls : CtlConnects(c) \/ CtlDies(c) \/ AcceptCtl(c)
  \/ \E s \in Streams : StreamEnds(s) \/ AcceptStream(s)
  \/ AcceptFails
  \/ MainStep
  \/ \E t \in Threads : SenderTurn(t) \/ SendBlocks(t) \/ SendReturns(t)
  \/ \E t \in Threads : Sigpipe(t) \/ ScriptEnds(t)
  \/ \E s \in Streams : ListenerEnds(s)
  \/ LastThreadEnds

Spec == Init /\ [][Next]_vars

\* The main thread and the threads run unless they wait for the mutex, a peer or
\* a full socket; poll waits 100 ms, connect gives up in the end, and a queued
\* connection comes up for accept.  ioswitchctl sends on without waiting for its
\* user.  No fairness for peers, failures and the script.
Fairness ==
  /\ WF_vars(MainStep)
  /\ \A c \in Ctls : WF_vars(CtlConnects(c)) /\ SF_vars(AcceptCtl(c))
  /\ \A t \in Threads : WF_vars(SenderTurn(t))
  /\ \A s \in Streams : WF_vars(ListenerEnds(s))

FairSpec == Spec /\ Fairness

-----------------------------------------------------------------------------

\* The main thread looks for a free slot without the mutex while listeners end;
\* all the same a slot is marked exactly while one listener uses it, and no two
\* listeners share one.
ListenersOwnSlots ==
  /\ \A k \in ListenSlots :
       listen_flags[k] <=> \E s \in Streams : stream[s] = "reading" /\ listener[s] = k
  /\ \A r, s \in Streams :
       stream[r] = "reading" /\ stream[s] = "reading" /\ listener[r] = listener[s] => r = s

\* sender_mutex is left locked only by an ADD_DEVICE to a full table, and the
\* table stays full: no sender ends on a RM_DEVICE any more.
LeakFreezesFlags == leaked => \A k \in SenderSlots : sender_flags[k]

\* ioswitchctl gets its handshake, whoever else connects and dies, unless the
\* main thread ended in add_device or waits for the mutex that one left locked.
CtlAnswered ==
  \A c \in Ctls :
    (ctl[c] = "waiting" /\ asked[c] # "ADD_DEVICE")
      ~> (ctl[c] # "waiting" \/ main = "gone" \/ (leaked /\ main \in Handling))

\* If a slot stays cleared, the senders that have it end, unless send blocks
\* them or they wait for the script.
ClearedSendersEnd ==
  \A k \in SenderSlots :
    <>[](~sender_flags[k]) =>
      <>[](\A t \in Threads : flag[t] = k => sender[t] \in {"blocked", "script"})
=============================================================================
