--------------------------- MODULE OldDaemonProofs ---------------------------
(***************************************************************************)
(* Proofs about OldDaemon: its variables keep their types, listener slots  *)
(* are marked exactly while one listener has them, and a sender_mutex left *)
(* locked means a full table, for any tables, peers and threads.           *)
(***************************************************************************)
EXTENDS OldDaemon, TLAPS

\* The connection the main thread serves has no listener yet, and a stream has a
\* slot exactly while its listener reads.
Served ==
  /\ peer \in Streams => stream[peer] = "served"
  /\ \A s \in Streams : stream[s] = "reading" <=> listener[s] # -1

IInv == TypeOK /\ Served /\ ListenersOwnSlots

-----------------------------------------------------------------------------
(* Types *)

LEMMA InitType == Init => TypeOK
<1> SUFFICES ASSUME Init PROVE TypeOK
  OBVIOUS
<1> USE OldAssumption DEF Init, MainLabels, SenderLabels, Names
<1>1. main \in MainLabels /\ peer \in Ctls \cup Streams \cup {Nobody} /\ name \in Names
  OBVIOUS
<1>2. next \in 0 .. MAX_LISTENERS
  OBVIOUS
<1>3. leaked \in BOOLEAN
  OBVIOUS
<1>4. sender_flags \in [SenderSlots -> BOOLEAN]
  OBVIOUS
<1>5. sender_names \in [SenderSlots -> Names]
  OBVIOUS
<1>6. sender \in [Threads -> SenderLabels] /\ flag \in [Threads -> SenderSlots \cup {-1}]
  OBVIOUS
<1>7. listen_flags \in [ListenSlots -> BOOLEAN] /\ listener \in [Streams -> ListenSlots \cup {-1}]
  OBVIOUS
<1>8. /\ stream \in [Streams -> {"new", "served", "reading", "refused", "over"}]
      /\ gone \subseteq Streams
  OBVIOUS
<1>9. /\ ctl \in [Ctls -> {"idle", "connect", "waiting", "greeted", "dead"}]
      /\ asked \in [Ctls -> CtlTypes \cup {"NONE"}]
      /\ todo \in [Ctls -> SUBSET Devices]
  OBVIOUS
<1> QED
  BY <1>1, <1>2, <1>3, <1>4, <1>5, <1>6, <1>7, <1>8, <1>9 DEF TypeOK

LEMMA EndType == ASSUME TypeOK, ProcessEnds PROVE TypeOK'
<1> USE OldAssumption DEF ProcessEnds, MainLabels, SenderLabels, Names
<1>1. main' \in MainLabels /\ peer' \in Ctls \cup Streams \cup {Nobody} /\ name' \in Names
  OBVIOUS
<1>2. next' \in 0 .. MAX_LISTENERS
  OBVIOUS
<1>3. leaked' \in BOOLEAN
  OBVIOUS
<1>4. sender_flags' \in [SenderSlots -> BOOLEAN]
  OBVIOUS
<1>5. sender_names' \in [SenderSlots -> Names]
  OBVIOUS
<1>6. sender' \in [Threads -> SenderLabels] /\ flag' \in [Threads -> SenderSlots \cup {-1}]
  OBVIOUS
<1>7. listen_flags' \in [ListenSlots -> BOOLEAN] /\ listener' \in [Streams -> ListenSlots \cup {-1}]
  OBVIOUS
<1>8. /\ stream' \in [Streams -> {"new", "served", "reading", "refused", "over"}]
      /\ gone' \subseteq Streams
  OBVIOUS
<1>9. /\ ctl' \in [Ctls -> {"idle", "connect", "waiting", "greeted", "dead"}]
      /\ asked' \in [Ctls -> CtlTypes \cup {"NONE"}]
      /\ todo' \in [Ctls -> SUBSET Devices]
  OBVIOUS
<1> QED
  BY <1>1, <1>2, <1>3, <1>4, <1>5, <1>6, <1>7, <1>8, <1>9 DEF TypeOK

LEMMA PeerType ==
  ASSUME TypeOK,
         \/ \E c \in Ctls, type \in CtlTypes : RunCtl(c, type)
         \/ \E c \in Ctls : CtlConnects(c) \/ CtlDies(c) \/ AcceptCtl(c)
         \/ \E s \in Streams : StreamEnds(s) \/ AcceptStream(s)
  PROVE  TypeOK'
BY OldAssumption
DEF TypeOK, RunCtl, CtlConnects, CtlDies, AcceptCtl, StreamEnds, AcceptStream, CtlGoes,
    mainVars, senderVars, listenVars, streamVars, ctlVars, MainLabels

\* Each step of the main thread.
LEMMA MainType == ASSUME TypeOK, MainStep PROVE TypeOK'
<1> USE OldAssumption DEF TypeOK, Serve, Return, CtlGoes, CtlEnds, MainLabels, Handling,
    mainVars, senderVars, listenVars, streamVars, ctlVars
<1>1. ASSUME NEW c \in Ctls, Greet(c) \/ CtlUnknown(c) PROVE TypeOK'
  BY <1>1 DEF Greet, CtlUnknown
<1>2. ASSUME NEW c \in Ctls, TakeCommand(c) PROVE TypeOK'
  <2>1. CASE ProcessEnds
    BY <2>1, EndType
  <2>2. ASSUME NEW d \in todo[c], Handles(asked[c], d) \/ OpenFails(asked[c]),
               CtlGoes(c, "connect", todo[c] \ {d}) \/ CtlEnds(c),
               UNCHANGED <<senderVars, listenVars, streamVars>>
        PROVE  TypeOK'
    BY <2>2 DEF Handles, OpenFails, Names, Handlers
  <2> QED
    BY <1>2, <2>1, <2>2 DEF TakeCommand
<1>3. ASSUME NEW c \in Ctls, TakeGarbage(c) PROVE TypeOK'
  <2>1. CASE ProcessEnds
    BY <2>1, EndType
  <2>2. ASSUME NEW type \in Handlers, NEW d \in Names, Handles(type, d) \/ OpenFails(type),
               CtlEnds(c), UNCHANGED <<senderVars, listenVars, streamVars>>
        PROVE  TypeOK'
    BY <2>2 DEF Handles, OpenFails, Names
  <2> QED
    BY <1>3, <2>1, <2>2 DEF TakeGarbage
<1>4. ASSUME NEW s \in Streams, GreetStream(s) \/ StreamUnknown(s) PROVE TypeOK'
  BY <1>4 DEF GreetStream, StreamUnknown
<1>5. CASE NextSlot
  BY <1>5 DEF NextSlot
<1>6. ASSUME NEW s \in Streams, StartListener(s) \/ ListenersFull(s) PROVE TypeOK'
  <2>1. CASE StartListener(s)
    <3>1. next \in ListenSlots
      BY <2>1 DEF StartListener, ListenSlots
    <3>2. listen_flags' \in [ListenSlots -> BOOLEAN]
      BY <2>1, Zenon DEF StartListener
    <3> QED
      BY <2>1, <3>1, <3>2 DEF StartListener
  <2>2. CASE ListenersFull(s)
    BY <2>2 DEF ListenersFull
  <2> QED
    BY <1>6, <2>1, <2>2
<1>7. CASE ListDevices \/ RemoveDevice
  BY <1>7 DEF ListDevices, RemoveDevice, Named, Names
<1>8. CASE Connected \/ ConnectFails
  BY <1>8 DEF Connected, ConnectFails, Names
<1>9. ASSUME NEW t \in Threads, StartSender(t) PROVE TypeOK'
  BY <1>9 DEF StartSender, Names, SenderLabels
<1>10. CASE SendersFull
  BY <1>10 DEF SendersFull, Names
<1> QED
  BY <1>1, <1>2, <1>3, <1>4, <1>5, <1>6, <1>7, <1>8, <1>9, <1>10 DEF MainStep

LEMMA ThreadType ==
  ASSUME TypeOK,
         \/ \E t \in Threads : SenderTurn(t) \/ SendBlocks(t) \/ SendReturns(t) \/ ScriptEnds(t)
         \/ \E s \in Streams : ListenerEnds(s)
  PROVE  TypeOK'
<1> USE OldAssumption DEF TypeOK, mainVars, senderVars, listenVars, streamVars, ctlVars
<1>1. ASSUME NEW t \in Threads, NEW label \in SenderLabels, GoTo(t, label) PROVE TypeOK'
  BY <1>1 DEF GoTo
<1>2. ASSUME NEW s \in Streams, ListenerEnds(s) PROVE TypeOK'
  BY <1>2 DEF ListenerEnds
<1> QED
  BY <1>1, <1>2 DEF SenderTurn, SendInputEvent, CheckFlag, SendBlocks, SendReturns, ScriptEnds,
     SenderLabels

LEMMA TypeStep == ASSUME TypeOK, [Next]_vars PROVE TypeOK'
<1>1. CASE UNCHANGED vars
  BY <1>1 DEF TypeOK, vars, mainVars, senderVars, listenVars, streamVars, ctlVars
<1>2. CASE AcceptFails \/ LastThreadEnds \/ \E t \in Threads : Sigpipe(t)
  BY <1>2, EndType DEF AcceptFails, LastThreadEnds, Sigpipe
<1> QED
  BY <1>1, <1>2, PeerType, MainType, ThreadType DEF Next

\* The variables of the old daemon keep their types, and no index leaves its table:
\* next never passes MAX_LISTENERS and a thread's flag is one of the table.
THEOREM TypeCorrect == Spec => []TypeOK
<1> QED
  BY InitType, TypeStep, PTL DEF Spec

-----------------------------------------------------------------------------
(* Listener slots *)

\* What the listener tables and the served connection look like depends on these.
tableVars == <<listenVars, stream>>

LEMMA UntouchedTables ==
  ASSUME IInv, UNCHANGED tableVars, peer' \in Streams => peer' = peer
  PROVE  Served' /\ ListenersOwnSlots'
BY DEF IInv, tableVars, listenVars, Served, ListenersOwnSlots

LEMMA EndedTables ==
  ASSUME TypeOK, ProcessEnds
  PROVE  Served' /\ ListenersOwnSlots'
BY OldAssumption DEF TypeOK, ProcessEnds, Served, ListenersOwnSlots

LEMMA CtlTables ==
  ASSUME IInv,
         \/ \E c \in Ctls, type \in CtlTypes : RunCtl(c, type)
         \/ \E c \in Ctls : CtlConnects(c) \/ CtlDies(c) \/ AcceptCtl(c)
         \/ \E c \in Ctls : Greet(c) \/ CtlUnknown(c)
  PROVE  Served' /\ ListenersOwnSlots'
<1>1. UNCHANGED tableVars /\ (peer' \in Streams => peer' = peer)
  BY OldAssumption DEF RunCtl, CtlConnects, CtlDies, AcceptCtl, Greet, CtlUnknown, Serve,
     mainVars, tableVars, listenVars, streamVars
<1> QED
  BY <1>1, UntouchedTables

LEMMA CommandTables ==
  ASSUME IInv,
         \/ \E c \in Ctls : TakeCommand(c) \/ TakeGarbage(c)
         \/ ListDevices \/ RemoveDevice \/ Connected \/ ConnectFails \/ SendersFull
         \/ \E t \in Threads : StartSender(t)
  PROVE  Served' /\ ListenersOwnSlots'
<1>1. CASE ProcessEnds
  BY <1>1, EndedTables DEF IInv
<1>2. CASE UNCHANGED tableVars /\ (peer' \in Streams => peer' = peer)
  BY <1>2, UntouchedTables
<1>3. ProcessEnds \/ (UNCHANGED tableVars /\ (peer' \in Streams => peer' = peer))
  BY OldAssumption DEF TakeCommand, TakeGarbage, Handles, OpenFails, ListDevices, RemoveDevice,
     Connected, ConnectFails, SendersFull, StartSender, Return, tableVars, listenVars, streamVars
<1> QED
  BY <1>1, <1>2, <1>3

LEMMA StreamTables ==
  ASSUME IInv,
         \/ NextSlot
         \/ \E s \in Streams :
              \/ StreamEnds(s) \/ AcceptStream(s) \/ GreetStream(s) \/ StreamUnknown(s)
              \/ StartListener(s) \/ ListenersFull(s) \/ ListenerEnds(s)
  PROVE  Served' /\ ListenersOwnSlots'
<1> USE DEF IInv, TypeOK, Served, ListenersOwnSlots, listenVars, streamVars
<1>1. CASE NextSlot \/ \E s \in Streams : StreamEnds(s) \/ GreetStream(s)
  <2>1. UNCHANGED tableVars /\ peer' = peer
    BY <1>1 DEF NextSlot, StreamEnds, GreetStream, mainVars, tableVars
  <2> QED
    BY <2>1, UntouchedTables
<1>2. ASSUME NEW s \in Streams, AcceptStream(s) PROVE Served' /\ ListenersOwnSlots'
  BY <1>2 DEF AcceptStream
<1>3. ASSUME NEW s \in Streams, StreamUnknown(s) \/ ListenersFull(s)
      PROVE  Served' /\ ListenersOwnSlots'
  BY <1>3, OldAssumption DEF StreamUnknown, ListenersFull, Serve
<1>4. ASSUME NEW s \in Streams, StartListener(s) PROVE Served' /\ ListenersOwnSlots'
  <2>1. /\ peer' \notin Streams
        /\ next \in ListenSlots /\ ~listen_flags[next]
        /\ listen_flags' = [listen_flags EXCEPT ![next] = TRUE]
        /\ listener' = [listener EXCEPT ![s] = next]
        /\ stream' = [stream EXCEPT ![s] = "reading"]
        /\ stream[s] = "served"
    BY <1>4, OldAssumption DEF StartListener, ListenSlots
  <2>2. \A r \in Streams : stream[r] = "reading" => listener[r] # next /\ r # s
    BY <2>1
  <2>3. Served'
    BY <2>1 DEF ListenSlots
  <2>4. \A k \in ListenSlots :
          (listen_flags[k] <=> \E r \in Streams : stream[r] = "reading" /\ listener[r] = k)'
    BY <2>1, <2>2
  <2>5. \A q, r \in Streams :
          (stream[q] = "reading" /\ stream[r] = "reading" /\ listener[q] = listener[r] => q = r)'
    BY <2>1, <2>2
  <2> QED
    BY <2>3, <2>4, <2>5
<1>5. ASSUME NEW s \in Streams, ListenerEnds(s) PROVE Served' /\ ListenersOwnSlots'
  <2>1. /\ peer' = peer
        /\ stream[s] = "reading" /\ listener[s] \in ListenSlots
        /\ listen_flags' = [listen_flags EXCEPT ![listener[s]] = FALSE]
        /\ listener' = [listener EXCEPT ![s] = -1]
        /\ stream' = [stream EXCEPT ![s] = "over"]
    BY <1>5 DEF ListenerEnds, mainVars
  <2>2. Served'
    BY <2>1
  <2>3. \A k \in ListenSlots :
          (listen_flags[k] <=> \E r \in Streams : stream[r] = "reading" /\ listener[r] = k)'
    BY <2>1
  <2>4. \A q, r \in Streams :
          (stream[q] = "reading" /\ stream[r] = "reading" /\ listener[q] = listener[r] => q = r)'
    BY <2>1
  <2> QED
    BY <2>2, <2>3, <2>4
<1> QED
  BY <1>1, <1>2, <1>3, <1>4, <1>5

LEMMA ThreadTables ==
  ASSUME IInv,
         \E t \in Threads : SenderTurn(t) \/ SendBlocks(t) \/ SendReturns(t) \/ ScriptEnds(t)
  PROVE  Served' /\ ListenersOwnSlots'
<1>1. UNCHANGED tableVars /\ peer' = peer
  BY DEF SenderTurn, SendInputEvent, CheckFlag, SendBlocks, SendReturns, ScriptEnds, GoTo,
     mainVars, tableVars, streamVars
<1> QED
  BY <1>1, UntouchedTables

LEMMA InitInv == Init => IInv
BY InitType, OldAssumption DEF IInv, Init, Served, ListenersOwnSlots

LEMMA StepInv == ASSUME IInv, [Next]_vars PROVE IInv'
<1>1. TypeOK'
  BY TypeStep DEF IInv
<1>2. CASE UNCHANGED vars
  BY <1>1, <1>2, UntouchedTables DEF IInv, vars, mainVars, tableVars, streamVars
<1>3. CASE AcceptFails \/ LastThreadEnds \/ \E t \in Threads : Sigpipe(t)
  BY <1>1, <1>3, EndedTables DEF IInv, AcceptFails, LastThreadEnds, Sigpipe
<1> QED
  BY <1>1, <1>2, <1>3, CtlTables, CommandTables, StreamTables, ThreadTables
  DEF IInv, Next, MainStep

\* Every listener has a slot of its own, marked as used exactly as long as it
\* reads, although the main thread searches the table without the mutex.
THEOREM SlotsAreOwned == Spec => []ListenersOwnSlots
<1>1. IInv => ListenersOwnSlots
  BY DEF IInv
<1> QED
  BY <1>1, InitInv, StepInv, PTL DEF Spec

-----------------------------------------------------------------------------
(* The leaked mutex *)

LEMMA LeakStep == ASSUME LeakFreezesFlags, [Next]_vars PROVE LeakFreezesFlags'
<1> USE DEF LeakFreezesFlags
<1>1. CASE ProcessEnds
  BY <1>1 DEF ProcessEnds
<1>2. CASE UNCHANGED <<leaked, sender_flags>>
  BY <1>2
<1>3. CASE RemoveDevice \/ SendersFull \/ \E t \in Threads : StartSender(t)
  BY <1>3 DEF RemoveDevice, SendersFull, StartSender
<1>4. ProcessEnds \/ UNCHANGED <<leaked, sender_flags>> \/ RemoveDevice \/ SendersFull
        \/ \E t \in Threads : StartSender(t)
  BY DEF Next, vars, senderVars, RunCtl, CtlConnects, CtlDies, AcceptCtl, StreamEnds,
     AcceptStream, AcceptFails, MainStep, Greet, CtlUnknown, TakeCommand, TakeGarbage,
     GreetStream, StreamUnknown, NextSlot, StartListener, ListenersFull, ListDevices,
     Connected, ConnectFails, SenderTurn, SendInputEvent, CheckFlag, SendBlocks,
     SendReturns, ScriptEnds, Sigpipe, GoTo, ListenerEnds, LastThreadEnds
<1> QED
  BY <1>1, <1>2, <1>3, <1>4

\* Once add_device left sender_mutex locked, every slot stays taken: no RM_DEVICE
\* and no ADD_DEVICE gets past the mutex to change one.
THEOREM LeakIsForever == Spec => []LeakFreezesFlags
<1>1. Init => LeakFreezesFlags
  BY DEF Init, LeakFreezesFlags
<1> QED
  BY <1>1, LeakStep, PTL DEF Spec
=============================================================================
