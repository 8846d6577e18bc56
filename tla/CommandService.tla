--------------------------- MODULE CommandService ---------------------------
(***************************************************************************)
(* What the command half of the ioswitch daemon promises to ioswitchctl:   *)
(* one command is served at a time, and serving it changes the daemon's    *)
(* `sending' flag exactly as the command's name says -- START turns it on, *)
(* STOP off, SWITCH flips it once, RELOAD turns it off and on again, KILL  *)
(* turns it off and ends the daemon.  SenderControl implements this        *)
(* interface with a mutex, a flag and detached threads.                    *)
(***************************************************************************)

CONSTANTS
  Served,     \* the commands clients submit
  NoRequest   \* no command is being served

VARIABLES
  request,    \* the command being served, or NoRequest
  flag,       \* is the daemon meant to be sending?
  up          \* is the daemon serving commands?

vars == <<request, flag, up>>

Init ==
  /\ request = NoRequest
  /\ flag = FALSE
  /\ up = TRUE

Submit(c) ==
  /\ up
  /\ request = NoRequest
  /\ request' = c
  /\ UNCHANGED <<flag, up>>

Start ==
  /\ request = "START"
  /\ flag' = TRUE
  /\ request' = NoRequest
  /\ UNCHANGED up

Stop ==
  /\ request = "STOP"
  /\ flag' = FALSE
  /\ request' = NoRequest
  /\ UNCHANGED up

Switch ==
  /\ request = "SWITCH"
  /\ flag' = ~flag
  /\ request' = NoRequest
  /\ UNCHANGED up

\* The stop of a reload; its start is still to be served.
Reload ==
  /\ request = "RELOAD"
  /\ flag' = FALSE
  /\ request' = "START"
  /\ UNCHANGED up

Kill ==
  /\ request = "KILL"
  /\ flag' = FALSE
  /\ request' = NoRequest
  /\ up' = FALSE

Perform == Start \/ Stop \/ Switch \/ Reload \/ Kill

\* The process ends in the middle of anything; nobody answers the request.
Crash ==
  /\ up' = FALSE
  /\ request' = NoRequest
  /\ UNCHANGED flag

Next == (\E c \in Served : Submit(c)) \/ Perform \/ Crash

Spec == Init /\ [][Next]_vars

\* A submitted command is eventually served.
FairSpec == Spec /\ WF_vars(Perform)
=============================================================================
