---------------------------- MODULE StreamService ----------------------------
(***************************************************************************)
(* What a daemon promises the senders of input streams: a stream that was  *)
(* offered is served until its sender is gone, unless the daemon took as   *)
(* many since it started as it may; it is ignored only when its sender is  *)
(* already gone.  How the daemon learns of streams and ends, and when it   *)
(* gets to them, is left open.                                             *)
(***************************************************************************)
EXTENDS Naturals

CONSTANTS
  Streams,
  Limit      \* the streams served in one run of the daemon, ended ones included

VARIABLES
  up,        \* does the daemon run?
  taken,     \* the streams it took since it started
  state,     \* what became of each stream
  gone       \* the streams whose sender is gone

vars == <<up, taken, state, gone>>

Init ==
  /\ up = TRUE
  /\ taken = 0
  /\ state = [s \in Streams |-> "new"]
  /\ gone = {}

Becomes(s, label) == state' = [state EXCEPT ![s] = label]

Offer(s) ==
  /\ up = TRUE
  /\ state[s] = "new"
  /\ Becomes(s, "offered")
  /\ UNCHANGED <<up, taken, gone>>

\* The senders that one daemon had.
Leave(left) ==
  /\ \A s \in left : state[s] # "new"
  /\ gone' = gone \cup left
  /\ UNCHANGED <<up, taken, state>>

Serve(s) ==
  /\ up = TRUE
  /\ state[s] = "offered"
  /\ taken < Limit
  /\ Becomes(s, "served")
  /\ taken' = taken + 1
  /\ UNCHANGED <<up, gone>>

Refuse(s) ==
  /\ up = TRUE
  /\ state[s] = "offered"
  /\ taken >= Limit
  /\ Becomes(s, "refused")
  /\ UNCHANGED <<up, taken, gone>>

Ignore(s) ==
  /\ up = TRUE
  /\ state[s] = "offered"
  /\ s \in gone
  /\ Becomes(s, "ignored")
  /\ UNCHANGED <<up, taken, gone>>

\* The end of a stream that was served.
Finish(s) ==
  /\ state[s] = "served"
  /\ s \in gone
  /\ Becomes(s, "over")
  /\ UNCHANGED <<up, taken, gone>>

\* The daemon ends, and with it whatever it was doing for a stream.
Stop ==
  /\ up = TRUE
  /\ up' = FALSE
  /\ state' = [s \in Streams |-> IF state[s] = "new" THEN "new" ELSE "over"]
  /\ UNCHANGED <<taken, gone>>

Restart ==
  /\ up = FALSE
  /\ up' = TRUE
  /\ taken' = 0
  /\ UNCHANGED <<state, gone>>

Next ==
  \/ \E s \in Streams :
       Offer(s) \/ Serve(s) \/ Refuse(s) \/ Ignore(s) \/ Finish(s)
  \/ \E left \in SUBSET Streams : Leave(left)
  \/ Stop \/ Restart

Spec == Init /\ [][Next]_vars
=============================================================================
