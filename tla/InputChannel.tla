---------------------------- MODULE InputChannel ----------------------------
(***************************************************************************)
(* What a user expects of one input stream: every device of the sending    *)
(* computer has a copy on the receiving one, and what happens at the copy  *)
(* is what happened at the device, in that order, without gaps, additions  *)
(* or events of another device.  Events of a device are numbered from 1.   *)
(* How far the copies lag behind, also after a stop, is left open.         *)
(***************************************************************************)
EXTENDS Naturals, Sequences

CONSTANTS Devs    \* the devices of the stream

VARIABLES
  produced,   \* how many events each device produced
  copied      \* the events each copy repeated

vars == <<produced, copied>>

Init ==
  /\ produced = [d \in Devs |-> 0]
  /\ copied = [d \in Devs |-> <<>>]

Produce(d) ==
  /\ produced' = [produced EXCEPT ![d] = @ + 1]
  /\ UNCHANGED copied

Copy(d) ==
  /\ Len(copied[d]) < produced[d]
  /\ copied' = [copied EXCEPT ![d] = Append(@, Len(@) + 1)]
  /\ UNCHANGED produced

Next == \E d \in Devs : Produce(d) \/ Copy(d)

Spec == Init /\ [][Next]_vars
=============================================================================
