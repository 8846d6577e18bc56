-------------------------- MODULE MCSenderControl --------------------------
(***************************************************************************)
(* SenderControl for TLC: sender ids are interchangeable in the safety     *)
(* runs, where nothing tells one from another.                             *)
(***************************************************************************)
EXTENDS SenderControl, TLC

SenderSymmetry == Permutations(Senders)
=============================================================================
