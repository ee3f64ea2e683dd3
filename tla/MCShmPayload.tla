---------------------------- MODULE MCShmPayload ----------------------------
(***************************************************************************)
(* Instances of ShmPayload for TLC, with the reference definitions of the  *)
(* heap.                                                                   *)
(***************************************************************************)
EXTENDS ShmPayload, ShmAllocWalk

\* One owner that may do everything.
MCAllPerms == {{"READ", "WRITE", "FREE", "RESIZE"}}
MCTrunc(n) == n
=============================================================================
