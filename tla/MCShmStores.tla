---------------------------- MODULE MCShmStores ----------------------------
(***************************************************************************)
(* Instances of ShmStores for TLC.                                         *)
(***************************************************************************)
EXTENDS ShmStores

MCAllPerms == {{"READ", "WRITE", "FREE", "RESIZE"}}

\* An object can lose WRITE, FREE and RESIZE for good.
MCNewPerms == {{"READ"}}
=============================================================================
