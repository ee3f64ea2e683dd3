------------------------------ MODULE MCShmCap ------------------------------
(***************************************************************************)
(* Instances of ShmCap for TLC.                                            *)
(***************************************************************************)
EXTENDS ShmCap

MCObjPerms == {{"READ", "WRITE", "FREE", "RESIZE"}, {"WRITE", "FREE", "RESIZE"}}
MCCallerPerms == {{"READ", "WRITE", "FREE", "RESIZE"}}
MCGrantPerms == {{"READ", "WRITE"}, {"WRITE"}, {"WRITE", "ADMIN"}}
MCTrunc(n) == n
=============================================================================
