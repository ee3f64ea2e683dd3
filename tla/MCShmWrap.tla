----------------------------- MODULE MCShmWrap -----------------------------
(***************************************************************************)
(* Instances of ShmWrap for TLC.                                           *)
(***************************************************************************)
EXTENDS ShmWrap

RWFR == {"READ", "WRITE", "FREE", "RESIZE"}

\* Objects that can be constructed and not freed, or not even constructed.
MCObjPerms == {RWFR, {"READ", "WRITE"}, {"READ", "FREE"}}
MCCallerPerms == {RWFR}
MCTrunc(n) == n
=============================================================================
