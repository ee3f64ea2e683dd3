----------------------------- MODULE MCShmAlloc -----------------------------
(***************************************************************************)
(* Instances of ShmAlloc for TLC, with its reference definitions and the   *)
(* specification that it implements.                                       *)
(***************************************************************************)
EXTENDS ShmAllocWalk, ShmAllocPromise

RWFR == {"READ", "WRITE", "FREE", "RESIZE"}

\* Resize run: one owner that may do everything.
MCAllPerms == {RWFR}
MCTrunc(n) == n

\* Directory run: an object can lose WRITE, RESIZE and FREE; a caller can be
\* an administrator.  One name is found as it was given, one is longer than
\* 47 characters and stored as something else.
MCObjPerms == {RWFR, {"READ"}}
MCCallerPerms == {RWFR, {"ADMIN"}}
MCTruncLong(n) == IF n = "long1" THEN "long" ELSE n
=============================================================================
