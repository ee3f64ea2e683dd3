---------------------------- MODULE MCShmRegion ----------------------------
(***************************************************************************)
(* Instances of ShmRegion for TLC.                                         *)
(***************************************************************************)
EXTENDS ShmRegion

\* Processes 1 and 2 share a namespace, 3 is in another one.
MCFingerprint(p, k) == IF p = 3 THEN 2 ELSE 1
=============================================================================
