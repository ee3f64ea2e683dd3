----------------------------- MODULE ShmObjects -----------------------------
(***************************************************************************)
(* What include/shm_alloc.h promises to callers, without any heap: a       *)
(* region is a table of objects under ids that are never reused, and each  *)
(* call changes at most the one object it names, if the caller may.        *)
(***************************************************************************)
EXTENDS Naturals, FiniteSets

CONSTANTS
    DirCap,         \* how many objects the directory can hold
    PayloadSizes,   \* sizes that callers ask for
    Users,          \* caller and owner ids
    ObjPerms,       \* permission words given to objects
    CallerPerms,    \* permission words that callers present
    StoredNames,    \* names that objects can have
    MaxId           \* no object has an id above this one

VARIABLES
    objs,       \* the live objects, by id
    next_id,    \* the id the next object gets
    ret         \* what the last call returned

vars == <<objs, next_id, ret>>

\* A caller may act on o: it holds ADMIN, or it owns o and both o and the
\* caller's own permission word carry the permission.
May(o, user, caller_perms, perm) ==
    \/ "ADMIN" \in caller_perms
    \/ user = o.owner /\ perm \in o.perms /\ perm \in caller_perms

Init == objs = [id \in {} |-> {}] /\ next_id = 1 /\ ret = "OK"

\* A refused call changes nothing.
Refuse(errno) == ret' = errno /\ UNCHANGED <<objs, next_id>>

Full == Cardinality(DOMAIN objs) = DirCap

\* Why a call about object id is refused, or "OK".
Verdict(id, user, caller_perms, perm) ==
    CASE id = 0 -> "EINVAL"
      [] id # 0 /\ id \notin DOMAIN objs -> "ENOENT"
      [] id \in DOMAIN objs /\ ~May(objs[id], user, caller_perms, perm) -> "EACCES"
      [] OTHER -> "OK"

\* A new object, visible to everyone from this step on.
Alloc(n, name, user, perms) ==
    \/ n = 0 /\ Refuse("EINVAL")
    \/ n # 0 /\ Full /\ Refuse("ENOSPC")
    \/ n # 0 /\ ~Full /\ Refuse("ENOMEM")
    \/ /\ n # 0 /\ ~Full
       /\ objs' = [id \in DOMAIN objs \cup {next_id} |->
                       IF id = next_id
                       THEN [name |-> name, owner |-> user, perms |-> perms, size |-> n]
                       ELSE objs[id]]
       /\ next_id' = next_id + 1
       /\ ret' = "OK"

FreeObj(id, user, caller_perms) ==
    LET v == Verdict(id, user, caller_perms, "FREE")
    IN  \/ v # "OK" /\ Refuse(v)
        \/ /\ v = "OK"
           /\ objs' = [k \in DOMAIN objs \ {id} |-> objs[k]]
           /\ ret' = "OK"
           /\ UNCHANGED next_id

Resize(id, n, user, caller_perms) ==
    LET v == IF n = 0 THEN "EINVAL"
             ELSE Verdict(id, user, caller_perms, "RESIZE")
    IN  \/ v # "OK" /\ Refuse(v)
        \/ v = "OK" /\ Refuse("ENOMEM")
        \/ /\ v = "OK"
           /\ objs' = [objs EXCEPT ![id].size = n]
           /\ ret' = "OK"
           /\ UNCHANGED next_id

SetPerms(id, user, caller_perms, perms) ==
    LET v == Verdict(id, user, caller_perms, "WRITE")
    IN  \/ v # "OK" /\ Refuse(v)
        \/ /\ v = "OK"
           /\ objs' = [objs EXCEPT ![id].perms = perms]
           /\ ret' = "OK"
           /\ UNCHANGED next_id

\* SetPerms names an object by its offset: one where no object is, is refused.
NoObjectThere == Refuse("EINVAL")

Next ==
    \/ NoObjectThere
    \/ \E n \in PayloadSizes, name \in StoredNames, u \in Users, p \in ObjPerms :
          Alloc(n, name, u, p)
    \/ \E id \in 0 .. MaxId, u \in Users, cp \in CallerPerms :
          \/ FreeObj(id, u, cp)
          \/ \E n \in PayloadSizes : Resize(id, n, u, cp)
          \/ \E p \in ObjPerms : id \in DOMAIN objs /\ SetPerms(id, u, cp, p)

Spec == Init /\ [][Next]_vars
=============================================================================
