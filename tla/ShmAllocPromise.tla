-------------------------- MODULE ShmAllocPromise --------------------------
(***************************************************************************)
(* How the allocator keeps the promise of its interface: the directory,    *)
(* seen as a table of objects, behaves as ShmObjects says.                 *)
(***************************************************************************)
EXTENDS ShmAlloc

\* The object table that a directory represents.
Objects(d) ==
    [id \in {d[i].id : i \in {j \in Slots : d[j].alive = 1}} |->
        LET e == d[dir_find_by_id(d, id)]
        IN  [name |-> e.name, owner |-> e.owner, perms |-> e.perms,
             size |-> e.used_size]]

Promise == INSTANCE ShmObjects WITH objs <- Objects(dir)

\* What the interface does not provide for and shm_resize does: it brings the
\* calling process down, and the table stays as it is (see ResizeReturns).
Dies == Promise!Refuse(CRASH)

\* The allocator implements the interface until it brings its caller down:
\* seen through the directory, every call that returns is one step of the
\* object table, and a call that is refused for want of a slot is refused
\* when every slot is taken.
ImplementsPromise == Promise!Init /\ [][Promise!Next \/ Dies]_(Promise!vars)

\* The same, call by call and caller by caller: whatever shm_alloc, shm_free,
\* shm_resize and shm_block_set_perms do for one caller, the interface allows
\* for that very caller and object, though shm_block_set_perms consults only
\* the copy of owner and permissions in the block header.  Only shm_resize
\* may bring its caller down instead, when that caller may resize.
EveryCallKept ==
    [][/\ \A n \in PayloadSizes, name \in Names, u \in Users, p \in ObjPerms :
              shm_alloc(n, name, u, p) => Promise!Alloc(n, Trunc(name), u, p)
       /\ \A id \in 0 .. MaxId, u \in Users, cp \in CallerPerms :
              /\ shm_free(id, u, cp) => Promise!FreeObj(id, u, cp)
              /\ \A n \in PayloadSizes :
                    shm_resize(id, n, u, cp) =>
                       \/ Promise!Resize(id, n, u, cp)
                       \/ Dies /\ Promise!Verdict(id, u, cp, "RESIZE") = "OK"
       /\ \A i \in LiveSlots, u \in Users, cp \in CallerPerms, p \in ObjPerms :
              shm_block_set_perms(dir[i].off, u, cp, p) =>
                 Promise!SetPerms(dir[i].id, u, cp, p)]_vars
=============================================================================
