------------------------------ MODULE ShmWrap ------------------------------
(***************************************************************************)
(* The C++ wrappers of src/include/shm_alloc.hpp over the allocator.       *)
(* shm::make and shm::free are several C calls, and no lock is held        *)
(* between them: other processes come in between.  A process resolves a    *)
(* handle to an address with shm_ptr and runs a constructor or destructor  *)
(* there afterwards.  Every user is one process; T is not trivially        *)
(* destructible.                                                           *)
(***************************************************************************)
EXTENDS ShmAlloc

VARIABLES
    proc,       \* where each process is, and its handle, a shm::ptr<T>
    built,      \* the objects whose constructor has run and destructor not
    zombies     \* objects that a shm::free has destroyed and failed to free

wvars == <<vars, proc, built, zombies>>

Proc == [pc: {"idle", "construct", "ctor", "dtor", "info", "free"},
         off: Nat, perms: SUBSET Perm, id: Nat]

NullHandle == [pc |-> "idle", off |-> 0, perms |-> {}, id |-> 0]

WrapInit ==
    /\ Init
    /\ proc = [p \in Users |-> NullHandle]
    /\ built = {}
    /\ zombies = {}

Goto(p, pc) == proc' = [proc EXCEPT ![p].pc = pc]

\* Nothing changes but the place and the handle of a process.
Local == UNCHANGED <<vars, built, zombies>>

\* get_mut returns a pointer, not nullptr.
get_mut(p) == shm_ptr(proc[p].off, p, proc[p].perms, {"READ", "WRITE"})

\* The object whose block is at p's handle.
ObjAt(p) == heap.blk[shm_blk_of_poff(proc[p].off)].obj_id

-----------------------------------------------------------------------------
\* shm::make: alloc<T>, which fills in the handle, then construct.
MakeAlloc(p, size, name, perms) ==
    /\ proc[p].pc = "idle"
    /\ shm_alloc(size, name, p, perms)
    /\ LET off == dir'[dir_find_free_slot(dir)].off
       IN  proc' = IF dir' = dir THEN proc
                   ELSE [proc EXCEPT ![p] = [pc |-> "construct", off |-> off,
                                             perms |-> perms, id |-> 0]]
    /\ UNCHANGED <<built, zombies>>

\* Seeded fault: the constructor is never run.
MakeConstruct_Returns(p) ==
    /\ ~Crashed
    /\ proc[p].pc = "construct"
    /\ Goto(p, "idle")
    /\ Local

MakeConstruct(p) ==
    /\ ~Crashed
    /\ proc[p].pc = "construct"
    /\ Goto(p, IF get_mut(p) THEN "ctor" ELSE "idle")
    /\ Local

RunConstructor(p) ==
    /\ ~Crashed
    /\ proc[p].pc = "ctor"
    /\ built' = built \cup {ObjAt(p)}
    /\ Goto(p, "idle")
    /\ UNCHANGED <<vars, zombies>>

\* shm::free: destroy, which resolves the handle and runs ~T(), then
\* shm_block_info for the object's id, then shm_free of that id.
FreeBegins(p, caller_perms) ==
    /\ ~Crashed
    /\ proc[p].pc = "idle"
    /\ shm_ptr(proc[p].off, p, caller_perms, {"READ", "WRITE"})
    /\ proc' = [proc EXCEPT ![p].pc = "dtor", ![p].perms = caller_perms]
    /\ Local

\* Seeded fault: the destructor is left out.
RunDestructor_Skipped(p) ==
    /\ ~Crashed
    /\ proc[p].pc = "dtor"
    /\ Goto(p, "info")
    /\ Local

RunDestructor(p) ==
    /\ ~Crashed
    /\ proc[p].pc = "dtor"
    /\ built' = built \ {ObjAt(p)}
    /\ Goto(p, "info")
    /\ UNCHANGED <<vars, zombies>>

\* Seeded fault: the id of the block at the start of the heap is taken.
shm_block_info_FirstBlock(off) == heap.blk[0].obj_id

\* The obj_id that shm_block_info reads, 0 where there is no header.
shm_block_info(off) ==
    LET b == shm_blk_of_poff(off)
    IN  IF b \in DOMAIN heap.blk THEN heap.blk[b].obj_id ELSE 0

FreeInfo(p) ==
    /\ ~Crashed
    /\ proc[p].pc = "info"
    /\ LET id == shm_block_info(proc[p].off)
       IN  proc' = [proc EXCEPT ![p].pc = IF id = 0 THEN "idle" ELSE "free",
                                ![p].id = id]
    /\ Local

\* The handle keeps its offset: nothing resets it.
FreeCall(p) ==
    /\ proc[p].pc = "free"
    /\ shm_free(proc[p].id, p, proc[p].perms)
    /\ zombies' = IF ret' = "OK" THEN zombies ELSE zombies \cup {proc[p].id}
    /\ proc' = [proc EXCEPT ![p].pc = "idle", ![p].id = 0]
    /\ UNCHANGED built

\* shm::find and shm::find_by_name: a handle to an object, perhaps another's.
Find(p, r) ==
    /\ ~Crashed
    /\ proc[p].pc = "idle"
    /\ r.err = "OK"
    /\ proc' = [proc EXCEPT ![p].off = r.off]
    /\ Local

\* The C call, for which there is no wrapper: handles may be left behind.
Resize(p, id, size, caller_perms) ==
    /\ proc[p].pc = "idle"
    /\ shm_resize(id, size, p, caller_perms)
    /\ UNCHANGED <<proc, built, zombies>>

WrapNext ==
    \/ \E p \in Users, n \in PayloadSizes, name \in Names, perms \in ObjPerms :
          MakeAlloc(p, n, name, perms)
    \/ \E p \in Users :
          \/ MakeConstruct(p) \/ RunConstructor(p)
          \/ RunDestructor(p) \/ FreeInfo(p) \/ FreeCall(p)
    \/ \E p \in Users, cp \in CallerPerms :
          \/ FreeBegins(p, cp)
          \/ \E id \in 1 .. MaxId :
                \/ Find(p, shm_lookup(id, p, cp))
                \/ \E n \in PayloadSizes : Resize(p, id, n, cp)
          \/ \E name \in Names : Find(p, shm_lookup_by_name(name, p, cp))
    \/ Stopped /\ UNCHANGED <<proc, built, zombies>>

WrapSpec == WrapInit /\ [][WrapNext]_wvars

-----------------------------------------------------------------------------
\* The wrappers' state keeps its types; only ids that were issued are built.
WrapTypeOK ==
    /\ TypeOK
    /\ proc \in [Users -> Proc]
    /\ built \cup zombies \subseteq 1 .. next_id - 1

Own(p) == LET b == shm_blk_of_poff(proc[p].off)
          IN  /\ b \in DOMAIN heap.blk
              /\ heap.blk[b].allocated = 1
              /\ heap.blk[b].owner = p

\* From the moment shm_ptr has accepted a handle in construct or destroy
\* until shm_free is called, the block at the handle stays the caller's own
\* live block, whatever the other users, each one process and none with
\* ADMIN, do in between: constructor and destructor never run in memory that
\* has meanwhile gone to someone else, and the id that shm_block_info reads
\* without the lock is the one of the object that was destroyed.
ResolvedStaysOwn ==
    ~Crashed =>
        \A p \in Users :
            /\ proc[p].pc \in {"ctor", "dtor", "info", "free"} => Own(p)
            /\ proc[p].pc = "free" => ObjAt(p) = proc[p].id

\* "so RAII is honoured" (shm_alloc.hpp:265): an object that has been
\* constructed exists until its destructor has run.
RaiiHonoured ==
    ~Crashed => built \subseteq {dir[i].id : i \in LiveSlots}

\* A destructor runs on a constructed object, once, unless an earlier
\* shm::free of the object ran it and was then refused by shm_free, which
\* checks FREE only after ~T().
DestroyedOnce ==
    ~Crashed =>
        \A p \in Users : proc[p].pc = "dtor" => ObjAt(p) \in built \cup zombies
=============================================================================
