------------------------------- MODULE ShmCap -------------------------------
(***************************************************************************)
(* Capabilities, src/src/shm_cap.c, on top of the allocator: fat pointers  *)
(* that any process may keep, copy and use long after they were derived.   *)
(* Each check reads the block header that is at the capability's address   *)
(* now.  A derivation that is refused returns SHM_CAP_NULL and changes     *)
(* nothing, so it is no step here.                                         *)
(***************************************************************************)
EXTENDS ShmAlloc, FiniteSets

CONSTANTS
    GrantPerms, \* permission words asked for in derive and narrow
    EpochMod,   \* 2^16 in the code: the epoch keeps obj_id modulo this
    BoundMod,   \* 2^32 in the code: bounds keeps payload_cap below this
    MaxCaps     \* bound: how many capabilities are outstanding

ASSUME CapAssumption ==
    /\ GrantPerms \subseteq SUBSET Perm
    /\ EpochMod \in Nat \ {0}
    /\ BoundMod \in Nat \ {0}
    /\ MaxCaps \in Nat

VARIABLE caps   \* the capabilities derived so far

capVars == <<heap, dir, next_id, ret, caps>>

\* addr, perms, epoch and bounds are the packed words.  obj is the object a
\* capability was derived from and avail what could be granted then: they
\* are not stored, the properties speak of them.
Cap == [addr: Nat, perms: SUBSET Perm, epoch: Nat, bounds: Nat,
        obj: Nat, avail: SUBSET Perm]

CapInit == Init /\ caps = {}

\* The allocator takes a step.
AllocatorStep == Next /\ UNCHANGED caps

CanDerive(off, user, caller_perms, grant) ==
    LET b == shm_blk_of_poff(off)
    IN  /\ b \in DOMAIN heap.blk
        /\ heap.blk[b].allocated = 1
        /\ "ADMIN" \in caller_perms \/ user = heap.blk[b].owner
        /\ grant \subseteq heap.blk[b].perms \cap caller_perms
        /\ heap.blk[b].payload_cap < BoundMod

shm_cap_derive(off, user, caller_perms, grant) ==
    /\ ~Crashed
    /\ Cardinality(caps) < MaxCaps
    /\ CanDerive(off, user, caller_perms, grant)
    /\ LET b == heap.blk[shm_blk_of_poff(off)]
       IN  caps' = caps \cup
             {[addr |-> off, perms |-> grant, epoch |-> b.obj_id % EpochMod,
               bounds |-> b.payload_cap, obj |-> b.obj_id,
               avail |-> b.perms \cap caller_perms]}
    /\ UNCHANGED vars

\* Seeded fault: widening is not refused.
shm_cap_narrow_Widens(c, new_perms) ==
    /\ ~Crashed
    /\ Cardinality(caps) < MaxCaps
    /\ caps' = caps \cup {[c EXCEPT !.perms = new_perms]}
    /\ UNCHANGED vars

\* A new capability beside c, with no permission that c does not have.
shm_cap_narrow(c, new_perms) ==
    /\ ~Crashed
    /\ Cardinality(caps) < MaxCaps
    /\ new_perms \subseteq c.perms
    /\ caps' = caps \cup {[c EXCEPT !.perms = new_perms]}
    /\ UNCHANGED vars

CapNext ==
    \/ AllocatorStep
    \/ \E off \in PayloadOffsets, u \in Users, cp \in CallerPerms,
          grant \in GrantPerms :
          shm_cap_derive(off, u, cp, grant)
    \/ \E c \in caps, p \in GrantPerms :
          shm_cap_narrow(c, p)

CapSpec == CapInit /\ [][CapNext]_capVars

-----------------------------------------------------------------------------
(***************************************************************************)
(* Checks made when a capability is used.                                  *)
(***************************************************************************)
\* Seeded fault: the epoch is not compared.
shm_cap_is_valid_NoEpoch(c) ==
    LET b == shm_blk_of_poff(c.addr)
    IN  /\ b \in DOMAIN heap.blk
        /\ heap.blk[b].allocated = 1
        /\ heap.blk[b].payload_cap % BoundMod = c.bounds

shm_cap_is_valid(c) ==
    LET b == shm_blk_of_poff(c.addr)
    IN  /\ b \in DOMAIN heap.blk
        /\ heap.blk[b].allocated = 1
        /\ heap.blk[b].obj_id % EpochMod = c.epoch
        /\ heap.blk[b].payload_cap % BoundMod = c.bounds

\* shm_cap_deref returns a pointer, not NULL.
shm_cap_deref(c, required) ==
    /\ shm_cap_is_valid(c)
    /\ required \subseteq c.perms
    /\ required \subseteq heap.blk[shm_blk_of_poff(c.addr)].perms

-----------------------------------------------------------------------------
(***************************************************************************)
(* Properties.                                                             *)
(***************************************************************************)
\* The allocator's types, and those of the capability words.
CapTypeOK == TypeOK /\ caps \subseteq Cap

\* Whatever happened since a capability was derived (frees, new objects at
\* the same offset, resizes, relocations, changes of permissions), when
\* shm_cap_deref accepts it, the object it was derived from is still live,
\* still where the capability points, still grants what is asked, and the
\* bounds the holder was given lie inside that object's block.
DerefSound ==
    ~Crashed =>
        \A c \in caps, required \in GrantPerms \cup {{}} :
            shm_cap_deref(c, required) =>
                \E i \in LiveSlots :
                    /\ dir[i].id = c.obj
                    /\ dir[i].off = c.addr
                    /\ required \subseteq dir[i].perms
                    /\ c.addr + c.bounds <= End(heap, BlockOf(i))

\* However often it is narrowed, a capability carries only permissions
\* that both the block and the caller had when it was first derived.
CapsNeverWiden == \A c \in caps : c.perms \subseteq c.avail
=============================================================================
