------------------------------ MODULE ShmAlloc ------------------------------
(***************************************************************************)
(* The allocator of src/src/shm_alloc.c: a first-fit heap with an          *)
(* address-ordered, coalescing free list threaded through block headers,   *)
(* and the object directory that names the allocated blocks.               *)
(*                                                                         *)
(* Every operation modelled here runs from region_lock to region_unlock,   *)
(* so it is one step, taken by whichever attached process holds the mutex. *)
(* Offsets are heap-relative ("hoff" of shm_internal.h): the heap starts   *)
(* at 0 and is HeapSize bytes long.  Sizes are the real ones.              *)
(***************************************************************************)
EXTENDS Integers

CONSTANTS
    HeapSize,       \* shm_heap_size: bytes after the header and directory
    DirCap,         \* dir_capacity: number of directory slots
    PayloadSizes,   \* sizes that callers ask for
    Users,          \* caller and owner ids
    ObjPerms,       \* permission words given to objects
    CallerPerms,    \* permission words that callers present
    Names,          \* names that callers pass
    Trunc(_),       \* what strncpy(slot->name, name, DIR_NAME_MAX - 1) keeps
    MaxId           \* bound: no object gets an id above this one

Perm == {"READ", "WRITE", "FREE", "RESIZE", "ADMIN"}

HDR == 56                       \* sizeof(shm_block_hdr_t)
HEAP_ALIGN == 8
BLOCK_MIN == HDR + HEAP_ALIGN

ASSUME HeapAssumption == HeapSize \in Nat /\ HeapSize >= BLOCK_MIN
ASSUME DirAssumption == DirCap \in Nat
ASSUME InputAssumption ==
    /\ PayloadSizes \subseteq Nat
    /\ Users \subseteq Nat
    /\ ObjPerms \subseteq SUBSET Perm
    /\ CallerPerms \subseteq SUBSET Perm
    /\ Trunc("") = ""
    /\ MaxId \in Nat

VARIABLES
    heap,       \* block headers, free_list, used_bytes and block_count
    dir,        \* the object directory
    next_id,    \* the next object id
    ret         \* what the last call returned

vars == <<heap, dir, next_id, ret>>

-----------------------------------------------------------------------------
(***************************************************************************)
(* Types.  heap.blk maps the offset of every header whose magic is valid   *)
(* to that header; poisoning a header (magic = 0) removes its offset.      *)
(***************************************************************************)
BlockHdr == [allocated: {0, 1}, obj_id: Nat, owner: Nat, perms: SUBSET Perm,
             payload_cap: Nat, total_size: Nat, next_free: Nat]

StoredNames == {Trunc(n) : n \in Names} \cup {""}

Slot == [id: Nat, name: StoredNames, off: Nat, capacity: Nat, used_size: Nat,
         owner: Nat, perms: SUBSET Perm, alive: {0, 1}]

Slots == 0 .. DirCap - 1

Errno == {"OK", "EINVAL", "ENOSPC", "ENOMEM", "ENOENT", "EACCES"}

\* A call that never returned: the process died inside it.
CRASH == "SIGSEGV"

\* Seeded fault: the header is counted twice.
FreeHdr_HdrTwice(size, nxt) ==
    [allocated |-> 0, obj_id |-> 0, owner |-> 0, perms |-> {},
     payload_cap |-> size - HDR - HDR, total_size |-> size, next_free |-> nxt]

FreeHdr(size, nxt) ==
    [allocated |-> 0, obj_id |-> 0, owner |-> 0, perms |-> {},
     payload_cap |-> size - HDR, total_size |-> size, next_free |-> nxt]

EmptySlot == [id |-> 0, name |-> "", off |-> 0, capacity |-> 0,
              used_size |-> 0, owner |-> 0, perms |-> {}, alive |-> 0]

shm_align_up(n) == ((n + HEAP_ALIGN - 1) \div HEAP_ALIGN) * HEAP_ALIGN

NeedTotal(payload_size) == shm_align_up(HDR + payload_size)

shm_blk_of_poff(off) == off - HDR
shm_poff_of_blk(b) == b + HDR

-----------------------------------------------------------------------------
(***************************************************************************)
(* Permission checks.                                                      *)
(***************************************************************************)
\* The part that both checks share: e is a block header or a directory slot.
Access(e, caller, caller_perms, required) ==
    IF \/ "ADMIN" \in caller_perms
       \/ /\ caller = e.owner
          /\ required \subseteq e.perms
          /\ required \subseteq caller_perms
    THEN "OK"
    ELSE "EACCES"

\* Seeded fault: what the block itself grants is not looked at.
check_block_access_NoGrant(h, b, caller, caller_perms, required) ==
    IF b \in DOMAIN h.blk /\ h.blk[b].allocated = 1
    THEN Access([h.blk[b] EXCEPT !.perms = Perm], caller, caller_perms, required)
    ELSE "EINVAL"

check_block_access(h, b, caller, caller_perms, required) ==
    IF b \in DOMAIN h.blk /\ h.blk[b].allocated = 1
    THEN Access(h.blk[b], caller, caller_perms, required)
    ELSE "EINVAL"

\* Seeded fault: the owner is not compared.
check_dir_access_AnyOwner(e, caller, caller_perms, required) ==
    IF e.alive = 1 /\ e.id # 0
    THEN Access(e, e.owner, caller_perms, required)
    ELSE "ENOENT"

check_dir_access(e, caller, caller_perms, required) ==
    IF e.alive = 1 /\ e.id # 0
    THEN Access(e, caller, caller_perms, required)
    ELSE "ENOENT"

-----------------------------------------------------------------------------
(***************************************************************************)
(* The free list.  A link is an offset plus one, 0 ends the list; Head     *)
(* stands for the place where the list starts, rh->free_list.              *)
(***************************************************************************)
Head == -1
shm_link_enc(o) == o + 1
shm_link_dec(lnk) == lnk - 1

Free(h) == {o \in DOMAIN h.blk : h.blk[o].allocated = 0}
End(h, o) == o + h.blk[o].total_size

\* The link stored in list node p: the head of the list or a free block.
Link(h, p) == IF p = Head THEN h.free_list ELSE h.blk[p].next_free

SetLink(h, p, lnk) ==
    IF p = Head THEN [h EXCEPT !.free_list = lnk]
                ELSE [h EXCEPT !.blk[p].next_free = lnk]

\* Where the walk of freelist_insert stops: the last node at or below b.
InsertPrev(h, b) ==
    CHOOSE p \in {Head} \cup (Free(h) \ {b}) :
        /\ p <= b
        /\ Link(h, p) = 0 \/ shm_link_dec(Link(h, p)) > b

\* The node whose link leads to free block b.
PrevOf(h, b) ==
    CHOOSE p \in {Head} \cup Free(h) : Link(h, p) = shm_link_enc(b)

\* Seeded fault: the merged header keeps its magic.
Coalesce_NoPoison(h, a, c) ==
    [h EXCEPT !.blk[a].total_size = @ + h.blk[c].total_size,
              !.blk[a].next_free = h.blk[c].next_free]

\* Block a takes over its free successor c, whose header is poisoned.  Only
\* total_size grows: payload_cap keeps the value a had.
Coalesce(h, a, c) ==
    [h EXCEPT !.blk =
        [o \in DOMAIN h.blk \ {c} |->
            IF o = a
            THEN [h.blk[a] EXCEPT !.total_size = @ + h.blk[c].total_size,
                                  !.next_free = h.blk[c].next_free]
            ELSE h.blk[o]]]

\* b becomes a free block with no owner, linked between p and p's successor.
Splice(h, p, b) ==
    SetLink([h EXCEPT !.blk[b] =
                 [@ EXCEPT !.allocated = 0, !.obj_id = 0, !.owner = 0,
                           !.perms = {}, !.next_free = Link(h, p)]],
            p, shm_link_enc(b))

\* Seeded fault: only the successor is merged.
freelist_insert_ForwardOnly(h, b) ==
    LET prev == InsertPrev(h, b)
        cur  == Link(h, prev)
        h1   == Splice(h, prev, b)
    IN  IF cur # 0 /\ End(h, b) = shm_link_dec(cur)
        THEN Coalesce(h1, b, shm_link_dec(cur))
        ELSE h1

\* Seeded fault: only the predecessor is merged.
freelist_insert_BackwardOnly(h, b) ==
    LET prev == InsertPrev(h, b)
        h1   == Splice(h, prev, b)
    IN  IF prev # Head /\ End(h, prev) = b
        THEN Coalesce(h1, prev, b)
        ELSE h1

freelist_insert(h, b) ==
    LET prev == InsertPrev(h, b)
        cur  == Link(h, prev)
        h1   == Splice(h, prev, b)
        h2   == IF cur # 0 /\ End(h, b) = shm_link_dec(cur)
                THEN Coalesce(h1, b, shm_link_dec(cur))
                ELSE h1
    IN  IF prev # Head /\ End(h, prev) = b
        THEN Coalesce(h2, prev, b)
        ELSE h2

\* Seeded fault: the rest of the list is dropped.
freelist_remove_DropsRest(h, target) ==
    [SetLink(h, PrevOf(h, target), 0) EXCEPT !.blk[target].next_free = 0]

\* A block that is not on the list is left alone.
freelist_remove(h, target) ==
    IF \E p \in {Head} \cup Free(h) : Link(h, p) = shm_link_enc(target)
    THEN [SetLink(h, PrevOf(h, target), Link(h, target))
             EXCEPT !.blk[target].next_free = 0]
    ELSE h

-----------------------------------------------------------------------------
(***************************************************************************)
(* Blocks.                                                                 *)
(***************************************************************************)
\* Cut block b down to n bytes; the rest becomes a free block at b + n with
\* link lnk, which is not on the free list yet.
Carve(h, b, n, lnk) ==
    LET rem == h.blk[b].total_size - n
    IN  [h EXCEPT !.blk =
            [o \in DOMAIN h.blk \cup {b + n} |->
                CASE o = b     -> [h.blk[b] EXCEPT !.total_size = n,
                                                   !.payload_cap = n - HDR]
                  [] o = b + n -> FreeHdr(rem, lnk)
                  [] OTHER     -> h.blk[o]]]

Fits(h, need_total) == {o \in Free(h) : h.blk[o].total_size >= need_total}

\* Seeded fault: the smallest block that fits instead of the first.
FirstFit_Best(h, need_total) ==
    CHOOSE o \in Fits(h, need_total) :
        \A q \in Fits(h, need_total) :
            h.blk[o].total_size <= h.blk[q].total_size

\* The first block on the list that fits; the list is in address order.
FirstFit(h, need_total) ==
    CHOOSE o \in Fits(h, need_total) :
        \A q \in Fits(h, need_total) : o <= q

\* Block b is taken off the list; when at least BLOCK_MIN bytes remain, it is
\* split and the rest takes its place on the list.
Detach(h, b, need_total) ==
    LET prev == PrevOf(h, b)
    IN  IF h.blk[b].total_size - need_total >= BLOCK_MIN
        THEN SetLink(Carve(h, b, need_total, Link(h, b)),
                     prev, shm_link_enc(b + need_total))
        ELSE SetLink(h, prev, Link(h, b))

\* Block b is tagged allocated and counted.
Tag(h, b) ==
    [h EXCEPT !.blk[b] = [@ EXCEPT !.allocated = 1, !.next_free = 0],
              !.used_bytes = @ + h.blk[b].total_size,
              !.block_count = @ + 1]

\* The heap after the first block that fits is allocated: there is one.
heap_alloc_block(h, need_total) ==
    LET b == FirstFit(h, need_total)
    IN  Tag(Detach(h, b, need_total), b)

\* Seeded fault: the label is always written at the start of the heap.
Label_AtStart(h, b, owner, perms, obj_id) ==
    [h EXCEPT !.blk[0] = [@ EXCEPT !.owner = owner, !.perms = perms,
                                   !.obj_id = obj_id]]

\* Block b is labelled with the object it belongs to.
Label(h, b, owner, perms, obj_id) ==
    [h EXCEPT !.blk[b] = [@ EXCEPT !.owner = owner, !.perms = perms,
                                   !.obj_id = obj_id]]

heap_free_block(h, b) ==
    freelist_insert([h EXCEPT !.used_bytes = @ - h.blk[b].total_size,
                              !.block_count = @ - 1], b)

-----------------------------------------------------------------------------
(***************************************************************************)
(* The directory: linear scans from slot 0.                                *)
(***************************************************************************)
Lowest(S) == CHOOSE i \in S : \A j \in S : i <= j

SlotsOfId(d, id) == {i \in Slots : d[i].id = id /\ d[i].alive = 1}
SlotsOfName(d, name) == {i \in Slots : d[i].alive = 1 /\ d[i].name = name}

\* Seeded fault: the scan stops one slot early.
FreeSlots_MissesLast(d) == {i \in Slots \ {DirCap - 1} : d[i].id = 0 \/ d[i].alive = 0}

FreeSlots(d) == {i \in Slots : d[i].id = 0 \/ d[i].alive = 0}

dir_find_by_id(d, id) == Lowest(SlotsOfId(d, id))
dir_find_by_name(d, name) == Lowest(SlotsOfName(d, name))
dir_find_free_slot(d) == Lowest(FreeSlots(d))

\* The directory check that shm_free, shm_resize and shm_lookup begin with.
AccessById(d, id, user, caller_perms, required) ==
    IF id = 0 THEN "EINVAL"
    ELSE IF SlotsOfId(d, id) = {} THEN "ENOENT"
    ELSE check_dir_access(d[dir_find_by_id(d, id)],
                          user, caller_perms, required)

-----------------------------------------------------------------------------
(***************************************************************************)
(* region_init: one free block covers the heap, the directory is zeroed.   *)
(***************************************************************************)
Init ==
    /\ heap = [blk |-> [o \in {0} |-> FreeHdr(HeapSize, 0)],
               free_list |-> shm_link_enc(0),
               used_bytes |-> 0,
               block_count |-> 0]
    /\ dir = [i \in Slots |-> EmptySlot]
    /\ next_id = 1
    /\ ret = "OK"

\* A crash inside shm_resize leaves the region's bytes unspecified: the
\* model stops there.
Crashed == ret = CRASH

\* A call that returns an error leaves the region alone.
Fail(errno) == ret' = errno /\ UNCHANGED <<heap, dir, next_id>>

-----------------------------------------------------------------------------
shm_alloc(payload_size, name, user, perms) ==
    /\ ~Crashed
    /\ LET need_total == NeedTotal(payload_size)
           i == dir_find_free_slot(dir)
           b == FirstFit(heap, need_total)
           h == heap_alloc_block(heap, need_total)
       IN  \/ payload_size = 0 /\ Fail("EINVAL")
           \/ payload_size # 0 /\ FreeSlots(dir) = {} /\ Fail("ENOSPC")
           \/ /\ payload_size # 0
              /\ FreeSlots(dir) # {}
              /\ Fits(heap, need_total) = {}
              /\ Fail("ENOMEM")
           \/ /\ payload_size # 0
              /\ FreeSlots(dir) # {}
              /\ Fits(heap, need_total) # {}
              /\ next_id <= MaxId
              /\ next_id' = next_id + 1
              /\ heap' = Label(h, b, user, perms, next_id)
              /\ dir' = [dir EXCEPT ![i] =
                           [id |-> next_id, name |-> Trunc(name),
                            off |-> shm_poff_of_blk(b),
                            capacity |-> h.blk[b].payload_cap,
                            used_size |-> payload_size,
                            owner |-> user, perms |-> perms, alive |-> 1]]
              /\ ret' = "OK"

shm_free(obj_id, user, caller_perms) ==
    /\ ~Crashed
    /\ LET acc == AccessById(dir, obj_id, user, caller_perms, {"FREE"})
           i   == dir_find_by_id(dir, obj_id)
       IN  \/ acc # "OK" /\ Fail(acc)
           \/ /\ acc = "OK"
              /\ heap' = heap_free_block(heap, shm_blk_of_poff(dir[i].off))
              /\ dir' = [dir EXCEPT ![i] = EmptySlot]
              /\ ret' = "OK"
              /\ UNCHANGED next_id

-----------------------------------------------------------------------------
(***************************************************************************)
(* shm_resize: its three ways of changing the heap, then the operation.    *)
(***************************************************************************)
\* Seeded fault: nothing is given back.
Shrink_Keeps(h, b, new_total) == h

\* Give the tail of b back, unless too little is left for a block.
Shrink(h, b, new_total) ==
    LET rem == h.blk[b].total_size - new_total
    IN  IF rem >= BLOCK_MIN
        THEN freelist_insert([Carve(h, b, new_total, 0)
                                 EXCEPT !.used_bytes = @ - rem],
                             b + new_total)
        ELSE h

\* The physical successor is a free block and the two together are enough.
CanGrowInPlace(h, b, new_total) ==
    LET nxt == End(h, b)
    IN  /\ nxt + HDR < HeapSize
        /\ nxt \in Free(h)
        /\ h.blk[b].total_size + h.blk[nxt].total_size >= new_total

\* Seeded fault: the bytes taken over are not counted.
Absorb_NotCounted(h, b) ==
    LET nxt      == End(h, b)
        combined == h.blk[b].total_size + h.blk[nxt].total_size
        h1       == freelist_remove(h, nxt)
    IN  [h1 EXCEPT !.blk = [o \in DOMAIN h1.blk \ {nxt} |->
                                IF o = b
                                THEN [h1.blk[b] EXCEPT
                                         !.total_size = combined,
                                         !.payload_cap = combined - HDR]
                                ELSE h1.blk[o]]]

\* Block b takes over its free successor, header included.
Absorb(h, b) ==
    LET nxt      == End(h, b)
        combined == h.blk[b].total_size + h.blk[nxt].total_size
        h1       == freelist_remove(h, nxt)
    IN  [h1 EXCEPT !.used_bytes = @ + h.blk[nxt].total_size,
                   !.blk = [o \in DOMAIN h1.blk \ {nxt} |->
                                IF o = b
                                THEN [h1.blk[b] EXCEPT
                                         !.total_size = combined,
                                         !.payload_cap = combined - HDR]
                                ELSE h1.blk[o]]]

GrowInPlace(h, b, new_total) == Shrink(Absorb(h, b), b, new_total)

\* The new block that a relocation copies b into, with b's metadata.
Relocated(h, b, new_total) ==
    Label(heap_alloc_block(h, new_total), FirstFit(h, new_total),
          h.blk[b].owner, h.blk[b].perms, h.blk[b].obj_id)

\* extra = nb->payload_cap - b->payload_cap is a size_t: below zero it wraps
\* and the memset that clears the extra bytes runs off the mapping.
ClearUnderflows(h, b, new_total) ==
    Relocated(h, b, new_total).blk[FirstFit(h, new_total)].payload_cap
        < h.blk[b].payload_cap

shm_resize(obj_id, new_size, user, caller_perms) ==
    /\ ~Crashed
    /\ LET acc == IF new_size = 0 THEN "EINVAL"
                  ELSE AccessById(dir, obj_id, user, caller_perms, {"RESIZE"})
           i   == dir_find_by_id(dir, obj_id)
           b   == shm_blk_of_poff(dir[i].off)
           new_total == NeedTotal(new_size)
           shrinks   == new_total <= heap.blk[b].total_size
           in_place  == CanGrowInPlace(heap, b, new_total)
           \* The operation ends with object data at block nb of heap h.
           Finish(h, nb) ==
               /\ heap' = h
               /\ dir' = [dir EXCEPT ![i] =
                            [@ EXCEPT !.off = shm_poff_of_blk(nb),
                                      !.capacity = h.blk[nb].payload_cap,
                                      !.used_size = new_size]]
               /\ ret' = "OK"
               /\ UNCHANGED next_id
       IN  \/ acc # "OK" /\ Fail(acc)
           \/ /\ acc = "OK" /\ shrinks
              /\ Finish(Shrink(heap, b, new_total), b)
           \/ /\ acc = "OK" /\ ~shrinks /\ in_place
              /\ Finish(GrowInPlace(heap, b, new_total), b)
           \/ /\ acc = "OK" /\ ~shrinks /\ ~in_place
              /\ Fits(heap, new_total) = {}
              /\ Fail("ENOMEM")
           \/ /\ acc = "OK" /\ ~shrinks /\ ~in_place
              /\ Fits(heap, new_total) # {}
              /\ ~ClearUnderflows(heap, b, new_total)
              /\ Finish(heap_free_block(Relocated(heap, b, new_total), b),
                        FirstFit(heap, new_total))
           \/ /\ acc = "OK" /\ ~shrinks /\ ~in_place
              /\ Fits(heap, new_total) # {}
              /\ ClearUnderflows(heap, b, new_total)
              /\ heap' = heap_alloc_block(heap, new_total)
              /\ ret' = CRASH
              /\ UNCHANGED <<dir, next_id>>

\* Seeded fault: the directory keeps the old permissions.
shm_block_set_perms_BlockOnly(off, user, caller_perms, new_perms) ==
    /\ ~Crashed
    /\ LET b   == shm_blk_of_poff(off)
           acc == check_block_access(heap, b, user, caller_perms, {"WRITE"})
       IN  \/ acc # "OK" /\ Fail(acc)
           \/ /\ acc = "OK"
              /\ heap' = [heap EXCEPT !.blk[b].perms = new_perms]
              /\ ret' = "OK"
              /\ UNCHANGED <<dir, next_id>>

shm_block_set_perms(off, user, caller_perms, new_perms) ==
    /\ ~Crashed
    /\ LET b   == shm_blk_of_poff(off)
           acc == check_block_access(heap, b, user, caller_perms, {"WRITE"})
           S   == SlotsOfId(dir, heap.blk[b].obj_id)
       IN  \/ acc # "OK" /\ Fail(acc)
           \/ /\ acc = "OK"
              /\ heap' = [heap EXCEPT !.blk[b].perms = new_perms]
              /\ dir' = IF S = {} THEN dir
                        ELSE [dir EXCEPT ![Lowest(S)].perms = new_perms]
              /\ ret' = "OK"
              /\ UNCHANGED next_id

-----------------------------------------------------------------------------
Stopped == Crashed /\ UNCHANGED vars

\* Every payload offset that an allocation can ever have been given.
PayloadOffsets ==
    {shm_poff_of_blk(HEAP_ALIGN * k) :
        k \in 0 .. (HeapSize - BLOCK_MIN) \div HEAP_ALIGN}

Next ==
    \/ \E n \in PayloadSizes, name \in Names, u \in Users, p \in ObjPerms :
          shm_alloc(n, name, u, p)
    \/ \E id \in 0 .. MaxId, u \in Users, cp \in CallerPerms :
          shm_free(id, u, cp)
    \/ \E id \in 0 .. MaxId, n \in PayloadSizes, u \in Users,
          cp \in CallerPerms :
          shm_resize(id, n, u, cp)
    \/ \E off \in PayloadOffsets, u \in Users, cp \in CallerPerms,
          p \in ObjPerms :
          shm_block_set_perms(off, u, cp, p)
    \/ Stopped

Spec == Init /\ [][Next]_vars

-----------------------------------------------------------------------------
(***************************************************************************)
(* Lookups: locked reads (shm_lookup, shm_lookup_by_name) and the block    *)
(* check behind shm_ptr.                                                   *)
(***************************************************************************)
shm_lookup(obj_id, user, caller_perms) ==
    LET acc == AccessById(dir, obj_id, user, caller_perms, {"READ"})
        e   == dir[dir_find_by_id(dir, obj_id)]
    IN  IF acc = "OK"
        THEN [err |-> "OK", id |-> obj_id, off |-> e.off]
        ELSE [err |-> acc, id |-> 0, off |-> 0]

shm_lookup_by_name(name, user, caller_perms) ==
    LET e   == dir[dir_find_by_name(dir, name)]
        acc == IF SlotsOfName(dir, name) = {} THEN "ENOENT"
               ELSE check_dir_access(e, user, caller_perms, {"READ"})
    IN  IF acc = "OK"
        THEN [err |-> "OK", id |-> e.id, off |-> e.off]
        ELSE [err |-> acc, id |-> 0, off |-> 0]

\* shm_ptr returns a pointer, not NULL.
shm_ptr(off, user, caller_perms, required) ==
    check_block_access(heap, shm_blk_of_poff(off),
                       user, caller_perms, required) = "OK"

-----------------------------------------------------------------------------
(***************************************************************************)
(* Properties of a heap h, free list F given as the set of its nodes.      *)
(***************************************************************************)
\* The blocks cover the heap from end to end without gap or overlap.
Tiled(h) ==
    /\ 0 \in DOMAIN h.blk
    /\ \A o \in DOMAIN h.blk :
          /\ o \in Nat
          /\ h.blk[o].total_size >= BLOCK_MIN
          /\ End(h, o) <= HeapSize
          /\ End(h, o) = HeapSize \/ End(h, o) \in DOMAIN h.blk
    /\ \A o, p \in DOMAIN h.blk : o < p => End(h, o) <= p

\* The list starting at free_list visits exactly the nodes F, in ascending
\* order: each node links to the next higher one, the last one to 0.
Threads(h, F) ==
    \A p \in {Head} \cup F :
        \/ Link(h, p) = 0 /\ \A q \in F : q <= p
        \/ /\ shm_link_dec(Link(h, p)) \in F
           /\ p < shm_link_dec(Link(h, p))
           /\ \A q \in F : q <= p \/ shm_link_dec(Link(h, p)) <= q

\* No two of the blocks F touch.
Apart(h, F) == \A o \in F : End(h, o) \notin F

\* The payload a header admits to lies inside its block.
CapsFit(h) ==
    \A o \in DOMAIN h.blk : HDR + h.blk[o].payload_cap <= h.blk[o].total_size

HeapTypeOK(h) ==
    /\ h = [blk |-> h.blk, free_list |-> h.free_list,
            used_bytes |-> h.used_bytes, block_count |-> h.block_count]
    /\ h.blk \in [DOMAIN h.blk -> BlockHdr]
    /\ DOMAIN h.blk \subseteq 0 .. HeapSize - 1
    /\ h.free_list \in Nat
    /\ h.used_bytes \in Int
    /\ h.block_count \in Int

GoodHeap(h) ==
    /\ HeapTypeOK(h)
    /\ Tiled(h)
    /\ Threads(h, Free(h))
    /\ Apart(h, Free(h))
    /\ CapsFit(h)

-----------------------------------------------------------------------------
(***************************************************************************)
(* Invariants.                                                             *)
(***************************************************************************)
\* Every field keeps its type.  The two counters are only said to be
\* integers here; what they count is another matter.
TypeOK ==
    /\ HeapTypeOK(heap)
    /\ dir \in [Slots -> Slot]
    /\ next_id \in Nat \ {0}
    /\ ret \in Errno \cup {CRASH}

\* Splitting, coalescing, growing and relocating blocks never leaves a gap
\* or an overlap: the valid headers tile the heap, and each one is at least
\* BLOCK_MIN bytes.
HeapTiled == ~Crashed => Tiled(heap)

\* The free list (free_list and the next_free links that freelist_insert,
\* freelist_remove and heap_alloc_block rewrite) holds every free block
\* exactly once, in address order, and no allocated block.
FreeListSound == ~Crashed => Threads(heap, Free(heap))

\* No two free blocks touch: freelist_insert merges a block with both of its
\* neighbours, and no other operation separates free space.
FullyCoalesced == ~Crashed => Apart(heap, Free(heap))

LiveSlots == {i \in Slots : dir[i].alive = 1}
BlockOf(i) == shm_blk_of_poff(dir[i].off)

\* The directory and the heap describe the same objects: live slots have
\* distinct ids that were really issued, each one points to its own
\* allocated block, which carries the same id, owner, permissions and
\* capacity; and no allocated block is without a slot (leaked).
DirectoryMatchesHeap ==
    ~Crashed =>
        /\ \A i \in LiveSlots :
              /\ dir[i].id \in 1 .. next_id - 1
              /\ BlockOf(i) \in DOMAIN heap.blk
              /\ LET b == heap.blk[BlockOf(i)]
                 IN  /\ b.allocated = 1
                     /\ b.obj_id = dir[i].id
                     /\ b.owner = dir[i].owner
                     /\ b.perms = dir[i].perms
                     /\ b.payload_cap = dir[i].capacity
        /\ \A i, j \in LiveSlots : dir[i].id = dir[j].id => i = j
        /\ \A o \in DOMAIN heap.blk :
              heap.blk[o].allocated = 1 => \E i \in LiveSlots : BlockOf(i) = o

\* Every object's bytes lie inside its own block, and the block wastes less
\* than BLOCK_MIN bytes: every path of shm_alloc and shm_resize returns a
\* remainder that is large enough to be a block.
ObjectsFitTheirBlocks ==
    ~Crashed =>
        \A i \in LiveSlots :
            LET b == heap.blk[BlockOf(i)]
            IN  /\ HDR + dir[i].used_size <= b.total_size
                /\ HDR + b.payload_cap <= b.total_size
                /\ b.total_size - NeedTotal(dir[i].used_size) < BLOCK_MIN

\* When the last object is freed, whatever the order, the heap is again one
\* free block (test_basic.c:281 tests one order).
EmptyMeansWhole ==
    ~Crashed /\ LiveSlots = {} =>
        /\ DOMAIN heap.blk = {0}
        /\ heap.blk[0].allocated = 0
        /\ heap.blk[0].total_size = HeapSize

\* Whatever shm_lookup or shm_lookup_by_name returns to a caller is an
\* offset that shm_ptr accepts from that caller, of the object asked for:
\* the check against the directory and the check against the block agree.
LookupLeadsToBlock ==
    ~Crashed =>
        \A u \in Users, cp \in CallerPerms :
            LET Usable(r) ==
                  r.err = "OK" =>
                    /\ shm_ptr(r.off, u, cp, {"READ"})
                    /\ heap.blk[shm_blk_of_poff(r.off)].obj_id = r.id
            IN  /\ \A id \in 0 .. MaxId : Usable(shm_lookup(id, u, cp))
                /\ \A n \in Names : Usable(shm_lookup_by_name(n, u, cp))

-----------------------------------------------------------------------------
(***************************************************************************)
(* Action property.                                                        *)
(***************************************************************************)
\* A call about one object never moves, resizes or relabels another: the
\* block of every object whose size and permissions the call leaves alone
\* stays where it is, bit for bit, so offsets held by other processes stay
\* good.
OthersUndisturbed ==
    [][ret' # CRASH =>
        \A i \in Slots :
            /\ dir[i].alive = 1
            /\ dir'[i].id = dir[i].id
            /\ dir'[i].used_size = dir[i].used_size
            /\ dir'[i].perms = dir[i].perms
            => /\ dir'[i] = dir[i]
               /\ BlockOf(i) \in DOMAIN heap'.blk
               /\ heap'.blk[BlockOf(i)] = heap.blk[BlockOf(i)]]_vars

-----------------------------------------------------------------------------
(***************************************************************************)
(* What the documentation says and the code does not do.                   *)
(***************************************************************************)
\* "@return 0, ENOENT, EACCES, or ENOMEM (heap exhausted on grow)"
\* (shm_alloc.h:300): shm_resize returns, it does not bring its process down.
ResizeReturns == ~Crashed
=============================================================================
