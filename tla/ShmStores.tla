----------------------------- MODULE ShmStores -----------------------------
(***************************************************************************)
(* The calls of src/src/shm_alloc.c store by store.  ShmAlloc takes a      *)
(* locked call as one step; here a call is the sequence of stores that it  *)
(* makes between region_lock and region_unlock, in the order of the code,  *)
(* so that three things show which one step hides:                         *)
(*   - a process that dies inside a call.  The mutex is robust and         *)
(*     region_lock accepts EOWNERDEAD without repairing anything, so the   *)
(*     next call starts from whatever was stored;                          *)
(*   - shm_dir_next and shm_pool_stats, which read without the mutex;      *)
(*   - which stores shm_persist has pushed out of the caches when a call   *)
(*     returns.                                                            *)
(* Stores that neither a reader nor a successor of a dead process could    *)
(* tell apart are one.  A call that fails stores nothing and is no step.   *)
(***************************************************************************)
EXTENDS Integers, Sequences, SequencesExt

CONSTANTS
    HeapSize, DirCap, PayloadSizes, Users, ObjPerms, CallerPerms, MaxId,
    NewPerms,       \* permission words that shm_block_set_perms is given
    Mortal          \* the calls in which a process may die

ASSUME StoresAssumption == DirCap \in Nat

VARIABLES
    mem,    \* region header, block headers and directory slots
    todo,   \* the stores still to be made by the call that holds the mutex
    call,   \* that call, "none", or "SIGSEGV" once one ran off the mapping
    died,   \* some process has died inside a call
    base,   \* mem when the last call returned, before any death
    dirty,  \* metadata fields stored and not persisted, before any death
    rd      \* an iteration with shm_dir_next

vars == <<mem, todo, call, died, base, dirty, rd>>

-----------------------------------------------------------------------------
(***************************************************************************)
(* Memory.  mem.rh[0] is the region header, mem.blk[o] the header at heap  *)
(* offset o, mem.slot[i] a directory slot.  A poisoned header stays where  *)
(* it is, with magic 0.                                                    *)
(***************************************************************************)
Slots == 0 .. DirCap - 1

HeapOf(m) ==
    [blk |-> [o \in {q \in DOMAIN m.blk : m.blk[q].magic = 1} |->
                 Restrict(m.blk[o], DOMAIN m.blk[o] \ {"magic"})],
     free_list |-> m.rh[0].free_list,
     used_bytes |-> m.rh[0].used_bytes,
     block_count |-> m.rh[0].block_count]

Kept(n) == n

\* The allocator with one step per call, on the memory between calls.
Atomic == INSTANCE ShmAlloc
            WITH heap <- HeapOf(base), dir <- base.slot,
                 next_id <- base.rh[0].next_id, ret <- "OK",
                 ObjPerms <- ObjPerms \cup NewPerms,
                 Names <- {""}, Trunc <- Kept

HDR == Atomic!HDR
BLOCK_MIN == Atomic!BLOCK_MIN
Root == Atomic!Head

\* f over g: f @@ g of module TLC, written so that it can be reasoned about.
Over(f, g) ==
    [x \in DOMAIN f \cup DOMAIN g |-> IF x \in DOMAIN f THEN f[x] ELSE g[x]]

Hdr(size, nxt) == Over([magic |-> 1], Atomic!FreeHdr(size, nxt))

InitMem ==
    [rh |-> [o \in {0} |-> [free_list |-> 1, used_bytes |-> 0,
                            block_count |-> 0, next_id |-> 1]],
     blk |-> [o \in {0} |-> Hdr(HeapSize, 0)],
     slot |-> [i \in Slots |-> Atomic!EmptySlot]]

-----------------------------------------------------------------------------
(***************************************************************************)
(* Cache lines.  Where the fields lie in the mapping, and the lines that   *)
(* shm_persist flushes.                                                    *)
(***************************************************************************)
LINE == 64                                  \* SHM_CACHE_LINE_BYTES
ENTRY == 96                                 \* sizeof(shm_obj_entry_t)
Base(part, at) ==
    CASE part = "rh"   -> 0
      [] part = "slot" -> 200 + ENTRY * at
      [] part = "blk"  -> 200 + ENTRY * DirCap + at

FieldOffset(part, f) ==
    CASE part = "rh" ->
            [free_list |-> 88, used_bytes |-> 96, block_count |-> 104,
             next_id |-> 112][f]
      [] part = "slot" ->
            [id |-> 0, name |-> 8, off |-> 56, capacity |-> 64,
             used_size |-> 72, owner |-> 84, perms |-> 88, alive |-> 92][f]
      [] part = "blk" ->
            [magic |-> 0, owner |-> 8, perms |-> 12, allocated |-> 16,
             obj_id |-> 24, payload_cap |-> 32, total_size |-> 40,
             next_free |-> 48][f]

\* Seeded fault: only the line of the first byte is flushed.
shm_persist_FirstLine(addr, len) == {addr \div LINE}

shm_persist(addr, len) == addr \div LINE .. (addr + len - 1) \div LINE

PersistBlk(b) == shm_persist(Base("blk", b), HDR)
PersistSlot(i) == shm_persist(Base("slot", i), ENTRY)
PersistRh == shm_persist(88, 24)
PersistPayload(b, cap) == shm_persist(Base("blk", b) + HDR, cap)

-----------------------------------------------------------------------------
(***************************************************************************)
(* Stores: fields are set, headers under a payload that is cleared or      *)
(* copied are wiped, lines are flushed.                                    *)
(***************************************************************************)
W(part, at, set) ==
    [part |-> part, at |-> at, set |-> set, wipe |-> {}, flush |-> {}]

\* The last of the stores s is followed by a persist of some lines.
Persisted(s, lines) == [s EXCEPT ![Len(s)].flush = @ \cup lines]

Apply(m, s) ==
    LET old == IF s.at \in DOMAIN m[s.part] THEN m[s.part][s.at] ELSE <<>>
        new == [m EXCEPT ![s.part] = Over([o \in {s.at} |-> Over(s.set, old)], @)]
    IN  [new EXCEPT !.blk = Restrict(@, DOMAIN @ \ s.wipe)]

Run(m, stores) == FoldLeft(Apply, m, stores)

Under(b, cap) == b + 1 .. b + HDR + cap - 1

-----------------------------------------------------------------------------
(***************************************************************************)
(* The free list, walked link by link: no walk looks at a magic.           *)
(***************************************************************************)
LinkOf(m, p) == IF p = Root THEN m.rh[0].free_list ELSE m.blk[p].next_free

SetLink(p, lnk) == IF p = Root THEN W("rh", 0, [free_list |-> lnk])
                               ELSE W("blk", p, [next_free |-> lnk])

\* The node before the first member of S on the list, or the last node.
Walk(m, S) ==
    LET prev[p \in {Root} \cup DOMAIN m.blk] ==
          LET cur == LinkOf(m, p)
          IN  IF cur = 0 \/ cur - 1 \in S THEN p ELSE prev[cur - 1]
    IN  prev[Root]

\* b joins the list, then takes over its successor, then its predecessor
\* takes it over.
freelist_insert(m, b) ==
    LET prev == Walk(m, {o \in DOMAIN m.blk : o > b})
        cur  == LinkOf(m, prev)
        fwd  == cur # 0 /\ b + m.blk[b].total_size = cur - 1
        size == m.blk[b].total_size
                  + (IF fwd THEN m.blk[cur - 1].total_size ELSE 0)
        nxt  == IF fwd THEN m.blk[cur - 1].next_free ELSE cur
        splice ==
            <<W("blk", b, [allocated |-> 0, obj_id |-> 0, owner |-> 0,
                           perms |-> {}]),
              W("blk", b, [next_free |-> cur]),
              SetLink(prev, b + 1)>>
        forward ==
            Persisted(<<W("blk", b, [total_size |-> size]),
                        W("blk", b, [next_free |-> nxt]),
                        W("blk", cur - 1, [magic |-> 0])>>,
                      PersistBlk(cur - 1))
        backward ==
            Persisted(<<W("blk", prev,
                          [total_size |-> m.blk[prev].total_size + size]),
                        W("blk", prev, [next_free |-> nxt]),
                        W("blk", b, [magic |-> 0])>>,
                      PersistBlk(b) \cup PersistBlk(prev))
        s == splice \o (IF fwd THEN forward ELSE <<>>)
    IN  IF prev # Root /\ prev + m.blk[prev].total_size = b
        THEN s \o backward
        ELSE Persisted(s, PersistBlk(b) \cup
                          (IF prev = Root THEN PersistRh ELSE PersistBlk(prev)))

freelist_remove(m, target) ==
    LET prev == Walk(m, {target})
    IN  IF LinkOf(m, prev) = 0 THEN <<>>
        ELSE <<SetLink(prev, m.blk[target].next_free),
               W("blk", target, [next_free |-> 0])>>

Large(m, need) == {o \in DOMAIN m.blk : m.blk[o].total_size >= need}
PrevOfFit(m, need) == Walk(m, Large(m, need))
FitLink(m, need) == LinkOf(m, PrevOfFit(m, need))

Counters(m, bytes, blocks) ==
    W("rh", 0, [used_bytes |-> m.rh[0].used_bytes + bytes,
                block_count |-> m.rh[0].block_count + blocks])

\* Seeded fault: the rest is linked before its header is written.
Unlink_LinkFirst(m, prev, b, need) ==
    LET rem == m.blk[b].total_size - need
    IN  IF rem >= BLOCK_MIN
        THEN <<SetLink(prev, b + need + 1),
               W("blk", b + need, Hdr(rem, m.blk[b].next_free)),
               W("blk", b, [total_size |-> need]),
               W("blk", b, [payload_cap |-> need - HDR])>>
        ELSE <<SetLink(prev, m.blk[b].next_free)>>

\* Seeded fault: a remainder too small for a header is split off.
Unlink_AlwaysSplits(m, prev, b, need) ==
    LET rem == m.blk[b].total_size - need
    IN  <<W("blk", b + need, Hdr(rem, m.blk[b].next_free)),
          W("blk", b, [total_size |-> need, payload_cap |-> need - HDR]),
          SetLink(prev, b + need + 1)>>

\* b is taken off the list after prev; what is left of it takes its place.
Unlink(m, prev, b, need) ==
    LET rem == m.blk[b].total_size - need
    IN  IF rem >= BLOCK_MIN
        THEN Persisted(<<W("blk", b + need, Hdr(rem, m.blk[b].next_free)),
                         W("blk", b, [total_size |-> need]),
                         W("blk", b, [payload_cap |-> need - HDR])>>,
                       PersistBlk(b + need))
             \o <<SetLink(prev, b + need + 1)>>
        ELSE <<SetLink(prev, m.blk[b].next_free)>>

Tagged(b) == W("blk", b, [allocated |-> 1, next_free |-> 0])

\* Seeded fault: the block is counted before it is taken.
heap_alloc_block_CountsFirst(m, need) ==
    LET prev  == PrevOfFit(m, need)
        b     == LinkOf(m, prev) - 1
        taken == Unlink(m, prev, b, need) \o <<Tagged(b)>>
        bytes == Run(m, taken).blk[b].total_size
    IN  <<Counters(m, bytes, 1)>>
        \o Persisted(taken, PersistBlk(b) \cup PersistRh)

\* The stores of heap_alloc_block when a block fits.
heap_alloc_block(m, need) ==
    LET prev  == PrevOfFit(m, need)
        b     == LinkOf(m, prev) - 1
        taken == Unlink(m, prev, b, need) \o <<Tagged(b)>>
        bytes == Run(m, taken).blk[b].total_size
    IN  taken \o Persisted(<<Counters(m, bytes, 1)>>, PersistBlk(b) \cup PersistRh)

\* Seeded fault: the bytes of the header are not given back.
heap_free_block_PayloadOnly(m, b) ==
    <<Counters(m, HDR - m.blk[b].total_size, -1)>> \o freelist_insert(m, b)

heap_free_block(m, b) ==
    <<Counters(m, -m.blk[b].total_size, -1)>> \o freelist_insert(m, b)

-----------------------------------------------------------------------------
(***************************************************************************)
(* The calls, as stores on memory m.                                       *)
(***************************************************************************)
\* The two halves of shm_alloc: a labelled, cleared block, and its slot, field
\* by field as far as the reader follows them.  Objects are anonymous here.
AllocParts(m, size, user, perms) ==
    LET need  == Atomic!NeedTotal(size)
        b     == FitLink(m, need) - 1
        found == heap_alloc_block(m, need)
        cap   == Run(m, found).blk[b].payload_cap
        id    == m.rh[0].next_id
        i     == Atomic!dir_find_free_slot(m.slot)
        label == W("blk", b, [owner |-> user, perms |-> perms, obj_id |-> id])
    IN  [block |-> found
                   \o <<W("rh", 0, [next_id |-> id + 1]),
                        [label EXCEPT !.wipe = Under(b, cap),
                                      !.flush = PersistPayload(b, cap)
                                                  \cup PersistBlk(b)]>>,
         slot |-> <<W("slot", i, Atomic!EmptySlot),
                    W("slot", i, [id |-> id]),
                    W("slot", i, [off |-> b + HDR]),
                    W("slot", i, [capacity |-> cap, used_size |-> size,
                                  owner |-> user, perms |-> perms]),
                    [W("slot", i, [alive |-> 1]) EXCEPT
                        !.flush = PersistSlot(i) \cup PersistRh]>>]

\* Seeded fault: the object is announced before its block is taken.
AllocStores_SlotFirst(m, size, user, perms) ==
    LET a == AllocParts(m, size, user, perms) IN a.slot \o a.block

\* Seeded fault: next_id is stored when the object has been announced.
AllocStores_IdLast(m, size, user, perms) ==
    LET a == AllocParts(m, size, user, perms)
        k == Len(a.block) - 1
    IN  RemoveAt(a.block, k) \o a.slot \o <<a.block[k]>>

AllocStores(m, size, user, perms) ==
    LET a == AllocParts(m, size, user, perms) IN a.block \o a.slot

FreeStores(m, i) ==
    heap_free_block(m, m.slot[i].off - HDR)
    \o Persisted(<<W("slot", i, Atomic!EmptySlot)>>, PersistSlot(i))

\* The tail of block b beyond total bytes is given back, if it is a block.
ShrinkStores(m, b, total) ==
    LET rem  == m.blk[b].total_size - total
        trim == Persisted(<<W("blk", b + total, Hdr(rem, 0)),
                            Counters(m, -rem, 0),
                            W("blk", b, [total_size |-> total]),
                            W("blk", b, [payload_cap |-> total - HDR])>>,
                          PersistBlk(b))
    IN  IF rem >= BLOCK_MIN
        THEN trim \o freelist_insert(Run(m, trim), b + total)
        ELSE <<>>

CanGrowInPlace(m, b, total) ==
    LET nxt == b + m.blk[b].total_size
    IN  /\ nxt + HDR < HeapSize
        /\ nxt \in DOMAIN m.blk
        /\ m.blk[nxt].magic = 1
        /\ m.blk[nxt].allocated = 0
        /\ m.blk[b].total_size + m.blk[nxt].total_size >= total

GrowStores(m, b, total) ==
    LET nxt      == b + m.blk[b].total_size
        combined == m.blk[b].total_size + m.blk[nxt].total_size
        absorb   == freelist_remove(m, nxt)
                    \o Persisted(
                         <<Counters(m, m.blk[nxt].total_size, 0),
                           W("blk", b, [total_size |-> combined]),
                           W("blk", b, [payload_cap |-> combined - HDR]),
                           W("blk", nxt, [magic |-> 0])>>,
                         PersistBlk(nxt))
        rest     == ShrinkStores(Run(m, absorb), b, total)
    IN  Persisted(absorb \o rest,
                  (IF rest = <<>> THEN PersistBlk(b) ELSE {}) \cup PersistRh)

\* A new block is labelled and given the payload, then the old one is freed.
RelocateStores(m, b, total) ==
    LET nb    == FitLink(m, total) - 1
        found == heap_alloc_block(m, total)
        cap   == Run(m, found).blk[nb].payload_cap
        label == W("blk", nb, [owner |-> m.blk[b].owner,
                               perms |-> m.blk[b].perms,
                               obj_id |-> m.blk[b].obj_id])
        moved == found
                 \o <<[label EXCEPT !.wipe = Under(nb, cap),
                                    !.flush = PersistPayload(nb, cap)
                                                \cup PersistBlk(nb)]>>
    IN  moved \o heap_free_block(Run(m, moved), b)

\* shm_resize in three parts: the heap, then the slot from the new header.
ResizeStores(m, i, size) ==
    LET b      == m.slot[i].off - HDR
        total  == Atomic!NeedTotal(size)
        moves  == total > m.blk[b].total_size /\ ~CanGrowInPlace(m, b, total)
        nb     == IF moves THEN FitLink(m, total) - 1 ELSE b
        s      == IF total <= m.blk[b].total_size THEN ShrinkStores(m, b, total)
                  ELSE IF moves THEN RelocateStores(m, b, total)
                  ELSE GrowStores(m, b, total)
    IN  s \o (IF moves THEN <<W("slot", i, [off |-> nb + HDR])>> ELSE <<>>)
          \o Persisted(<<W("slot", i, [capacity |-> Run(m, s).blk[nb].payload_cap,
                                       used_size |-> size])>>,
                       PersistSlot(i))

SetPermsStores(m, b, perms) ==
    LET S == Atomic!SlotsOfId(m.slot, m.blk[b].obj_id)
        i == Atomic!Lowest(S)
    IN  Persisted(<<W("blk", b, [perms |-> perms])>>, PersistBlk(b))
        \o (IF S = {} THEN <<>>
            ELSE Persisted(<<W("slot", i, [perms |-> perms])>>, PersistSlot(i)))

-----------------------------------------------------------------------------
(***************************************************************************)
(* The iteration of shm_alloc.h:358-364: shm_dir_next from cursor 0 until  *)
(* ENOENT, reading one field at a time.  For the properties, rd.steady     *)
(* keeps the entries that have not changed since it began, and rd.reports  *)
(* the reports of those, each with the cursor at which it was made.        *)
(***************************************************************************)
Entry(m, i) == [id |-> m.slot[i].id, off |-> m.slot[i].off,
                capacity |-> m.slot[i].capacity]
Live(m) == {i \in Slots : m.slot[i].alive = 1 /\ m.slot[i].id # 0}
Entries(m) == {Entry(m, i) : i \in Live(m)}

NoEntry == [id |-> 0, off |-> 0]
IdleReader == [pc |-> "idle", cursor |-> 0, out |-> NoEntry, reports |-> {},
               steady |-> {}]

ReaderBegins ==
    /\ rd.pc = "idle"
    /\ rd' = [IdleReader EXCEPT !.pc = "alive", !.steady = Entries(mem)]

\* Seeded fault: a free slot ends the iteration.
ReadAlive_StopsAtGap ==
    /\ rd.pc = "alive"
    /\ rd' = IF rd.cursor = DirCap \/ mem.slot[rd.cursor].alive = 0
             THEN [rd EXCEPT !.pc = "done"]
             ELSE [rd EXCEPT !.pc = "id"]

\* The loop test and the first test of the entry under the cursor.
ReadAlive ==
    /\ rd.pc = "alive"
    /\ rd' = IF rd.cursor = DirCap THEN [rd EXCEPT !.pc = "done"]
             ELSE IF mem.slot[rd.cursor].alive = 1 THEN [rd EXCEPT !.pc = "id"]
             ELSE [rd EXCEPT !.cursor = @ + 1]

ReadId ==
    /\ rd.pc = "id"
    /\ rd' = IF mem.slot[rd.cursor].id # 0 THEN [rd EXCEPT !.pc = "copy_id"]
             ELSE [rd EXCEPT !.cursor = @ + 1, !.pc = "alive"]

CopyId ==
    /\ rd.pc = "copy_id"
    /\ rd' = [rd EXCEPT !.pc = "copy_off", !.out.id = mem.slot[rd.cursor].id]

CopyOff ==
    /\ rd.pc = "copy_off"
    /\ rd' = [rd EXCEPT !.pc = "copy_capacity",
                        !.out.off = mem.slot[rd.cursor].off]

\* The last field that is followed; the call returns and the caller goes on.
CopyCapacity ==
    /\ rd.pc = "copy_capacity"
    /\ LET e == [id |-> rd.out.id, off |-> rd.out.off,
                 capacity |-> mem.slot[rd.cursor].capacity]
           r == [at |-> rd.cursor, entry |-> e]
       IN  rd' = [rd EXCEPT
                    !.pc = "alive", !.cursor = @ + 1, !.out = NoEntry,
                    !.reports = IF e \in rd.steady THEN @ \cup {r} ELSE @]

ReaderEnds == rd.pc = "done" /\ rd' = IdleReader

Reader ==
    /\ call # "SIGSEGV"
    /\ ReaderBegins \/ ReadAlive \/ ReadId \/ CopyId \/ CopyOff \/ CopyCapacity
       \/ ReaderEnds
    /\ UNCHANGED <<mem, todo, call, died, base, dirty>>

\* What shm_pool_stats computes from the memory it reads.
free_bytes(m) == HeapSize - m.rh[0].used_bytes

-----------------------------------------------------------------------------
(***************************************************************************)
(* Writers.  A call takes the mutex and is known by its stores from there  *)
(* on: nobody else writes metadata until it returns or dies.               *)
(***************************************************************************)
Init ==
    /\ mem = InitMem
    /\ todo = <<>>
    /\ call = "none"
    /\ died = FALSE
    /\ base = InitMem
    /\ dirty = {}
    /\ rd = IdleReader

\* The mutex can be had, also from an owner that died.
Unlocked == call = "none"

region_lock(name, stores) ==
    /\ call' = name
    /\ todo' = stores
    /\ UNCHANGED <<mem, died, base, dirty, rd>>

\* The slot of a live object that the caller may use so.
MayUse(id, i, user, caller_perms, right) ==
    /\ Atomic!AccessById(mem.slot, id, user, caller_perms, {right}) = "OK"
    /\ i = Atomic!dir_find_by_id(mem.slot, id)

shm_alloc(size, user, perms) ==
    /\ size # 0
    /\ mem.rh[0].next_id <= MaxId
    /\ Atomic!FreeSlots(mem.slot) # {}
    /\ FitLink(mem, Atomic!NeedTotal(size)) # 0
    /\ region_lock("shm_alloc", AllocStores(mem, size, user, perms))

shm_free(id, i, user, caller_perms) ==
    /\ MayUse(id, i, user, caller_perms, "FREE")
    /\ region_lock("shm_free", FreeStores(mem, i))

\* The new block of a relocation admits to less than the old one: see
\* ClearUnderflows of ShmAlloc.  The region is lost with the process.
RunsOff(m, i, size) ==
    LET b     == m.slot[i].off - HDR
        total == Atomic!NeedTotal(size)
    IN  /\ total > m.blk[b].total_size
        /\ ~CanGrowInPlace(m, b, total)
        /\ FitLink(m, total) # 0
        /\ Run(m, heap_alloc_block(m, total)).blk[FitLink(m, total) - 1].payload_cap
             < m.blk[b].payload_cap

shm_resize(id, i, size, user, caller_perms) ==
    LET b     == mem.slot[i].off - HDR
        total == Atomic!NeedTotal(size)
    IN  /\ size # 0
        /\ MayUse(id, i, user, caller_perms, "RESIZE")
        /\ \/ total <= mem.blk[b].total_size
           \/ CanGrowInPlace(mem, b, total)
           \/ FitLink(mem, total) # 0
        /\ \/ ~RunsOff(mem, i, size) /\ region_lock("shm_resize",
                                                    ResizeStores(mem, i, size))
           \/ RunsOff(mem, i, size) /\ region_lock("SIGSEGV", <<>>)

shm_block_set_perms(b, user, caller_perms, perms) ==
    /\ mem.blk[b].magic = 1
    /\ mem.blk[b].allocated = 1
    /\ Atomic!Access(mem.blk[b], user, caller_perms, {"WRITE"}) = "OK"
    /\ region_lock("shm_block_set_perms", SetPermsStores(mem, b, perms))

\* One store; the last one is followed by region_unlock.
Store ==
    /\ todo # <<>>
    /\ LET s    == todo[1]
           new  == Apply(mem, s)
           last == Len(todo) = 1
       IN  /\ mem' = new
           /\ todo' = Tail(todo)
           /\ call' = IF last THEN "none" ELSE call
           /\ base' = IF last /\ ~died THEN new ELSE base
           /\ dirty' = IF died THEN {}
                       ELSE {d \in dirty \cup {<<s.part, s.at, f>> : f \in DOMAIN s.set} :
                               (Base(d[1], d[2]) + FieldOffset(d[1], d[3])) \div LINE
                                 \notin s.flush}
           /\ LET steady == rd.steady \cap Entries(new)
              IN  rd' = [rd EXCEPT !.steady = steady,
                                   !.reports = {r \in @ : r.entry \in steady}]
    /\ UNCHANGED died

\* The process is gone; the next region_lock gets EOWNERDEAD and goes on.
Die ==
    /\ todo # <<>>
    /\ call \in Mortal
    /\ todo' = <<>>
    /\ call' = "none"
    /\ died' = TRUE
    /\ base' = InitMem
    /\ dirty' = {}
    /\ UNCHANGED <<mem, rd>>

Call ==
    /\ Unlocked
    /\ \/ \E n \in PayloadSizes, u \in Users, p \in ObjPerms : shm_alloc(n, u, p)
       \/ \E id \in 1 .. MaxId, i \in Slots, u \in Users, cp \in CallerPerms :
             \/ shm_free(id, i, u, cp)
             \/ \E n \in PayloadSizes : shm_resize(id, i, n, u, cp)
       \/ \E b \in DOMAIN mem.blk, u \in Users, cp \in CallerPerms, p \in NewPerms :
             shm_block_set_perms(b, u, cp, p)

Next ==
    \/ Call
    \/ Store
    \/ Die
    \/ Reader

Spec == Init /\ [][Next]_vars

-----------------------------------------------------------------------------
(***************************************************************************)
(* Properties.                                                             *)
(***************************************************************************)
\* The nodes of the free list in list order; no more than n of them.
Nodes(m, n) ==
    LET list[k \in 0 .. n] ==
          IF k = 0 THEN <<>>
          ELSE LET p == IF k = 1 THEN Root ELSE Last(list[k - 1])
               IN  IF \/ Len(list[k - 1]) < k - 1
                      \/ p # Root /\ p \notin DOMAIN m.blk
                      \/ LinkOf(m, p) = 0
                   THEN list[k - 1]
                   ELSE Append(list[k - 1], LinkOf(m, p) - 1)
    IN  list[n]

MaxBlocks == HeapSize \div BLOCK_MIN
FreeList == Nodes(mem, MaxBlocks + 1)
EndOf(o) == o + mem.blk[o].total_size

\* Fields keep their types, whatever was stored last.
StoresTypeOK ==
    /\ mem.rh[0] \in [free_list: Nat, used_bytes: Int, block_count: Int,
                      next_id: 1 .. MaxId + 1]
    /\ \A o \in DOMAIN mem.blk :
          /\ mem.blk[o].magic \in {0, 1}
          /\ Restrict(mem.blk[o], DOMAIN mem.blk[o] \ {"magic"}) \in Atomic!BlockHdr
    /\ mem.slot \in [Slots -> Atomic!Slot]
    /\ call = "none" => todo = <<>>
    /\ rd.cursor \in 0 .. DirCap

\* "other hosts see a consistent free list even after a crash mid-operation"
\* (shm_alloc.c:105-106): whenever the mutex can be taken, the list that
\* free_list and next_free spell has headers at all its nodes, each free and
\* ending before the next one begins, and so ends itself.
FreeListConsistent ==
    Unlocked =>
        LET list == FreeList
        IN  \A k \in DOMAIN list :
               /\ list[k] \in DOMAIN mem.blk
               /\ mem.blk[list[k]].magic = 1 /\ mem.blk[list[k]].allocated = 0
               /\ EndOf(list[k]) <= IF k < Len(list) THEN list[k + 1] ELSE HeapSize

\* What object i may write: its block, and as much as its slot admits to.
Extent(i) == LET s == mem.slot[i]
             IN  s.off - HDR .. Max({EndOf(s.off - HDR), s.off + s.capacity}) - 1

\* However many processes die inside shm_alloc, at whatever store, the
\* bytes of live objects are their own: no other object has them, and no
\* later shm_alloc can hand them out, for they are not on the free list.
\* Space that no object has may be lost: the block that was being taken, and
\* the remainder of a split until it is linked (shm_alloc.c:236-247).
LiveDisjoint ==
    Unlocked =>
        LET free == ToSet(FreeList)
        IN  \A i \in Live(mem) :
               /\ \A j \in Live(mem) : i # j => Extent(i) \cap Extent(j) = {}
               /\ \A o \in free : Extent(i) \cap (o .. EndOf(o) - 1) = {}

\* shm_pool_stats reads without the mutex, at any moment of any call:
\* used_bytes never exceeds the heap, so free_bytes never wraps, and
\* block_count stays possible, also after deaths inside shm_alloc.
CountersInRange ==
    /\ free_bytes(mem) \in 0 .. HeapSize
    /\ mem.rh[0].block_count \in 0 .. MaxBlocks

\* An iteration with shm_dir_next reports every object that lives unchanged
\* from its start to its end exactly once and as it is, though slots are
\* cleared, written and reused under its cursor.
IterationComplete ==
    rd.pc = "done" =>
        \A e \in rd.steady : \E r \in rd.reports :
            /\ r.entry = e
            /\ \A q \in rd.reports : q.entry = e => q = r

\* An id names one object, wherever processes die: next_id is past an id
\* before a slot gets it, so no two slots have the same id, live or left
\* behind by a dead process, and no id in a slot can be given out again.
IdsUnique ==
    \A i \in Slots :
        /\ mem.slot[i].id < mem.rh[0].next_id
        /\ \A j \in Slots \ {i} : mem.slot[i].id = mem.slot[j].id => mem.slot[i].id = 0

\* When a call has returned, every field of the header and of the slot of
\* every live object has been pushed out of the caches: another host finds
\* the object (shm_persist and the calls to it in shm_alloc, shm_resize and
\* shm_block_set_perms).
ObjectsDurable ==
    Unlocked =>
        \A d \in dirty, i \in Live(mem) :
            d[1] # "rh" => d[2] # (IF d[1] = "slot" THEN i ELSE mem.slot[i].off - HDR)

\* As long as nobody dies, a call as a sequence of stores ends where the
\* same call of ShmAlloc ends: the order of stores and the walks that trust
\* every link come to what ShmAlloc says in one step.
CallsAreAtomic == Atomic!Init /\ [][died' \/ Atomic!Next]_base

\* "so metadata is durable without any change to user code" (README.md:651).
MetadataDurable == Unlocked => dirty = {}
=============================================================================
