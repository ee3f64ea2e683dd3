# A TLA+ development for the disaggregated shared-memory allocator

The program is a C library (`src/src`, `src/include`): processes map one region
of shared or DAX memory and allocate, free, resize and look up objects in it.
This directory models its core, checks the models with TLC and proves with TLAPS,
for every heap size, every directory size, every number of processes and every
set of inputs, the invariants of the allocator, that it implements its interface,
that its counters and list walks are right, that readers without the lock miss
nothing, and what capabilities, regions, payloads and the C++ wrappers rely on.

## 1. The system

| Part | State | Operations | Interacts with |
|---|---|---|---|
| Heap and free list (`shm_alloc.c:100-287`) | block headers in the heap; `free_list`, `used_bytes`, `block_count` in the region header | `heap_alloc_block`, `heap_free_block`, `freelist_insert`, `freelist_remove` | called by alloc, free and resize, under the region mutex |
| Directory (`shm_alloc.c:289-334`) | `dir_capacity` slots; `next_id` | `dir_find_*`, and the slot writes in alloc, free, resize, set_perms | each live slot points at a block and repeats its id, owner, perms and capacity |
| Permission checks (`shm_alloc.c:40-94`) | none; read the two copies of owner and perms | `check_block_access`, `check_dir_access` | lookup, free and resize ask the directory; `shm_ptr` and `shm_block_set_perms` ask the block |
| Resize (`shm_alloc.c:692-834`) | as above | shrink, grow in place, relocate | uses every heap primitive in one call |
| Capabilities (`shm_cap.c`) | two words kept by whoever holds them | derive, narrow, deref, is_valid | compared with the live block header on each use |
| Readers without the lock | none | `shm_dir_next`, `shm_block_info`, `shm_ptr`, `shm_cap_deref`, `shm_pool_stats` | race with every writer |
| Robust mutex (`shm_alloc.c:403-417`) | process-shared mutex in the header | `region_lock`, `region_unlock` | `EOWNERDEAD` is accepted without repair |
| Region lifecycle (`shm_alloc.c:340-397, 423-567`) | header, `host_count`, the name | open, `region_init`, close, unlink | creates the state that everything else uses |
| Payload bytes | heap contents | cleared in alloc, copied in resize | bounded by `payload_cap` |
| Persistence (`shm_persist.h`) | what has left the CPU caches | `shm_persist`, `shm_drain` | called after most metadata stores |
| Namespace and cgroup (`shm_ns.c`) | none | two fingerprints | compared at attach |
| C++ wrappers (`*.hpp`) | handles, kept by their holders | templates over the C calls | `shm::make` and `shm::free` are several C calls with no lock in between |

What is hard here: the free list lives inside the memory it manages and is
rewritten by a dozen short pointer edits whose cases depend on the history of
calls; the same facts are stored twice, in slots and in headers; capabilities
and offsets outlive the state they were taken from; some readers take no lock;
a process may die, and a host may lose its caches, between any two stores.

What makes each part correct: the headers tile the heap and the list is exactly
its free blocks; the directory and the headers describe the same objects; a
lookup leads to the right block; a resize touches no other object; a capability
that is accepted reaches the object it was derived from; a call that is cut short
costs no object its bytes; an iteration without the lock misses nothing that
stays put; what describes a live object has left the caches when a call returns;
an object shows nothing of its predecessors and loses nothing its owner wrote.
Not all of this holds; section 4 says where it does not. `PROJECT.json` lists
the places where each of these could go wrong under `hazards`.

## 2. Modules

| Module | Models |
|---|---|
| `ShmAlloc` | the heap, the free list, the directory, permission checks and the four calls that change them |
| `ShmAllocWalk` | the free-list loops as the code runs them, link after link, and what the counters count |
| `ShmObjects` | the abstract specification: a table of objects under ids that are never reused |
| `ShmAllocPromise` | `ShmAlloc` seen as `ShmObjects`: the refinement mapping and what it maps |
| `ShmCap` | capabilities, composed with `ShmAlloc` |
| `ShmRegion` | opening and closing a region by several processes, step by step |
| `ShmStores` | the four calls store by store, processes that die between two stores, a reader without the lock, and what has been persisted; shown to implement `ShmAlloc` |
| `ShmPayload` | the words of the heap under `ShmAlloc`: clearing, copying, headers, and what owners write |
| `ShmWrap` | the C++ wrappers' composite calls over `ShmAlloc` |
| `MCShmAlloc`, `MCShmCap`, `MCShmRegion`, `MCShmStores`, `MCShmPayload`, `MCShmWrap` | constants for TLC; `MCShmPayload` adds `ShmAllocWalk`, so one run checks the heap and what is in it |
| `ShmHeapProofs` | what each heap primitive does to a well-formed heap, as lemmas |
| `ShmAllocProofs` | the inductive invariant of `ShmAlloc` and its theorems |
| `ShmPromiseProofs` | `ShmAlloc` implements `ShmObjects`; its counters and its walks are those of `ShmAllocWalk` |
| `ShmStoresProofs` | the iteration without the lock, and ids, beside processes that die in any call |
| `ShmCapProofs`, `ShmRegionProofs`, `ShmPayloadProofs`, `ShmWrapProofs` | the theorems about those components |

### How `ShmAlloc` corresponds to the code

`heap.blk` maps a heap offset to the header there, for the headers whose magic is
valid: writing `magic` adds an offset, poisoning (`magic = 0`) removes it. The
other fields of `heap` are those of the region header. Sizes are the real ones
(a header is 56 bytes, the alignment 8, the smallest block 64). Links keep their
1-based encoding; `Head` is the place where the list starts, so "the previous
node or `free_list`" (`prev_lnk == 0` in the code) is one case. `dir` maps a slot
number to its fields. `ret` is what the last call returned.

Each call holds the region mutex from its first read to its last write, so it is
one action, whoever makes it; the argument checks made before the lock read only
the arguments. `shm_alloc`, `shm_free`, `shm_resize` and `shm_block_set_perms`
have one disjunct per way they return. Below them the operators keep the names
of the C functions; pieces of a function have names of their own: `Splice` and
`Coalesce` (of `freelist_insert`), `Detach`, `Carve` and `Tag` (of
`heap_alloc_block`), `Shrink`, `Absorb` and `Relocated` (of `shm_resize`).

The free-list loops are written as what they find (`InsertPrev`, `FirstFit`,
`PrevOf`): the last node below an address, the lowest block that fits, the node
that links to a block. That the loops find exactly this is the invariant
`WalksAgree`, checked and proved against the walks of `ShmAllocWalk`, which are
recursive functions with one application per turn of a loop.

A relocation may compute a negative number of bytes to clear
(`shm_alloc.c:806`). The memset then runs off the mapping and the process dies
in the middle of `shm_resize`; the model sets `ret` to `CRASH` and stops there,
and the invariants speak of states before that.

Left out of the state: `type_tag`, which is stored and returned and never
tested by the C code; NULL arguments, refused before anything is read; user data
that imitates a header's magic at an offset where `shm_ptr` or an in-place growth
looks for one. Payload bytes are the subject of `ShmPayload`. Sizes are unbounded integers;
`HeapAssumption` (the heap holds at least one block) excludes the regions for
which `region_init` computes a wrapped heap size.

### `ShmCap`

A capability is the record of its packed words, plus two fields that the code
does not store and only the properties mention: the object it came from and
what could be granted then. The widths of epoch and bounds are constants.
`owner_lo` is packed by the code and read by nothing. Deref and is_valid are
evaluated against every state, which is the view of a holder that uses its
capability while no writer is inside a call.

### `ShmRegion`

`shm_region_open` and `shm_region_close` take the region mutex only to count, so
every system call is a step here, and `region_init` is cut where another process
could see it half done: the magic, the rest of the header, the mutex, the heap.
`proc[p]` is the handle of a process together with the place it has reached;
`file[f]` is the header of a memory object; `name` is the object that the name
stands for. A process may die anywhere; it does not come back, another one takes
its part. `counted` and the fields of dead processes are kept for the properties
alone.

`Orderly` stands for the callers. With TRUE, a region is created only when nobody
uses the object behind its name, and opened by others when it is complete, as
`test_multihost.c` does with a pause; the name may still be unlinked and created
again while other processes use the former object. With FALSE, nobody waits.
External are what the system does: a fresh object from `shm_open`, and death.
Sizes are told apart at the 4096 bytes that the code tests for.

### `ShmStores`

Where `ShmAlloc` takes a locked call as one step, this module takes the stores it
makes, in the order of the code. `AllocStores`, `FreeStores`, `ResizeStores` and
`SetPermsStores` give the sequence of stores of a call on the memory `m` it finds;
`Store` makes one of them at a time and the last is followed by `region_unlock`.
Stores that nobody could tell apart are one (the fields of a header that is not
linked yet, the two counters, the fields of a slot that no reader here copies).
The id, the offset and the capacity of a new slot are stores of their own, since a
reader that has passed its test of `alive` may see one without the next. Objects
are anonymous, so the name's store (`shm_alloc.c:637-638`) is left out. The whole sequence is known when the mutex is
taken, since nobody else writes metadata until the call returns or its process
dies. The free-list walks are the code's loops: they trust every link and look at
no magic, so a list that a dead process left behind leads them wherever it leads.

- `Die`: the process holding the mutex is gone, between any two stores of a call
  in `Mortal`; the next `region_lock` gets `EOWNERDEAD` and carries on
  (`shm_alloc.c:405-410`).
- `Reader`: the iteration of `shm_alloc.h:358-364`, one field per step. Of the
  fields copied, id, offset and capacity are followed. For `IterationComplete` the reader
  carries `rd.steady`, the objects that have been in their slots since it began
  and that no store has changed, and `rd.reports`, those of them it has returned
  together with the slot: each must be returned, and from one slot only.
- `dirty`: the fields stored and not yet in a flushed cache line. `Base` and
  `FieldOffset` are the layout of the structs on LP64 with glibc's 40-byte mutex,
  `shm_persist` the lines it walks over. A flush takes effect at once, which
  `shm_drain` guarantees before the call returns; without a cache mode chosen at
  compile time the flushes are no-ops and nothing is promised.
- `base` is the memory between calls, for the refinement: `CallsAreAtomic` says
  that as long as nobody dies, each sequence of stores is one step of `ShmAlloc`.
- A relocation that runs off the mapping (`shm_alloc.c:806`) ends the model, as in
  `ShmAlloc`; this is why `stores` does not check for deadlock.

### `ShmPayload`

`bytes` holds the heap in words of four bytes: 0, the id of the object whose owner
wrote the word, or `JUNK` where a header is and in free blocks. In the code a free
block holds what was left in it, old contents and old headers; the model lets
it be anything but what an object may show, which is the worst case for every
property and keeps the states few. Every action is the one of `ShmAlloc` together
with what it does to the words: `shm_alloc` clears `payload_cap` bytes, a relocation
copies the old `payload_cap` and clears the difference, new headers overwrite what
was there, everything else leaves the words alone. `Fill` is an owner that writes
all the bytes it asked for through `shm_ptr`.

What belongs to an object is `Extent`, the larger of `used_size` and `payload_cap`.
They differ both ways: a rounded or unsplit block has a larger capacity, and a
merged block that is handed out whole keeps the `payload_cap` from before the merge,
which may be below `used_size`. The bytes in between (`Beyond`) are the caller's and
the code forgets them, so the properties name them as what they are, exceptions:

- `NothingInherited` excepts `Beyond`, which `shm_alloc` does not clear, and objects
  that have grown in place, whose new bytes are not cleared either
  (`shm_alloc.c:761-791`). `ZeroFilled` has no exception for the first, because the
  documentation has none, and is violated.
- `ContentsKept` covers the whole `Extent` in every call; when the object itself is
  relocated, the bytes in `Beyond` are excepted: they are not copied.

### `ShmWrap`

`shm::make` is `shm_alloc`, `shm_ptr`, the constructor; `shm::free` is `shm_ptr`,
the destructor, `shm_block_info`, `shm_free`. Each is a step, and between two of
them other users allocate, free, resize and look up. `proc[p]` is a process with
its handle, which nothing resets, so it may be stale; `find` can give it a handle
to another user's object. Every user is one process: two processes acting for one
user can destroy an object twice, and the library has no means to prevent it. Nobody
has ADMIN, which would allow one user to take away another's block in between.
`built` and `zombies` are kept for the properties. Casts and type tags are left
out; so are constructors that throw.

## 3. Runs

| Run | Result | What it shows |
|---|---|---|
| `heap` | passes, 39,675 states | type, tiling, list, coalescing, fit, walks and accounting; no call moves, resizes, relabels or overwrites an object it is not about; a relocation keeps what `payload_cap` covers; an object shows nothing of its predecessors, unless it grew in place, within a `payload_cap` that may be stale |
| `directory` | passes, 2,191 states | directory and headers agree; lookups by id and by name lead to accessible blocks; `ShmAlloc` implements `ShmObjects` up to the crash of `resize_returns`, and each call does for its caller what the interface allows that caller |
| `capabilities` | passes, 50,507 states | an accepted capability reaches its own object and stays inside its block; narrowing never widens |
| `region` | passes, 2,063,513 states | `host_count` is exact but for the dead; no exit leaks; enforcement keeps foreign processes out |
| `region_live` | passes, 12,418 states | every open and close returns although owners of the mutex die |
| `stores` | passes, about 1.5 million states | after deaths inside `shm_alloc` at any store the list is consistent and live objects keep their bytes; counters read without the lock stay in range; an iteration without the lock is complete for what stays put; no id is given twice; live objects are persisted; calls are atomic |
| `wrappers` | passes, 105,088 states | constructors and destructors run in the caller's own live block, on the object that is then freed; a destructor runs once, unless `shm_free` refused what it had destroyed. For users that are one process each and have no ADMIN |
| `resize_returns` | violated | `shm_resize` can crash in a relocation |
| `zero_fill` | violated | `shm_alloc` can hand out bytes that it did not clear |
| `attach_race` | violated | a process can attach to a region that is not complete |
| `crash_list` | violated | a death inside `shm_free` leaves overlapping blocks on the free list |
| `durable` | violated | a call can return with metadata that no `shm_persist` covered |

Every property of a passing run has a mutant: an operator named
`<definition>_<fault>` beside the definition it replaces, with a plausible
mistake, under which TLC finds the property violated.

### Bounds

- `heap`, `resize_returns`, `zero_fill`: 268 bytes hold four blocks of the smallest
  size, enough for a free block with free blocks on both sides and an allocated
  one besides; 268 is not a multiple of 8, so the last block is odd. In `heap` size 0
  is refused, and sizes 8, 72 and 80 give remainders below and above `BLOCK_MIN` and
  let an object with a stale `payload_cap` be moved: allocate 80 and 8, free the
  second, allocate 72, free the first, resize the last to 80. Three ids on three
  slots: every order of frees, reuse of a block by a smaller and by a larger object,
  growth of both kinds. `resize_returns` has sizes 8, 16 and 72 and four ids. One
  user with every permission: permissions are the subject of `directory`.
- `directory`: two slots fill up; two users, an administrator, objects that lose
  `WRITE`, `FREE` and `RESIZE`; a short name, which is found, and one that is stored
  truncated (`shm_alloc.c:637-638`) and is not found by the full name.
  Two ids are enough: neither the directory nor the
  abstract table depends on where blocks lie, and `DirectoryMatchesHeap` and the
  refinement itself are proved for all values. `ImplementsPromise` alone cannot tell which caller made a step,
  and an administrator may do anything; `EveryCallKept` compares each concrete
  call with the abstract call of the same caller.
- `capabilities`: two capabilities outstanding, three ids on two slots, so offsets
  are reused. `BoundMod` is 64, so the truncation of `payload_cap` (2^32 in the
  code) does happen: 8 and 72 compare equal. `EpochMod` is the code's 2^16,
  above every id; ids 65536 apart share an epoch, so `DerefSound` is a statement
  about capabilities that are not kept for that many allocations.
- `region`, `attach_race`: three processes (two for the violation),
  of which the third is in another namespace, so that one can create, one wait
  for the mutex and one die; two memory objects, so that a name can be created
  again while its former object is in use. One kind of fingerprint: the
  two checks of the code have the same form and are independent.
- `region_live`: the DAX backend, three processes, one device, no fingerprints.
- `stores`, `crash_list`, `durable`: 204 bytes hold three smallest blocks with an
  odd last one, so a block can have free neighbours on both sides, split, absorb,
  grow in place and move. Three ids on two slots let a slot be reused under the
  reader's cursor. Deaths are unlimited in number; `stores` lets them happen inside
  `shm_alloc`, the one call whose order of stores survives them, and `crash_list`
  inside `shm_free`. A death inside `shm_resize` fails in the same
  `freelist_insert`.
- `wrappers`: two users, two slots, three ids; objects that cannot be constructed
  (no `WRITE`) or cannot be freed (no `FREE`); handles made stale by a relocation
  or by another user's allocation at the same offset.

`MaxId` bounds the number of allocations; it is the only bound in a guard, with
`MaxCaps`. When it is reached, frees, resizes and changes of permissions go on.

### Fairness

`region_live` alone assumes any: weak fairness of each process's own steps inside
a call (they are system calls and stores that do not wait), and strong fairness of
`region_lock`, since a mutex that is released again and again is obtained by a
waiter sooner or later. That the mutex survives its owner is not assumed: it
follows from `InitMutex` having made it robust, and the mutant that forgets this
breaks `CallsReturn`. Nobody has to open, close or die. Calls of `ShmAlloc` are
one step each, and a caller may stop calling at any time, so nothing is claimed
about their progress.

## 4. Findings

1. `freelist_insert` merges `total_size` and not `payload_cap`. A merged block
   that is later handed out without a split keeps the old, smaller value. Three
   things follow.
   - A relocation into it computes `nb->payload_cap - b->payload_cap` as a negative
     `size_t` (`ResizeReturns`): allocate 16 and 72 bytes, shrink the second to 8,
     grow the first to 72.
   - `shm_alloc` clears less than the caller asked for (`ZeroFilled`): allocate 8 and
     72 bytes, shrink the second to 8, allocate 72; of the new object 8 bytes are
     cleared and the rest still holds an old header. `shm_alloc.hpp:89` and the
     comment at `shm_alloc.c:621-622` say otherwise.
   - A relocation out of it copies less than its owner wrote
     (`shm_alloc.c:803-805`), although `shm_alloc.h:291` says that data is copied.
     This is the exception in `ContentsKept`; `zero_fill` shows the same cause, so no
     run repeats it.
2. `region_init` stores the magic first. Whoever attaches before it is done is
   let in, without a heap and with a mutex of zero bytes
   (`OthersSeeCompleteState`).
3. `freelist_insert` enlarges a block before it bypasses the one it absorbs. A
   process that dies in between leaves overlapping blocks on the list, and
   recovery accepts the mutex as it is (`FreeListConsistent` under `crash_list`);
   later allocations can hand out the same bytes twice. Inside `shm_alloc` the
   order keeps the list consistent and every live object's bytes its own
   (`FreeListConsistent`, `LiveDisjoint` under `stores`). Free space is another
   matter: a death between the shortened `total_size` and the link to the remainder
   (`shm_alloc.c:236-247`) loses the whole remainder for good, possibly most of the
   heap. Nothing promises otherwise and no property speaks of it.
4. `used_bytes`, `block_count` and a predecessor's `next_free` are changed on
   paths where no `shm_persist` covers them (`MetadataDurable`). What describes
   live objects is always covered (`ObjectsDurable`).

Smaller disagreements that reading the code shows and no run asks about: the epoch
of a capability is 16 bits of the id and wraps (`shm_cap.c:142-144`); a capability
invalidated by a resize is valid again when the capacity returns, for the same
object (`shm_cap.c:150-152`); `host_count` keeps counting processes that died,
which is how `HostCountExact` is stated; `shm::make` with permissions that lack
`READ` or `WRITE` fails with the object allocated (`shm_alloc.hpp:281, 302`);
`shm::free` runs the destructor before it knows whether it may free.

## 5. Proofs

Everything here holds for all values of the constants that satisfy the modules'
assumptions: `HeapAssumption`, `DirAssumption` and `InputAssumption` (the heap
holds one block; sizes, users and ids are natural numbers), and
`CapAssumption`, `RegionAssumption`, `PayloadAssumption` (heap and requests are
whole words) and `StoresAssumption` (the directory has a natural number of slots)
for their modules.

| Module | Theorem | Property | Under |
|---|---|---|---|
| `ShmAllocProofs` | `Invariance` | `IInv`, the inductive invariant | |
| | `TypeCorrectness` | `TypeOK` | |
| | `Tiling` | `HeapTiled` | |
| | `FreeListCorrect` | `FreeListSound` | |
| | `Coalescing` | `FullyCoalesced` | |
| | `DirectoryConsistency` | `DirectoryMatchesHeap` | |
| | `ObjectsFit` | `ObjectsFitTheirBlocks` | |
| | `NoFragmentsLeft` | `EmptyMeansWhole` | |
| | `LookupsLead` | `LookupLeadsToBlock` | |
| | `OthersAreUndisturbed` | `OthersUndisturbed`, of every step | |
| `ShmPromiseProofs` | `Implements` | `ImplementsPromise`, the refinement | |
| | `CallsAreKept` | `EveryCallKept`, of every step | |
| | `AccountingIsExact` | `AccountingExact` | |
| | `WalksAreRight` | `WalksAgree` | |
| `ShmStoresProofs` | `IterationIsComplete` | `IterationComplete`, deaths in any call | |
| | `IdsAreUnique` | `IdsUnique`, deaths in any call | |
| `ShmCapProofs` | `CapTypes` | `CapTypeOK` | |
| | `NoWidening` | `CapsNeverWiden` | |
| | `DerefIsSound` | `DerefSound` | `MaxId <= EpochMod` |
| `ShmRegionProofs` | `RegionTypes` | `RegionTypeOK` | |
| | `NoLeaks` | `NothingLeaked` | |
| | `HostsCounted` | `HostCountExact` | `Orderly` |
| | `StrangersKeptOut` | `OnlyKindredAttached` | `Orderly` |
| | `CompleteForOrderly` | `OthersSeeCompleteState` | `Orderly` |
| `ShmPayloadProofs` | `NothingIsInherited` | `NothingInherited` | |
| | `ContentsAreKept` | `ContentsKept`, of every step | |
| `ShmWrapProofs` | `WrapTypes` | `WrapTypeOK` | `NoAdmin` |
| | `OwnBlocksStay` | `ResolvedStaysOwn` | `NoAdmin` |
| | `RaiiIsHonoured` | `RaiiHonoured` | `NoAdmin` |
| | `DestructorsRunOnce` | `DestroyedOnce` | `NoAdmin` |

### The allocator

None of the invariants is inductive alone. An insertion finds its place by address
only if the list is already exact; it keeps the tiling only if the merged blocks
really touch, which the tiling says; coalescing is complete only if the
neighbour on the list is the neighbour in memory, which needs tiling and list
together; and a call frees the right block only if the directory points to an
allocated header. So the invariant is one conjunction,

    IInv == TypeOK /\ (~Crashed => GoodHeap(heap) /\ DirOK(heap, dir, next_id))

where `GoodHeap` is typed, tiled, threaded, coalesced, with each payload inside
its block, and `DirOK` says that live slots and used blocks correspond one to
one and agree, and that a block is between what its object needs and that plus
`BLOCK_MIN`.

The argument has two layers. `ShmHeapProofs` describes each primitive on a good
heap by what it leaves: `FreelistInsertIs` (the result is good, the other used
blocks are the same), `HeapFreeBlockIs`, `HeapAllocBlockIs`, `ShrinkIs`,
`GrowInPlaceIs`, `RelocateIs`. They rest on facts about lists and tilings alone:
splicing a node in (`SpliceThreads`), unlinking one (`UnlinkThreads`), replacing
one (`ReplaceThreads`), merging two blocks (`MergeTiles`), cutting one
(`CarveKeeps`). `ShmAllocProofs` then treats the directory as a map beside the
heap (`DirAdd`, `DirRemove`, `DirChange`).

What a call does, as far as anyone outside the heap can tell, is one of five
things: it creates an object, removes one, resizes one, changes the permissions of
one, or dies (`Created`, `Removed`, `Resized`, `Repermed`, `Died`); otherwise it
changes nothing. `AllocDoes`, `FreeDoes`, `ResizeDoes` and `SetPermsDoes` prove
this once, and everything after them, `IInv` included, is proved of the five
effects and not of the code again. `LookupsLead` needs the invariant because a lookup reads
the slot and `shm_ptr` reads the header; `OthersAreUndisturbed` because a merge or
a split rewrites headers next to the one it is about.

A list is described by its set of nodes (`Threads`): each node links to the next
higher node of the set. This needs no induction along the list, except the fact
that a non-empty bounded set of offsets has a highest or lowest member, which
the proofs take from well-founded induction on the natural numbers.

### The interface

The refinement maps the directory to a table of objects under their ids
(`Objects`). Ids are unique among live slots, so the table is a function of the
directory, and a slot that changes changes one entry. Each of the five effects is
a step of the table: an entry gained, lost or replaced (`Gained`, `Lost`,
`Replaced`). Besides `IInv` the argument needs `next_id <= MaxId + 1`
(`PromiseInv`), since the abstract specification bounds its ids too. That a call is
refused for want of a slot exactly when the table is full is a matter of counting:
the live slots and the entries are in bijection. `CallsAreKept` says more than
the refinement: each concrete call is the abstract call of the same caller on the
same object, which for `shm_block_set_perms` rests on the header's copy of owner
and permissions being the slot's. The interface does not allow a call to kill its
caller; that `shm_resize` can is one further disjunct of both statements (`Dies`,
of an authorised caller), and the abstract specification is free of it.

### Counters and walks

`AccountingExact` compares `used_bytes` and `block_count` with the bytes and the
number of the used blocks. The bytes are counted as the cardinality of the set of
offsets the blocks cover, so no sum over a set is needed: by tiling the blocks are
disjoint, and a union of disjoint sets has the sum of their cardinalities
(`BytesUnion`); by tiling again used and free blocks together cover the whole heap
(`BytesAll`). `BookInv` adds to `IInv` that the counters are right
(`Booked`). It is not enough that a call keeps the other blocks: the
five effects also say by how much the counters moved (`Counted`, proved of each
heap primitive in `ShmHeapProofs`), and a block taken, given back or replaced
(`BookTaken`, `BookReleased`, `BookPlaced`) moves the bytes by as much. A resize
that failed to give back its old block, or gave back the wrong size, would fail here.

`WalksAgree` needs no invariant beyond `IInv`, but an induction along the list. The
walks are recursive functions on the nodes of the list. A function is defined by
an equation that might have no solution, or many, and has just one here
because the links of a sound list go up and end: it maps each node to the lowest
stop from there on (`WalkIs`, by well-founded induction on the natural numbers). The three loops of the code are three conditions
(`WalkInsertIs`, `WalkFitIs`, `WalkRemoveIs`).

### Capabilities

`CapInv` adds to `IInv` that a capability is for an id that was issued, carries that
id's epoch and grants no more than was available. An accepted capability finds an
object with the same epoch; that it is the same object follows when ids up to
`MaxId` have different epochs, which is what `MaxId <= EpochMod` says. The code does
not guarantee it: after 65536 allocations epochs repeat, and the theorem is then a
statement about the first 65536. `NoWidening` needs no such hypothesis. That the
bounds stay inside the block needs none either: the truncation only makes them
smaller.

### Regions

What a process has to give back does not depend on the others: `HandlesInv` says
at which places of its call a process has an object, a mapping and a descriptor,
and `NoLeaks` follows for processes in any order, death included.

The rest is about processes that create and attach in order (`Orderly`, a constant
of `ShmRegion`; `attach_race` shows what happens without). `OrderInv` says of each
process what it may rely on where it is (`InOrder`): while it creates a region it
has the object to itself and what it wrote stays; when it attaches, the region is
complete; from lock to unlock it owns the mutex, and the count it has loaded is the
one in the header; once let in it stays of the region's kind. And it says of each
complete region (`Exact`) that `host_count` is the size of the set of processes
that counted themselves, each of which is attached, closing or dead. `Exact` alone is not
inductive because the count is read and written in two steps; the second is right
only if nobody wrote in between, which is the clause on the mutex, which in turn
needs that nobody initialises the mutex again. The proof has one lemma per
step for the process that moves, and one fact (`Respects`) for all the others: the
step leaves alone what they rely on. `CompleteForOrderly` is the statement that
`attach_race` refutes, for the orderly: what it takes to break it is a process that
attaches before the creator is done.

### Payloads

`PayInv` adds to `IInv` that an object that has not grown in place holds only zeros
and what its owner wrote, but for the words beyond a stale `payload_cap` (`Clean`),
and that blocks start at whole words (`OnGrid`). An object's `Extent` lies inside its block, stale `payload_cap` or not,
since `DirOK` bounds both sizes by the block.
By tiling no two objects and no object and a header share a word (`ObjectWords`), so
it is enough to apply this to the heap after a call: headers, the cleared payload and
the target of a copy miss every other object (`Beside`). The grid is needed for
relocation alone: a copy moves word k of the old payload to word k of the new one only
if both start at a word. That blocks stay on it is an invariant of its own, since every
new header is put at a block plus a rounded request. A relocation writes
only inside its new block because it does not run when it would underflow; that
condition is part of `Resized`. TLC checked `PayInv` on the states of `heap` first.

### Stores

`IterInv` is about the directory, `next_id`, the stores a call has yet to make and
the reader. Nothing is said of the heap, on purpose: after a death in any call its
headers and links may be anything, and a walk through them may lead anywhere, so the
proofs treat what a call stores there as opaque (`PlainStore`) and hold for every
value of `Mortal`. Three parts need one another:

- `IdsOK`: the ids in the slots, also in those that a dead process left half
  written, are different and below `next_id`.
- `PlanOK`: of the stores still to be made, one that names a slot gives it an id
  that no slot has and that `next_id` has passed, or will have passed by then. This
  is the order of `shm_alloc.c:611-625`, in which a death wastes an id but never
  leaves one that can be given again. `AllocPlan`, `FreePlan`, `ResizePlan` and
  `PermsPlan` show it for the sequence each call computes when it takes the lock,
  and `StorePlan` that it stays true of the rest after each store.
- `ReaderOK`: what has been reported is exactly what is steady in the slots before
  the cursor, and the fields already copied are those of the slot under it.

A reader copies a slot field by field while a writer rewrites it, so it may copy a mixture.
That it cannot report a steady object twice, or miss it, rests on `WasThere`: an
object that is in a slot after a store and was steady before was in the same slot
before, because no store puts an old id into a slot (`IdsKept`). If ids could be
reused the reader could take a new object for a steady one. TLC checked
both properties on the states of `stores`.

### Wrappers

`NoAdmin` says that no caller's and no object's permission word contains ADMIN. With
ADMIN a caller may free or move what belongs to others between two C calls of a
wrapper, and the wrappers have no means to notice; that case is not claimed. `WrapInv`
adds to `IInv`: a process inside a wrapper has its handle at a block that is used and
its own (`Busy`), in the condition the next step relies on; every object that can be resolved is
constructed, or destroyed in vain, or its owner is just making or freeing it
(`Settled`); every constructed object has a block (`Exist`). The second clause is
what the first needs: `shm::free` on a stale handle may find a block of the same
user made since, and its destructor runs there; that it runs on a constructed
object is known only if all resolvable objects are. TLC checked `WrapInv` on
the states of `wrappers` before it was proved.

### Only model-checked

- `StoresTypeOK`, `FreeListConsistent`, `LiveDisjoint`, `CountersInRange`,
  `ObjectsDurable` and `CallsAreAtomic` of `ShmStores`. The first four speak of
  the heap after deaths inside `shm_alloc`, where a leaked block keeps a valid
  header beside a list that skips it, and `CallsAreAtomic` of the heap that a folded
  sequence of stores leaves; both need an account of the heap for every prefix of
  every call's stores, with an induction over that sequence. `ObjectsDurable` needs
  the same account of cache lines.
- `CallsReturn`: liveness under fairness.
- The five violations, which are counterexamples.

## 6. Plan

Done: all modules of section 2, their runs, the inductive invariants of `ShmAlloc`,
`ShmCap`, `ShmRegion`, `ShmPayload` and `ShmWrap` and their theorems, the
refinement, the counters and the walks, and of `ShmStores` the reader and the ids.
Next:

1. That a call of `ShmStores` without a death ends where `ShmAlloc`'s does, from the
   lemmas of `ShmHeapProofs` on each primitive (`CallsAreAtomic`).
2. From there the list and the live blocks after deaths inside `shm_alloc`
   (`FreeListConsistent`, `LiveDisjoint`).

### Not modelled

- The cache instructions of `shm_persist.h` for each architecture: which lines are
  flushed is modelled, how is the hardware's matter.
- `/proc` behind `shm_ns.c`: a fingerprint is a number that a process has.
- `shm_cap.hpp` and the accessors of a capability's fields: each forwards to one
  operation of `shm_cap.c` and keeps nothing.
- Casts and type tags of `shm_alloc.hpp`; constructors that throw.
- A header read in pieces by `shm_ptr` or `shm_cap_deref` while a writer is inside
  a call: their checks are one step.
- Sizes close to 2^64 and regions too small for their directory, where the code's
  arithmetic wraps: the proofs and the models take sizes as natural numbers.
- The tests and the Makefile, which were read as evidence of what is meant.
