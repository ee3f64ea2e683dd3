--------------------------- MODULE ShmAllocProofs ---------------------------
(***************************************************************************)
(* The allocator keeps its heap and its directory consistent, for every    *)
(* heap size, directory size and sequence of calls.  The heap lemmas are   *)
(* in ShmHeapProofs; here they are put together with the directory.        *)
(***************************************************************************)
EXTENDS ShmHeapProofs

Live(d) == {i \in Slots : d[i].alive = 1}
At(d, i) == shm_blk_of_poff(d[i].off)

\* Slot e describes the block with header b, which is large enough for the
\* object and wastes less than BLOCK_MIN bytes.
Agrees(e, b) ==
    /\ b.obj_id = e.id /\ b.owner = e.owner /\ b.perms = e.perms
    /\ b.payload_cap = e.capacity
    /\ NeedTotal(e.used_size) <= b.total_size
    /\ b.total_size < NeedTotal(e.used_size) + BLOCK_MIN

\* Directory d, in which ids below n were issued, describes heap h.
DirOK(h, d, n) ==
    /\ \A i \in Live(d) :
          /\ d[i].id \in 1 .. n - 1
          /\ At(d, i) \in Used(h)
          /\ Agrees(d[i], h.blk[At(d, i)])
    /\ \A i, j \in Live(d) : d[i].id = d[j].id => i = j
    /\ \A o \in Used(h) : \E i \in Live(d) : At(d, i) = o

\* The inductive invariant.
IInv == TypeOK /\ (~Crashed => GoodHeap(heap) /\ DirOK(heap, dir, next_id))

-----------------------------------------------------------------------------
(***************************************************************************)
(* Sizes and scans.                                                        *)
(***************************************************************************)
\* A request is rounded up to whole words, header included.
LEMMA NeedTotalIs ==
    ASSUME NEW n, n \in Nat
    PROVE  /\ NeedTotal(n) \in Nat
           /\ HDR + n <= NeedTotal(n)
           /\ n # 0 => NeedTotal(n) >= BLOCK_MIN
    BY DEF NeedTotal, shm_align_up, HDR, HEAP_ALIGN, BLOCK_MIN

\* A scan of the directory that finds something finds a slot it looked for.
LEMMA LowestIs ==
    ASSUME NEW S, S \subseteq Slots, S # {}
    PROVE  Lowest(S) \in S
<1>1. S \in SUBSET Nat
      BY DirAssumption DEF Slots
<1>2. \E i \in S : \A j \in S : i <= j
      BY <1>1, LeastExists
<1> QED
    BY <1>2 DEF Lowest

\* The directory check succeeds only for a live slot with the id.
LEMMA AccessByIdIs ==
    ASSUME NEW d, NEW id, NEW u, NEW cp, NEW req,
           AccessById(d, id, u, cp, req) = "OK"
    PROVE  /\ dir_find_by_id(d, id) \in Live(d)
           /\ d[dir_find_by_id(d, id)].id = id
<1>1. SlotsOfId(d, id) # {}
      BY DEF AccessById
<1>2. SlotsOfId(d, id) \subseteq Slots
      BY DEF SlotsOfId
<1>3. dir_find_by_id(d, id) \in SlotsOfId(d, id)
      BY <1>1, <1>2, LowestIs DEF dir_find_by_id
<1> QED
    BY <1>3 DEF SlotsOfId, Live

\* The errors an access check returns are errno values.
LEMMA AccessByIdType ==
    ASSUME NEW d, NEW id, NEW u, NEW cp, NEW req
    PROVE  AccessById(d, id, u, cp, req) \in Errno
    BY DEF AccessById, check_dir_access, Access, Errno

-----------------------------------------------------------------------------
(***************************************************************************)
(* The three ways in which an operation changes heap and directory.        *)
(***************************************************************************)
\* A block is taken into use and a slot that was not live describes it.
LEMMA DirAdd ==
    ASSUME NEW h, NEW d, d \in [Slots -> Slot], NEW n, n \in Nat \ {0},
           DirOK(h, d, n), NEW i \in Slots, i \notin Live(d),
           NEW g, NEW b, b \notin Used(h), Used(g) = Used(h) \cup {b},
           \A o \in Used(h) : g.blk[o] = h.blk[o],
           NEW e, e \in Slot, e.alive = 1, e.id = n,
           shm_blk_of_poff(e.off) = b, Agrees(e, g.blk[b]),
           NEW f, f = [d EXCEPT ![i] = e]
    PROVE  f \in [Slots -> Slot] /\ DirOK(g, f, n + 1)
<1>1. /\ f \in [Slots -> Slot] /\ f[i] = e
      /\ \A j \in Slots : j # i => f[j] = d[j]
      OBVIOUS
<1>2. Live(f) = Live(d) \cup {i}
      BY <1>1 DEF Live
<1>3. \A j \in Live(d) : j # i /\ j \in Slots /\ f[j] = d[j] /\ At(f, j) = At(d, j)
      BY <1>1 DEF Live, At
<1>4. At(f, i) = b
      BY <1>1 DEF At
<1>5. ASSUME NEW j \in Live(f)
      PROVE  /\ f[j].id \in 1 .. (n + 1) - 1
             /\ At(f, j) \in Used(g)
             /\ Agrees(f[j], g.blk[At(f, j)])
  <2>1. CASE j = i
        BY <1>1, <1>4, <2>1
  <2>2. CASE j # i
    <3>1. j \in Live(d) /\ f[j] = d[j] /\ At(f, j) = At(d, j)
          BY <1>2, <1>3, <2>2
    <3>2. d[j].id \in 1 .. n - 1 /\ At(d, j) \in Used(h)
          /\ Agrees(d[j], h.blk[At(d, j)])
          BY <3>1 DEF DirOK
    <3> QED
          BY <3>1, <3>2
  <2> QED
        BY <2>1, <2>2
<1>6. ASSUME NEW j \in Live(f), NEW k \in Live(f), f[j].id = f[k].id
      PROVE  j = k
  <2>1. \A m \in Live(d) : f[m].id \in 1 .. n - 1 /\ f[m].id = d[m].id
        BY <1>3 DEF DirOK
  <2>2. f[i].id = n /\ n \notin 1 .. n - 1
        BY <1>1
  <2>3. CASE j = i \/ k = i
    <3>1. \A m \in Live(d) : f[m].id # n
          BY <2>1, <2>2
    <3>2. f[j].id = n /\ f[k].id = n
          BY <1>6, <2>2, <2>3
    <3>3. j \notin Live(d) /\ k \notin Live(d)
          BY <3>1, <3>2
    <3> QED
          BY <1>2, <3>3
  <2>4. CASE j # i /\ k # i
    <3>1. j \in Live(d) /\ k \in Live(d) /\ d[j].id = d[k].id
          BY <1>2, <1>6, <2>1, <2>4
    <3> QED
          BY <3>1 DEF DirOK
  <2> QED
        BY <2>3, <2>4
<1>7. ASSUME NEW o \in Used(g)
      PROVE  \E j \in Live(f) : At(f, j) = o
  <2>1. CASE o = b
        BY <1>2, <1>4, <2>1
  <2>2. CASE o # b
    <3>1. PICK j \in Live(d) : At(d, j) = o
          BY <2>2 DEF DirOK
    <3> QED
          BY <1>2, <1>3, <3>1
  <2> QED
        BY <2>1, <2>2
<1> QED
    BY <1>1, <1>5, <1>6, <1>7 DEF DirOK

\* Two live slots never describe the same block.
LEMMA DirInjective ==
    ASSUME NEW h, NEW d, NEW n, DirOK(h, d, n),
           NEW i \in Live(d), NEW j \in Live(d), At(d, i) = At(d, j)
    PROVE  i = j
    BY DEF DirOK, Agrees

\* A block is given back and its slot is cleared.
LEMMA DirRemove ==
    ASSUME NEW h, NEW d, d \in [Slots -> Slot], NEW n, DirOK(h, d, n),
           NEW i \in Live(d), NEW g, Used(g) = Used(h) \ {At(d, i)},
           \A o \in Used(h) \ {At(d, i)} : g.blk[o] = h.blk[o],
           NEW f, f = [d EXCEPT ![i] = EmptySlot]
    PROVE  f \in [Slots -> Slot] /\ DirOK(g, f, n)
<1>0. i \in Slots
      BY DEF Live
<1>1. /\ f \in [Slots -> Slot] /\ f[i].alive = 0
      /\ \A j \in Slots : j # i => f[j] = d[j]
  <2>1. EmptySlot \in Slot /\ EmptySlot.alive = 0
        BY DEF EmptySlot, Slot, StoredNames
  <2> HIDE DEF EmptySlot
  <2> QED
        BY <1>0, <2>1
<1>2. Live(f) = Live(d) \ {i}
      BY <1>0, <1>1 DEF Live
<1>3. \A j \in Live(f) : /\ j \in Live(d) /\ f[j] = d[j]
                         /\ At(f, j) = At(d, j) /\ At(d, j) # At(d, i)
  <2> SUFFICES ASSUME NEW j \in Live(f)
               PROVE  /\ j \in Live(d) /\ f[j] = d[j]
                      /\ At(f, j) = At(d, j) /\ At(d, j) # At(d, i)
        OBVIOUS
  <2>1. j \in Live(d) /\ j # i /\ j \in Slots
        BY <1>2 DEF Live
  <2>2. f[j] = d[j] /\ At(f, j) = At(d, j)
        BY <1>1, <2>1 DEF At
  <2> QED
        BY <2>1, <2>2, DirInjective
<1>4. ASSUME NEW j \in Live(f)
      PROVE  /\ f[j].id \in 1 .. n - 1
             /\ At(f, j) \in Used(g)
             /\ Agrees(f[j], g.blk[At(f, j)])
  <2>1. d[j].id \in 1 .. n - 1 /\ At(d, j) \in Used(h)
        /\ Agrees(d[j], h.blk[At(d, j)])
        BY <1>3 DEF DirOK
  <2> QED
        BY <1>3, <2>1
<1>5. \A j, k \in Live(f) : f[j].id = f[k].id => j = k
      BY <1>3 DEF DirOK
<1>6. ASSUME NEW o \in Used(g)
      PROVE  \E j \in Live(f) : At(f, j) = o
  <2>1. PICK j \in Live(d) : At(d, j) = o
        BY DEF DirOK
  <2> QED
        BY <1>2, <1>3, <2>1
<1> QED
    BY <1>1, <1>4, <1>5, <1>6 DEF DirOK

\* Of the blocks in use, g has nb in place of h's block b.
Swapped(h, g, b, nb) ==
    /\ Used(g) = (Used(h) \ {b}) \cup {nb}
    /\ \A o \in Used(h) \ {b} : g.blk[o] = h.blk[o]

\* The object of slot i is now described by e and lives at nb.
LEMMA DirChange ==
    ASSUME NEW h, NEW d, d \in [Slots -> Slot], NEW n, DirOK(h, d, n),
           NEW i \in Live(d), NEW g, NEW nb, Swapped(h, g, At(d, i), nb),
           NEW e, e \in Slot, e.alive = 1, e.id = d[i].id,
           shm_blk_of_poff(e.off) = nb, Agrees(e, g.blk[nb]),
           NEW f, f = [d EXCEPT ![i] = e]
    PROVE  f \in [Slots -> Slot] /\ DirOK(g, f, n)
<1>a. /\ Used(g) = (Used(h) \ {At(d, i)}) \cup {nb}
      /\ \A o \in Used(h) \ {At(d, i)} : g.blk[o] = h.blk[o]
      BY DEF Swapped
<1>0. i \in Slots
      BY DEF Live
<1>1. /\ f \in [Slots -> Slot] /\ f[i] = e
      /\ \A j \in Slots : j # i => f[j] = d[j]
      BY <1>0
<1>2. Live(f) = Live(d)
      BY <1>0, <1>1 DEF Live
<1>3. \A j \in Live(d) : j # i => /\ f[j] = d[j]
                                  /\ At(f, j) = At(d, j)
                                  /\ At(d, j) # At(d, i)
  <2> SUFFICES ASSUME NEW j \in Live(d), j # i
               PROVE  f[j] = d[j] /\ At(f, j) = At(d, j) /\ At(d, j) # At(d, i)
        OBVIOUS
  <2>1. f[j] = d[j] /\ At(f, j) = At(d, j)
        BY <1>1 DEF At, Live
  <2> QED
        BY <2>1, DirInjective
<1>4. At(f, i) = nb
      BY <1>1 DEF At
<1>5. ASSUME NEW j \in Live(f)
      PROVE  /\ f[j].id \in 1 .. n - 1
             /\ At(f, j) \in Used(g)
             /\ Agrees(f[j], g.blk[At(f, j)])
  <2>1. d[j].id \in 1 .. n - 1 /\ At(d, j) \in Used(h)
        /\ Agrees(d[j], h.blk[At(d, j)])
        BY <1>2 DEF DirOK
  <2>2. CASE j = i
        BY <1>a, <1>1, <1>4, <2>1, <2>2
  <2>3. CASE j # i
        BY <1>a, <1>2, <1>3, <2>1, <2>3
  <2> QED
        BY <2>2, <2>3
<1>6. \A j \in Live(d) : f[j].id = d[j].id
      BY <1>1, <1>3
<1>7. \A j, k \in Live(f) : f[j].id = f[k].id => j = k
      BY <1>2, <1>6 DEF DirOK
<1>8. ASSUME NEW o \in Used(g)
      PROVE  \E j \in Live(f) : At(f, j) = o
  <2>1. CASE o = nb
        BY <1>2, <1>4, <2>1
  <2>2. CASE o # nb
    <3>1. PICK j \in Live(d) : At(d, j) = o
          BY <1>a, <2>2 DEF DirOK
    <3> QED
          BY <1>a, <1>2, <1>3, <2>2, <3>1
  <2> QED
        BY <2>1, <2>2
<1> QED
    BY <1>1, <1>5, <1>7, <1>8 DEF DirOK

-----------------------------------------------------------------------------
(***************************************************************************)
(* The inductive invariant: the initial state and every operation.         *)
(***************************************************************************)
\* A new region satisfies the invariant.
LEMMA InitIInv == Init => IInv
<1> SUFFICES ASSUME Init  PROVE IInv
      OBVIOUS
<1> DEFINE f == [o \in {0} |-> FreeHdr(HeapSize, 0)]
<1>1. /\ HeapSize \in Nat /\ HeapSize >= BLOCK_MIN /\ 0 \in Nat
      BY HeapAssumption
<1>2. /\ FreeHdr(HeapSize, 0) \in BlockHdr
      /\ FreeHdr(HeapSize, 0).allocated = 0
      /\ FreeHdr(HeapSize, 0).total_size = HeapSize
      /\ FreeHdr(HeapSize, 0).next_free = 0
      /\ HDR + FreeHdr(HeapSize, 0).payload_cap = HeapSize
      BY <1>1, FreeHdrIs
<1>3. /\ f \in [DOMAIN f -> BlockHdr] /\ DOMAIN f = {0}
      /\ f[0] = FreeHdr(HeapSize, 0)
      BY <1>2
<1>4. /\ heap = [blk |-> f, free_list |-> 1, used_bytes |-> 0, block_count |-> 0]
      /\ heap.blk = f /\ heap.free_list = 1
      BY DEF Init, shm_link_enc
<1> HIDE DEF f
<1>5. HeapTypeOK(heap)
  <2>1. DOMAIN heap.blk \subseteq 0 .. HeapSize - 1
        BY <1>1, <1>3, <1>4 DEF BLOCK_MIN, HDR, HEAP_ALIGN
  <2> QED
        BY <1>3, <1>4, <2>1 DEF HeapTypeOK
<1>6. Free(heap) = {0} /\ Used(heap) = {}
      BY <1>2, <1>3, <1>4 DEF Free, Used
<1>7. End(heap, 0) = HeapSize
      BY <1>1, <1>2, <1>3, <1>4 DEF End
<1>8. Tiled(heap) /\ CapsFit(heap)
      BY <1>1, <1>2, <1>3, <1>4, <1>7 DEF Tiled, CapsFit
<1>9. Threads(heap, {0})
  <2>1. Link(heap, Head) = 1 /\ Link(heap, 0) = 0
        BY <1>2, <1>3, <1>4 DEF Link, Head
  <2> QED
        BY <2>1 DEF Threads, Head, shm_link_dec
<1>10. Apart(heap, {0})
      BY <1>1, <1>7 DEF Apart, BLOCK_MIN, HDR, HEAP_ALIGN
<1>11. dir \in [Slots -> Slot] /\ Live(dir) = {}
  <2>1. EmptySlot \in Slot /\ EmptySlot.alive = 0
        BY DEF EmptySlot, Slot, StoredNames
  <2> HIDE DEF EmptySlot
  <2> QED
        BY <2>1 DEF Init, Live
<1>12. DirOK(heap, dir, next_id)
      BY <1>6, <1>11 DEF DirOK
<1>13. TypeOK
      BY <1>5, <1>11 DEF TypeOK, Init, Errno
<1> QED
    BY <1>5, <1>6, <1>8, <1>9, <1>10, <1>12, <1>13 DEF IInv, GoodHeap

\* A call that fails keeps the invariant.
LEMMA FailKeeps ==
    ASSUME IInv, ~Crashed, NEW errno \in Errno, Fail(errno)
    PROVE  IInv'
<1>1. heap' = heap /\ dir' = dir /\ next_id' = next_id /\ ret' \in Errno
      BY DEF Fail
<1>2. TypeOK'
      BY <1>1 DEF IInv, TypeOK
<1>3. GoodHeap(heap') /\ DirOK(heap', dir', next_id')
      BY <1>1 DEF IInv
<1> QED
    BY <1>2, <1>3 DEF IInv

\* What every successful operation has to establish.
LEMMA SuccessKeeps ==
    ASSUME GoodHeap(heap'), dir' \in [Slots -> Slot], next_id' \in Nat \ {0},
           ret' \in Errno, DirOK(heap', dir', next_id')
    PROVE  IInv'
    BY DEF IInv, TypeOK, GoodHeap

\* Payload offsets and block offsets are converted back and forth.
LEMMA OffsetsInvert ==
    ASSUME NEW b, b \in Nat
    PROVE  shm_poff_of_blk(b) \in Nat /\ shm_blk_of_poff(shm_poff_of_blk(b)) = b
    BY DEF shm_poff_of_blk, shm_blk_of_poff, HDR

\* Offsets and fields of a block in use have their types.
LEMMA UsedIs ==
    ASSUME NEW h, GoodHeap(h), NEW b \in Used(h)
    PROVE  /\ b \in Nat /\ b \in DOMAIN h.blk /\ h.blk[b].allocated = 1
           /\ h.blk[b].payload_cap \in Nat /\ h.blk[b].total_size \in Nat
           /\ h.blk[b].obj_id \in Nat /\ h.blk[b].owner \in Nat
           /\ h.blk[b].perms \in SUBSET Perm
    BY DEF GoodHeap, HeapTypeOK, BlockHdr, Used

\* What a successful shm_alloc has done: block b, which was not in use, is
\* described by slot i, which was free, and every other block is as it was.
Created(i, b, n, nm, u, P) ==
    /\ i \in Slots /\ i \notin Live(dir) /\ b \notin Used(heap)
    /\ GoodHeap(heap') /\ Used(heap') = Used(heap) \cup {b}
    /\ \A o \in Used(heap) : heap'.blk[o] = heap.blk[o]
    /\ \E e \in Slot :
          /\ dir' = [dir EXCEPT ![i] = e]
          /\ e.alive = 1 /\ e.id = next_id /\ e.name = nm /\ e.used_size = n
          /\ e.owner = u /\ e.perms = P /\ shm_blk_of_poff(e.off) = b
          /\ Agrees(e, heap'.blk[b])
    /\ Counted(heap, heap', heap'.blk[b].total_size, 1)
    /\ next_id <= MaxId /\ next_id' = next_id + 1 /\ ret' = "OK"

\* shm_alloc fails for a reason that the caller is told, or creates an object.
LEMMA AllocDoes ==
    ASSUME IInv, NEW n \in PayloadSizes, NEW name \in Names, NEW u \in Users,
           NEW P \in ObjPerms, shm_alloc(n, name, u, P)
    PROVE  \/ n = 0 /\ Fail("EINVAL")
           \/ n # 0 /\ FreeSlots(dir) = {} /\ Fail("ENOSPC")
           \/ n # 0 /\ FreeSlots(dir) # {} /\ Fail("ENOMEM")
           \/ /\ n # 0 /\ FreeSlots(dir) # {}
              /\ Created(dir_find_free_slot(dir), FirstFit(heap, NeedTotal(n)),
                         n, Trunc(name), u, P)
<1> DEFINE need == NeedTotal(n)
           i == dir_find_free_slot(dir)
           b == FirstFit(heap, need)
           h == heap_alloc_block(heap, need)
<1>0. ~Crashed /\ GoodHeap(heap) /\ DirOK(heap, dir, next_id) /\ TypeOK
      BY DEF shm_alloc, IInv
<1> DEFINE Failed == \/ n = 0 /\ Fail("EINVAL")
                     \/ n # 0 /\ FreeSlots(dir) = {} /\ Fail("ENOSPC")
                     \/ n # 0 /\ FreeSlots(dir) # {} /\ Fail("ENOMEM")
<1>1. CASE Failed
      BY <1>1
<1>2. CASE ~Failed
  <2>1. /\ n # 0 /\ FreeSlots(dir) # {} /\ Fits(heap, need) # {}
        /\ next_id <= MaxId /\ next_id' = next_id + 1
        /\ heap' = Label(h, b, u, P, next_id)
        /\ dir' = [dir EXCEPT ![i] =
                     [id |-> next_id, name |-> Trunc(name),
                      off |-> shm_poff_of_blk(b),
                      capacity |-> h.blk[b].payload_cap,
                      used_size |-> n, owner |-> u, perms |-> P, alive |-> 1]]
        /\ ret' = "OK"
        BY <1>2 DEF shm_alloc
  <2>2. /\ n \in Nat /\ u \in Nat /\ P \in SUBSET Perm /\ next_id \in Nat \ {0}
        /\ dir \in [Slots -> Slot] /\ Trunc(name) \in StoredNames
        BY <1>0, InputAssumption DEF TypeOK, StoredNames
  <2>3. need \in Nat /\ need >= BLOCK_MIN
        BY <2>1, <2>2, NeedTotalIs
  <2>4. Taken(heap, h, b, need)
        BY <1>0, <2>1, <2>3, HeapAllocBlockIs
  <2>5. i \in FreeSlots(dir)
    <3>1. FreeSlots(dir) \subseteq Slots
          BY DEF FreeSlots
    <3> QED
          BY <2>1, <3>1, LowestIs DEF dir_find_free_slot
  <2>6. i \in Slots /\ i \notin Live(dir)
    <3>1. i \in Slots /\ (dir[i].id = 0 \/ dir[i].alive = 0)
          BY <2>5 DEF FreeSlots
    <3>2. i \in Live(dir) => dir[i].id \in 1 .. next_id - 1 /\ dir[i].alive = 1
          BY <1>0 DEF DirOK, Live
    <3> QED
          BY <2>2, <3>1, <3>2
  <2> HIDE DEF need, i, b, h
  <2>7. /\ GoodHeap(h) /\ b \in Used(h) /\ b \notin Used(heap)
        /\ Used(h) = Used(heap) \cup {b}
        /\ \A o \in Used(heap) : h.blk[o] = heap.blk[o]
        /\ need <= h.blk[b].total_size /\ h.blk[b].total_size < need + BLOCK_MIN
        BY <2>4 DEF Taken, Free, Used
  <2>8. Labelled(h, heap', b, u, P, next_id)
        BY <2>1, <2>2, <2>7, LabelIs
  <2>9. b \in Nat /\ h.blk[b].payload_cap \in Nat
        BY <2>7, UsedIs
  <2>10. shm_poff_of_blk(b) \in Nat /\ shm_blk_of_poff(shm_poff_of_blk(b)) = b
        BY <2>9, OffsetsInvert
  <2> DEFINE off == shm_poff_of_blk(b)
             cap == h.blk[b].payload_cap
             nm == Trunc(name)
             e == [id |-> next_id, name |-> nm, off |-> off, capacity |-> cap,
                   used_size |-> n, owner |-> u, perms |-> P, alive |-> 1]
  <2>11. dir' = [dir EXCEPT ![i] = e]
        BY <2>1
  <2>12. off \in Nat /\ cap \in Nat /\ nm \in StoredNames
        BY <2>2, <2>9, <2>10
  <2> HIDE DEF off, cap, nm
  <2>13. /\ e \in Slot /\ e.alive = 1 /\ e.id = next_id /\ e.off = off
         /\ e.capacity = cap /\ e.used_size = n /\ e.name = nm /\ e.owner = u /\ e.perms = P
        BY <2>2, <2>12 DEF Slot
  <2> HIDE DEF e
  <2>14. Agrees(e, heap'.blk[b])
        BY <2>7, <2>8, <2>13 DEF Agrees, Labelled, need, cap
  <2>15. /\ Used(heap') = Used(heap) \cup {b}
         /\ \A o \in Used(heap) : heap'.blk[o] = heap.blk[o]
        BY <2>7, <2>8 DEF Labelled
  <2>16. shm_blk_of_poff(e.off) = b
        BY <2>10, <2>13 DEF off
  <2>17. GoodHeap(heap')
        BY <2>8 DEF Labelled
  <2>18. \E x \in Slot :
            /\ dir' = [dir EXCEPT ![i] = x]
            /\ x.alive = 1 /\ x.id = next_id /\ x.name = nm /\ x.used_size = n
            /\ x.owner = u /\ x.perms = P /\ shm_blk_of_poff(x.off) = b
            /\ Agrees(x, heap'.blk[b])
        BY <2>11, <2>13, <2>14, <2>16
  <2>19. Counted(heap, heap', heap'.blk[b].total_size, 1)
    <3>1. Counted(heap, h, h.blk[b].total_size, 1)
          BY <2>4 DEF Taken
    <3> QED
          BY <2>8, <3>1 DEF Counted, Labelled
  <2>20. Created(i, b, n, nm, u, P)
        BY <2>1, <2>6, <2>7, <2>15, <2>17, <2>18, <2>19 DEF Created
  <2> QED
        BY <2>1, <2>20 DEF i, b, need, nm
<1> QED
    BY <1>1, <1>2

\* shm_alloc keeps the invariant.
LEMMA AllocKeeps ==
    ASSUME IInv, NEW n \in PayloadSizes, NEW name \in Names, NEW u \in Users,
           NEW P \in ObjPerms, shm_alloc(n, name, u, P)
    PROVE  IInv'
<1>0. ~Crashed /\ DirOK(heap, dir, next_id) /\ TypeOK
      BY DEF shm_alloc, IInv
<1>1. CASE \E errno \in Errno : Fail(errno)
      BY <1>0, <1>1, FailKeeps
<1>2. CASE \E i, b : Created(i, b, n, Trunc(name), u, P)
  <2>1. PICK i, b : Created(i, b, n, Trunc(name), u, P)
        BY <1>2
  <2>2. PICK e \in Slot :
           /\ dir' = [dir EXCEPT ![i] = e] /\ e.alive = 1 /\ e.id = next_id
           /\ shm_blk_of_poff(e.off) = b /\ Agrees(e, heap'.blk[b])
        BY <2>1 DEF Created
  <2>3. dir \in [Slots -> Slot] /\ next_id \in Nat \ {0}
        BY <1>0 DEF TypeOK
  <2>4. /\ i \in Slots /\ i \notin Live(dir) /\ b \notin Used(heap)
        /\ Used(heap') = Used(heap) \cup {b} /\ GoodHeap(heap')
        /\ \A o \in Used(heap) : heap'.blk[o] = heap.blk[o]
        /\ next_id' = next_id + 1 /\ ret' = "OK"
        BY <2>1 DEF Created
  <2>5. dir' \in [Slots -> Slot] /\ DirOK(heap', dir', next_id + 1)
        BY <1>0, <2>2, <2>3, <2>4, DirAdd
  <2>6. next_id' \in Nat \ {0} /\ ret' \in Errno
        BY <2>3, <2>4 DEF Errno
  <2> QED
        BY <2>4, <2>5, <2>6, SuccessKeeps
<1> QED
    BY <1>1, <1>2, AllocDoes DEF Errno

\* What a successful shm_free has done: slot i is cleared, its block is no
\* longer in use and every other block is as it was.
Removed(i) ==
    /\ i \in Live(dir)
    /\ GoodHeap(heap') /\ Used(heap') = Used(heap) \ {At(dir, i)}
    /\ \A o \in Used(heap) \ {At(dir, i)} : heap'.blk[o] = heap.blk[o]
    /\ dir' = [dir EXCEPT ![i] = EmptySlot]
    /\ Counted(heap, heap', -heap.blk[At(dir, i)].total_size, -1)
    /\ next_id' = next_id /\ ret' = "OK"

\* shm_free is refused or removes the object it was called for.
LEMMA FreeDoes ==
    ASSUME IInv, NEW id, NEW u, NEW cp, shm_free(id, u, cp)
    PROVE  LET acc == AccessById(dir, id, u, cp, {"FREE"})
           IN  \/ acc # "OK" /\ Fail(acc)
               \/ /\ acc = "OK" /\ dir[dir_find_by_id(dir, id)].id = id
                  /\ Removed(dir_find_by_id(dir, id))
<1> DEFINE acc == AccessById(dir, id, u, cp, {"FREE"})
           i == dir_find_by_id(dir, id)
           b == At(dir, i)
<1>0. ~Crashed /\ GoodHeap(heap) /\ DirOK(heap, dir, next_id)
      BY DEF shm_free, IInv
<1>1. CASE acc # "OK"
      BY <1>1 DEF shm_free
<1>2. CASE acc = "OK"
  <2>1. /\ heap' = heap_free_block(heap, b)
        /\ dir' = [dir EXCEPT ![i] = EmptySlot]
        /\ ret' = "OK" /\ next_id' = next_id
        BY <1>2 DEF shm_free, At
  <2>2. i \in Live(dir) /\ dir[i].id = id
        BY <1>2, AccessByIdIs
  <2>3. b \in Used(heap)
        BY <1>0, <2>2 DEF DirOK
  <2> HIDE DEF i
  <2>4. /\ GoodHeap(heap') /\ Used(heap') = Used(heap) \ {b}
        /\ \A o \in Used(heap) \ {b} : heap'.blk[o] = heap.blk[o]
        /\ Counted(heap, heap', -heap.blk[b].total_size, -1)
        BY <1>0, <2>1, <2>3, HeapFreeBlockIs
  <2>5. Removed(i)
        BY <2>1, <2>2, <2>4 DEF Removed
  <2> QED
        BY <1>2, <2>2, <2>5 DEF i
<1> QED
    BY <1>1, <1>2

\* shm_free keeps the invariant.
LEMMA FreeKeeps ==
    ASSUME IInv, NEW id, NEW u, NEW cp, shm_free(id, u, cp)
    PROVE  IInv'
<1>0. ~Crashed /\ DirOK(heap, dir, next_id) /\ TypeOK
      BY DEF shm_free, IInv
<1>1. CASE \E errno \in Errno : Fail(errno)
      BY <1>0, <1>1, FailKeeps
<1>2. CASE \E i : Removed(i)
  <2>1. PICK i : Removed(i)
        BY <1>2
  <2>2. dir \in [Slots -> Slot] /\ next_id \in Nat \ {0}
        BY <1>0 DEF TypeOK
  <2>3. dir' \in [Slots -> Slot] /\ DirOK(heap', dir', next_id)
        BY <1>0, <2>1, <2>2, DirRemove DEF Removed
  <2> QED
        BY <2>1, <2>2, <2>3, SuccessKeeps DEF Removed, Errno
<1> QED
    BY <1>1, <1>2, FreeDoes, AccessByIdType

\* What a successful shm_block_set_perms has done: the object of slot i has
\* permissions P in its header and in its slot, and nothing else changed.
Repermed(i, P) ==
    /\ i \in Live(dir)
    /\ GoodHeap(heap') /\ Used(heap') = Used(heap)
    /\ \A o \in Used(heap) \ {At(dir, i)} : heap'.blk[o] = heap.blk[o]
    /\ heap'.blk[At(dir, i)] = [heap.blk[At(dir, i)] EXCEPT !.perms = P]
    /\ dir' = [dir EXCEPT ![i] = [dir[i] EXCEPT !.perms = P]]
    /\ heap'.used_bytes = heap.used_bytes
    /\ heap'.block_count = heap.block_count
    /\ next_id' = next_id /\ ret' = "OK"

\* shm_block_set_perms is refused or changes the object whose block it names.
LEMMA SetPermsDoes ==
    ASSUME IInv, NEW off, NEW u, NEW cp, NEW P \in ObjPerms,
           shm_block_set_perms(off, u, cp, P)
    PROVE  LET b == shm_blk_of_poff(off)
               acc == check_block_access(heap, b, u, cp, {"WRITE"})
           IN  \/ acc # "OK" /\ Fail(acc)
               \/ acc = "OK" /\ \E i : At(dir, i) = b /\ Repermed(i, P)
<1> DEFINE b == shm_blk_of_poff(off)
           acc == check_block_access(heap, b, u, cp, {"WRITE"})
           S == SlotsOfId(dir, heap.blk[b].obj_id)
           i == Lowest(S)
<1>0. ~Crashed /\ GoodHeap(heap) /\ DirOK(heap, dir, next_id) /\ TypeOK
      BY DEF shm_block_set_perms, IInv
<1>1. CASE acc # "OK"
  <2>1. Fail(acc)
        BY <1>1 DEF shm_block_set_perms
  <2> QED
        BY <1>1, <2>1
<1>2. CASE acc = "OK"
  <2>1. /\ heap' = [heap EXCEPT !.blk[b].perms = P]
        /\ dir' = IF S = {} THEN dir ELSE [dir EXCEPT ![i].perms = P]
        /\ ret' = "OK" /\ next_id' = next_id
        BY <1>2 DEF shm_block_set_perms
  <2>2. b \in Used(heap)
        BY <1>2 DEF check_block_access, Used
  <2> HIDE DEF b
  <2>3. PICK j \in Live(dir) : At(dir, j) = b
        BY <1>0, <2>2 DEF DirOK
  <2>4. dir[j].id = heap.blk[b].obj_id /\ j \in Slots /\ dir[j].alive = 1
        BY <1>0, <2>3 DEF DirOK, Agrees, Live
  <2>5. S = {j}
    <3>1. j \in S
          BY <2>4 DEF SlotsOfId
    <3>2. \A k \in S : k \in Live(dir) /\ dir[k].id = dir[j].id
          BY <2>4 DEF SlotsOfId, Live
    <3> QED
          BY <1>0, <2>3, <3>1, <3>2 DEF DirOK
  <2>6. i = j
    <3>1. S \subseteq Slots /\ S # {}
          BY <2>5 DEF SlotsOfId
    <3> QED
          BY <2>5, <3>1, LowestIs
  <2> HIDE DEF S, i
  <2>7. /\ dir \in [Slots -> Slot] /\ dir[j] \in Slot /\ next_id \in Nat \ {0}
        /\ P \in SUBSET Perm
        BY <1>0, <2>4, InputAssumption DEF TypeOK
  <2>8. dir' = [dir EXCEPT ![j] = [dir[j] EXCEPT !.perms = P]]
        BY <2>1, <2>5, <2>6
  <2> DEFINE w == heap.blk[b].owner
             oid == heap.blk[b].obj_id
  <2>9. w \in Nat /\ oid \in Nat /\ b \in DOMAIN heap.blk
        BY <1>0, <2>2, UsedIs
  <2>10. heap' = Label(heap, b, w, P, oid)
    <3>1. heap.blk[b] \in BlockHdr
          BY <1>0, <2>9 DEF GoodHeap, HeapTypeOK
    <3>2. [heap.blk[b] EXCEPT !.owner = w, !.perms = P, !.obj_id = oid]
            = [heap.blk[b] EXCEPT !.perms = P]
          BY <3>1 DEF BlockHdr
    <3>3. heap' = [heap EXCEPT !.blk[b] = [heap.blk[b] EXCEPT !.perms = P]]
          BY <2>1
    <3> QED
          BY <3>2, <3>3 DEF Label
  <2> HIDE DEF w, oid
  <2>11. Labelled(heap, heap', b, w, P, oid)
        BY <1>0, <2>2, <2>7, <2>9, <2>10, LabelIs
  <2>12. heap'.blk[b] = [heap.blk[b] EXCEPT !.perms = P]
        BY <1>0, <2>1, <2>9 DEF GoodHeap, HeapTypeOK
  <2>13. Repermed(j, P)
        BY <2>1, <2>3, <2>8, <2>11, <2>12 DEF Repermed, Labelled
  <2> QED
        BY <1>2, <2>3, <2>13 DEF b
<1> QED
    BY <1>1, <1>2

\* shm_block_set_perms keeps the invariant.
LEMMA SetPermsKeeps ==
    ASSUME IInv, NEW off, NEW u, NEW cp, NEW P \in ObjPerms,
           shm_block_set_perms(off, u, cp, P)
    PROVE  IInv'
<1>0. ~Crashed /\ DirOK(heap, dir, next_id) /\ TypeOK /\ GoodHeap(heap)
      BY DEF shm_block_set_perms, IInv
<1>1. CASE \E errno \in Errno : Fail(errno)
      BY <1>0, <1>1, FailKeeps
<1>2. CASE \E i : Repermed(i, P)
  <2>1. PICK i : Repermed(i, P)
        BY <1>2
  <2> DEFINE b == At(dir, i)
             e == [dir[i] EXCEPT !.perms = P]
  <2>2. /\ dir \in [Slots -> Slot] /\ dir[i] \in Slot /\ next_id \in Nat \ {0}
        /\ P \in SUBSET Perm /\ dir[i].alive = 1 /\ i \in Live(dir)
        BY <1>0, <2>1, InputAssumption DEF TypeOK, Live, Repermed
  <2>3. b \in Used(heap) /\ Agrees(dir[i], heap.blk[b])
        BY <1>0, <2>2 DEF DirOK
  <2>4. /\ e \in Slot /\ e.alive = 1 /\ e.id = dir[i].id /\ e.off = dir[i].off
        /\ e.capacity = dir[i].capacity /\ e.used_size = dir[i].used_size
        /\ e.owner = dir[i].owner /\ e.perms = P
        BY <2>2 DEF Slot
  <2>5. dir' = [dir EXCEPT ![i] = e]
        BY <2>1 DEF Repermed
  <2>6. heap.blk[b] \in BlockHdr
        BY <1>0, <2>3 DEF GoodHeap, HeapTypeOK, Used
  <2>7. heap'.blk[b] = [heap.blk[b] EXCEPT !.perms = P]
        BY <2>1 DEF Repermed
  <2>8. Swapped(heap, heap', At(dir, i), b)
        BY <2>1, <2>3 DEF Repermed, Swapped
  <2>a. GoodHeap(heap') /\ ret' = "OK" /\ next_id' = next_id
        BY <2>1 DEF Repermed
  <2>9. shm_blk_of_poff(e.off) = b
        BY <2>4 DEF At
  <2> HIDE DEF e
  <2>10. Agrees(e, heap'.blk[b])
        BY <2>3, <2>4, <2>6, <2>7 DEF Agrees, BlockHdr
  <2> HIDE DEF b
  <2>11. dir' \in [Slots -> Slot] /\ DirOK(heap', dir', next_id)
    <3>1. DirOK(heap, dir, next_id) /\ dir \in [Slots -> Slot] /\ i \in Live(dir)
          BY <1>0, <2>2
    <3>2. e \in Slot /\ e.alive = 1 /\ e.id = dir[i].id
          BY <2>4
    <3> QED
          BY <2>5, <2>8, <2>9, <2>10, <3>1, <3>2, DirChange
  <2> QED
        BY <2>2, <2>a, <2>11, SuccessKeeps DEF Errno
<1>3. check_block_access(heap, shm_blk_of_poff(off), u, cp, {"WRITE"}) \in Errno
      BY DEF check_block_access, Access, Errno
<1> QED
    BY <1>1, <1>2, <1>3, SetPermsDoes

\* g is h with the object of block b in block nb, sized for n bytes: what
\* shrinking, growing in place and relocating have in common.
Placed(h, g, b, nb, n) ==
    /\ GoodHeap(g)
    /\ Used(g) = (Used(h) \ {b}) \cup {nb}
    /\ n <= g.blk[nb].total_size
    /\ g.blk[nb].total_size < n + BLOCK_MIN
    /\ g.blk[nb].owner = h.blk[b].owner
    /\ g.blk[nb].perms = h.blk[b].perms
    /\ g.blk[nb].obj_id = h.blk[b].obj_id
    /\ \A o \in Used(h) \ {b} : g.blk[o] = h.blk[o]
    /\ Counted(h, g, g.blk[nb].total_size - h.blk[b].total_size, 0)

\* f is d with a new place and new sizes in slot i.
SlotSet(d, f, i, off, cap, n) ==
    f = [d EXCEPT ![i] = [@ EXCEPT !.off = off, !.capacity = cap,
                                   !.used_size = n]]

\* A resize that has placed the object and updates its slot keeps the
\* invariant.
LEMMA FinishKeeps ==
    ASSUME IInv, ~Crashed, NEW i \in Live(dir), NEW n, n \in Nat, NEW nb,
           Placed(heap, heap', At(dir, i), nb, NeedTotal(n)),
           SlotSet(dir, dir', i, shm_poff_of_blk(nb),
                   heap'.blk[nb].payload_cap, n),
           ret' = "OK", next_id' = next_id
    PROVE  IInv'
<1> DEFINE b == At(dir, i)
           need == NeedTotal(n)
           off == shm_poff_of_blk(nb)
           cap == heap'.blk[nb].payload_cap
           e == [dir[i] EXCEPT !.off = off, !.capacity = cap, !.used_size = n]
<1>0. GoodHeap(heap) /\ DirOK(heap, dir, next_id) /\ TypeOK
      BY DEF IInv
<1>1. i \in Slots /\ dir[i].alive = 1
      BY DEF Live
<1>2. dir \in [Slots -> Slot] /\ dir[i] \in Slot /\ next_id \in Nat \ {0}
      BY <1>0, <1>1 DEF TypeOK
<1>3. GoodHeap(heap') /\ nb \in Used(heap')
      BY DEF Placed
<1>4. nb \in Nat /\ cap \in Nat
      BY <1>3, UsedIs
<1>5. off \in Nat /\ shm_blk_of_poff(off) = nb
      BY <1>4, OffsetsInvert
<1>6. dir' = [dir EXCEPT ![i] = e]
      BY DEF SlotSet
<1> HIDE DEF off, cap
<1>7. /\ e \in Slot /\ e.alive = 1 /\ e.id = dir[i].id /\ e.off = off
      /\ e.capacity = cap /\ e.used_size = n
      /\ e.owner = dir[i].owner /\ e.perms = dir[i].perms
      BY <1>1, <1>2, <1>4, <1>5 DEF Slot
<1> HIDE DEF e
<1>8. Agrees(dir[i], heap.blk[b])
      BY <1>0 DEF DirOK
<1>9. Agrees(e, heap'.blk[nb])
      BY <1>7, <1>8 DEF Agrees, Placed, cap
<1>10. shm_blk_of_poff(e.off) = nb
      BY <1>5, <1>7
<1>11. Swapped(heap, heap', At(dir, i), nb)
      BY DEF Placed, Swapped
<1>12. dir' \in [Slots -> Slot] /\ DirOK(heap', dir', next_id)
  <2>1. DirOK(heap, dir, next_id) /\ dir \in [Slots -> Slot] /\ i \in Live(dir)
        BY <1>0, <1>2
  <2>2. e \in Slot /\ e.alive = 1 /\ e.id = dir[i].id
        BY <1>7
  <2> QED
        BY <1>6, <1>9, <1>10, <1>11, <2>1, <2>2, DirChange
<1> QED
    BY <1>2, <1>3, <1>12, SuccessKeeps DEF Errno

\* What a successful shm_resize has done: the object of slot i is in block
\* nb, its own or one that was not in use and has room for all of it; asked
\* for the size it already has, an object stays as it is.
Resized(i, nb, n) ==
    /\ i \in Live(dir)
    /\ \/ nb = At(dir, i)
       \/ nb \notin Used(heap) /\ dir[i].capacity <= heap'.blk[nb].payload_cap
    /\ Placed(heap, heap', At(dir, i), nb, NeedTotal(n))
    /\ SlotSet(dir, dir', i, shm_poff_of_blk(nb), heap'.blk[nb].payload_cap, n)
    /\ n = dir[i].used_size => heap' = heap /\ nb = At(dir, i)
    /\ next_id' = next_id /\ ret' = "OK"

\* The process died inside shm_resize.
Died == ret' = CRASH /\ HeapTypeOK(heap') /\ dir' = dir /\ next_id' = next_id

\* shm_resize is refused, finds no room, resizes the object it was called
\* for or does not return.
LEMMA ResizeDoes ==
    ASSUME IInv, NEW id, NEW n \in PayloadSizes, NEW u, NEW cp,
           shm_resize(id, n, u, cp)
    PROVE  LET acc == IF n = 0 THEN "EINVAL"
                      ELSE AccessById(dir, id, u, cp, {"RESIZE"})
               i == dir_find_by_id(dir, id)
           IN  \/ acc # "OK" /\ Fail(acc)
               \/ /\ acc = "OK" /\ dir[i].id = id
                  /\ Fail("ENOMEM") \/ Died \/ \E nb : Resized(i, nb, n)
<1> DEFINE acc == IF n = 0 THEN "EINVAL"
                  ELSE AccessById(dir, id, u, cp, {"RESIZE"})
           i == dir_find_by_id(dir, id)
           b == At(dir, i)
           need == NeedTotal(n)
           nb == FirstFit(heap, need)
           shrinks == need <= heap.blk[b].total_size
           in_place == CanGrowInPlace(heap, b, need)
           Ends(g, m) == /\ heap' = g
                         /\ SlotSet(dir, dir', i, shm_poff_of_blk(m),
                                    g.blk[m].payload_cap, n)
                         /\ ret' = "OK"
                         /\ next_id' = next_id
<1>0. ~Crashed /\ GoodHeap(heap) /\ DirOK(heap, dir, next_id)
      BY DEF shm_resize, IInv
<1>1. CASE acc # "OK"
  <2>1. Fail(acc)
        BY <1>1 DEF shm_resize
  <2> QED
        BY <1>1, <2>1
<1>2. CASE acc = "OK"
  <2>1. n # 0 /\ AccessById(dir, id, u, cp, {"RESIZE"}) = "OK"
        BY <1>2
  <2>2. i \in Live(dir) /\ dir[i].id = id
        BY <2>1, AccessByIdIs
  <2>3. b \in Used(heap) /\ Agrees(dir[i], heap.blk[b])
        BY <1>0, <2>2 DEF DirOK
  <2>4. n \in Nat /\ need \in Nat /\ need >= BLOCK_MIN
        BY <2>1, InputAssumption, NeedTotalIs
  <2>5. heap.blk[b].total_size \in Nat
        BY <1>0, <2>3, UsedIs
  <2>6. \/ shrinks /\ Ends(Shrink(heap, b, need), b)
        \/ ~shrinks /\ in_place /\ Ends(GrowInPlace(heap, b, need), b)
        \/ Fail("ENOMEM")
        \/ /\ ~shrinks /\ Fits(heap, need) # {}
           /\ ~ClearUnderflows(heap, b, need)
           /\ Ends(heap_free_block(Relocated(heap, b, need), b), nb)
        \/ /\ Fits(heap, need) # {}
           /\ heap' = heap_alloc_block(heap, need)
           /\ ret' = CRASH
           /\ dir' = dir /\ next_id' = next_id
        BY <1>2 DEF shm_resize, At, SlotSet
  <2>7. n = dir[i].used_size => shrinks /\ Shrink(heap, b, need) = heap
    <3> SUFFICES ASSUME n = dir[i].used_size
                 PROVE  shrinks /\ Shrink(heap, b, need) = heap
          OBVIOUS
    <3>1. shrinks /\ heap.blk[b].total_size < need + BLOCK_MIN
          BY <2>3 DEF Agrees
    <3> HIDE DEF need
    <3>2. ~(heap.blk[b].total_size - need >= BLOCK_MIN)
          BY <2>4, <2>5, <3>1 DEF BLOCK_MIN, HDR, HEAP_ALIGN
    <3> QED
          BY <3>1, <3>2 DEF Shrink
  <2> HIDE DEF i, b, need, nb
  <2>8. ASSUME NEW g, NEW m, Ends(g, m), Placed(heap, g, b, m, need),
               \/ m = b
               \/ m \notin Used(heap) /\ dir[i].capacity <= g.blk[m].payload_cap,
               n = dir[i].used_size => g = heap /\ m = b
        PROVE  \E x : Resized(i, x, n)
    <3>1. Placed(heap, heap', At(dir, i), m, NeedTotal(n))
          BY <2>8 DEF b, need
    <3>2. Resized(i, m, n)
          BY <2>2, <2>8, <3>1 DEF Resized, b
    <3> QED
          BY <3>2
  <2>9. ASSUME NEW g, Trimmed(heap, g, b, need)
        PROVE  Placed(heap, g, b, b, need)
        BY <2>3, <2>9 DEF Trimmed, Placed
  <2>10. CASE shrinks /\ Ends(Shrink(heap, b, need), b)
    <3>1. Trimmed(heap, Shrink(heap, b, need), b, need)
          BY <1>0, <2>3, <2>4, <2>10, ShrinkIs
    <3>2. \E x : Resized(i, x, n)
          BY <2>7, <2>8, <2>9, <2>10, <3>1
    <3> QED
          BY <1>2, <2>2, <3>2 DEF i
  <2>11. CASE ~shrinks /\ in_place /\ Ends(GrowInPlace(heap, b, need), b)
    <3>1. Trimmed(heap, GrowInPlace(heap, b, need), b, need)
          BY <1>0, <2>3, <2>4, <2>11, GrowInPlaceIs
    <3>2. \E x : Resized(i, x, n)
          BY <2>7, <2>8, <2>9, <2>11, <3>1
    <3> QED
          BY <1>2, <2>2, <3>2 DEF i
  <2>12. CASE Fail("ENOMEM")
        BY <1>2, <2>2, <2>12 DEF i
  <2>13. CASE /\ ~shrinks /\ Fits(heap, need) # {}
              /\ ~ClearUnderflows(heap, b, need)
              /\ Ends(heap_free_block(Relocated(heap, b, need), b), nb)
    <3> DEFINE g == heap_free_block(Relocated(heap, b, need), b)
    <3>1. Transferred(heap, g, b, nb, need)
          BY <1>0, <2>3, <2>4, <2>13, RelocateIs DEF nb
    <3>2. /\ Placed(heap, g, b, nb, need) /\ nb \notin Used(heap)
          /\ g.blk[nb].payload_cap = Relocated(heap, b, need).blk[nb].payload_cap
          BY <3>1 DEF Transferred, Placed
    <3>3. Relocated(heap, b, need).blk[nb].payload_cap >= heap.blk[b].payload_cap
      <4>1. nb \in Used(g) /\ GoodHeap(g)
            BY <3>2 DEF Placed
      <4>2. g.blk[nb].payload_cap \in Nat /\ heap.blk[b].payload_cap \in Nat
            BY <1>0, <2>3, <4>1, UsedIs
      <4> QED
            BY <2>13, <3>2, <4>2 DEF ClearUnderflows, nb
    <3> HIDE DEF g
    <3>4. dir[i].capacity <= g.blk[nb].payload_cap
          BY <2>3, <3>2, <3>3 DEF Agrees
    <3>5. \E x : Resized(i, x, n)
          BY <2>7, <2>8, <2>13, <3>2, <3>4 DEF g
    <3> QED
          BY <1>2, <2>2, <3>5 DEF i
  <2>14. CASE /\ Fits(heap, need) # {}
              /\ heap' = heap_alloc_block(heap, need)
              /\ ret' = CRASH
              /\ dir' = dir /\ next_id' = next_id
    <3>1. Taken(heap, heap', nb, need)
          BY <1>0, <2>4, <2>14, HeapAllocBlockIs DEF nb
    <3>2. Died
          BY <2>14, <3>1 DEF Died, Taken, GoodHeap
    <3> QED
          BY <1>2, <2>2, <3>2 DEF i
  <2> QED
        BY <2>6, <2>10, <2>11, <2>12, <2>13, <2>14
<1> QED
    BY <1>1, <1>2

\* shm_resize keeps the invariant.
LEMMA ResizeKeeps ==
    ASSUME IInv, NEW id, NEW n \in PayloadSizes, NEW u, NEW cp,
           shm_resize(id, n, u, cp)
    PROVE  IInv'
<1>0. ~Crashed /\ TypeOK
      BY DEF shm_resize, IInv
<1>1. CASE \E errno \in Errno : Fail(errno)
      BY <1>0, <1>1, FailKeeps
<1>2. CASE \E i, nb : Resized(i, nb, n)
  <2>1. PICK i, nb : Resized(i, nb, n)
        BY <1>2
  <2>2. n \in Nat
        BY InputAssumption
  <2> QED
        BY <1>0, <2>1, <2>2, FinishKeeps DEF Resized
<1>3. CASE Died
      BY <1>0, <1>3 DEF Died, IInv, TypeOK, Crashed
<1>4. (IF n = 0 THEN "EINVAL" ELSE AccessById(dir, id, u, cp, {"RESIZE"})) \in Errno
      BY AccessByIdType DEF Errno
<1>5. "ENOMEM" \in Errno
      BY DEF Errno
<1> QED
    BY <1>1, <1>2, <1>3, <1>4, <1>5, ResizeDoes

\* Every step keeps the invariant.
LEMMA NextIInv == IInv /\ [Next]_vars => IInv'
<1> SUFFICES ASSUME IInv, [Next]_vars  PROVE IInv'
      OBVIOUS
<1>1. CASE \E n \in PayloadSizes, name \in Names, u \in Users, p \in ObjPerms :
              shm_alloc(n, name, u, p)
      BY <1>1, AllocKeeps
<1>2. CASE \E id \in 0 .. MaxId, u \in Users, cp \in CallerPerms :
              shm_free(id, u, cp)
      BY <1>2, FreeKeeps
<1>3. CASE \E id \in 0 .. MaxId, n \in PayloadSizes, u \in Users,
              cp \in CallerPerms : shm_resize(id, n, u, cp)
      BY <1>3, ResizeKeeps
<1>4. CASE \E off \in PayloadOffsets, u \in Users, cp \in CallerPerms,
              p \in ObjPerms : shm_block_set_perms(off, u, cp, p)
      BY <1>4, SetPermsKeeps
<1>5. CASE Stopped
      BY <1>5 DEF Stopped, vars, IInv, TypeOK, Crashed
<1>6. CASE UNCHANGED vars
  <2>1. heap' = heap /\ dir' = dir /\ next_id' = next_id /\ ret' = ret
        BY <1>6 DEF vars
  <2> QED
        BY <2>1 DEF IInv, TypeOK, Crashed
<1> QED
    BY <1>1, <1>2, <1>3, <1>4, <1>5, <1>6 DEF Next

\* Ids are issued in ascending order, up to the bound.
LEMMA IdsGrow ==
    ASSUME IInv, Next, next_id <= MaxId + 1
    PROVE  next_id' \in Nat /\ next_id <= next_id' /\ next_id' <= MaxId + 1
<1>0. next_id \in Nat /\ MaxId \in Nat
      BY InputAssumption DEF IInv, TypeOK
<1>1. CASE \E n \in PayloadSizes, nm \in Names, u \in Users, p \in ObjPerms :
              shm_alloc(n, nm, u, p)
      BY <1>0, <1>1 DEF shm_alloc, Fail
<1>2. CASE next_id' = next_id
      BY <1>0, <1>2
<1>3. CASE \E id \in 0 .. MaxId, u \in Users, cp \in CallerPerms :
              shm_free(id, u, cp)
      BY <1>2, <1>3 DEF shm_free, Fail
<1>4. CASE \E id \in 0 .. MaxId, n \in PayloadSizes, u \in Users,
              cp \in CallerPerms : shm_resize(id, n, u, cp)
      BY <1>2, <1>4 DEF shm_resize, Fail
<1>5. CASE \E off \in PayloadOffsets, u \in Users, cp \in CallerPerms,
              p \in ObjPerms : shm_block_set_perms(off, u, cp, p)
      BY <1>2, <1>5 DEF shm_block_set_perms, Fail
<1>6. CASE Stopped
      BY <1>2, <1>6 DEF Stopped, vars
<1> QED
    BY <1>1, <1>3, <1>4, <1>5, <1>6 DEF Next

-----------------------------------------------------------------------------
(***************************************************************************)
(* What the invariant says, and the theorems.                              *)
(***************************************************************************)
\* The invariant holds throughout: no sequence of calls of shm_alloc,
\* shm_free, shm_resize and shm_block_set_perms leaves it.
THEOREM Invariance == Spec => []IInv
    BY InitIInv, NextIInv, PTL DEF Spec

\* If nothing is in use, a good heap is one free block.
LEMMA NothingUsed ==
    ASSUME NEW h, GoodHeap(h), Used(h) = {}
    PROVE  /\ DOMAIN h.blk = {0}
           /\ h.blk[0].allocated = 0
           /\ h.blk[0].total_size = HeapSize
<1> DEFINE D == DOMAIN h.blk
<1>0. HeapTypeOK(h) /\ Tiled(h) /\ Apart(h, Free(h))
      BY DEF GoodHeap
<1>1. Free(h) = D
      BY <1>0 DEF Free, Used, HeapTypeOK, BlockHdr
<1>2. 0 \in D
      BY <1>0 DEF Tiled
<1>3. End(h, 0) = HeapSize /\ h.blk[0].total_size = HeapSize
  <2>1. End(h, 0) = HeapSize
        BY <1>0, <1>1, <1>2 DEF Tiled, Apart
  <2>2. h.blk[0].total_size \in Nat
        BY <1>0, <1>2 DEF HeapTypeOK, BlockHdr
  <2> QED
        BY <2>1, <2>2 DEF End
<1>4. ASSUME NEW o \in D
      PROVE  o = 0
  <2>1. o \in 0 .. HeapSize - 1
        BY <1>0 DEF HeapTypeOK
  <2>2. 0 < o => HeapSize <= o
        BY <1>0, <1>2, <1>3 DEF Tiled
  <2> QED
        BY <2>1, <2>2, HeapAssumption
<1> QED
    BY <1>1, <1>2, <1>3, <1>4 DEF Free

\* The invariant implies the directory property.
LEMMA DirectoryFollows == IInv => DirectoryMatchesHeap
<1> SUFFICES ASSUME IInv, ~Crashed  PROVE DirectoryMatchesHeap
      BY DEF DirectoryMatchesHeap
<1>1. DirOK(heap, dir, next_id) /\ LiveSlots = Live(dir)
      BY DEF IInv, LiveSlots, Live
<1>2. \A i \in LiveSlots : BlockOf(i) = At(dir, i)
      BY DEF BlockOf, At
<1>3. ASSUME NEW i \in LiveSlots
      PROVE  /\ dir[i].id \in 1 .. next_id - 1
             /\ BlockOf(i) \in DOMAIN heap.blk
             /\ heap.blk[BlockOf(i)].allocated = 1
             /\ Agrees(dir[i], heap.blk[BlockOf(i)])
      BY <1>1, <1>2 DEF DirOK, Used
<1>4. \A i, j \in LiveSlots : dir[i].id = dir[j].id => i = j
      BY <1>1 DEF DirOK
<1>5. ASSUME NEW o \in DOMAIN heap.blk, heap.blk[o].allocated = 1
      PROVE  \E i \in LiveSlots : BlockOf(i) = o
  <2>1. PICK i \in Live(dir) : At(dir, i) = o
        BY <1>1, <1>5 DEF DirOK, Used
  <2> QED
        BY <1>1, <1>2, <2>1
<1> QED
    BY <1>3, <1>4, <1>5 DEF DirectoryMatchesHeap, Agrees

\* The invariant implies that objects fit.
LEMMA FitFollows == IInv => ObjectsFitTheirBlocks
<1> SUFFICES ASSUME IInv, ~Crashed, NEW i \in LiveSlots
             PROVE  LET b == heap.blk[BlockOf(i)]
                    IN  /\ HDR + dir[i].used_size <= b.total_size
                        /\ HDR + b.payload_cap <= b.total_size
                        /\ b.total_size - NeedTotal(dir[i].used_size) < BLOCK_MIN
      BY DEF ObjectsFitTheirBlocks
<1> DEFINE o == BlockOf(i)
           need == NeedTotal(dir[i].used_size)
<1>1. GoodHeap(heap) /\ DirOK(heap, dir, next_id) /\ TypeOK
      BY DEF IInv
<1>2. i \in Live(dir) /\ At(dir, i) = o
      BY DEF LiveSlots, Live, BlockOf, At
<1>3. o \in Used(heap) /\ Agrees(dir[i], heap.blk[o])
      BY <1>1, <1>2 DEF DirOK
<1>4. dir[i].used_size \in Nat
      BY <1>1, <1>2 DEF TypeOK, Live, Slot
<1>5. need \in Nat /\ HDR + dir[i].used_size <= need
      BY <1>4, NeedTotalIs
<1>6. /\ heap.blk[o].total_size \in Nat /\ o \in DOMAIN heap.blk
      BY <1>1, <1>3, UsedIs
<1>7. HDR + heap.blk[o].payload_cap <= heap.blk[o].total_size
      BY <1>1, <1>6 DEF GoodHeap, CapsFit
<1>8. need <= heap.blk[o].total_size /\ heap.blk[o].total_size < need + BLOCK_MIN
      BY <1>3 DEF Agrees
<1> HIDE DEF o, need
<1>9. /\ HDR + dir[i].used_size <= heap.blk[o].total_size
      /\ heap.blk[o].total_size - need < BLOCK_MIN
      BY <1>4, <1>5, <1>6, <1>8 DEF HDR, HEAP_ALIGN, BLOCK_MIN
<1> QED
    BY <1>7, <1>9 DEF o, need

\* The invariant implies that an empty region is one free block.
LEMMA EmptyFollows == IInv => EmptyMeansWhole
<1> SUFFICES ASSUME IInv, ~Crashed, LiveSlots = {}
             PROVE  /\ DOMAIN heap.blk = {0}
                    /\ heap.blk[0].allocated = 0
                    /\ heap.blk[0].total_size = HeapSize
      BY DEF EmptyMeansWhole
<1>1. GoodHeap(heap) /\ DirOK(heap, dir, next_id) /\ Live(dir) = {}
      BY DEF IInv, LiveSlots, Live
<1>2. Used(heap) = {}
      BY <1>1 DEF DirOK
<1> QED
    BY <1>1, <1>2, NothingUsed

\* A slot that a caller may read leads to a block that the caller may read.
LEMMA SlotLeadsToBlock ==
    ASSUME IInv, ~Crashed, NEW i \in Live(dir), NEW u, NEW cp,
           check_dir_access(dir[i], u, cp, {"READ"}) = "OK"
    PROVE  /\ shm_ptr(dir[i].off, u, cp, {"READ"})
           /\ heap.blk[shm_blk_of_poff(dir[i].off)].obj_id = dir[i].id
<1>1. At(dir, i) \in Used(heap) /\ Agrees(dir[i], heap.blk[At(dir, i)])
      BY DEF IInv, DirOK
<1>2. Access(heap.blk[At(dir, i)], u, cp, {"READ"}) = "OK"
      BY <1>1 DEF check_dir_access, Access, Agrees
<1> QED
    BY <1>1, <1>2 DEF At, Agrees, Used, shm_ptr, check_block_access

\* The invariant implies that both lookups lead to blocks.
LEMMA LookupFollows == IInv => LookupLeadsToBlock
<1> SUFFICES ASSUME IInv, ~Crashed, NEW u \in Users, NEW cp \in CallerPerms
             PROVE  LET Usable(r) ==
                          r.err = "OK" =>
                            /\ shm_ptr(r.off, u, cp, {"READ"})
                            /\ heap.blk[shm_blk_of_poff(r.off)].obj_id = r.id
                    IN  /\ \A id \in 0 .. MaxId : Usable(shm_lookup(id, u, cp))
                        /\ \A n \in Names : Usable(shm_lookup_by_name(n, u, cp))
      BY DEF LookupLeadsToBlock
<1> DEFINE Usable(r) == r.err = "OK" =>
                            /\ shm_ptr(r.off, u, cp, {"READ"})
                            /\ heap.blk[shm_blk_of_poff(r.off)].obj_id = r.id
<1>1. ASSUME NEW id \in 0 .. MaxId
      PROVE  Usable(shm_lookup(id, u, cp))
  <2> DEFINE i == dir_find_by_id(dir, id)
             acc == AccessById(dir, id, u, cp, {"READ"})
  <2>1. CASE acc # "OK"
        BY <2>1 DEF shm_lookup
  <2>2. CASE acc = "OK"
    <3>1. i \in Live(dir) /\ dir[i].id = id
          BY <2>2, AccessByIdIs
    <3>2. check_dir_access(dir[i], u, cp, {"READ"}) = "OK"
          BY <2>2 DEF AccessById
    <3>3. shm_lookup(id, u, cp) = [err |-> "OK", id |-> id, off |-> dir[i].off]
          BY <2>2 DEF shm_lookup
    <3> HIDE DEF i
    <3> QED
          BY <3>1, <3>2, <3>3, SlotLeadsToBlock
  <2> QED
        BY <2>1, <2>2
<1>2. ASSUME NEW n \in Names
      PROVE  Usable(shm_lookup_by_name(n, u, cp))
  <2> DEFINE i == dir_find_by_name(dir, n)
             acc == IF SlotsOfName(dir, n) = {} THEN "ENOENT"
                    ELSE check_dir_access(dir[i], u, cp, {"READ"})
  <2>1. CASE acc # "OK"
        BY <2>1 DEF shm_lookup_by_name
  <2>2. CASE acc = "OK"
    <3>1. SlotsOfName(dir, n) # {} /\ SlotsOfName(dir, n) \subseteq Slots
          BY <2>2 DEF SlotsOfName
    <3>2. i \in Live(dir)
          BY <3>1, LowestIs DEF dir_find_by_name, SlotsOfName, Live
    <3>3. check_dir_access(dir[i], u, cp, {"READ"}) = "OK"
          BY <2>2, <3>1
    <3>4. shm_lookup_by_name(n, u, cp)
            = [err |-> "OK", id |-> dir[i].id, off |-> dir[i].off]
          BY <2>2 DEF shm_lookup_by_name
    <3> HIDE DEF i
    <3> QED
          BY <3>2, <3>3, <3>4, SlotLeadsToBlock
  <2> QED
        BY <2>1, <2>2
<1> QED
    BY <1>1, <1>2

-----------------------------------------------------------------------------
(***************************************************************************)
(* What a step does to the objects it is not about.                        *)
(***************************************************************************)
\* What OthersUndisturbed says of slot i.
Undisturbed(i) ==
    /\ dir[i].alive = 1
    /\ dir'[i].id = dir[i].id
    /\ dir'[i].used_size = dir[i].used_size
    /\ dir'[i].perms = dir[i].perms
    => /\ dir'[i] = dir[i]
       /\ BlockOf(i) \in DOMAIN heap'.blk
       /\ heap'.blk[BlockOf(i)] = heap.blk[BlockOf(i)]

\* It is enough that the slot and the block are as they were.
LEMMA KeptIsUndisturbed ==
    ASSUME NEW j \in Live(dir), dir'[j] = dir[j], At(dir, j) \in Used(heap'),
           heap'.blk[At(dir, j)] = heap.blk[At(dir, j)]
    PROVE  Undisturbed(j)
    BY DEF Undisturbed, At, BlockOf, Used

\* A step that leaves heap and directory alone disturbs nothing.
LEMMA IdleUndisturbed ==
    ASSUME IInv, ~Crashed, heap' = heap, dir' = dir, NEW j \in Live(dir)
    PROVE  Undisturbed(j)
<1>1. At(dir, j) \in Used(heap)
      BY DEF IInv, DirOK
<1> QED
    BY <1>1, KeptIsUndisturbed

\* A step that changes only slot i and its block disturbs no other object.
LEMMA ElsewhereUndisturbed ==
    ASSUME IInv, ~Crashed, NEW i \in Live(dir), NEW j \in Live(dir), j # i,
           dir'[j] = dir[j], Used(heap) \ {At(dir, i)} \subseteq Used(heap'),
           \A o \in Used(heap) \ {At(dir, i)} : heap'.blk[o] = heap.blk[o]
    PROVE  Undisturbed(j)
<1>1. DirOK(heap, dir, next_id)
      BY DEF IInv
<1>2. At(dir, j) \in Used(heap)
      BY <1>1 DEF DirOK
<1>3. At(dir, j) # At(dir, i)
      BY <1>1, DirInjective
<1> QED
    BY <1>2, <1>3, KeptIsUndisturbed

\* shm_alloc disturbs no object.
LEMMA CreatedUndisturbed ==
    ASSUME IInv, ~Crashed, NEW i, NEW b, NEW n, NEW nm, NEW u, NEW P,
           Created(i, b, n, nm, u, P), NEW j \in Live(dir)
    PROVE  Undisturbed(j)
<1>1. i # j /\ j \in Slots /\ At(dir, j) \in Used(heap)
      BY DEF Created, Live, IInv, DirOK
<1>2. dir'[j] = dir[j]
      BY <1>1 DEF Created, IInv, TypeOK
<1> QED
    BY <1>1, <1>2, KeptIsUndisturbed DEF Created

\* shm_free disturbs no other object, and the one it frees is gone.
LEMMA RemovedUndisturbed ==
    ASSUME IInv, ~Crashed, NEW i, Removed(i), NEW j \in Live(dir)
    PROVE  Undisturbed(j)
<1>1. i \in Live(dir) /\ i \in Slots /\ j \in Slots /\ dir \in [Slots -> Slot]
      BY DEF Removed, Live, IInv, TypeOK
<1>2. CASE j = i
  <2>1. dir[i].id # 0
        BY <1>1 DEF IInv, DirOK
  <2>2. dir'[i].id = 0
        BY <1>1 DEF Removed, EmptySlot
  <2> QED
        BY <1>2, <2>1, <2>2 DEF Undisturbed
<1>3. CASE j # i
  <2>1. dir'[j] = dir[j]
        BY <1>1, <1>3 DEF Removed
  <2> QED
        BY <1>1, <1>3, <2>1, ElsewhereUndisturbed DEF Removed
<1> QED
    BY <1>2, <1>3

\* shm_block_set_perms disturbs no other object, nor its own if it gives it
\* the permissions it has.
LEMMA RepermedUndisturbed ==
    ASSUME IInv, ~Crashed, NEW i, NEW P, Repermed(i, P), NEW j \in Live(dir)
    PROVE  Undisturbed(j)
<1>1. i \in Live(dir) /\ i \in Slots /\ j \in Slots /\ dir \in [Slots -> Slot]
      BY DEF Repermed, Live, IInv, TypeOK
<1>2. CASE j = i
  <2>1. dir[i] \in Slot /\ dir'[i] = [dir[i] EXCEPT !.perms = P]
        BY <1>1 DEF Repermed
  <2>2. /\ At(dir, i) \in Used(heap) /\ heap.blk[At(dir, i)].perms = dir[i].perms
        /\ heap.blk[At(dir, i)] \in BlockHdr
        BY <1>1 DEF IInv, DirOK, Agrees, TypeOK, HeapTypeOK, Used
  <2>3. /\ heap'.blk[At(dir, i)] = [heap.blk[At(dir, i)] EXCEPT !.perms = P]
        /\ Used(heap') = Used(heap)
        BY DEF Repermed
  <2>4. SUFFICES ASSUME dir'[i].perms = dir[i].perms  PROVE Undisturbed(i)
        BY <1>2 DEF Undisturbed
  <2>5. P = dir[i].perms
        BY <2>1, <2>4 DEF Slot
  <2>6. dir'[i] = dir[i]
        BY <2>1, <2>5 DEF Slot
  <2>7. heap'.blk[At(dir, i)] = heap.blk[At(dir, i)]
        BY <2>2, <2>3, <2>5 DEF BlockHdr
  <2> QED
        BY <1>1, <2>2, <2>3, <2>6, <2>7, KeptIsUndisturbed
<1>3. CASE j # i
  <2>1. dir'[j] = dir[j]
        BY <1>1, <1>3 DEF Repermed
  <2> QED
        BY <1>1, <1>3, <2>1, ElsewhereUndisturbed DEF Repermed
<1> QED
    BY <1>2, <1>3

\* shm_resize disturbs no other object, nor its own if it asks for the size
\* it has.
LEMMA ResizedUndisturbed ==
    ASSUME IInv, ~Crashed, NEW i, NEW nb, NEW n, Resized(i, nb, n),
           NEW j \in Live(dir)
    PROVE  Undisturbed(j)
<1>1. i \in Live(dir) /\ i \in Slots /\ j \in Slots /\ dir \in [Slots -> Slot]
      BY DEF Resized, Live, IInv, TypeOK
<1> DEFINE cap == heap'.blk[nb].payload_cap
           off == shm_poff_of_blk(nb)
           e == [dir[i] EXCEPT !.off = off, !.capacity = cap, !.used_size = n]
<1>2. dir' = [dir EXCEPT ![i] = e]
      BY DEF Resized, SlotSet
<1>3. CASE j = i
  <2>1. dir[i] \in Slot /\ dir'[i] = e
        BY <1>1, <1>2
  <2>2. At(dir, i) \in Used(heap) /\ heap.blk[At(dir, i)].payload_cap = dir[i].capacity
        BY <1>1 DEF IInv, DirOK, Agrees
  <2>3. SUFFICES ASSUME dir'[i].used_size = dir[i].used_size  PROVE Undisturbed(i)
        BY <1>3 DEF Undisturbed
  <2> HIDE DEF off, cap
  <2>4. n = dir[i].used_size
        BY <2>1, <2>3 DEF Slot
  <2>5. heap' = heap /\ nb = At(dir, i)
        BY <2>4 DEF Resized
  <2>6. off = dir[i].off
        BY <2>1, <2>5 DEF off, At, shm_blk_of_poff, shm_poff_of_blk, HDR, Slot
  <2>7. cap = dir[i].capacity
        BY <2>2, <2>5 DEF cap
  <2>8. dir'[i] = dir[i]
        BY <2>1, <2>4, <2>6, <2>7 DEF Slot
  <2> QED
        BY <1>1, <2>2, <2>5, <2>8, KeptIsUndisturbed
<1>4. CASE j # i
  <2>1. dir'[j] = dir[j]
        BY <1>1, <1>2, <1>4
  <2>2. /\ Used(heap) \ {At(dir, i)} \subseteq Used(heap')
        /\ \A o \in Used(heap) \ {At(dir, i)} : heap'.blk[o] = heap.blk[o]
        BY DEF Resized, Placed
  <2> QED
        BY <1>1, <1>4, <2>1, <2>2, ElsewhereUndisturbed
<1> QED
    BY <1>3, <1>4

\* No step of the allocator disturbs an object that it is not about.
LEMMA NextUndisturbed ==
    ASSUME IInv, Next, ret' # CRASH, NEW j \in Live(dir)
    PROVE  Undisturbed(j)
<1>0. CASE Crashed
      BY <1>0 DEF Next, Stopped, Crashed, vars, shm_alloc, shm_free, shm_resize,
                  shm_block_set_perms
<1> SUFFICES ASSUME ~Crashed  PROVE Undisturbed(j)
      BY <1>0
<1>1. ASSUME NEW errno, Fail(errno)
      PROVE  Undisturbed(j)
      BY <1>1, IdleUndisturbed DEF Fail
<1>2. CASE \E n \in PayloadSizes, name \in Names, u \in Users, p \in ObjPerms :
              shm_alloc(n, name, u, p)
      BY <1>1, <1>2, AllocDoes, CreatedUndisturbed
<1>3. CASE \E id \in 0 .. MaxId, u \in Users, cp \in CallerPerms :
              shm_free(id, u, cp)
      BY <1>1, <1>3, FreeDoes, RemovedUndisturbed
<1>4. CASE \E id \in 0 .. MaxId, n \in PayloadSizes, u \in Users,
              cp \in CallerPerms : shm_resize(id, n, u, cp)
  <2>1. ~Died
        BY DEF Died
  <2> QED
        BY <1>1, <1>4, <2>1, ResizeDoes, ResizedUndisturbed
<1>5. CASE \E off \in PayloadOffsets, u \in Users, cp \in CallerPerms,
              p \in ObjPerms : shm_block_set_perms(off, u, cp, p)
      BY <1>1, <1>5, SetPermsDoes, RepermedUndisturbed
<1>6. CASE Stopped
      BY <1>6 DEF Stopped
<1> QED
    BY <1>2, <1>3, <1>4, <1>5, <1>6 DEF Next

-----------------------------------------------------------------------------
\* Every field of every header and slot keeps its type.
THEOREM TypeCorrectness == Spec => []TypeOK
<1>1. IInv => TypeOK
      BY DEF IInv
<1> QED
    BY Invariance, <1>1, PTL

\* No split, merge, growth or relocation leaves a gap or an overlap, in a
\* heap of any size.
THEOREM Tiling == Spec => []HeapTiled
<1>1. IInv => HeapTiled
      BY DEF IInv, HeapTiled, GoodHeap
<1> QED
    BY Invariance, <1>1, PTL

\* The free list holds every free block exactly once, in address order.
THEOREM FreeListCorrect == Spec => []FreeListSound
<1>1. IInv => FreeListSound
      BY DEF IInv, FreeListSound, GoodHeap
<1> QED
    BY Invariance, <1>1, PTL

\* Free space is always fully coalesced.
THEOREM Coalescing == Spec => []FullyCoalesced
<1>1. IInv => FullyCoalesced
      BY DEF IInv, FullyCoalesced, GoodHeap
<1> QED
    BY Invariance, <1>1, PTL

\* Directory and heap describe the same objects: no object without a block,
\* no block without an object, no two objects in one block.
THEOREM DirectoryConsistency == Spec => []DirectoryMatchesHeap
    BY Invariance, DirectoryFollows, PTL

\* Every object lies inside its block, which wastes less than BLOCK_MIN.
THEOREM ObjectsFit == Spec => []ObjectsFitTheirBlocks
    BY Invariance, FitFollows, PTL

\* After the last object is freed the heap is one free block again.
THEOREM NoFragmentsLeft == Spec => []EmptyMeansWhole
    BY Invariance, EmptyFollows, PTL

\* What a lookup grants to a caller leads to a block that shm_ptr grants to
\* the same caller, and it is the block of the object asked for.
THEOREM LookupsLead == Spec => []LookupLeadsToBlock
    BY Invariance, LookupFollows, PTL

\* No call ever moves, resizes or relabels an object it is not about.
THEOREM OthersAreUndisturbed == Spec => OthersUndisturbed
<1> DEFINE A == ret' # CRASH => \A i \in Slots : Undisturbed(i)
<1>1. IInv /\ [Next]_vars => [A]_vars
  <2>1. ASSUME IInv, Next, ret' # CRASH, NEW i \in Slots
        PROVE  Undisturbed(i)
    <3>1. CASE i \in Live(dir)
          BY <2>1, <3>1, NextUndisturbed
    <3>2. CASE i \notin Live(dir)
          BY <3>2 DEF Live, Undisturbed
    <3> QED
          BY <3>1, <3>2
  <2> QED
        BY <2>1
<1>2. [][A]_vars => OthersUndisturbed
      BY PTL DEF OthersUndisturbed, Undisturbed
<1> QED
    BY Invariance, <1>1, <1>2, PTL DEF Spec
=============================================================================
