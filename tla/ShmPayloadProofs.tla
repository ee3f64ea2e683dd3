-------------------------- MODULE ShmPayloadProofs --------------------------
(***************************************************************************)
(* What payloads hold, for every heap and every sequence of calls and      *)
(* writes: which bytes of an object a call may damage, and which may show  *)
(* what was there before it.                                               *)
(***************************************************************************)
EXTENDS ShmPayload, ShmAllocProofs

-----------------------------------------------------------------------------
(***************************************************************************)
(* Blocks start at whole words: a relocation copies word by word.          *)
(***************************************************************************)
Grid == {o \in Nat : o % WORD = 0}

\* h has the fields of a heap, and its blocks start on the grid.
OnGrid(h) ==
    /\ h = [blk |-> h.blk, free_list |-> h.free_list,
            used_bytes |-> h.used_bytes, block_count |-> h.block_count]
    /\ DOMAIN h.blk \subseteq Grid

\* Whole words add up to whole words.
LEMMA GridSum ==
    ASSUME NEW a \in Grid, NEW b \in Grid
    PROVE  a + b \in Grid
    BY DEF Grid, WORD

\* Requests are rounded up to whole words.
LEMMA NeedOnGrid ==
    ASSUME NEW n \in Nat
    PROVE  NeedTotal(n) \in Grid
<1>1. PICK k \in Nat : k = (HDR + n + HEAP_ALIGN - 1) \div HEAP_ALIGN
      BY DEF HDR, HEAP_ALIGN
<1>2. NeedTotal(n) = k * 8
      BY <1>1 DEF NeedTotal, shm_align_up, HEAP_ALIGN
<1> QED
    BY <1>2 DEF Grid, WORD

\* Other headers in a heap, at offsets on the grid.
LEMMA BlkOnGrid ==
    ASSUME NEW h, OnGrid(h), NEW f, DOMAIN f \subseteq Grid
    PROVE  OnGrid([h EXCEPT !.blk = f])
    BY DEF OnGrid

\* The list and the counters have nothing to do with where blocks start.
LEMMA SetLinkOnGrid ==
    ASSUME NEW h, OnGrid(h), NEW p, NEW lnk
    PROVE  OnGrid(SetLink(h, p, lnk))
    BY DEF OnGrid, SetLink

LEMMA CountOnGrid ==
    ASSUME NEW h, OnGrid(h), NEW u, NEW n
    PROVE  /\ OnGrid([h EXCEPT !.used_bytes = u])
           /\ OnGrid([h EXCEPT !.used_bytes = u, !.block_count = n])
<1>1. ASSUME NEW g, g = [h EXCEPT !.used_bytes = u]
      PROVE  OnGrid(g)
      BY <1>1 DEF OnGrid
<1>2. ASSUME NEW g, g = [h EXCEPT !.used_bytes = u, !.block_count = n]
      PROVE  OnGrid(g)
      BY <1>2 DEF OnGrid
<1> QED
    BY <1>1, <1>2

LEMMA SpliceOnGrid ==
    ASSUME NEW h, OnGrid(h), NEW p, NEW b
    PROVE  OnGrid(Splice(h, p, b))
<1> DEFINE e == [h.blk[b] EXCEPT !.allocated = 0, !.obj_id = 0, !.owner = 0,
                                 !.perms = {}, !.next_free = Link(h, p)]
           f == [h.blk EXCEPT ![b] = e]
<1>1. DOMAIN f \subseteq Grid
      BY DEF OnGrid
<1>2. Splice(h, p, b) = SetLink([h EXCEPT !.blk = f], p, shm_link_enc(b))
      BY DEF Splice
<1> HIDE DEF f
<1> QED
    BY <1>1, <1>2, BlkOnGrid, SetLinkOnGrid

\* Merging removes a header.
LEMMA CoalesceOnGrid ==
    ASSUME NEW h, OnGrid(h), NEW a, NEW c
    PROVE  OnGrid(Coalesce(h, a, c))
    BY BlkOnGrid DEF OnGrid, Coalesce

LEMMA InsertOnGrid ==
    ASSUME NEW h, OnGrid(h), NEW b
    PROVE  OnGrid(freelist_insert(h, b))
    BY SpliceOnGrid, CoalesceOnGrid DEF freelist_insert

LEMMA RemoveOnGrid ==
    ASSUME NEW h, OnGrid(h), NEW b
    PROVE  OnGrid(freelist_remove(h, b))
<1> DEFINE k == SetLink(h, PrevOf(h, b), Link(h, b))
           f == [k.blk EXCEPT ![b].next_free = 0]
<1>1. OnGrid(k)
      BY SetLinkOnGrid
<1>2. DOMAIN f \subseteq Grid
      BY <1>1 DEF OnGrid
<1>3. freelist_remove(h, b) \in {[k EXCEPT !.blk = f], h}
      BY DEF freelist_remove
<1> HIDE DEF k, f
<1> QED
    BY <1>1, <1>2, <1>3, BlkOnGrid

\* Splitting a block adds a header, a request's size above the block.
LEMMA CarveOnGrid ==
    ASSUME NEW h, OnGrid(h), NEW b, NEW n, b + n \in Grid, NEW lnk
    PROVE  OnGrid(Carve(h, b, n, lnk))
<1> DEFINE rem == h.blk[b].total_size - n
           f == [o \in DOMAIN h.blk \cup {b + n} |->
                    CASE o = b     -> [h.blk[b] EXCEPT !.total_size = n,
                                                       !.payload_cap = n - HDR]
                      [] o = b + n -> FreeHdr(rem, lnk)
                      [] OTHER     -> h.blk[o]]
<1>1. DOMAIN f \subseteq Grid
      BY DEF OnGrid
<1>2. Carve(h, b, n, lnk) = [h EXCEPT !.blk = f]
      BY DEF Carve
<1> HIDE DEF f
<1> QED
    BY <1>1, <1>2, BlkOnGrid

\* heap_alloc_block and the label, for a new object or a relocated one.
LEMMA TakeOnGrid ==
    ASSUME NEW h, OnGrid(h), NEW n \in Grid, Fits(h, n) # {},
           NEW u, NEW P, NEW id
    PROVE  OnGrid(Label(heap_alloc_block(h, n), FirstFit(h, n), u, P, id))
<1> DEFINE b == FirstFit(h, n)
           k == Detach(h, b, n)
           f == [k.blk EXCEPT ![b] = [@ EXCEPT !.allocated = 1, !.next_free = 0]]
           x == k.used_bytes + k.blk[b].total_size
           y == k.block_count + 1
           t == heap_alloc_block(h, n)
           g == [t.blk EXCEPT ![b] = [@ EXCEPT !.owner = u, !.perms = P, !.obj_id = id]]
<1>1. b \in DOMAIN h.blk
  <2>1. Fits(h, n) \subseteq DOMAIN h.blk /\ DOMAIN h.blk \subseteq Nat
        BY DEF Fits, Free, OnGrid, Grid
  <2>2. \E o \in Fits(h, n) : \A q \in Fits(h, n) : o <= q
        BY <2>1, LeastExists
  <2> QED
        BY <2>1, <2>2 DEF FirstFit
<1>2. b + n \in Grid
      BY <1>1, GridSum DEF OnGrid
<1> HIDE DEF b
<1>3. OnGrid(k)
      BY <1>2, CarveOnGrid, SetLinkOnGrid DEF Detach
<1> HIDE DEF k
<1>4. DOMAIN f \subseteq Grid
      BY <1>3 DEF OnGrid
<1>5. t = [[k EXCEPT !.blk = f] EXCEPT !.used_bytes = x, !.block_count = y]
      BY <1>3 DEF heap_alloc_block, Tag, b, k, OnGrid
<1> HIDE DEF f, x, y, t
<1>6. OnGrid(t)
      BY <1>3, <1>4, <1>5, BlkOnGrid, CountOnGrid
<1>7. DOMAIN g \subseteq Grid
      BY <1>6 DEF OnGrid
<1>8. Label(t, b, u, P, id) = [t EXCEPT !.blk = g]
      BY DEF Label
<1> HIDE DEF g
<1> QED
    BY <1>6, <1>7, <1>8, BlkOnGrid DEF t, b

LEMMA FreeOnGrid ==
    ASSUME NEW h, OnGrid(h), NEW b
    PROVE  OnGrid(heap_free_block(h, b))
    BY CountOnGrid, InsertOnGrid DEF heap_free_block

LEMMA ShrinkOnGrid ==
    ASSUME NEW h, OnGrid(h), NEW b \in Grid, NEW n \in Grid
    PROVE  OnGrid(Shrink(h, b, n))
<1>1. OnGrid(Carve(h, b, n, 0))
      BY CarveOnGrid, GridSum
<1> QED
    BY <1>1, CountOnGrid, InsertOnGrid DEF Shrink

LEMMA AbsorbOnGrid ==
    ASSUME NEW h, OnGrid(h), NEW b
    PROVE  OnGrid(Absorb(h, b))
<1> DEFINE nxt == End(h, b)
           combined == h.blk[b].total_size + h.blk[nxt].total_size
           k == freelist_remove(h, nxt)
           x == k.used_bytes + h.blk[nxt].total_size
           f == [o \in DOMAIN k.blk \ {nxt} |->
                    IF o = b THEN [k.blk[b] EXCEPT !.total_size = combined,
                                                   !.payload_cap = combined - HDR]
                    ELSE k.blk[o]]
<1>1. OnGrid(k)
      BY RemoveOnGrid
<1> HIDE DEF k
<1>2. DOMAIN f \subseteq Grid
      BY <1>1 DEF OnGrid
<1>3. Absorb(h, b) = [[k EXCEPT !.used_bytes = x] EXCEPT !.blk = f]
      BY <1>1 DEF Absorb, k, OnGrid
<1> HIDE DEF f, x
<1>4. OnGrid([k EXCEPT !.used_bytes = x])
      BY <1>1, CountOnGrid
<1> QED
    BY <1>2, <1>3, <1>4, BlkOnGrid

\* No call takes a block off the grid.
LEMMA AllocGrid ==
    ASSUME OnGrid(heap), NEW n \in PayloadSizes, NEW name, NEW u, NEW P,
           shm_alloc(n, name, u, P)
    PROVE  OnGrid(heap')
<1>1. NeedTotal(n) \in Grid
      BY NeedOnGrid, InputAssumption
<1>2. CASE heap' = heap
      BY <1>2
<1>3. CASE heap' # heap
  <2>1. /\ Fits(heap, NeedTotal(n)) # {}
        /\ heap' = Label(heap_alloc_block(heap, NeedTotal(n)),
                         FirstFit(heap, NeedTotal(n)), u, P, next_id)
        BY <1>3 DEF shm_alloc, Fail
  <2> QED
        BY <1>1, <2>1, TakeOnGrid
<1> QED
    BY <1>2, <1>3

LEMMA FreeGrid ==
    ASSUME OnGrid(heap), NEW id, NEW u, NEW cp, shm_free(id, u, cp)
    PROVE  OnGrid(heap')
    BY FreeOnGrid DEF shm_free, Fail

LEMMA ResizeGrid ==
    ASSUME IInv, ~Crashed, OnGrid(heap), NEW id, NEW n \in PayloadSizes,
           NEW u, NEW cp, shm_resize(id, n, u, cp), ret' # CRASH
    PROVE  OnGrid(heap')
<1> DEFINE i == dir_find_by_id(dir, id)
           b == shm_blk_of_poff(dir[i].off)
           need == NeedTotal(n)
<1>1. need \in Grid
      BY NeedOnGrid, InputAssumption
<1>2. CASE heap' = heap
      BY <1>2
<1>3. CASE heap' # heap
  <2>1. AccessById(dir, id, u, cp, {"RESIZE"}) = "OK"
        BY <1>3 DEF shm_resize, Fail
  <2>2. i \in Live(dir)
        BY <2>1, AccessByIdIs
  <2>3. b \in Used(heap)
        BY <2>2 DEF IInv, DirOK, At
  <2>4. b \in Grid
        BY <2>3 DEF Used, OnGrid
  <2>5. \/ heap' = Shrink(heap, b, need)
        \/ heap' = GrowInPlace(heap, b, need)
        \/ Fits(heap, need) # {} /\ heap' = heap_free_block(Relocated(heap, b, need), b)
        BY <1>3 DEF shm_resize, Fail
  <2> HIDE DEF b, need
  <2>6. CASE heap' = Shrink(heap, b, need)
        BY <1>1, <2>4, <2>6, ShrinkOnGrid
  <2>7. CASE heap' = GrowInPlace(heap, b, need)
        BY <1>1, <2>4, <2>7, ShrinkOnGrid, AbsorbOnGrid DEF GrowInPlace
  <2>8. CASE /\ Fits(heap, need) # {}
             /\ heap' = heap_free_block(Relocated(heap, b, need), b)
        BY <1>1, <2>8, TakeOnGrid, FreeOnGrid DEF Relocated
  <2> QED
        BY <2>5, <2>6, <2>7, <2>8
<1> QED
    BY <1>2, <1>3

LEMMA SetPermsGrid ==
    ASSUME OnGrid(heap), NEW off, NEW u, NEW cp, NEW P,
           shm_block_set_perms(off, u, cp, P)
    PROVE  OnGrid(heap')
<1> DEFINE b == shm_blk_of_poff(off)
           f == [heap.blk EXCEPT ![b].perms = P]
<1>1. heap' = heap \/ heap' = [heap EXCEPT !.blk = f]
      BY DEF shm_block_set_perms, Fail
<1>2. DOMAIN f \subseteq Grid
      BY DEF OnGrid
<1> HIDE DEF f
<1> QED
    BY <1>1, <1>2, BlkOnGrid

-----------------------------------------------------------------------------
(***************************************************************************)
(* Which words belong to whom.                                             *)
(***************************************************************************)
\* Stretches of bytes that do not overlap share no word.
LEMMA WordsApart ==
    ASSUME NEW a \in Nat, NEW m \in Nat, NEW b \in Nat, NEW n \in Nat,
           a + m <= b, NEW w, w \in WordsAt(a, m) \/ w \in WordsAt(b, n)
    PROVE  ~(w \in WordsAt(a, m) /\ w \in WordsAt(b, n))
<1>1. (a + m) \div 4 <= b \div 4
      BY SMT
<1>2. /\ a \div 4 \in Int /\ (a + m) \div 4 \in Int
      /\ b \div 4 \in Int /\ (b + n) \div 4 \in Int
      BY SMT
<1> QED
    BY <1>1, <1>2 DEF WordsAt, WORD

\* A longer stretch has all the words of a shorter one.
LEMMA WordsWithin ==
    ASSUME NEW a \in Nat, NEW m \in Nat, NEW n \in Nat, m <= n
    PROVE  WordsAt(a, m) \subseteq WordsAt(a, n)
<1>1. (a + m) \div 4 <= (a + n) \div 4
      BY SMT
<1>2. a \div 4 \in Int /\ (a + m) \div 4 \in Int /\ (a + n) \div 4 \in Int
      BY SMT
<1> QED
    BY <1>1, <1>2 DEF WordsAt, WORD

\* A word of n bytes of payload of block b of a good heap lies in the heap, in no
\* header, and in no other block.
LEMMA PayloadWords ==
    ASSUME NEW h, GoodHeap(h), NEW b \in DOMAIN h.blk, NEW n \in Nat,
           HDR + n <= h.blk[b].total_size,
           NEW w \in WordsAt(shm_poff_of_blk(b), n)
    PROVE  /\ w \in Words
           /\ \A o \in DOMAIN h.blk : w \notin WordsAt(o, HDR)
           /\ \A o \in DOMAIN h.blk \ {b}, m \in Nat :
                 HDR + m <= h.blk[o].total_size =>
                    w \notin WordsAt(shm_poff_of_blk(o), m)
           /\ \A o \in DOMAIN h.blk \ {b} : w \notin WordsAt(o, h.blk[o].total_size)
<1>1. /\ \A o \in DOMAIN h.blk :
            o \in Nat /\ h.blk[o].total_size \in Nat /\ HDR <= h.blk[o].total_size
      /\ End(h, b) <= HeapSize
      /\ \A o, q \in DOMAIN h.blk : o < q => End(h, o) <= q
      BY DEF GoodHeap, Tiled, HeapTypeOK, BlockHdr, BLOCK_MIN, HDR, HEAP_ALIGN
<1>2. b \in Nat /\ shm_poff_of_blk(b) = b + HDR /\ b + HDR + n <= End(h, b)
      BY <1>1 DEF shm_poff_of_blk, End, HDR
<1>3. HDR \in Nat /\ HeapSize \in Nat
      BY HeapAssumption DEF HDR
<1>4. w \in Words
  <2>1. b + HDR + n <= HeapSize
        BY <1>1, <1>2, <1>3 DEF End
  <2>2. /\ (b + HDR + n) \div 4 <= HeapSize \div 4 /\ 0 <= (b + HDR) \div 4
        /\ (b + HDR) \div 4 \in Int /\ (b + HDR + n) \div 4 \in Int
        /\ HeapSize \div 4 \in Int
        BY <1>2, <1>3, <2>1
  <2>3. w \in (b + HDR) \div 4 .. (b + HDR + n) \div 4 - 1
        BY <1>2 DEF WordsAt, WORD
  <2> QED
        BY <2>2, <2>3 DEF Words, WORD
<1>5. ASSUME NEW o \in DOMAIN h.blk  PROVE w \notin WordsAt(o, HDR)
  <2>1. o \in Nat /\ o + HDR <= End(h, o)
        BY <1>1, <1>3 DEF End
  <2>2. CASE o <= b
    <3>1. o + HDR <= b + HDR
          BY <1>2, <1>3, <2>1, <2>2
    <3> QED
          BY <1>2, <1>3, <2>1, <3>1, WordsApart
  <2>3. CASE b < o
    <3>1. b + HDR + n <= o
          BY <1>1, <1>2, <1>3, <2>1, <2>3 DEF End
    <3> QED
          BY <1>2, <1>3, <2>1, <3>1, WordsApart
  <2> QED
        BY <1>2, <2>1, <2>2, <2>3
<1>6. ASSUME NEW o \in DOMAIN h.blk \ {b}, NEW m \in Nat,
             HDR + m <= h.blk[o].total_size
      PROVE  w \notin WordsAt(shm_poff_of_blk(o), m)
  <2>1. o \in Nat /\ shm_poff_of_blk(o) = o + HDR /\ o + HDR + m <= End(h, o)
        BY <1>1, <1>6 DEF shm_poff_of_blk, End, HDR
  <2>2. CASE o < b
    <3>1. o + HDR + m <= b + HDR
          BY <1>1, <1>2, <1>3, <2>1, <2>2 DEF End
    <3> QED
          BY <1>2, <1>3, <2>1, <3>1, WordsApart
  <2>3. CASE b < o
    <3>1. b + HDR + n <= o + HDR
          BY <1>1, <1>2, <1>3, <2>1, <2>3 DEF End
    <3> QED
          BY <1>2, <1>3, <2>1, <3>1, WordsApart
  <2> QED
        BY <1>2, <2>1, <2>2, <2>3
<1>7. ASSUME NEW o \in DOMAIN h.blk \ {b}
      PROVE  w \notin WordsAt(o, h.blk[o].total_size)
  <2>1. o \in Nat /\ h.blk[o].total_size \in Nat /\ End(h, o) = o + h.blk[o].total_size
        BY <1>1 DEF End
  <2>2. CASE o < b
    <3>1. o + h.blk[o].total_size <= b + HDR
          BY <1>1, <1>2, <1>3, <2>1, <2>2
    <3> QED
          BY <1>2, <1>3, <2>1, <3>1, WordsApart
  <2>3. CASE b < o
    <3>1. b + HDR + n <= o
          BY <1>1, <1>2, <1>3, <2>1, <2>3 DEF End
    <3> QED
          BY <1>2, <1>3, <2>1, <3>1, WordsApart
  <2> QED
        BY <1>2, <2>1, <2>2, <2>3
<1> QED
    BY <1>4, <1>5, <1>6, <1>7

\* Heap h and directory d fit together.
World(h, d, n) == GoodHeap(h) /\ d \in [Slots -> Slot] /\ DirOK(h, d, n)

\* An object has the bytes its owner asked for and those its header admits to.
LEMMA ExtentIs ==
    ASSUME NEW e \in Slot
    PROVE  /\ Extent(e) \in Nat /\ Extent(e) \in {e.capacity, e.used_size}
           /\ e.capacity \in Nat /\ e.capacity <= Extent(e)
           /\ e.used_size \in Nat /\ e.used_size <= Extent(e)
           /\ WordsAt(e.off, e.capacity) \subseteq WordsAt(e.off, Extent(e))
           /\ WordsAt(e.off, e.used_size) \subseteq WordsAt(e.off, Extent(e))
<1>1. e.off \in Nat /\ e.capacity \in Nat /\ e.used_size \in Nat
      BY DEF Slot
<1>2. /\ Extent(e) \in Nat /\ Extent(e) \in {e.capacity, e.used_size}
      /\ e.capacity <= Extent(e) /\ e.used_size <= Extent(e)
      BY <1>1 DEF Extent
<1> QED
    BY <1>1, <1>2, WordsWithin

\* An object lies inside its block, which is not free.
LEMMA ObjectInBlock ==
    ASSUME NEW h, NEW d, NEW n, World(h, d, n), NEW i \in Live(d)
    PROVE  /\ At(d, i) \in DOMAIN h.blk /\ d[i].off = shm_poff_of_blk(At(d, i))
           /\ At(d, i) \notin Free(h) /\ d[i] \in Slot
           /\ Extent(d[i]) \in Nat
           /\ HDR + Extent(d[i]) <= h.blk[At(d, i)].total_size
<1> DEFINE b == At(d, i)
<1>1. b \in Used(h) /\ Agrees(d[i], h.blk[b]) /\ d[i] \in Slot
      BY DEF World, DirOK, Live
<1>2. /\ d[i].off \in Nat /\ d[i].capacity \in Nat /\ d[i].used_size \in Nat
      BY <1>1 DEF Slot
<1>3. b \in DOMAIN h.blk /\ b \in Nat /\ h.blk[b].total_size \in Nat
      BY <1>1, UsedIs DEF World
<1>4. HDR + d[i].capacity <= h.blk[b].total_size
      BY <1>1, <1>3 DEF World, GoodHeap, CapsFit, Agrees
<1>5. HDR + d[i].used_size <= NeedTotal(d[i].used_size) /\ NeedTotal(d[i].used_size) \in Nat
      BY <1>2, NeedTotalIs
<1>6. HDR + d[i].used_size <= h.blk[b].total_size
      BY <1>1, <1>2, <1>3, <1>5 DEF Agrees, HDR
<1>7. d[i].off = shm_poff_of_blk(b)
      BY <1>2 DEF At, shm_blk_of_poff, shm_poff_of_blk, HDR
<1>8. Extent(d[i]) \in Nat /\ Extent(d[i]) \in {d[i].capacity, d[i].used_size}
      BY <1>1, ExtentIs
<1>9. b \notin Free(h)
      BY <1>1 DEF Used, Free
<1> QED
    BY <1>1, <1>3, <1>4, <1>6, <1>7, <1>8, <1>9

\* A word of an object lies in the heap, neither in a header nor in free space,
\* and belongs to no other object.
LEMMA ObjectWords ==
    ASSUME NEW h, NEW d, NEW n, World(h, d, n), NEW i \in Live(d),
           NEW w \in WordsAt(d[i].off, Extent(d[i]))
    PROVE  /\ w \in Words
           /\ \A c : WithHeaders(c, h)[w] = c[w]
           /\ \A j \in Live(d) \ {i} : w \notin WordsAt(d[j].off, Extent(d[j]))
<1> DEFINE b == At(d, i)
<1>1. /\ b \in DOMAIN h.blk /\ d[i].off = shm_poff_of_blk(b) /\ b \notin Free(h)
      /\ Extent(d[i]) \in Nat /\ HDR + Extent(d[i]) <= h.blk[b].total_size
      BY ObjectInBlock
<1>2. w \in WordsAt(shm_poff_of_blk(b), Extent(d[i])) /\ GoodHeap(h)
      BY <1>1 DEF World
<1> HIDE DEF b
<1>3. /\ w \in Words
      /\ \A o \in DOMAIN h.blk : w \notin WordsAt(o, HDR)
      /\ \A o \in DOMAIN h.blk \ {b}, m \in Nat :
            HDR + m <= h.blk[o].total_size => w \notin WordsAt(shm_poff_of_blk(o), m)
      /\ \A o \in DOMAIN h.blk \ {b} : w \notin WordsAt(o, h.blk[o].total_size)
      BY <1>1, <1>2, PayloadWords
<1>4. ASSUME NEW c  PROVE WithHeaders(c, h)[w] = c[w]
  <2>1. w \notin Covered(h)
        BY <1>1, <1>3 DEF Covered
  <2> QED
        BY <1>3, <2>1 DEF WithHeaders
<1>5. ASSUME NEW j \in Live(d) \ {i}
      PROVE  w \notin WordsAt(d[j].off, Extent(d[j]))
  <2>1. At(d, j) # b
        BY DirInjective DEF World, b
  <2>2. /\ At(d, j) \in DOMAIN h.blk \ {b} /\ d[j].off = shm_poff_of_blk(At(d, j))
        /\ Extent(d[j]) \in Nat /\ HDR + Extent(d[j]) <= h.blk[At(d, j)].total_size
        BY <2>1, ObjectInBlock
  <2> QED
        BY <1>3, <2>2
<1> QED
    BY <1>3, <1>4, <1>5

-----------------------------------------------------------------------------
(***************************************************************************)
(* One object, described by e before a step and by f after it, with heap   *)
(* contents c before and x after.                                          *)
(***************************************************************************)
\* Within its payload_cap the object holds zeros and what its owner wrote.
Mine(c, e) == \A w \in WordsAt(e.off, e.capacity) : c[w] \in {0, e.id}

\* What it held it still holds, but for what a move does not copy.
Carried(c, x, e, f) ==
    \A k \in 0 .. Least(Extent(e), Extent(f)) \div WORD - 1 :
        \/ x[f.off \div WORD + k] = c[e.off \div WORD + k]
        \/ f.off # e.off /\ k >= e.capacity \div WORD

\* The words it has before and after are as they were.
Untouched(c, x, e, f) ==
    \A w \in WordsAt(e.off, Least(Extent(e), Extent(f))) : x[w] = c[w]

\* An object that stays where it is.
LEMMA StaysPut ==
    ASSUME NEW e \in Slot, NEW f \in Slot, f.off = e.off, NEW c, NEW x,
           Untouched(c, x, e, f)
    PROVE  /\ Carried(c, x, e, f)
           /\ Mine(c, e) /\ f.id = e.id /\ f.capacity <= e.capacity => Mine(x, f)
<1> DEFINE m == Least(Extent(e), Extent(f))
<1>1. e.off \in Nat /\ e.capacity \in Nat /\ f.capacity \in Nat /\ m \in Nat
      BY ExtentIs DEF Slot, Least
<1>2. f.capacity <= e.capacity => f.capacity <= m
      BY <1>1, ExtentIs DEF Least
<1>a. \A w \in WordsAt(e.off, m) : x[w] = c[w]
      BY DEF Untouched
<1> HIDE DEF m
<1>3. ASSUME NEW k \in 0 .. m \div 4 - 1
      PROVE  x[e.off \div WORD + k] = c[e.off \div WORD + k]
  <2>1. /\ e.off \div 4 + m \div 4 <= (e.off + m) \div 4
        /\ e.off \div 4 \in Int /\ m \div 4 \in Int /\ (e.off + m) \div 4 \in Int
        BY <1>1
  <2>2. e.off \div WORD + k \in WordsAt(e.off, m)
        BY <2>1 DEF WordsAt, WORD
  <2> QED
        BY <1>a, <2>2
<1>4. Carried(c, x, e, f)
      BY <1>3 DEF Carried, m, WORD
<1>5. ASSUME Mine(c, e), f.id = e.id, f.capacity <= e.capacity
      PROVE  Mine(x, f)
  <2>1. /\ WordsAt(e.off, f.capacity) \subseteq WordsAt(e.off, e.capacity)
        /\ WordsAt(e.off, f.capacity) \subseteq WordsAt(e.off, m)
        BY <1>1, <1>2, <1>5, WordsWithin
  <2> QED
        BY <1>a, <1>5, <2>1 DEF Mine
<1> QED
    BY <1>4, <1>5

\* An object that is moved to another place on the grid, with room for its
\* payload_cap.
LEMMA MovesWhole ==
    ASSUME NEW e \in Slot, NEW f \in Slot, f.id = e.id, e.off \in Grid, f.off # e.off,
           f.off \in Grid, e.capacity <= f.capacity, NEW c, NEW x,
           WordsAt(f.off, f.capacity) \subseteq Words,
           \A w \in WordsAt(f.off, f.capacity) : x[w] = Moved(c, e, f)[w]
    PROVE  Carried(c, x, e, f) /\ (Mine(c, e) => Mine(x, f))
<1> DEFINE a == e.off \div WORD
           b == f.off \div WORD
           m == e.capacity \div WORD
           n == f.capacity \div WORD
<1>1. /\ e.off \in Nat /\ f.off \in Nat /\ e.capacity \in Nat /\ f.capacity \in Nat
      /\ e.off % 4 = 0 /\ f.off % 4 = 0
      BY DEF Slot, Grid, WORD
<1>2. /\ a \in Nat /\ b \in Nat /\ m \in Nat /\ n \in Nat /\ m <= n
      /\ e.off = 4 * a /\ f.off = 4 * b
      BY <1>1 DEF WORD
<1>3. /\ (e.off + e.capacity) \div WORD = a + m
      /\ (f.off + e.capacity) \div WORD = b + m
      /\ (f.off + e.capacity + (f.capacity - e.capacity)) \div WORD = b + n
      /\ (f.off + f.capacity) \div WORD = b + n
      /\ (e.off - f.off) \div WORD = a - b
      BY <1>1, <1>2 DEF WORD
<1>a. e.off \div WORD = a /\ f.off \div WORD = b
      OBVIOUS
<1> HIDE DEF a, b, m, n
<1>4. /\ WordsAt(e.off, e.capacity) = a .. a + m - 1
      /\ WordsAt(f.off, e.capacity) = b .. b + m - 1
      /\ WordsAt(f.off, f.capacity) = b .. b + n - 1
      /\ WordsAt(f.off + e.capacity, f.capacity - e.capacity) = b + m .. b + n - 1
  <2>1. WordsAt(e.off, e.capacity) = a .. a + m - 1
        BY <1>2, <1>3, <1>a DEF WordsAt
  <2>2. WordsAt(f.off, e.capacity) = b .. b + m - 1
        BY <1>2, <1>3, <1>a DEF WordsAt
  <2>3. WordsAt(f.off, f.capacity) = b .. b + n - 1
        BY <1>2, <1>3, <1>a DEF WordsAt
  <2>4. WordsAt(f.off + e.capacity, f.capacity - e.capacity) = b + m .. b + n - 1
        BY <1>2, <1>3, <1>a DEF WordsAt
  <2> QED
        BY <2>1, <2>2, <2>3, <2>4
<1>5. ASSUME NEW k \in 0 .. m - 1
      PROVE  b + k \in WordsAt(f.off, f.capacity) /\ x[b + k] = c[a + k]
  <2>1. /\ b + k \in b .. b + n - 1 /\ b + k \in b .. b + m - 1
        /\ b + k \notin b + m .. b + n - 1 /\ b + k + (a - b) = a + k
        BY <1>2
  <2>2. b + k \in Words /\ x[b + k] = Moved(c, e, f)[b + k]
        BY <1>4, <2>1
  <2>3. Moved(c, e, f)[b + k] = Copied(c, f.off, e.off, e.capacity)[b + k]
        BY <1>4, <2>1, <2>2 DEF Moved, Cleared
  <2>4. Copied(c, f.off, e.off, e.capacity)[b + k] = c[a + k]
        BY <1>3, <1>4, <2>1, <2>2 DEF Copied
  <2> QED
        BY <1>4, <2>1, <2>2, <2>3, <2>4
<1>6. Carried(c, x, e, f)
  <2>1. ASSUME NEW k \in 0 .. Least(Extent(e), Extent(f)) \div WORD - 1
        PROVE  x[b + k] = c[a + k] \/ k >= m
    <3>1. k \in Nat
          OBVIOUS
    <3> QED
          BY <1>2, <1>5, <3>1
  <2> QED
        BY <2>1 DEF Carried, a, b, m
<1>7. ASSUME Mine(c, e), NEW w \in WordsAt(f.off, f.capacity)
      PROVE  x[w] \in {0, f.id}
  <2>1. w \in b .. b + n - 1 /\ w \in Words /\ x[w] = Moved(c, e, f)[w]
        BY <1>4
  <2>2. CASE w < b + m
    <3>1. w - b \in 0 .. m - 1 /\ b + (w - b) = w /\ a + (w - b) \in a .. a + m - 1
          BY <1>2, <2>1, <2>2
    <3>2. x[w] = c[a + (w - b)]
          BY <1>5, <3>1
    <3> QED
          BY <1>4, <1>7, <3>1, <3>2 DEF Mine
  <2>3. CASE ~(w < b + m)
    <3>1. w \in b + m .. b + n - 1
          BY <1>2, <2>1, <2>3
    <3> QED
          BY <1>4, <2>1, <3>1 DEF Moved, Cleared
  <2> QED
        BY <2>2, <2>3
<1> QED
    BY <1>6, <1>7 DEF Mine

\* A relocation writes nothing outside the new payload.
LEMMA MovesInside ==
    ASSUME NEW e \in Slot, NEW f \in Slot, e.capacity <= f.capacity, NEW c,
           NEW w \in Words, w \notin WordsAt(f.off, f.capacity)
    PROVE  Moved(c, e, f)[w] = c[w]
<1>1. /\ f.off \in Nat /\ e.capacity \in Nat /\ f.capacity \in Nat
      BY DEF Slot
<1>2. w \notin WordsAt(f.off, e.capacity)
      BY <1>1, WordsWithin
<1>3. w \notin WordsAt(f.off + e.capacity, f.capacity - e.capacity)
  <2>1. f.off + e.capacity + (f.capacity - e.capacity) = f.off + f.capacity
        BY <1>1
  <2>2. /\ f.off \div 4 <= (f.off + e.capacity) \div 4
        /\ f.off \div 4 \in Int /\ (f.off + e.capacity) \div 4 \in Int
        /\ (f.off + f.capacity) \div 4 \in Int
        BY <1>1
  <2> QED
        BY <2>1, <2>2 DEF WordsAt, WORD
<1>4. Copied(c, f.off, e.off, e.capacity)[w] = c[w]
      BY <1>2 DEF Copied
<1> QED
    BY <1>3, <1>4 DEF Moved, Cleared

-----------------------------------------------------------------------------
(***************************************************************************)
(* The inductive invariant, and the steps.                                 *)
(***************************************************************************)
\* Objects that are not in G hold zeros and what their owners wrote.
Clean(c, d, G) == \A i \in Live(d) : d[i].id \notin G => Mine(c, d[i])

PayInv == IInv /\ (~Crashed => OnGrid(heap) /\ Clean(bytes, dir, grown))

\* What a call does to the objects: they stay clean and keep what they hold.
Harmless ==
    /\ OnGrid(heap') /\ Clean(bytes', dir', grown')
    /\ \A i \in Live(dir) :
          dir'[i].id = dir[i].id => Carried(bytes, bytes', dir[i], dir'[i])

\* Before and after a step that did not crash heap and directory fit.
LEMMA WorldBefore ==
    ASSUME IInv, ~Crashed
    PROVE  World(heap, dir, next_id)
    BY DEF IInv, TypeOK, World

LEMMA WorldAfter ==
    ASSUME IInv, Next, ret' # CRASH
    PROVE  World(heap', dir', next_id')
<1>1. IInv'
      BY NextIInv
<1> QED
    BY <1>1 DEF IInv, TypeOK, World, Crashed

\* A step about slot i leaves the words of all other objects alone.
Beside(i) ==
    /\ \A j \in Slots : j # i => dir'[j] = dir[j]
    /\ \A j \in Live(dir') : j # i =>
          /\ dir'[j].id \notin grown' => dir'[j].id \notin grown
          /\ \A w \in WordsAt(dir'[j].off, Extent(dir'[j])) : bytes'[w] = bytes[w]

\* Such a step is harmless if it is to the object in slot i.
LEMMA HarmlessBeside ==
    ASSUME PayInv, ~Crashed, World(heap', dir', next_id'), OnGrid(heap'),
           NEW i, Beside(i),
           i \in Live(dir) /\ dir'[i].id = dir[i].id =>
               Carried(bytes, bytes', dir[i], dir'[i]),
           i \in Live(dir') /\ dir'[i].id \notin grown' => Mine(bytes', dir'[i])
    PROVE  Harmless
<1>1. ASSUME NEW j \in Slots, j # i, j \in Live(dir) \/ j \in Live(dir')
      PROVE  /\ Carried(bytes, bytes', dir[j], dir'[j])
             /\ j \in Live(dir)
             /\ Mine(bytes, dir[j]) => Mine(bytes', dir'[j])
  <2>1. dir'[j] = dir[j] /\ j \in Live(dir) /\ j \in Live(dir')
        BY <1>1 DEF Beside, Live
  <2>2. dir[j] \in Slot
        BY <1>1, WorldBefore DEF World, PayInv
  <2>3. dir[j].capacity \in Nat
        BY <2>2 DEF Slot
  <2>4. Least(Extent(dir[j]), Extent(dir[j])) = Extent(dir[j])
        BY DEF Least
  <2>5. Untouched(bytes, bytes', dir[j], dir'[j])
        BY <1>1, <2>1, <2>4 DEF Beside, Untouched
  <2>6. dir'[j] \in Slot /\ dir'[j].off = dir[j].off /\ dir'[j].id = dir[j].id
        /\ dir'[j].capacity <= dir[j].capacity
        BY <2>1, <2>2, <2>3
  <2> QED
        BY <2>1, <2>2, <2>5, <2>6, StaysPut
<1>2. \A j \in Live(dir) :
          dir'[j].id = dir[j].id => Carried(bytes, bytes', dir[j], dir'[j])
      BY <1>1 DEF Live
<1>3. ASSUME NEW j \in Live(dir'), dir'[j].id \notin grown'
      PROVE  Mine(bytes', dir'[j])
  <2>1. CASE j = i
        BY <1>3, <2>1
  <2>2. CASE j # i
    <3>1. j \in Slots
          BY DEF Live
    <3>2. j \in Live(dir) /\ dir'[j] = dir[j]
          BY <1>1, <2>2, <3>1 DEF Beside
    <3>3. Mine(bytes, dir[j])
          BY <1>3, <2>2, <3>2 DEF PayInv, Clean, Beside
    <3> QED
          BY <1>1, <2>2, <3>1, <3>3
  <2> QED
        BY <2>1, <2>2
<1> QED
    BY <1>2, <1>3 DEF Harmless, Clean

\* A step that leaves the directory and the words of all objects alone.
LEMMA HarmlessIdle ==
    ASSUME PayInv, ~Crashed, OnGrid(heap'), World(heap', dir', next_id'),
           dir' = dir, grown \subseteq grown',
           \A j \in Live(dir) : \A w \in WordsAt(dir[j].off, Extent(dir[j])) :
              bytes'[w] = bytes[w]
    PROVE  Harmless
<1>1. -1 \notin Live(dir) /\ -1 \notin Live(dir')
      BY DirAssumption DEF Live, Slots
<1>2. Beside(-1)
      BY DEF Beside
<1> QED
    BY <1>1, <1>2, HarmlessBeside

\* Only header writes, in a heap that fits the directory.
LEMMA HeadersBeside ==
    ASSUME World(heap', dir', next_id'), bytes' = WithHeaders(bytes, heap'),
           NEW j \in Live(dir'), NEW w \in WordsAt(dir'[j].off, Extent(dir'[j]))
    PROVE  bytes'[w] = bytes[w]
    BY ObjectWords

LEMMA AllocHarmless ==
    ASSUME PayInv, NEW n \in PayloadSizes, NEW name \in Names, NEW u \in Users,
           NEW P \in ObjPerms, AllocPayload(n, name, u, P)
    PROVE  ret' # CRASH /\ Harmless
<1> DEFINE i == dir_find_free_slot(dir)
           e == dir'[i]
           c == Cleared(bytes, e.off, e.capacity)
<1>0. /\ IInv /\ ~Crashed /\ OnGrid(heap) /\ shm_alloc(n, name, u, P)
      /\ grown' = grown
      /\ bytes' = IF dir' = dir THEN bytes ELSE WithHeaders(c, heap')
      BY DEF PayInv, AllocPayload, shm_alloc
<1>1. Next
      BY <1>0 DEF Next
<1>2. \/ \E errno \in Errno : Fail(errno)
      \/ \E b : Created(i, b, n, Trunc(name), u, P)
  <2>1. {"EINVAL", "ENOSPC", "ENOMEM"} \subseteq Errno
        BY DEF Errno
  <2> QED
        BY <1>0, <2>1, AllocDoes
<1>3. ret' # CRASH
      BY <1>2 DEF Fail, Errno, CRASH, Created
<1>4. World(heap', dir', next_id') /\ OnGrid(heap')
      BY <1>0, <1>1, <1>3, WorldAfter, AllocGrid
<1> HIDE DEF i
<1>5. CASE \E errno \in Errno : Fail(errno)
  <2>1. dir' = dir /\ bytes' = bytes
        BY <1>0, <1>5 DEF Fail
  <2> QED
        BY <1>0, <1>3, <1>4, <2>1, HarmlessIdle
<1>6. CASE \E b : Created(i, b, n, Trunc(name), u, P)
  <2>1. /\ i \in Slots /\ i \notin Live(dir)
        /\ \E x \in Slot : dir' = [dir EXCEPT ![i] = x] /\ x.alive = 1
        BY <1>6 DEF Created
  <2>2. dir \in [Slots -> Slot]
        BY <1>0 DEF IInv, TypeOK
  <2>3. e.alive = 1 /\ \A j \in Slots : j # i => dir'[j] = dir[j]
        BY <2>1, <2>2
  <2>4. i \in Live(dir') /\ dir' # dir
        BY <2>1, <2>3 DEF Live
  <2>5. bytes' = WithHeaders(c, heap')
        BY <1>0, <2>4
  <2>a. WordsAt(e.off, e.capacity) \subseteq WordsAt(e.off, Extent(e))
        BY <1>4, <2>1, ExtentIs DEF World
  <2>6. Beside(i)
    <3>1. ASSUME NEW j \in Live(dir'), j # i,
                 NEW w \in WordsAt(dir'[j].off, Extent(dir'[j]))
          PROVE  bytes'[w] = bytes[w]
      <4>1. w \in Words /\ bytes'[w] = c[w] /\ w \notin WordsAt(e.off, Extent(e))
            BY <1>4, <2>4, <2>5, <3>1, ObjectWords
      <4> QED
            BY <2>a, <4>1 DEF Cleared
    <3> QED
          BY <1>0, <2>3, <3>1 DEF Beside
  <2>7. Mine(bytes', e)
    <3>1. ASSUME NEW w \in WordsAt(e.off, e.capacity)
          PROVE  bytes'[w] = 0
      <4>1. w \in Words /\ bytes'[w] = c[w]
            BY <1>4, <2>4, <2>5, <2>a, ObjectWords
      <4> QED
            BY <4>1 DEF Cleared
    <3> QED
          BY <3>1 DEF Mine
  <2> QED
        BY <1>0, <1>3, <1>4, <2>1, <2>6, <2>7, HarmlessBeside
<1> QED
    BY <1>2, <1>3, <1>5, <1>6

LEMMA FreeHarmless ==
    ASSUME PayInv, NEW id \in 0 .. MaxId, NEW u \in Users, NEW cp \in CallerPerms,
           FreePayload(id, u, cp)
    PROVE  ret' # CRASH /\ Harmless
<1> DEFINE i == dir_find_by_id(dir, id)
<1>0. /\ IInv /\ ~Crashed /\ OnGrid(heap) /\ shm_free(id, u, cp)
      /\ grown' = IF dir' = dir THEN grown ELSE grown \ {id}
      /\ bytes' = WithHeaders(bytes, heap')
      BY DEF PayInv, FreePayload, shm_free
<1>1. Next
      BY <1>0 DEF Next
<1>2. (\E errno \in Errno : Fail(errno)) \/ (dir[i].id = id /\ Removed(i))
      BY <1>0, FreeDoes, AccessByIdType
<1>3. ret' # CRASH
      BY <1>2 DEF Fail, Errno, CRASH, Removed
<1>4. World(heap', dir', next_id') /\ OnGrid(heap')
      BY <1>0, <1>1, <1>3, WorldAfter, FreeGrid
<1> HIDE DEF i
<1>5. CASE \E errno \in Errno : Fail(errno)
  <2>1. dir' = dir
        BY <1>5 DEF Fail
  <2>2. \A j \in Live(dir) : \A w \in WordsAt(dir[j].off, Extent(dir[j])) :
            bytes'[w] = bytes[w]
        BY <1>0, <1>4, <2>1, HeadersBeside
  <2> QED
        BY <1>0, <1>3, <1>4, <2>1, <2>2, HarmlessIdle
<1>6. CASE dir[i].id = id /\ Removed(i)
  <2>1. i \in Live(dir) /\ dir' = [dir EXCEPT ![i] = EmptySlot]
        BY <1>6 DEF Removed
  <2>2. dir \in [Slots -> Slot] /\ i \in Slots /\ dir[i].id # 0
        BY <1>0, <2>1 DEF IInv, TypeOK, DirOK, Live
  <2>3. dir'[i] = EmptySlot /\ \A j \in Slots : j # i => dir'[j] = dir[j]
        BY <2>1, <2>2
  <2>a. EmptySlot.id = 0 /\ EmptySlot.alive = 0
        BY DEF EmptySlot
  <2>4. dir'[i].id # dir[i].id /\ i \notin Live(dir')
        BY <2>2, <2>3, <2>a DEF Live
  <2>5. Beside(i)
    <3>1. ASSUME NEW j \in Live(dir'), j # i  PROVE dir'[j].id # id
      <4>1. j \in Live(dir) /\ dir'[j] = dir[j]
            BY <2>3, <3>1 DEF Live
      <4> QED
            BY <1>0, <1>6, <2>1, <3>1, <4>1 DEF IInv, DirOK
    <3> QED
          BY <1>0, <1>4, <2>3, <3>1, HeadersBeside DEF Beside
  <2> QED
        BY <1>0, <1>3, <1>4, <2>4, <2>5, HarmlessBeside
<1> QED
    BY <1>2, <1>3, <1>5, <1>6

LEMMA SetPermsHarmless ==
    ASSUME PayInv, NEW off \in PayloadOffsets, NEW u \in Users,
           NEW cp \in CallerPerms, NEW P \in ObjPerms, SetPermsPayload(off, u, cp, P)
    PROVE  ret' # CRASH /\ Harmless
<1>0. /\ IInv /\ ~Crashed /\ OnGrid(heap) /\ shm_block_set_perms(off, u, cp, P)
      /\ grown' = grown /\ bytes' = bytes
      BY DEF PayInv, SetPermsPayload, shm_block_set_perms
<1>1. Next
      BY <1>0 DEF Next
<1>2. (\E errno \in Errno : Fail(errno)) \/ \E i : Repermed(i, P)
  <2>1. check_block_access(heap, shm_blk_of_poff(off), u, cp, {"WRITE"}) \in Errno
        BY DEF check_block_access, Access, Errno
  <2> QED
        BY <1>0, <2>1, SetPermsDoes
<1>3. ret' # CRASH
      BY <1>2 DEF Fail, Errno, CRASH, Repermed
<1>4. World(heap', dir', next_id') /\ OnGrid(heap')
      BY <1>0, <1>1, <1>3, WorldAfter, SetPermsGrid
<1>5. CASE \E errno \in Errno : Fail(errno)
  <2>1. dir' = dir
        BY <1>5 DEF Fail
  <2> QED
        BY <1>0, <1>3, <1>4, <2>1, HarmlessIdle
<1>6. CASE \E i : Repermed(i, P)
  <2>1. PICK i : Repermed(i, P)
        BY <1>6
  <2>2. i \in Live(dir) /\ dir' = [dir EXCEPT ![i] = [dir[i] EXCEPT !.perms = P]]
        BY <2>1 DEF Repermed
  <2>3. dir \in [Slots -> Slot] /\ i \in Slots /\ dir[i] \in Slot
        BY <1>0, <2>2 DEF IInv, TypeOK, Live
  <2>4. /\ dir'[i].off = dir[i].off /\ dir'[i].capacity = dir[i].capacity
        /\ dir'[i].id = dir[i].id /\ dir'[i].used_size = dir[i].used_size
        /\ \A j \in Slots : j # i => dir'[j] = dir[j]
        BY <2>2, <2>3 DEF Slot
  <2>5. Beside(i)
        BY <1>0, <2>4 DEF Beside
  <2>6. Carried(bytes, bytes', dir[i], dir'[i])
        BY <1>0, <2>4 DEF Carried, Extent
  <2>7. dir'[i].id \notin grown' => Mine(bytes', dir'[i])
        BY <1>0, <2>2, <2>4 DEF PayInv, Clean, Mine
  <2> QED
        BY <1>0, <1>3, <1>4, <2>5, <2>6, <2>7, HarmlessBeside
<1> QED
    BY <1>2, <1>3, <1>5, <1>6

\* The slot of a resized object.
LEMMA ResizedSlot ==
    ASSUME IInv, ~Crashed, NEW i, NEW nb, NEW n, Resized(i, nb, n)
    PROVE  /\ i \in Live(dir) /\ i \in Slots /\ i \in Live(dir')
           /\ dir[i] \in Slot /\ dir'[i].id = dir[i].id
           /\ dir'[i].off = dir[i].off \/ dir[i].capacity <= dir'[i].capacity
           /\ \A j \in Slots : j # i => dir'[j] = dir[j]
<1> DEFINE off == shm_poff_of_blk(nb)
           cap == heap'.blk[nb].payload_cap
<1>1. i \in Live(dir) /\ SlotSet(dir, dir', i, off, cap, n)
      BY DEF Resized
<1>2. \/ nb = At(dir, i)
      \/ dir[i].capacity <= cap
      BY DEF Resized
<1>3. dir \in [Slots -> Slot] /\ i \in Slots /\ dir[i].alive = 1
      BY <1>1 DEF IInv, TypeOK, Live
<1>4. dir[i] \in Slot
      BY <1>3
<1>5. nb = At(dir, i) => off = dir[i].off
      BY <1>4 DEF At, shm_poff_of_blk, shm_blk_of_poff, HDR, Slot
<1> HIDE DEF off, cap
<1>6. dir'[i] = [dir[i] EXCEPT !.off = off, !.capacity = cap, !.used_size = n]
      BY <1>1, <1>3 DEF SlotSet
<1>7. /\ dir'[i].off = off /\ dir'[i].capacity = cap /\ dir'[i].id = dir[i].id
      /\ dir'[i].alive = 1
      BY <1>3, <1>4, <1>6 DEF Slot
<1>8. \A j \in Slots : j # i => dir'[j] = dir[j]
      BY <1>1, <1>3 DEF SlotSet
<1> QED
    BY <1>1, <1>2, <1>3, <1>4, <1>5, <1>7, <1>8 DEF Live

LEMMA ResizeHarmless ==
    ASSUME PayInv, NEW id \in 0 .. MaxId, NEW n \in PayloadSizes, NEW u \in Users,
           NEW cp \in CallerPerms, ResizePayload(id, n, u, cp), ret' # CRASH
    PROVE  Harmless
<1> DEFINE i == dir_find_by_id(dir, id)
           e == dir[i]
           f == dir'[i]
<1>0. IInv /\ ~Crashed /\ OnGrid(heap) /\ shm_resize(id, n, u, cp)
      BY DEF PayInv, ResizePayload, shm_resize
<1>a. dir' = dir => bytes' = bytes /\ grown' = grown
      BY DEF ResizePayload
<1>b. dir' # dir =>
         /\ bytes' = WithHeaders(IF f.off = e.off THEN bytes ELSE Moved(bytes, e, f),
                                 heap')
         /\ grown' = IF f.off = e.off /\ f.capacity > e.capacity
                     THEN grown \cup {id} ELSE grown
      BY DEF ResizePayload
<1>1. Next
      BY <1>0 DEF Next
<1>2. dir' = dir \/ (dir[i].id = id /\ \E nb : Resized(i, nb, n))
      BY <1>0, ResizeDoes DEF Fail, Died
<1>3. World(heap', dir', next_id') /\ OnGrid(heap')
      BY <1>0, <1>1, WorldAfter, ResizeGrid
<1> HIDE DEF i
<1>4. CASE dir' = dir
      BY <1>0, <1>3, <1>4, <1>a, HarmlessIdle
<1>5. CASE dir' # dir
  <2>1. /\ e.id = id /\ i \in Live(dir) /\ i \in Slots /\ i \in Live(dir')
        /\ e \in Slot /\ f.id = e.id
        /\ f.off = e.off \/ e.capacity <= f.capacity
        /\ \A j \in Slots : j # i => dir'[j] = dir[j]
        BY <1>0, <1>2, <1>5, ResizedSlot
  <2>2. f \in Slot
        BY <1>3, <2>1 DEF World
  <2>3. e.capacity \in Nat /\ f.capacity \in Nat /\ e.off \in Nat /\ f.off \in Nat
        BY <2>1, <2>2 DEF Slot
  <2>4. grown \subseteq grown'
        BY <1>5, <1>b
  <2>5. e.id \notin grown' => Mine(bytes, e)
        BY <1>0, <2>1, <2>4 DEF PayInv, Clean
  <2>6. CASE f.off = e.off
    <3>1. bytes' = WithHeaders(bytes, heap')
          BY <1>5, <1>b, <2>6
    <3>2. \A j \in Live(dir') : \A w \in WordsAt(dir'[j].off, Extent(dir'[j])) :
              bytes'[w] = bytes[w]
          BY <1>3, <3>1, HeadersBeside
    <3>3. Beside(i)
          BY <2>1, <2>4, <3>2 DEF Beside
    <3>4. Untouched(bytes, bytes', e, f)
      <4>1. /\ Least(Extent(e), Extent(f)) \in Nat /\ Extent(f) \in Nat
            /\ Least(Extent(e), Extent(f)) <= Extent(f)
            BY <2>1, <2>2, ExtentIs DEF Least
      <4>2. WordsAt(e.off, Least(Extent(e), Extent(f))) \subseteq WordsAt(f.off, Extent(f))
            BY <2>3, <2>6, <4>1, WordsWithin
      <4> QED
            BY <2>1, <3>2, <4>2 DEF Untouched
    <3>5. /\ Carried(bytes, bytes', e, f)
          /\ Mine(bytes, e) /\ f.capacity <= e.capacity => Mine(bytes', f)
          BY <2>1, <2>2, <2>6, <3>4, StaysPut
    <3>6. f.id \notin grown' => f.capacity <= e.capacity
          BY <1>5, <1>b, <2>1, <2>3, <2>6
    <3> QED
          BY <1>0, <1>3, <2>1, <2>4, <2>5, <3>3, <3>5, <3>6, HarmlessBeside
  <2>7. CASE f.off # e.off
    <3>1. bytes' = WithHeaders(Moved(bytes, e, f), heap') /\ e.capacity <= f.capacity
          BY <1>5, <1>b, <2>1, <2>7
    <3>2. Beside(i)
      <4>1. ASSUME NEW j \in Live(dir'), j # i,
                   NEW w \in WordsAt(dir'[j].off, Extent(dir'[j]))
            PROVE  bytes'[w] = bytes[w]
        <5>1. /\ w \in Words /\ bytes'[w] = Moved(bytes, e, f)[w]
              /\ w \notin WordsAt(f.off, Extent(f))
              BY <1>3, <2>1, <3>1, <4>1, ObjectWords
        <5>2. w \notin WordsAt(f.off, f.capacity)
              BY <2>2, <5>1, ExtentIs
        <5> QED
              BY <2>1, <2>2, <3>1, <5>1, <5>2, MovesInside
      <4> QED
            BY <2>1, <2>4, <4>1 DEF Beside
    <3>3. \A w \in WordsAt(f.off, f.capacity) :
              w \in Words /\ bytes'[w] = Moved(bytes, e, f)[w]
          BY <1>3, <2>1, <2>2, <3>1, ObjectWords, ExtentIs
    <3>4. e.off \in Grid /\ f.off \in Grid
      <4>1. /\ At(dir, i) \in Grid /\ e.off = shm_poff_of_blk(At(dir, i))
            BY <1>0, <2>1, WorldBefore, ObjectInBlock DEF OnGrid
      <4>2. /\ At(dir', i) \in Grid /\ f.off = shm_poff_of_blk(At(dir', i))
            BY <1>3, <2>1, ObjectInBlock DEF OnGrid
      <4>3. HDR \in Grid
            BY DEF HDR, Grid, WORD
      <4> QED
            BY <4>1, <4>2, <4>3, GridSum DEF shm_poff_of_blk
    <3>5. Carried(bytes, bytes', e, f) /\ (Mine(bytes, e) => Mine(bytes', f))
      <4>1. WordsAt(f.off, f.capacity) \subseteq Words
            BY <3>3
      <4>2. \A w \in WordsAt(f.off, f.capacity) : bytes'[w] = Moved(bytes, e, f)[w]
            BY <3>3
      <4>3. e \in Slot /\ f \in Slot /\ f.id = e.id /\ e.capacity <= f.capacity
            BY <2>1, <2>2, <3>1
      <4> HIDE DEF e, f
      <4> QED
            BY <2>7, <3>4, <4>1, <4>2, <4>3, MovesWhole
    <3> QED
          BY <1>0, <1>3, <2>1, <2>4, <2>5, <3>2, <3>5, HarmlessBeside
  <2> QED
        BY <2>6, <2>7
<1> QED
    BY <1>4, <1>5

\* Each call of the allocator is harmless, or crashes.
LEMMA CallHarmless ==
    ASSUME PayInv, PayloadNext, vars' # vars, ret' # CRASH
    PROVE  Harmless
<1>1. ASSUME NEW i \in Slots, Fill(i)  PROVE FALSE
      BY <1>1 DEF Fill
<1>2. ~(Stopped /\ UNCHANGED <<bytes, grown>>)
      BY DEF Stopped
<1> QED
    BY <1>1, <1>2, AllocHarmless, FreeHarmless, ResizeHarmless, SetPermsHarmless
       DEF PayloadNext

\* An owner that writes its object dirties no other.
LEMMA FillKeeps ==
    ASSUME PayInv, NEW i \in Slots, Fill(i)
    PROVE  PayInv'
<1> DEFINE own == WordsAt(dir[i].off, dir[i].used_size)
<1>0. /\ IInv /\ ~Crashed /\ OnGrid(heap) /\ UNCHANGED vars /\ grown' = grown
      /\ i \in Live(dir) /\ Clean(bytes, dir, grown)
      /\ bytes' = [w \in Words |-> IF w \in own THEN dir[i].id ELSE bytes[w]]
      BY DEF PayInv, Fill, LiveSlots, Live
<1>1. World(heap, dir, next_id)
      BY <1>0, WorldBefore
<1>2. ASSUME NEW j \in Live(dir), dir[j].id \notin grown,
             NEW w \in WordsAt(dir[j].off, dir[j].capacity)
      PROVE  bytes'[w] \in {0, dir[j].id}
  <2>0. dir[j] \in Slot /\ dir[i] \in Slot
        BY <1>0, <1>1, ObjectInBlock
  <2>a. w \in WordsAt(dir[j].off, Extent(dir[j]))
        BY <1>2, <2>0, ExtentIs
  <2>b. w \in Words /\ (j # i => w \notin WordsAt(dir[i].off, Extent(dir[i])))
        BY <1>0, <1>1, <2>a, ObjectWords
  <2>1. w \in Words /\ (j # i => w \notin own)
        BY <2>0, <2>b, ExtentIs
  <2>2. bytes[w] \in {0, dir[j].id}
        BY <1>0, <1>2 DEF Clean, Mine
  <2>3. CASE w \in own
        BY <1>0, <2>1, <2>3
  <2>4. CASE w \notin own
        BY <1>0, <2>1, <2>2, <2>4
  <2> QED
        BY <2>3, <2>4
<1>3. /\ heap' = heap /\ dir' = dir /\ next_id' = next_id /\ ret' = ret
      BY <1>0 DEF vars
<1>4. Clean(bytes', dir', grown')
      BY <1>0, <1>2, <1>3 DEF Clean, Mine
<1>5. IInv'
      BY <1>0, NextIInv
<1> QED
    BY <1>0, <1>3, <1>4, <1>5 DEF PayInv

LEMMA PayloadSteps ==
    ASSUME PayloadNext
    PROVE  Next \/ UNCHANGED vars
    BY DEF PayloadNext, AllocPayload, FreePayload, ResizePayload, SetPermsPayload,
           Fill, Next, Stopped

\* The calls keep the invariant, even those that return an error.
LEMMA PayNextInv == PayInv /\ [PayloadNext]_pvars => PayInv'
<1> SUFFICES ASSUME PayInv, [PayloadNext]_pvars  PROVE PayInv'
      OBVIOUS
<1>1. CASE UNCHANGED pvars
  <2>1. UNCHANGED vars /\ bytes' = bytes /\ grown' = grown
        BY <1>1 DEF pvars
  <2>2. /\ heap' = heap /\ dir' = dir /\ ret' = ret
        BY <2>1 DEF vars
  <2>3. IInv'
        BY <2>1, NextIInv DEF PayInv
  <2> QED
        BY <2>1, <2>2, <2>3 DEF PayInv, Crashed
<1>2. CASE PayloadNext
  <2>1. IInv'
        BY <1>2, PayloadSteps, NextIInv DEF PayInv
  <2>2. ASSUME Harmless  PROVE PayInv'
        BY <2>1, <2>2 DEF Harmless, PayInv
  <2>3. ASSUME ret' = CRASH  PROVE PayInv'
        BY <2>1, <2>3 DEF PayInv, Crashed
  <2>4. ASSUME NEW n \in PayloadSizes, NEW name \in Names, NEW u \in Users,
               NEW P \in ObjPerms, AllocPayload(n, name, u, P)
        PROVE  PayInv'
        BY <2>2, <2>4, AllocHarmless
  <2>5. ASSUME NEW id \in 0 .. MaxId, NEW u \in Users, NEW cp \in CallerPerms,
               FreePayload(id, u, cp)
        PROVE  PayInv'
        BY <2>2, <2>5, FreeHarmless
  <2>6. ASSUME NEW id \in 0 .. MaxId, NEW u \in Users, NEW cp \in CallerPerms,
               NEW n \in PayloadSizes, ResizePayload(id, n, u, cp)
        PROVE  PayInv'
        BY <2>2, <2>3, <2>6, ResizeHarmless
  <2>7. ASSUME NEW off \in PayloadOffsets, NEW u \in Users,
               NEW cp \in CallerPerms, NEW P \in ObjPerms,
               SetPermsPayload(off, u, cp, P)
        PROVE  PayInv'
        BY <2>2, <2>7, SetPermsHarmless
  <2>8. CASE Stopped /\ UNCHANGED <<bytes, grown>>
        BY <2>3, <2>8 DEF Stopped, vars, Crashed
  <2> QED
        BY <1>2, <2>4, <2>5, <2>6, <2>7, <2>8, FillKeeps DEF PayloadNext
<1> QED
    BY <1>1, <1>2

LEMMA PayInitInv == PayloadInit => PayInv
<1> SUFFICES ASSUME PayloadInit  PROVE PayInv
      OBVIOUS
<1>1. IInv
      BY InitIInv DEF PayloadInit
<1>2. Live(dir) = {}
  <2>1. EmptySlot.alive = 0
        BY DEF EmptySlot
  <2> QED
        BY <2>1 DEF PayloadInit, Init, Live
<1>3. OnGrid(heap)
  <2>1. 0 \in Grid
        BY DEF Grid, WORD
  <2>2. DOMAIN heap.blk = {0}
        BY DEF PayloadInit, Init
  <2> QED
        BY <1>1, <2>1, <2>2 DEF OnGrid, IInv, TypeOK, HeapTypeOK
<1> QED
    BY <1>1, <1>2, <1>3 DEF PayInv, Clean

\* The invariant holds throughout.
THEOREM PayInvariance == PayloadSpec => []PayInv
    BY PayInitInv, PayNextInv, PTL DEF PayloadSpec

\* Of the bytes its owner asked for and its header admits to, an object shows
\* nothing that was there before it, neither contents of freed objects nor
\* old headers, with two exceptions: it has grown in place, or the bytes lie
\* beyond a stale payload_cap.  shm_alloc clears payload_cap bytes, and a
\* relocation in shm_resize clears those that it does not copy.
THEOREM NothingIsInherited == PayloadSpec => []NothingInherited
<1>1. ASSUME NEW e \in Slot
      PROVE  WordsAt(e.off, Extent(e)) \ Beyond(e) \subseteq WordsAt(e.off, e.capacity)
  <2>1. e.off \in Nat /\ e.capacity \in Nat /\ Extent(e) \in Nat
        BY ExtentIs DEF Slot
  <2>2. e.off + e.capacity + (Extent(e) - e.capacity) = e.off + Extent(e)
        BY <2>1
  <2>3. /\ e.off \div 4 \in Int /\ (e.off + e.capacity) \div 4 \in Int
        /\ (e.off + Extent(e)) \div 4 \in Int
        BY <2>1
  <2> QED
        BY <2>2, <2>3 DEF WordsAt, WORD, Beyond
<1>2. ASSUME PayInv, ~Crashed, NEW i \in LiveSlots, dir[i].id \notin grown,
             NEW w \in WordsAt(dir[i].off, Extent(dir[i])) \ Beyond(dir[i])
      PROVE  bytes[w] \in {0, dir[i].id}
  <2>1. dir[i] \in Slot /\ i \in Live(dir)
        BY <1>2 DEF PayInv, IInv, TypeOK, LiveSlots, Live
  <2>2. w \in WordsAt(dir[i].off, dir[i].capacity)
        BY <1>1, <1>2, <2>1
  <2> QED
        BY <1>2, <2>1, <2>2 DEF PayInv, Clean, Mine
<1>3. PayInv => NothingInherited
      BY <1>2 DEF NothingInherited
<1> QED
    BY PayInvariance, <1>3, PTL

\* No call damages what an object holds, its own or another's, but for the
\* bytes beyond a stale payload_cap, which a relocation leaves behind.
THEOREM ContentsAreKept == PayloadSpec => ContentsKept
<1> DEFINE A == vars' # vars /\ ret' # CRASH =>
                   \A i \in LiveSlots : dir'[i].id = dir[i].id => Kept(i)
<1>1. PayInv /\ [PayloadNext]_pvars => [A]_pvars
  <2>1. ASSUME PayInv, PayloadNext, vars' # vars, ret' # CRASH,
               NEW i \in LiveSlots, dir'[i].id = dir[i].id
        PROVE  Kept(i)
    <3>1. Carried(bytes, bytes', dir[i], dir'[i])
          BY <2>1, CallHarmless DEF Harmless, LiveSlots, Live
    <3> QED
          BY <3>1 DEF Carried, Kept, WordOf
  <2> QED
        BY <2>1
<1> QED
    BY <1>1, PayInvariance, PTL DEF PayloadSpec, ContentsKept
=============================================================================
