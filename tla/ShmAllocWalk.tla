---------------------------- MODULE ShmAllocWalk ----------------------------
(***************************************************************************)
(* Reference definitions for ShmAlloc, as the code computes them: the      *)
(* loops over the free list, one link at a time, and bytes counted one by  *)
(* one.                                                                    *)
(***************************************************************************)
EXTENDS FiniteSets, ShmAlloc

Nodes(h) == {Head} \cup Free(h)

\* A loop that starts with prev at the head of the list and follows links
\* until prev is one of Stops: the last prev.
Walk(h, Stops) ==
    LET prev[p \in Nodes(h)] ==
          IF p \in Stops THEN p ELSE prev[shm_link_dec(Link(h, p))]
    IN  prev[Head]

\* The loop of freelist_insert for a block at b.
WalkInsert(h, b) ==
    Walk(h, {p \in Nodes(h) : Link(h, p) = 0 \/ shm_link_dec(Link(h, p)) > b})

\* The loop of heap_alloc_block: the node before the first block that fits,
\* or the last one.
WalkFit(h, need_total) ==
    Walk(h, {p \in Nodes(h) :
                \/ Link(h, p) = 0
                \/ h.blk[shm_link_dec(Link(h, p))].total_size >= need_total})

\* The loop of freelist_remove: the node before target, or the last one.
WalkRemove(h, target) ==
    Walk(h, {p \in Nodes(h) :
                Link(h, p) = 0 \/ shm_link_dec(Link(h, p)) = target})

Allocated(h) == DOMAIN h.blk \ Free(h)

\* How many bytes the blocks S cover, headers included.
Bytes(h, S) == Cardinality(UNION {o .. End(h, o) - 1 : o \in S})

-----------------------------------------------------------------------------
\* The walks that the code makes, following next_free from free_list, stop
\* where InsertPrev, FirstFit and PrevOf say: for every offset off the list
\* at which freelist_insert could put a block (one that was allocated, or
\* the tail that shm_resize cuts off), every size asked for and every free
\* block that could be removed.  A link out of order or a block off the list
\* would make them differ.
WalksAgree ==
    ~Crashed =>
        /\ \A b \in (0 .. HeapSize - 1) \ Free(heap) :
              WalkInsert(heap, b) = InsertPrev(heap, b)
        /\ \A n \in PayloadSizes :
              LET need == NeedTotal(n)
              IN  IF Fits(heap, need) = {}
                  THEN Link(heap, WalkFit(heap, need)) = 0
                  ELSE WalkFit(heap, need) = PrevOf(heap, FirstFit(heap, need))
        /\ \A b \in Free(heap) : WalkRemove(heap, b) = PrevOf(heap, b)

\* shm_pool_stats tells the truth: used_bytes and block_count, which every
\* split, merge, growth and relocation adjusts by hand, are exactly the
\* bytes and the number of allocated blocks, free_bytes is exactly what is
\* on the free list, and dir_used counts the same objects as block_count.
AccountingExact ==
    ~Crashed =>
        /\ heap.used_bytes = Bytes(heap, Allocated(heap))
        /\ HeapSize - heap.used_bytes = Bytes(heap, Free(heap))
        /\ heap.block_count = Cardinality(Allocated(heap))
        /\ heap.block_count = Cardinality(LiveSlots)
=============================================================================
