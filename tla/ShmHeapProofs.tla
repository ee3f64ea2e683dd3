--------------------------- MODULE ShmHeapProofs ----------------------------
(***************************************************************************)
(* What the heap operations of ShmAlloc do to a well-formed heap, for      *)
(* every heap size and every request.  Each lemma describes one operator   *)
(* by its effect on the free list, on the tiling and on allocated blocks.  *)
(***************************************************************************)
EXTENDS ShmAlloc, TLAPS, WellFoundedInduction

\* The blocks in use.
Used(h) == {o \in DOMAIN h.blk : h.blk[o].allocated = 1}

-----------------------------------------------------------------------------
(***************************************************************************)
(* Least and greatest elements: first fit and the linear scans take the    *)
(* least, freelist_insert the greatest node below a block.                 *)
(***************************************************************************)
\* A nonempty set of naturals has a least element.
LEMMA LeastExists ==
    ASSUME NEW S \in SUBSET Nat, S # {}
    PROVE  \E x \in S : \A y \in S : x <= y
<1> DEFINE R == {ss \in Nat \X Nat : ss[1] < ss[2]}
<1>1. IsWellFoundedOn(R, Nat)
      BY NatLessThanWellFounded, Zenon DEF OpToRel
<1>2. \E x \in S : \A y \in S : ~(<<y, x>> \in R)
      <2> HIDE DEF R
      <2> QED  BY <1>1, WFMin, Zenon
<1>3. PICK x \in S : \A y \in S : ~(<<y, x>> \in R)
      BY <1>2
<1>4. ASSUME NEW y \in S, y < x
      PROVE  <<y, x>> \in R
      BY <1>4
<1>5. \A y \in S : ~(y < x)
      BY <1>3, <1>4
<1>6. \A y \in S : x <= y
      BY <1>5
<1> QED
    BY <1>6

\* A nonempty set of integers below a bound, none less than Head, has a
\* greatest element.
LEMMA GreatestExists ==
    ASSUME NEW S \in SUBSET Int, S # {}, NEW b \in Int,
           \A x \in S : Head <= x /\ x <= b
    PROVE  \E x \in S : \A y \in S : y <= x
<1> DEFINE T == {b - x : x \in S}
<1>1. T \in SUBSET Nat
      BY DEF Head
<1>a. PICK w \in S : TRUE
      OBVIOUS
<1>b. b - w \in T
      OBVIOUS
<1>2. PICK m \in T : \A y \in T : m <= y
      BY <1>1, <1>b, LeastExists
<1>3. PICK x \in S : m = b - x
      OBVIOUS
<1>4. ASSUME NEW y \in S
      PROVE  y <= x
  <2>1. b - y \in T
        OBVIOUS
  <2>2. m <= b - y
        BY <1>2, <2>1
  <2> QED
        BY <1>3, <2>2
<1> QED
    BY <1>4

-----------------------------------------------------------------------------
(***************************************************************************)
(* The free list.                                                          *)
(***************************************************************************)
\* The walk of freelist_insert stops at a node below b whose successor, if
\* any, is above b; nothing on the list lies between.
LEMMA InsertPrevIs ==
    ASSUME NEW h, HeapTypeOK(h), NEW b \in Nat,
           Threads(h, Free(h) \ {b})
    PROVE  LET F == Free(h) \ {b}
               p == InsertPrev(h, b)
           IN  /\ p \in {Head} \cup F
               /\ p < b
               /\ \/ Link(h, p) = 0 /\ \A q \in F : q <= p
                  \/ /\ shm_link_dec(Link(h, p)) \in F
                     /\ shm_link_dec(Link(h, p)) > b
                     /\ \A q \in F : q <= p \/ shm_link_dec(Link(h, p)) <= q
<1> DEFINE F == Free(h) \ {b}
           P == {q \in {Head} \cup F : q <= b}
<1>1. F \subseteq Nat
      BY DEF HeapTypeOK, Free
<1>2. /\ P # {} /\ P \in SUBSET Int /\ b \in Int
      /\ \A x \in P : Head <= x /\ x <= b
  <2>1. Head \in P
        BY DEF Head
  <2> QED
        BY <1>1, <2>1 DEF Head
<1>3. PICK m \in P : \A y \in P : y <= m
      <2> HIDE DEF P
      <2> QED  BY <1>2, GreatestExists, Zenon
<1>4. Link(h, m) \in Nat
      BY <1>1 DEF Link, HeapTypeOK, Free, BlockHdr
<1>5. Link(h, m) = 0 \/ shm_link_dec(Link(h, m)) > b
  <2> DEFINE n == shm_link_dec(Link(h, m))
  <2>1. Link(h, m) = 0 \/ (n \in F /\ m < n)
        BY DEF Threads
  <2>2. ASSUME n \in F, m < n, n <= b
        PROVE  FALSE
        BY <1>1, <1>3, <2>2 DEF Head
  <2> QED
        BY <1>1, <2>1, <2>2
<1>6. LET p == InsertPrev(h, b)
      IN  /\ p \in {Head} \cup F
          /\ p <= b
          /\ Link(h, p) = 0 \/ shm_link_dec(Link(h, p)) > b
      BY <1>3, <1>5 DEF InsertPrev
<1>7. InsertPrev(h, b) # b
      BY <1>1, <1>6 DEF Head
<1>8. Link(h, InsertPrev(h, b)) \in Nat
      BY <1>1, <1>6 DEF Link, HeapTypeOK, Free, BlockHdr
<1> QED
    BY <1>1, <1>6, <1>7, <1>8 DEF Threads, shm_link_dec, Head

\* Replacing the headers keeps a heap well typed if the new ones are.
LEMMA WithBlk ==
    ASSUME NEW h, HeapTypeOK(h), NEW f, NEW g, g = [h EXCEPT !.blk = f],
           f \in [DOMAIN f -> BlockHdr], DOMAIN f \subseteq 0 .. HeapSize - 1
    PROVE  /\ g.blk = f
           /\ g.free_list = h.free_list
           /\ g.used_bytes = h.used_bytes
           /\ g.block_count = h.block_count
           /\ HeapTypeOK(g)
    BY DEF HeapTypeOK

\* Changing fields of one header keeps it a header.
LEMMA HdrFields ==
    ASSUME NEW e \in BlockHdr, NEW n \in Nat
    PROVE  /\ [e EXCEPT !.next_free = n] \in BlockHdr
           /\ [e EXCEPT !.next_free = n].next_free = n
           /\ [e EXCEPT !.next_free = n].allocated = e.allocated
           /\ [e EXCEPT !.next_free = n].total_size = e.total_size
           /\ [e EXCEPT !.next_free = n].payload_cap = e.payload_cap
    BY DEF BlockHdr

\* g is h with link lnk in node p, and nothing else is different.
Relinked(h, g, p, lnk) ==
    /\ HeapTypeOK(g)
    /\ DOMAIN g.blk = DOMAIN h.blk
    /\ Link(g, p) = lnk
    /\ \A q \in {Head} \cup DOMAIN h.blk : q # p => Link(g, q) = Link(h, q)
    /\ \A o \in DOMAIN h.blk :
          /\ o # p => g.blk[o] = h.blk[o]
          /\ g.blk[o].allocated = h.blk[o].allocated
          /\ g.blk[o].total_size = h.blk[o].total_size
          /\ g.blk[o].payload_cap = h.blk[o].payload_cap
    /\ g.used_bytes = h.used_bytes
    /\ g.block_count = h.block_count

\* SetLink changes one link.
LEMMA SetLinkIs ==
    ASSUME NEW h, HeapTypeOK(h), NEW p \in {Head} \cup DOMAIN h.blk,
           NEW lnk, lnk \in Nat
    PROVE  Relinked(h, SetLink(h, p, lnk), p, lnk)
<1> DEFINE g == SetLink(h, p, lnk)
<1>1. CASE p = Head
  <2>1. g = [h EXCEPT !.free_list = lnk]
        BY <1>1 DEF SetLink
  <2>2. -1 \notin DOMAIN h.blk
        BY DEF HeapTypeOK
  <2> QED
        BY <1>1, <2>1, <2>2 DEF HeapTypeOK, Link, Head, Relinked
<1>2. CASE p # Head
  <2> DEFINE f == [h.blk EXCEPT ![p] = [h.blk[p] EXCEPT !.next_free = lnk]]
  <2>1. g = [h EXCEPT !.blk = f]
        BY <1>2 DEF SetLink
  <2>2. p \in DOMAIN h.blk /\ h.blk[p] \in BlockHdr
        BY <1>2 DEF HeapTypeOK
  <2>3. /\ f \in [DOMAIN f -> BlockHdr] /\ DOMAIN f = DOMAIN h.blk
        /\ \A o \in DOMAIN h.blk : o # p => f[o] = h.blk[o]
        BY <2>2, HdrFields DEF HeapTypeOK
  <2>4. /\ f[p].next_free = lnk
        /\ f[p].allocated = h.blk[p].allocated
        /\ f[p].total_size = h.blk[p].total_size
        /\ f[p].payload_cap = h.blk[p].payload_cap
        BY <2>2 DEF BlockHdr
  <2>5. DOMAIN f \subseteq 0 .. HeapSize - 1
        BY <2>3 DEF HeapTypeOK
  <2> HIDE DEF f, g
  <2>6. /\ HeapTypeOK(g) /\ g.blk = f /\ g.free_list = h.free_list
        /\ g.used_bytes = h.used_bytes /\ g.block_count = h.block_count
        <3>1. f \in [DOMAIN f -> BlockHdr]
              BY <2>3
        <3> QED  BY <2>1, <2>5, <3>1, WithBlk
  <2> QED
        BY <1>2, <2>2, <2>3, <2>4, <2>6 DEF Link, Relinked, g
<1> QED
    BY <1>1, <1>2

\* g is h with b made a free block, linked in after node p.
Spliced(h, g, p, b) ==
    /\ HeapTypeOK(g)
    /\ DOMAIN g.blk = DOMAIN h.blk
    /\ Free(g) = Free(h) \cup {b}
    /\ Used(g) = Used(h) \ {b}
    /\ Link(g, p) = shm_link_enc(b)
    /\ Link(g, b) = Link(h, p)
    /\ \A q \in {Head} \cup DOMAIN h.blk :
          q # p /\ q # b => Link(g, q) = Link(h, q)
    /\ \A o \in DOMAIN h.blk :
          /\ g.blk[o].total_size = h.blk[o].total_size
          /\ g.blk[o].payload_cap = h.blk[o].payload_cap
    /\ \A o \in Used(h) \ {b} : g.blk[o] = h.blk[o]
    /\ g.used_bytes = h.used_bytes
    /\ g.block_count = h.block_count

\* Splice puts b on the list after p and clears its owner.
LEMMA SpliceIs ==
    ASSUME NEW h, HeapTypeOK(h), NEW b \in DOMAIN h.blk,
           NEW p \in {Head} \cup (Free(h) \ {b})
    PROVE  Spliced(h, Splice(h, p, b), p, b)
<1> DEFINE e == [h.blk[b] EXCEPT !.allocated = 0, !.obj_id = 0, !.owner = 0,
                                 !.perms = {}, !.next_free = Link(h, p)]
           f == [h.blk EXCEPT ![b] = e]
           k == [h EXCEPT !.blk = f]
           g == Splice(h, p, b)
<1>1. p \in {Head} \cup DOMAIN h.blk /\ b # Head /\ shm_link_enc(b) \in Nat
      BY DEF HeapTypeOK, Free, Head, shm_link_enc
<1>2. Link(h, p) \in Nat
      BY <1>1 DEF HeapTypeOK, BlockHdr, Link
<1>3. h.blk[b] \in BlockHdr
      BY DEF HeapTypeOK
<1>4. /\ e \in BlockHdr
      /\ e.allocated = 0 /\ e.next_free = Link(h, p)
      /\ e.total_size = h.blk[b].total_size
      /\ e.payload_cap = h.blk[b].payload_cap
      BY <1>2, <1>3 DEF BlockHdr
<1>5. g = SetLink(k, p, shm_link_enc(b))
      BY DEF Splice
<1> HIDE DEF e
<1>6. /\ f \in [DOMAIN f -> BlockHdr] /\ DOMAIN f = DOMAIN h.blk
      /\ DOMAIN f \subseteq 0 .. HeapSize - 1
      /\ f[b] = e /\ \A o \in DOMAIN h.blk : o # b => f[o] = h.blk[o]
      BY <1>4 DEF HeapTypeOK
<1> HIDE DEF f
<1>7. /\ HeapTypeOK(k) /\ k.blk = f /\ k.free_list = h.free_list
      /\ k.used_bytes = h.used_bytes /\ k.block_count = h.block_count
      BY <1>6, WithBlk
<1> HIDE DEF k
<1>a. p \in {Head} \cup DOMAIN k.blk
      BY <1>1, <1>6, <1>7
<1> HIDE DEF g
<1>8. Relinked(k, g, p, shm_link_enc(b))
      BY <1>1, <1>5, <1>7, <1>a, SetLinkIs
<1>9. \A q \in {Head} \cup DOMAIN h.blk :
          /\ q # p /\ q # b => Link(g, q) = Link(h, q)
          /\ q = b => Link(g, q) = Link(h, p)
      BY <1>1, <1>4, <1>6, <1>7, <1>8 DEF Link, Relinked
<1>10. Free(g) = Free(h) \cup {b} /\ Used(g) = Used(h) \ {b}
      BY <1>4, <1>6, <1>7, <1>8 DEF Free, Used, Relinked
<1>11. \A o \in Used(h) \ {b} : g.blk[o] = h.blk[o]
      BY <1>1, <1>6, <1>7, <1>8 DEF Used, Free, Head, HeapTypeOK, Relinked
<1> QED
    BY <1>1, <1>4, <1>6, <1>7, <1>8, <1>9, <1>10, <1>11 DEF Relinked, Spliced, g

\* Inserting b where the walk stops leaves a list in address order that
\* holds b as well.
LEMMA SpliceThreads ==
    ASSUME NEW h, HeapTypeOK(h), NEW b \in DOMAIN h.blk,
           Threads(h, Free(h) \ {b}), NEW g,
           Spliced(h, g, InsertPrev(h, b), b)
    PROVE  Threads(g, Free(g))
<1> DEFINE F == Free(h) \ {b}
           p == InsertPrev(h, b)
           n == shm_link_dec(Link(h, p))
<1>1. b \in Nat /\ F \subseteq Nat /\ F \subseteq DOMAIN h.blk
      BY DEF HeapTypeOK, Free
<1>2. /\ p \in {Head} \cup F /\ p < b
      /\ \/ Link(h, p) = 0 /\ \A q \in F : q <= p
         \/ n \in F /\ n > b /\ \A q \in F : q <= p \/ n <= q
      BY <1>1, InsertPrevIs
<1>3. /\ Free(g) = F \cup {b}
      /\ Link(g, p) = b + 1 /\ Link(g, b) = Link(h, p)
      /\ \A q \in {Head} \cup F : q # p => Link(g, q) = Link(h, q)
  <2>1. Head # b
        BY <1>1 DEF Head
  <2>2. Free(g) = F \cup {b}
        BY DEF Spliced
  <2>3. Link(g, p) = b + 1 /\ Link(g, b) = Link(h, p)
        BY DEF Spliced, shm_link_enc
  <2>4. ASSUME NEW q \in {Head} \cup F, q # p
        PROVE  Link(g, q) = Link(h, q)
        BY <1>1, <2>1, <2>4 DEF Spliced
  <2> QED
        BY <2>2, <2>3, <2>4
<1>4. \A r \in {Head} \cup F : r \in Int /\ Head <= r
      BY <1>1 DEF Head
<1> HIDE DEF p
<1> SUFFICES ASSUME NEW r \in {Head} \cup (F \cup {b})
             PROVE  \/ Link(g, r) = 0 /\ \A q \in F \cup {b} : q <= r
                    \/ /\ shm_link_dec(Link(g, r)) \in F \cup {b}
                       /\ r < shm_link_dec(Link(g, r))
                       /\ \A q \in F \cup {b} :
                             q <= r \/ shm_link_dec(Link(g, r)) <= q
      BY <1>3 DEF Threads
<1>5. CASE r = p
  <2>1. shm_link_dec(Link(g, r)) = b
        BY <1>1, <1>3, <1>5 DEF shm_link_dec
  <2> QED
        BY <1>1, <1>2, <1>4, <1>5, <2>1
<1>6. CASE r = b
      BY <1>1, <1>2, <1>3, <1>4, <1>6
<1>7. CASE r # p /\ r # b
  <2> DEFINE m == shm_link_dec(Link(h, r))
  <2>1. r \in {Head} \cup F /\ Link(g, r) = Link(h, r)
        BY <1>3, <1>7
  <2>2. \/ Link(h, r) = 0 /\ \A q \in F : q <= r
        \/ m \in F /\ r < m /\ \A q \in F : q <= r \/ m <= q
        BY <2>1 DEF Threads
  <2>3. CASE r < p
    <3>a. r \in Int /\ Head <= r
          BY <1>4, <2>1
    <3>b. p # Head
          BY <2>3, <3>a DEF Head
    <3>1. p \in F
          BY <1>2, <3>b
    <3>2. m \in F /\ m <= p /\ r < m /\ \A q \in F : q <= r \/ m <= q
          BY <1>1, <1>4, <2>1, <2>2, <2>3, <3>1
    <3> QED
          BY <1>1, <1>2, <2>1, <3>1, <3>2
  <2>4. CASE p < r
    <3>1. r \in F
          BY <1>2, <1>4, <2>1, <2>4 DEF Head
    <3>2. b <= r
          BY <1>1, <1>2, <1>4, <2>4, <3>1
    <3> QED
          BY <1>1, <2>1, <2>2, <3>2
  <2> QED
        BY <1>2, <1>4, <1>7, <2>1, <2>3, <2>4
<1> QED
    BY <1>5, <1>6, <1>7

\* g is h with free block c merged into free block a.
Merged(h, g, a, c) ==
    /\ HeapTypeOK(g)
    /\ DOMAIN g.blk = DOMAIN h.blk \ {c}
    /\ Free(g) = Free(h) \ {c}
    /\ Used(g) = Used(h)
    /\ Link(g, a) = Link(h, c)
    /\ \A q \in {Head} \cup DOMAIN h.blk :
          q # a /\ q # c => Link(g, q) = Link(h, q)
    /\ g.blk[a].total_size = h.blk[a].total_size + h.blk[c].total_size
    /\ g.blk[a].payload_cap = h.blk[a].payload_cap
    /\ \A o \in DOMAIN h.blk \ {a, c} : g.blk[o] = h.blk[o]
    /\ g.used_bytes = h.used_bytes
    /\ g.block_count = h.block_count

\* Coalesce merges c into a.
LEMMA CoalesceIs ==
    ASSUME NEW h, HeapTypeOK(h), NEW a \in Free(h), NEW c \in Free(h), a # c
    PROVE  Merged(h, Coalesce(h, a, c), a, c)
<1> DEFINE s == h.blk[a].total_size + h.blk[c].total_size
           n == h.blk[c].next_free
           e == [h.blk[a] EXCEPT !.total_size = s, !.next_free = n]
           f == [o \in DOMAIN h.blk \ {c} |-> IF o = a THEN e ELSE h.blk[o]]
           g == Coalesce(h, a, c)
<1>1. a \in DOMAIN h.blk /\ c \in DOMAIN h.blk
      BY DEF Free
<1>2. h.blk[a] \in BlockHdr /\ h.blk[c] \in BlockHdr /\ a # Head /\ c # Head
      BY <1>1 DEF HeapTypeOK, Head
<1>a. s \in Nat /\ n \in Nat
      BY <1>2 DEF BlockHdr
<1> HIDE DEF s, n
<1>3. /\ e \in BlockHdr
      /\ e.allocated = h.blk[a].allocated
      /\ e.next_free = n
      /\ e.total_size = s
      /\ e.payload_cap = h.blk[a].payload_cap
      BY <1>2, <1>a DEF BlockHdr
<1>4. g = [h EXCEPT !.blk = f]
      BY DEF Coalesce, s, n
<1> HIDE DEF e, g
<1>5. /\ f \in [DOMAIN f -> BlockHdr] /\ DOMAIN f = DOMAIN h.blk \ {c}
      /\ DOMAIN f \subseteq 0 .. HeapSize - 1
      /\ f[a] = e /\ \A o \in DOMAIN h.blk \ {a, c} : f[o] = h.blk[o]
      BY <1>1, <1>3 DEF HeapTypeOK
<1> HIDE DEF f
<1>6. /\ HeapTypeOK(g) /\ g.blk = f /\ g.free_list = h.free_list
      /\ g.used_bytes = h.used_bytes /\ g.block_count = h.block_count
      BY <1>4, <1>5, WithBlk
<1>7. /\ Link(g, a) = Link(h, c)
      /\ \A q \in {Head} \cup DOMAIN h.blk :
            q # a /\ q # c => Link(g, q) = Link(h, q)
      BY <1>1, <1>2, <1>3, <1>5, <1>6 DEF Link, n
<1>8. Free(g) = Free(h) \ {c} /\ Used(g) = Used(h)
      BY <1>1, <1>3, <1>5, <1>6 DEF Free, Used
<1> QED
    BY <1>3, <1>5, <1>6, <1>7, <1>8 DEF Merged, g, s

\* Making one block of two adjacent ones keeps the tiling.
LEMMA MergeTiles ==
    ASSUME NEW h, HeapTypeOK(h), Tiled(h), NEW a \in DOMAIN h.blk,
           NEW c \in DOMAIN h.blk, End(h, a) = c, NEW g,
           DOMAIN g.blk = DOMAIN h.blk \ {c},
           g.blk[a].total_size = h.blk[a].total_size + h.blk[c].total_size,
           \A o \in DOMAIN h.blk \ {a, c} :
               g.blk[o].total_size = h.blk[o].total_size
    PROVE  Tiled(g) /\ End(g, a) = End(h, c)
<1> DEFINE D == DOMAIN h.blk
           Sz(o) == h.blk[o].total_size
<1>1. /\ a \in D /\ c \in D /\ D \subseteq Nat
      /\ \A o \in D : Sz(o) \in Nat
      BY DEF HeapTypeOK, BlockHdr
<1>2. a < c /\ \A o \in D : Sz(o) >= BLOCK_MIN
      BY <1>1 DEF Tiled, End, BLOCK_MIN, HDR, HEAP_ALIGN
<1>3. /\ DOMAIN g.blk = D \ {c}
      /\ End(g, a) = End(h, c)
      /\ \A o \in D \ {a, c} : g.blk[o].total_size = Sz(o) /\ End(g, o) = End(h, o)
      BY <1>1 DEF End
<1>4. Tiled(g)
  <2>1. 0 \in DOMAIN g.blk
        BY <1>1, <1>2, <1>3 DEF Tiled
  <2>2. ASSUME NEW o \in DOMAIN g.blk
        PROVE  /\ o \in Nat
               /\ g.blk[o].total_size >= BLOCK_MIN
               /\ End(g, o) <= HeapSize
               /\ End(g, o) = HeapSize \/ End(g, o) \in DOMAIN g.blk
    <3>1. CASE o = a
          BY <1>1, <1>2, <1>3, <3>1 DEF Tiled, End, BLOCK_MIN, HDR, HEAP_ALIGN
    <3>2. CASE o # a
      <4>1. o \in D /\ o # c
            BY <1>3
      <4>2. CASE o < a
        <5>1. End(h, o) <= a /\ End(h, o) \in Nat
              BY <1>1, <4>1, <4>2 DEF Tiled, End
        <5> QED
              BY <1>1, <1>2, <1>3, <3>2, <4>1, <5>1 DEF Tiled
      <4>3. CASE a < o
        <5>1. c <= o /\ End(h, o) \in Nat /\ o < End(h, o)
              BY <1>1, <1>2, <4>1, <4>3 DEF Tiled, End, BLOCK_MIN, HDR, HEAP_ALIGN
        <5> QED
              BY <1>1, <1>2, <1>3, <3>2, <4>1, <5>1 DEF Tiled
      <4> QED
            BY <1>1, <3>2, <4>1, <4>2, <4>3
    <3> QED
          BY <3>1, <3>2
  <2>3. ASSUME NEW o \in DOMAIN g.blk, NEW q \in DOMAIN g.blk, o < q
        PROVE  End(g, o) <= q
    <3>1. CASE o = a
          BY <1>1, <1>2, <1>3, <2>3, <3>1 DEF Tiled, End, BLOCK_MIN, HDR, HEAP_ALIGN
    <3>2. CASE o # a
          BY <1>1, <1>3, <2>3, <3>2 DEF Tiled
    <3> QED
          BY <3>1, <3>2
  <2> QED
        BY <2>1, <2>2, <2>3 DEF Tiled
<1> QED
    BY <1>3, <1>4

\* Merging a block with the adjacent block its link leads to keeps the
\* tiling, the order of the list and the payload bounds.
LEMMA MergeKeeps ==
    ASSUME NEW h, HeapTypeOK(h), Tiled(h), Threads(h, Free(h)), CapsFit(h),
           NEW a \in Free(h), NEW c \in Free(h), End(h, a) = c,
           Link(h, a) = shm_link_enc(c), NEW g, Merged(h, g, a, c)
    PROVE  Tiled(g) /\ Threads(g, Free(g)) /\ CapsFit(g) /\ End(g, a) = End(h, c)
<1> DEFINE D == DOMAIN h.blk
           Sz(o) == h.blk[o].total_size
<1>1. /\ a \in D /\ c \in D /\ D \subseteq Nat
      /\ \A o \in D : Sz(o) \in Nat /\ h.blk[o].payload_cap \in Nat
      BY DEF Free, HeapTypeOK, BlockHdr
<1>2. a < c /\ \A o \in D : Sz(o) >= BLOCK_MIN
      BY <1>1 DEF Tiled, End, BLOCK_MIN, HDR, HEAP_ALIGN
<1>3. /\ DOMAIN g.blk = D \ {c}
      /\ End(g, a) = End(h, c)
      /\ \A o \in D \ {a, c} : g.blk[o] = h.blk[o] /\ End(g, o) = End(h, o)
      BY <1>1 DEF Merged, End
<1>4. Tiled(g)
  <2>1. /\ g.blk[a].total_size = h.blk[a].total_size + h.blk[c].total_size
        /\ \A o \in D \ {a, c} : g.blk[o].total_size = h.blk[o].total_size
        BY DEF Merged
  <2> QED
        BY <1>1, <1>3, <2>1, MergeTiles
<1>5. Threads(g, Free(g))
  <2> DEFINE F == Free(h)
             Nx(q) == shm_link_dec(Link(h, q))
  <2>1. F \subseteq D /\ F \subseteq Nat /\ a \in F /\ c \in F
        BY <1>1 DEF Free
  <2>2. Free(g) = F \ {c} /\ Link(g, a) = Link(h, c)
        BY DEF Merged
  <2>3. \A q \in {Head} \cup F : q # a /\ q # c => Link(g, q) = Link(h, q)
        BY <2>1 DEF Merged
  <2>4. \A q \in {Head} \cup F :
            \/ Link(h, q) = 0 /\ \A r \in F : r <= q
            \/ /\ Nx(q) \in F
               /\ q < Nx(q)
               /\ \A r \in F : r <= q \/ Nx(q) <= r
        BY DEF Threads
  <2>5. \A r \in F : r <= a \/ c <= r
        BY <1>1, <1>2, <2>1, <2>4 DEF shm_link_enc, shm_link_dec
  <2> SUFFICES ASSUME NEW q \in {Head} \cup (F \ {c})
               PROVE  \/ Link(g, q) = 0 /\ \A r \in F \ {c} : r <= q
                      \/ /\ shm_link_dec(Link(g, q)) \in F \ {c}
                         /\ q < shm_link_dec(Link(g, q))
                         /\ \A r \in F \ {c} :
                               r <= q \/ shm_link_dec(Link(g, q)) <= r
        BY <2>2 DEF Threads
  <2>6. CASE q = a
        BY <1>1, <1>2, <2>1, <2>2, <2>4, <2>5, <2>6
  <2>7. CASE q # a
    <3>1. c # Head /\ q # c /\ q \in Int /\ Link(g, q) = Link(h, q)
          BY <2>1, <2>3, <2>7 DEF Head
    <3>2. Nx(q) # c
      <4> SUFFICES ASSUME Nx(q) = c  PROVE FALSE
            OBVIOUS
      <4>1. c \in F /\ q < c /\ \A r \in F : r <= q \/ c <= r
            BY <2>1, <2>4, <3>1, <1>1 DEF shm_link_dec, Head
      <4>2. a <= q /\ q \in F
            BY <1>1, <1>2, <2>1, <4>1 DEF Head
      <4> QED
            BY <1>1, <2>1, <2>5, <2>7, <3>1, <4>1, <4>2
    <3> QED
          BY <2>4, <3>1, <3>2
  <2> QED
        BY <2>6, <2>7
<1>6. CapsFit(g)
  <2> SUFFICES ASSUME NEW o \in DOMAIN g.blk
               PROVE  HDR + g.blk[o].payload_cap <= g.blk[o].total_size
        BY DEF CapsFit
  <2>1. CASE o = a
        BY <1>1, <2>1 DEF Merged, CapsFit, HDR
  <2>2. CASE o # a
        BY <1>3, <2>2 DEF CapsFit
  <2> QED
        BY <2>1, <2>2
<1> QED
    BY <1>3, <1>4, <1>5, <1>6

\* k is h after b has been linked in behind p and merged with the block
\* that follows it, if that one is free: what freelist_insert has done
\* before it looks at the block in front of b.
Joined(h, k, p, b) ==
    /\ HeapTypeOK(k) /\ Tiled(k) /\ Threads(k, Free(k)) /\ CapsFit(k)
    /\ b \in Free(k)
    /\ Free(k) \ {b} \subseteq Free(h) \ {b}
    /\ p # Head => p \in Free(k)
    /\ Link(k, p) = shm_link_enc(b)
    /\ \A o \in Free(k) \ {b} : End(k, o) = End(h, o)
    /\ End(k, b) \notin Free(k)
    /\ Used(k) = Used(h) \ {b}
    /\ \A o \in Used(h) \ {b} : k.blk[o] = h.blk[o]
    /\ k.used_bytes = h.used_bytes
    /\ k.block_count = h.block_count

\* Splicing b in changes no size, so it keeps the tiling.
LEMMA SpliceKeeps ==
    ASSUME NEW h, HeapTypeOK(h), Tiled(h), CapsFit(h), NEW p, NEW b, NEW g,
           Spliced(h, g, p, b)
    PROVE  /\ Tiled(g) /\ CapsFit(g)
           /\ \A o \in DOMAIN h.blk : End(g, o) = End(h, o)
    BY DEF Spliced, Tiled, CapsFit, End

\* No block ends where it begins, and a block above b begins at b's end or
\* later.
LEMMA EndIs ==
    ASSUME NEW h, HeapTypeOK(h), Tiled(h), NEW b \in DOMAIN h.blk
    PROVE  /\ b \in Nat /\ End(h, b) \in Nat /\ b < End(h, b)
           /\ End(h, b) = b + h.blk[b].total_size
           /\ \A o \in DOMAIN h.blk : b < o => End(h, b) <= o
    BY DEF HeapTypeOK, BlockHdr, Tiled, End, BLOCK_MIN, HDR, HEAP_ALIGN

\* The first half of freelist_insert.
LEMMA ForwardMerge ==
    ASSUME NEW h, HeapTypeOK(h), Tiled(h), CapsFit(h), NEW b \in DOMAIN h.blk,
           Threads(h, Free(h) \ {b}), Apart(h, Free(h) \ {b}),
           NEW p, p = InsertPrev(h, b),
           NEW n, n = shm_link_dec(Link(h, p)),
           NEW h1, h1 = Splice(h, p, b)
    PROVE  Joined(h, IF Link(h, p) # 0 /\ End(h, b) = n
                     THEN Coalesce(h1, b, n) ELSE h1, p, b)
<1> DEFINE F == Free(h) \ {b}
<1>1. b \in Nat /\ F \subseteq Nat /\ F \subseteq DOMAIN h.blk
      BY DEF HeapTypeOK, Free
<1>2. /\ p \in {Head} \cup F /\ p < b
      /\ \/ Link(h, p) = 0 /\ \A q \in F : q <= p
         \/ n \in F /\ n > b /\ \A q \in F : q <= p \/ n <= q
      BY <1>1, InsertPrevIs
<1>3. Spliced(h, h1, p, b)
      BY <1>2, SpliceIs
<1>4. Threads(h1, Free(h1))
      BY <1>3, SpliceThreads
<1>5. /\ HeapTypeOK(h1) /\ Tiled(h1) /\ CapsFit(h1)
      /\ \A o \in DOMAIN h.blk : End(h1, o) = End(h, o)
      BY <1>3, SpliceKeeps DEF Spliced
<1>6. /\ Free(h1) = F \cup {b} /\ Used(h1) = Used(h) \ {b}
      /\ Link(h1, p) = shm_link_enc(b) /\ Link(h1, b) = Link(h, p)
      /\ \A o \in Used(h) \ {b} : h1.blk[o] = h.blk[o]
      /\ h1.used_bytes = h.used_bytes /\ h1.block_count = h.block_count
      BY <1>3 DEF Spliced
<1>7. p \in Int /\ \A q \in F : q \in DOMAIN h.blk /\ q \in Nat
      BY <1>1, <1>2 DEF Head
<1>8. /\ End(h, b) \in Nat /\ b < End(h, b)
      /\ \A o \in DOMAIN h.blk : b < o => End(h, b) <= o
      BY EndIs
<1>9. CASE Link(h, p) # 0 /\ End(h, b) = n
  <2> DEFINE k == Coalesce(h1, b, n)
  <2>1. n \in F /\ n > b /\ n \in Free(h1) /\ b \in Free(h1) /\ b # n
        BY <1>2, <1>6, <1>9, <1>1
  <2>2. Merged(h1, k, b, n)
        BY <1>5, <2>1, CoalesceIs
  <2>3. Link(h1, b) = shm_link_enc(n)
    <3>1. Link(h, p) \in Nat
          BY <1>1, <1>2 DEF Link, HeapTypeOK, Free, BlockHdr
    <3> QED
          BY <1>6, <3>1 DEF shm_link_enc, shm_link_dec
  <2>4. End(h1, b) = n
        BY <1>5, <1>9
  <2> HIDE DEF k
  <2>5. Tiled(k) /\ Threads(k, Free(k)) /\ CapsFit(k) /\ End(k, b) = End(h1, n)
        BY <1>4, <1>5, <2>1, <2>2, <2>3, <2>4, MergeKeeps
  <2>6. Free(k) = (F \cup {b}) \ {n} /\ Used(k) = Used(h) \ {b}
        BY <1>6, <2>2 DEF Merged
  <2>7. End(k, b) \notin Free(k)
    <3>1. End(k, b) = End(h, n) /\ n \in DOMAIN h.blk
          BY <1>5, <1>7, <2>1, <2>5
    <3>2. End(h, n) \notin F
          BY <2>1 DEF Apart
    <3>3. End(h, n) > n
          BY <3>1, EndIs
    <3>4. End(h, n) # b /\ End(h, n) \in Nat
          BY <1>1, <2>1, <3>1, <3>3, EndIs
    <3> QED
          BY <2>6, <3>1, <3>2, <3>4
  <2>8. p # Head => p \in Free(k)
        BY <1>2, <1>7, <1>1, <2>1, <2>6
  <2>9. Link(k, p) = shm_link_enc(b)
    <3>1. p # b /\ p # n /\ p \in {Head} \cup DOMAIN h1.blk
          BY <1>1, <1>2, <1>3, <1>7, <2>1 DEF Spliced
    <3> QED
          BY <1>6, <2>2, <3>1 DEF Merged
  <2>10. ASSUME NEW o \in DOMAIN h.blk, o # b, o # n
         PROVE  k.blk[o] = h1.blk[o] /\ End(k, o) = End(h, o)
    <3>1. o \in DOMAIN h1.blk \ {b, n}
          BY <1>3, <2>10 DEF Spliced
    <3>2. k.blk[o] = h1.blk[o]
          BY <2>2, <3>1 DEF Merged
    <3> QED
          BY <1>5, <3>2 DEF End
  <2>11. \A o \in Used(h) \ {b} : k.blk[o] = h.blk[o]
    <3> SUFFICES ASSUME NEW o \in Used(h) \ {b}
                 PROVE  k.blk[o] = h.blk[o]
          OBVIOUS
    <3>1. o \in DOMAIN h.blk /\ o # b /\ o # n
          BY <2>1 DEF Used, Free
    <3> QED
          BY <1>6, <2>10, <3>1
  <2>12. \A o \in Free(k) \ {b} : End(k, o) = End(h, o)
        BY <1>7, <2>6, <2>10
  <2>13. Joined(h, k, p, b)
        BY <1>6, <2>1, <2>2, <2>5, <2>6, <2>7, <2>8, <2>9, <2>11, <2>12
           DEF Joined, Merged
  <2> QED
        BY <1>9, <2>13 DEF k
<1>10. CASE ~(Link(h, p) # 0 /\ End(h, b) = n)
  <2>1. End(h, b) \notin F
    <3> SUFFICES ASSUME End(h, b) \in F  PROVE FALSE
          OBVIOUS
    <3>1. /\ n \in F /\ n > b /\ n <= End(h, b)
          BY <1>1, <1>2, <1>7, <1>8
    <3>2. End(h, b) = n
          BY <1>7, <1>8, <3>1
    <3>3. Link(h, p) # 0
          BY <1>1, <3>1 DEF shm_link_dec
    <3> QED
          BY <1>10, <3>2, <3>3
  <2>2. End(h1, b) \notin Free(h1)
        BY <1>1, <1>5, <1>6, <1>8, <2>1
  <2>3. Joined(h, h1, p, b)
        BY <1>2, <1>4, <1>5, <1>6, <1>7, <2>2 DEF Joined
  <2> QED
        BY <1>10, <2>3
<1> QED
    BY <1>9, <1>10

\* g is h with block b given back: a good heap in which b is no longer in
\* use and every other block in use is untouched.
Released(h, g, b) ==
    /\ GoodHeap(g)
    /\ Used(g) = Used(h) \ {b}
    /\ \A o \in Used(h) \ {b} : g.blk[o] = h.blk[o]
    /\ g.used_bytes = h.used_bytes
    /\ g.block_count = h.block_count

\* freelist_insert turns a block that is not on the list into free space,
\* merged with both neighbours.
LEMMA FreelistInsertIs ==
    ASSUME NEW h, HeapTypeOK(h), Tiled(h), CapsFit(h), NEW b \in DOMAIN h.blk,
           Threads(h, Free(h) \ {b}), Apart(h, Free(h) \ {b})
    PROVE  Released(h, freelist_insert(h, b), b)
<1> DEFINE F == Free(h) \ {b}
           p == InsertPrev(h, b)
           n == shm_link_dec(Link(h, p))
           h1 == Splice(h, p, b)
           k == IF Link(h, p) # 0 /\ End(h, b) = n
                THEN Coalesce(h1, b, n) ELSE h1
           g == freelist_insert(h, b)
<1>1. b \in Nat /\ F \subseteq Nat /\ F \subseteq DOMAIN h.blk
      BY DEF HeapTypeOK, Free
<1>2. /\ p \in {Head} \cup F /\ p < b
      /\ \/ \A q \in F : q <= p
         \/ n \in F /\ n > b /\ \A q \in F : q <= p \/ n <= q
      BY <1>1, InsertPrevIs
<1>3. Joined(h, k, p, b)
      BY ForwardMerge
<1>4. g = IF p # Head /\ End(h, p) = b THEN Coalesce(k, p, b) ELSE k
      BY DEF freelist_insert
<1> HIDE DEF p, n, k, g
<1>5. p \in Int /\ \A q \in F : q \in DOMAIN h.blk /\ q \in Nat
      BY <1>1, <1>2 DEF Head
<1>6. CASE p # Head /\ End(h, p) = b
  <2>1. p \in Free(k) /\ b \in Free(k) /\ p # b /\ HeapTypeOK(k)
        BY <1>1, <1>2, <1>3, <1>5, <1>6 DEF Joined
  <2>2. Merged(k, g, p, b)
        BY <1>4, <1>6, <2>1, CoalesceIs
  <2>3. End(k, p) = b /\ Link(k, p) = shm_link_enc(b)
        BY <1>3, <1>6, <2>1 DEF Joined
  <2>4. Tiled(g) /\ Threads(g, Free(g)) /\ CapsFit(g) /\ End(g, p) = End(k, b)
        BY <1>3, <2>1, <2>2, <2>3, MergeKeeps DEF Joined
  <2>5. /\ HeapTypeOK(g) /\ Free(g) = Free(k) \ {b} /\ Free(g) \subseteq F
        /\ Used(g) = Used(h) \ {b}
        BY <1>3, <2>2 DEF Merged, Joined
  <2>6. ASSUME NEW o \in DOMAIN k.blk, o # p, o # b
        PROVE  g.blk[o] = k.blk[o] /\ End(g, o) = End(k, o)
    <3>1. g.blk[o] = k.blk[o]
          BY <2>2, <2>6 DEF Merged
    <3> QED
          BY <3>1 DEF End
  <2>7. Apart(g, Free(g))
    <3> SUFFICES ASSUME NEW o \in Free(g)
                 PROVE  End(g, o) \notin Free(g)
          BY DEF Apart
    <3>1. CASE o = p
          BY <1>3, <2>4, <2>5, <3>1 DEF Joined
    <3>2. CASE o # p
      <4>1. o \in F /\ o \in Free(k) \ {b} /\ o \in DOMAIN k.blk /\ o # b
            BY <2>5 DEF Free
      <4>2. End(g, o) = End(h, o)
            BY <1>3, <2>6, <3>2, <4>1 DEF Joined
      <4> QED
            BY <2>5, <4>1, <4>2 DEF Apart
    <3> QED
          BY <3>1, <3>2
  <2>8. \A o \in Used(h) \ {b} : g.blk[o] = h.blk[o]
    <3> SUFFICES ASSUME NEW o \in Used(h) \ {b}
                 PROVE  g.blk[o] = h.blk[o]
          OBVIOUS
    <3>1. o \in Used(k) /\ k.blk[o] = h.blk[o]
          BY <1>3 DEF Joined
    <3>2. o \in DOMAIN k.blk /\ o # p /\ o # b
          BY <2>1, <3>1 DEF Used, Free
    <3> QED
          BY <2>6, <3>1, <3>2
  <2> QED
        BY <1>3, <2>2, <2>4, <2>5, <2>7, <2>8
           DEF Released, GoodHeap, Merged, Joined, g
<1>7. CASE ~(p # Head /\ End(h, p) = b)
  <2>1. g = k
        BY <1>4, <1>7
  <2>2. ASSUME NEW o \in F
        PROVE  End(h, o) # b
    <3> SUFFICES ASSUME End(h, o) = b  PROVE FALSE
          OBVIOUS
    <3>1. o \in DOMAIN h.blk /\ o \in Nat /\ o < b
          BY <1>5, EndIs
    <3>2. o <= p /\ p # Head
          BY <1>1, <1>2, <1>5, <3>1 DEF Head
    <3>3. o < p /\ p \in F
          BY <1>2, <1>5, <1>7, <3>1, <3>2
    <3>4. End(h, o) <= p
          BY <1>5, <3>1, <3>3, EndIs
    <3> QED
          BY <1>1, <1>2, <1>5, <3>4
  <2>3. Apart(k, Free(k))
    <3> SUFFICES ASSUME NEW o \in Free(k)
                 PROVE  End(k, o) \notin Free(k)
          BY DEF Apart
    <3>1. CASE o = b
          BY <1>3, <3>1 DEF Joined
    <3>2. CASE o # b
      <4>1. o \in F /\ End(k, o) = End(h, o) /\ Free(k) \subseteq F \cup {b}
            BY <1>3, <3>2 DEF Joined
      <4> QED
            BY <2>2, <4>1 DEF Apart
    <3> QED
          BY <3>1, <3>2
  <2>4. Released(h, k, b)
        BY <1>3, <2>3 DEF Released, GoodHeap, Joined
  <2> QED
        BY <2>1, <2>4 DEF g
<1> QED
    BY <1>6, <1>7

\* From h to g the counters move by so many bytes and blocks.
Counted(h, g, bytes, blocks) ==
    /\ g.used_bytes = h.used_bytes + bytes
    /\ g.block_count = h.block_count + blocks

\* heap_free_block makes a block in use free again and takes it off the
\* counters.
LEMMA HeapFreeBlockIs ==
    ASSUME NEW h, GoodHeap(h), NEW b \in Used(h)
    PROVE  LET g == heap_free_block(h, b)
           IN  /\ GoodHeap(g)
               /\ Used(g) = Used(h) \ {b}
               /\ \A o \in Used(h) \ {b} : g.blk[o] = h.blk[o]
               /\ Counted(h, g, -h.blk[b].total_size, -1)
<1> DEFINE u == h.used_bytes - h.blk[b].total_size
           c == h.block_count - 1
           k == [h EXCEPT !.used_bytes = u, !.block_count = c]
<1>1. b \in DOMAIN h.blk /\ Free(h) \ {b} = Free(h)
      BY DEF Used, Free
<1>2. u \in Int /\ c \in Int
      BY <1>1 DEF GoodHeap, HeapTypeOK, BlockHdr
<1>4. heap_free_block(h, b) = freelist_insert(k, b)
      BY DEF heap_free_block
<1>a. HeapTypeOK(h) /\ k = [h EXCEPT !.used_bytes = u, !.block_count = c]
      BY DEF GoodHeap
<1> HIDE DEF u, c, k
<1>3. k.blk = h.blk /\ k.free_list = h.free_list /\ HeapTypeOK(k)
      BY <1>2, <1>a DEF HeapTypeOK
<1>5. /\ Free(k) = Free(h) /\ Used(k) = Used(h)
      /\ Tiled(k) /\ CapsFit(k) /\ Threads(k, Free(h)) /\ Apart(k, Free(h))
      BY <1>3 DEF GoodHeap, Free, Used, Tiled, CapsFit, Threads, Apart, End, Link
<1>6. Released(k, freelist_insert(k, b), b)
      BY <1>1, <1>3, <1>5, FreelistInsertIs
<1>7. Counted(h, freelist_insert(k, b), -h.blk[b].total_size, -1)
  <2>1. k.used_bytes = u /\ k.block_count = c
        BY <1>a DEF HeapTypeOK
  <2>2. /\ h.used_bytes \in Int /\ h.block_count \in Int
        /\ h.blk[b].total_size \in Nat
        BY <1>1, <1>a DEF HeapTypeOK, BlockHdr
  <2>3. /\ u = h.used_bytes + (-h.blk[b].total_size)
        /\ c = h.block_count + (-1)
        BY <2>2 DEF u, c
  <2> QED
        BY <1>6, <2>1, <2>3 DEF Counted, Released
<1> QED
    BY <1>3, <1>4, <1>5, <1>6, <1>7 DEF Released

-----------------------------------------------------------------------------
(***************************************************************************)
(* Taking blocks off the list, splitting and extending them.               *)
(***************************************************************************)
\* The search for the node before b finds the next lower node of the list,
\* and no other node links to b.
LEMMA PrevOfIs ==
    ASSUME NEW h, HeapTypeOK(h), Threads(h, Free(h)), NEW b \in Free(h)
    PROVE  LET p == PrevOf(h, b)
           IN  /\ p \in {Head} \cup Free(h)
               /\ p < b
               /\ Link(h, p) = shm_link_enc(b)
               /\ \A q \in Free(h) : q <= p \/ b <= q
               /\ \A q \in {Head} \cup Free(h) :
                     Link(h, q) = shm_link_enc(b) => q = p
<1> DEFINE F == Free(h)
           P == {q \in {Head} \cup F : q < b}
           Nx(q) == shm_link_dec(Link(h, q))
<1>1. b \in Nat /\ F \subseteq Nat /\ F \subseteq DOMAIN h.blk
      BY DEF HeapTypeOK, Free
<1>2. /\ P # {} /\ P \in SUBSET Int /\ b - 1 \in Int
      /\ \A x \in P : Head <= x /\ x <= b - 1
  <2>1. Head \in P
        BY <1>1 DEF Head
  <2> QED
        BY <1>1, <2>1 DEF Head
<1>3. PICK m \in P : \A y \in P : y <= m
      <2> HIDE DEF P
      <2> QED  BY <1>2, GreatestExists, Zenon
<1>4. \A q \in {Head} \cup F : q \in Int /\ Link(h, q) \in Nat
      BY <1>1 DEF Link, HeapTypeOK, BlockHdr, Head
<1>5. \A q \in {Head} \cup F :
          \/ Link(h, q) = 0 /\ \A r \in F : r <= q
          \/ /\ Nx(q) \in F /\ q < Nx(q)
             /\ \A r \in F : r <= q \/ Nx(q) <= r
      BY DEF Threads
<1>6. Link(h, m) = shm_link_enc(b)
  <2>1. /\ Nx(m) \in F /\ m < Nx(m)
        /\ \A r \in F : r <= m \/ Nx(m) <= r
        BY <1>1, <1>4, <1>5
  <2>2. Nx(m) <= b
        BY <1>1, <1>4, <2>1
  <2>3. ~(Nx(m) < b)
        BY <1>1, <1>3, <1>4, <2>1
  <2> QED
        BY <1>1, <1>4, <2>1, <2>2, <2>3 DEF shm_link_enc, shm_link_dec
<1>7. \A q \in {Head} \cup F :
          Link(h, q) = shm_link_enc(b) =>
            Nx(q) = b /\ q < b /\ \A r \in F : r <= q \/ b <= r
      BY <1>1, <1>4, <1>5 DEF shm_link_enc, shm_link_dec
<1>8. ASSUME NEW q \in {Head} \cup F, Link(h, q) = shm_link_enc(b),
             NEW r \in {Head} \cup F, Link(h, r) = shm_link_enc(b)
      PROVE  q <= r
  <2>1. CASE q = Head
        BY <1>1, <2>1 DEF Head
  <2>2. CASE q \in F
        BY <1>1, <1>4, <1>7, <1>8, <2>2
  <2> QED
        BY <2>1, <2>2
<1>9. LET p == PrevOf(h, b)
      IN  p \in {Head} \cup F /\ Link(h, p) = shm_link_enc(b)
      BY <1>6 DEF PrevOf
<1>10. \A q \in {Head} \cup F :
           Link(h, q) = shm_link_enc(b) => q = PrevOf(h, b)
  <2> SUFFICES ASSUME NEW q \in {Head} \cup F, Link(h, q) = shm_link_enc(b)
               PROVE  q = PrevOf(h, b)
        OBVIOUS
  <2>1. q <= PrevOf(h, b) /\ PrevOf(h, b) <= q
        BY <1>8, <1>9
  <2> QED
        BY <1>4, <1>9, <2>1
<1> QED
    BY <1>7, <1>9, <1>10

\* Linking the node before b to the node after b takes b off the list.
LEMMA UnlinkThreads ==
    ASSUME NEW h, HeapTypeOK(h), Threads(h, Free(h)), NEW b \in Free(h),
           NEW g, Link(g, PrevOf(h, b)) = Link(h, b),
           \A q \in {Head} \cup (Free(h) \ {b}) :
               q # PrevOf(h, b) => Link(g, q) = Link(h, q)
    PROVE  Threads(g, Free(h) \ {b})
<1> DEFINE F == Free(h)
           p == PrevOf(h, b)
           Nx(q) == shm_link_dec(Link(h, q))
<1>1. b \in Nat /\ F \subseteq Nat /\ F \subseteq DOMAIN h.blk
      BY DEF HeapTypeOK, Free
<1>2. /\ p \in {Head} \cup F /\ p < b
      /\ \A q \in F : q <= p \/ b <= q
      /\ \A q \in {Head} \cup F : Link(h, q) = shm_link_enc(b) => q = p
      BY PrevOfIs
<1>3. \A q \in {Head} \cup F : q \in Int /\ Link(h, q) \in Nat
      BY <1>1 DEF Link, HeapTypeOK, BlockHdr, Head
<1>4. \A q \in {Head} \cup F :
          \/ Link(h, q) = 0 /\ \A r \in F : r <= q
          \/ /\ Nx(q) \in F /\ q < Nx(q)
             /\ \A r \in F : r <= q \/ Nx(q) <= r
      BY DEF Threads
<1> HIDE DEF p
<1> SUFFICES ASSUME NEW q \in {Head} \cup (F \ {b})
             PROVE  \/ Link(g, q) = 0 /\ \A r \in F \ {b} : r <= q
                    \/ /\ shm_link_dec(Link(g, q)) \in F \ {b}
                       /\ q < shm_link_dec(Link(g, q))
                       /\ \A r \in F \ {b} :
                             r <= q \/ shm_link_dec(Link(g, q)) <= r
      BY DEF Threads
<1>5. CASE q = p
  <2>1. Link(g, q) = Link(h, b)
        BY <1>5 DEF p
  <2> QED
        BY <1>1, <1>2, <1>3, <1>4, <1>5, <2>1
<1>6. CASE q # p
  <2>1. Link(g, q) = Link(h, q)
        BY <1>6 DEF p
  <2>2. Link(h, q) # shm_link_enc(b)
        BY <1>2, <1>6
  <2>3. Nx(q) # b
        BY <1>1, <1>3, <2>2 DEF shm_link_enc, shm_link_dec
  <2> QED
        BY <1>4, <2>1, <2>3
<1> QED
    BY <1>5, <1>6

\* A node c right above b can take b's place on the list.
LEMMA ReplaceThreads ==
    ASSUME NEW h, HeapTypeOK(h), Threads(h, Free(h)), NEW b \in Free(h),
           NEW c, c \in Nat, b < c, \A q \in Free(h) : b < q => c < q,
           NEW g, Link(g, PrevOf(h, b)) = shm_link_enc(c),
           Link(g, c) = Link(h, b),
           \A q \in {Head} \cup (Free(h) \ {b}) :
               q # PrevOf(h, b) => Link(g, q) = Link(h, q)
    PROVE  Threads(g, (Free(h) \ {b}) \cup {c})
<1> DEFINE F == Free(h)
           p == PrevOf(h, b)
           Nx(q) == shm_link_dec(Link(h, q))
<1>1. b \in Nat /\ F \subseteq Nat /\ F \subseteq DOMAIN h.blk
      BY DEF HeapTypeOK, Free
<1>2. /\ p \in {Head} \cup F /\ p < b
      /\ \A q \in F : q <= p \/ b <= q
      /\ \A q \in {Head} \cup F : Link(h, q) = shm_link_enc(b) => q = p
      BY PrevOfIs
<1>3. \A q \in {Head} \cup F : q \in Int /\ Link(h, q) \in Nat
      BY <1>1 DEF Link, HeapTypeOK, BlockHdr, Head
<1>4. \A q \in {Head} \cup F :
          \/ Link(h, q) = 0 /\ \A r \in F : r <= q
          \/ /\ Nx(q) \in F /\ q < Nx(q)
             /\ \A r \in F : r <= q \/ Nx(q) <= r
      BY DEF Threads
<1>a. \A q \in F \ {b} : (q < b /\ q < c) \/ (b < q /\ c < q)
      BY <1>1
<1> DEFINE G == (F \ {b}) \cup {c}
<1> HIDE DEF p
<1> SUFFICES ASSUME NEW q \in {Head} \cup G
             PROVE  \/ Link(g, q) = 0 /\ \A r \in G : r <= q
                    \/ /\ shm_link_dec(Link(g, q)) \in G
                       /\ q < shm_link_dec(Link(g, q))
                       /\ \A r \in G :
                             r <= q \/ shm_link_dec(Link(g, q)) <= r
      BY DEF Threads
<1>5. CASE q = p
  <2>1. shm_link_dec(Link(g, q)) = c
        BY <1>5 DEF p, shm_link_dec, shm_link_enc
  <2> QED
        BY <1>1, <1>2, <1>3, <1>5, <1>a, <2>1
<1>6. CASE q = c
  <2>1. Link(g, q) = Link(h, b)
        BY <1>6
  <2>2. CASE Link(h, b) = 0 /\ \A r \in F : r <= b
        BY <1>1, <1>a, <1>6, <2>1, <2>2
  <2>3. CASE /\ Nx(b) \in F /\ b < Nx(b)
             /\ \A r \in F : r <= b \/ Nx(b) <= r
        BY <1>1, <1>a, <1>6, <2>1, <2>3
  <2> QED
        BY <1>4, <2>2, <2>3
<1>7. CASE q # p /\ q # c
  <2>1. Link(g, q) = Link(h, q) /\ q \in {Head} \cup F /\ q # b
        BY <1>1, <1>7 DEF p, Head
  <2>2. Nx(q) # b
    <3>1. Link(h, q) # shm_link_enc(b)
          BY <1>2, <1>7, <2>1
    <3> QED
          BY <1>1, <1>3, <2>1, <3>1 DEF shm_link_enc, shm_link_dec
  <2>3. CASE Link(h, q) = 0 /\ \A r \in F : r <= q
    <3>1. b < q /\ q \in F
          BY <1>1, <1>3, <2>1, <2>3 DEF Head
    <3> QED
          BY <1>1, <1>a, <2>1, <2>3, <3>1
  <2>4. CASE /\ Nx(q) \in F /\ q < Nx(q)
             /\ \A r \in F : r <= q \/ Nx(q) <= r
    <3>1. Nx(q) \in G /\ \A r \in F \ {b} : r <= q \/ Nx(q) <= r
          BY <2>2, <2>4
    <3>2. CASE b < q
      <4>1. q \in F
            BY <1>1, <2>1, <3>2 DEF Head
      <4>2. c < q
            BY <1>a, <2>1, <3>2, <4>1
      <4> QED
            BY <1>1, <1>3, <2>1, <2>4, <3>1, <4>2
    <3>3. CASE ~(b < q)
      <4>1. Nx(q) <= b
            BY <1>1, <1>3, <2>1, <2>4, <3>3
      <4>2. Nx(q) <= c
            BY <1>1, <2>4, <4>1
      <4> QED
            BY <2>1, <2>4, <3>1, <4>2
    <3> QED
          BY <3>2, <3>3
  <2> QED
        BY <1>4, <2>1, <2>3, <2>4
<1> QED
    BY <1>5, <1>6, <1>7

\* Header f is e cut down or extended to n bytes.
SizedHdr(e, f, n) ==
    /\ f \in BlockHdr
    /\ f.allocated = e.allocated /\ f.next_free = e.next_free
    /\ f.obj_id = e.obj_id /\ f.owner = e.owner /\ f.perms = e.perms
    /\ f.total_size = n
    /\ HDR + f.payload_cap = n

\* g is h with block b cut down to n bytes and a free block after it.
Carved(h, g, b, n, lnk) ==
    /\ HeapTypeOK(g)
    /\ DOMAIN g.blk = DOMAIN h.blk \cup {b + n}
    /\ b + n \notin DOMAIN h.blk
    /\ SizedHdr(h.blk[b], g.blk[b], n)
    /\ g.blk[b + n] = FreeHdr(h.blk[b].total_size - n, lnk)
    /\ \A o \in DOMAIN h.blk \ {b} : g.blk[o] = h.blk[o]
    /\ g.free_list = h.free_list
    /\ g.used_bytes = h.used_bytes
    /\ g.block_count = h.block_count

\* What a free header made by a split looks like.
LEMMA FreeHdrIs ==
    ASSUME NEW size, size \in Nat, size >= BLOCK_MIN, NEW lnk, lnk \in Nat
    PROVE  /\ FreeHdr(size, lnk) \in BlockHdr
           /\ FreeHdr(size, lnk).allocated = 0
           /\ FreeHdr(size, lnk).total_size = size
           /\ FreeHdr(size, lnk).next_free = lnk
           /\ HDR + FreeHdr(size, lnk).payload_cap = size
<1> DEFINE c == size - HDR
<1>1. c \in Nat /\ HDR + c = size
      BY DEF BLOCK_MIN, HDR, HEAP_ALIGN
<1>2. FreeHdr(size, lnk) =
        [allocated |-> 0, obj_id |-> 0, owner |-> 0, perms |-> {},
         payload_cap |-> c, total_size |-> size, next_free |-> lnk]
      BY DEF FreeHdr
<1> HIDE DEF c
<1> QED
    BY <1>1, <1>2 DEF BlockHdr

\* The two fields that Carve and Absorb set do that.
LEMMA SizedHdrIs ==
    ASSUME NEW e, e \in BlockHdr, NEW n, n \in Nat, n >= BLOCK_MIN
    PROVE  SizedHdr(e, [e EXCEPT !.total_size = n, !.payload_cap = n - HDR], n)
<1> DEFINE c == n - HDR
           f == [e EXCEPT !.total_size = n, !.payload_cap = n - HDR]
<1>1. c \in Nat /\ HDR + c = n
      BY DEF BLOCK_MIN, HDR, HEAP_ALIGN
<1>2. f = [e EXCEPT !.total_size = n, !.payload_cap = c]
      OBVIOUS
<1> HIDE DEF c, f
<1>3. SizedHdr(e, f, n)
      BY <1>1, <1>2 DEF BlockHdr, SizedHdr
<1> QED
    BY <1>3 DEF f

\* Splitting a block at n, when both parts are large enough, does that.
LEMMA CarveIs ==
    ASSUME NEW h, HeapTypeOK(h), Tiled(h), NEW b \in DOMAIN h.blk,
           NEW n, n \in Nat, n >= BLOCK_MIN,
           h.blk[b].total_size - n >= BLOCK_MIN, NEW lnk, lnk \in Nat
    PROVE  Carved(h, Carve(h, b, n, lnk), b, n, lnk)
<1> DEFINE D == DOMAIN h.blk
           rem == h.blk[b].total_size - n
           e == [h.blk[b] EXCEPT !.total_size = n, !.payload_cap = n - HDR]
           r == FreeHdr(rem, lnk)
           f == [o \in D \cup {b + n} |->
                    CASE o = b -> e [] o = b + n -> r [] OTHER -> h.blk[o]]
           g == Carve(h, b, n, lnk)
<1>1. b \in Nat /\ h.blk[b] \in BlockHdr /\ h.blk[b].total_size \in Nat
      BY DEF HeapTypeOK, BlockHdr
<1>2. rem \in Nat /\ rem >= BLOCK_MIN
      BY <1>1 DEF BLOCK_MIN, HDR, HEAP_ALIGN
<1>3. b + n < End(h, b) /\ End(h, b) <= HeapSize /\ b < b + n
      BY <1>1 DEF Tiled, End, BLOCK_MIN, HDR, HEAP_ALIGN
<1>4. b + n \notin D
      BY <1>1, <1>3, EndIs
<1>5. b + n \in 0 .. HeapSize - 1
      BY <1>1, <1>3, HeapAssumption DEF End
<1>6. SizedHdr(h.blk[b], e, n) /\ e \in BlockHdr
  <2>1. SizedHdr(h.blk[b], e, n)
        BY <1>1, SizedHdrIs, Zenon
  <2> QED
        BY <2>1 DEF SizedHdr
<1>7. r \in BlockHdr
      BY <1>2, FreeHdrIs
<1>8. g = [h EXCEPT !.blk = f]
      BY DEF Carve
<1> HIDE DEF e, r, g
<1>9. /\ f \in [DOMAIN f -> BlockHdr] /\ DOMAIN f = D \cup {b + n}
      /\ f[b] = e /\ f[b + n] = r /\ \A o \in D \ {b} : f[o] = h.blk[o]
  <2>1. \A o \in D : h.blk[o] \in BlockHdr
        BY DEF HeapTypeOK
  <2>2. b # b + n /\ \A o \in D : o # b + n
        BY <1>1, <1>3, <1>4
  <2> DEFINE c == b + n
  <2> HIDE DEF c
  <2>3. f = [o \in D \cup {c} |->
                 CASE o = b -> e [] o = c -> r [] OTHER -> h.blk[o]]
        BY DEF c
  <2>4. b # c /\ \A o \in D : o # c
        BY <2>2 DEF c
  <2> HIDE DEF f
  <2>5. /\ DOMAIN f = D \cup {c} /\ f[b] = e /\ f[c] = r
        /\ \A o \in D \ {b} : f[o] = h.blk[o]
        BY <2>3, <2>4
  <2>6. f \in [D \cup {c} -> BlockHdr]
        BY <1>6, <1>7, <2>1, <2>3, <2>4
  <2> QED
        BY <2>5, <2>6 DEF c
<1>10. DOMAIN f \subseteq 0 .. HeapSize - 1
      BY <1>5, <1>9 DEF HeapTypeOK
<1> HIDE DEF f
<1>11. /\ HeapTypeOK(g) /\ g.blk = f /\ g.free_list = h.free_list
       /\ g.used_bytes = h.used_bytes /\ g.block_count = h.block_count
      BY <1>8, <1>9, <1>10, WithBlk
<1> QED
    BY <1>4, <1>6, <1>9, <1>11 DEF Carved, g, r

\* Splitting keeps the tiling and the payload bounds.
LEMMA CarveKeeps ==
    ASSUME NEW h, HeapTypeOK(h), Tiled(h), CapsFit(h), NEW b \in DOMAIN h.blk,
           NEW n, n \in Nat, n >= BLOCK_MIN,
           h.blk[b].total_size - n >= BLOCK_MIN, NEW lnk, lnk \in Nat,
           NEW g, Carved(h, g, b, n, lnk)
    PROVE  /\ Tiled(g) /\ CapsFit(g)
           /\ b + n \in Nat /\ b < b + n /\ b + n < End(h, b)
           /\ g.blk[b].allocated = h.blk[b].allocated
           /\ g.blk[b].total_size = n
           /\ g.blk[b + n].allocated = 0
           /\ g.blk[b + n].next_free = lnk
           /\ End(g, b) = b + n
           /\ End(g, b + n) = End(h, b)
           /\ \A o \in DOMAIN h.blk \ {b} : End(g, o) = End(h, o)
<1> DEFINE D == DOMAIN h.blk
           c == b + n
           rem == h.blk[b].total_size - n
<1>1. b \in Nat /\ h.blk[b] \in BlockHdr /\ h.blk[b].total_size \in Nat
      BY DEF HeapTypeOK, BlockHdr
<1>2. rem \in Nat /\ rem >= BLOCK_MIN
      BY <1>1 DEF BLOCK_MIN, HDR, HEAP_ALIGN
<1>3. /\ c \in Nat /\ b < c /\ c < End(h, b) /\ End(h, b) \in Nat
      /\ End(h, b) <= HeapSize
      BY <1>1 DEF Tiled, End, BLOCK_MIN, HDR, HEAP_ALIGN
<1>4. /\ g.blk[c].allocated = 0 /\ g.blk[c].total_size = rem
      /\ g.blk[c].next_free = lnk /\ HDR + g.blk[c].payload_cap = rem
      BY <1>2, FreeHdrIs DEF Carved
<1>5. /\ g.blk[b].allocated = h.blk[b].allocated
      /\ g.blk[b].total_size = n /\ HDR + g.blk[b].payload_cap = n
      BY DEF Carved, SizedHdr
<1>6. /\ DOMAIN g.blk = D \cup {c} /\ c \notin D
      /\ \A o \in D \ {b} : g.blk[o] = h.blk[o] /\ End(g, o) = End(h, o)
      BY DEF Carved, End
<1>7. End(g, b) = c /\ End(g, c) = End(h, b)
      BY <1>1, <1>4, <1>5 DEF End
<1>8. \A o \in D : o \in Nat /\ End(h, o) \in Nat /\ o < End(h, o)
      BY EndIs
<1> HIDE DEF c
<1>9. Tiled(g)
  <2>1. 0 \in DOMAIN g.blk
        BY <1>6 DEF Tiled
  <2>2. ASSUME NEW o \in DOMAIN g.blk
        PROVE  /\ o \in Nat
               /\ g.blk[o].total_size >= BLOCK_MIN
               /\ End(g, o) <= HeapSize
               /\ End(g, o) = HeapSize \/ End(g, o) \in DOMAIN g.blk
    <3>1. CASE o = b
          BY <1>1, <1>3, <1>5, <1>6, <1>7, <3>1, HeapAssumption
    <3>2. CASE o = c
          BY <1>2, <1>3, <1>4, <1>6, <1>7, <3>2 DEF Tiled
    <3>3. CASE o # b /\ o # c
          BY <1>6, <3>3 DEF Tiled
    <3> QED
          BY <3>1, <3>2, <3>3
  <2>3. ASSUME NEW o \in DOMAIN g.blk, NEW q \in DOMAIN g.blk, o < q
        PROVE  End(g, o) <= q
    <3>1. CASE o = b
      <4>1. CASE q = c
            BY <1>3, <1>7, <3>1, <4>1
      <4>2. CASE q # c
            BY <1>3, <1>6, <1>7, <1>8, <2>3, <3>1, <4>2 DEF Tiled
      <4> QED
            BY <4>1, <4>2
    <3>2. CASE o = c
      <4>1. q \in D /\ b < q
            BY <1>3, <1>1, <1>6, <1>8, <2>3, <3>2
      <4> QED
            BY <1>7, <3>2, <4>1 DEF Tiled
    <3>3. CASE o # b /\ o # c
      <4>1. o \in D \ {b} /\ End(g, o) = End(h, o)
            BY <1>6, <3>3
      <4>2. CASE q = c
        <5>1. o < b
          <6>1. ~(b < o)
                BY <1>3, <1>8, <2>3, <4>1, <4>2 DEF Tiled
          <6> QED
                BY <1>1, <1>8, <4>1, <6>1
        <5> QED
              BY <1>1, <1>3, <1>8, <4>1, <4>2, <5>1 DEF Tiled
      <4>3. CASE q # c
            BY <1>6, <2>3, <4>1, <4>3 DEF Tiled
      <4> QED
            BY <4>2, <4>3
    <3> QED
          BY <3>1, <3>2, <3>3
  <2> QED
        BY <2>1, <2>2, <2>3 DEF Tiled
<1>10. CapsFit(g)
  <2> SUFFICES ASSUME NEW o \in DOMAIN g.blk
               PROVE  HDR + g.blk[o].payload_cap <= g.blk[o].total_size
        BY DEF CapsFit
  <2>1. CASE o = b
        BY <1>5, <2>1
  <2>2. CASE o = c
        BY <1>2, <1>4, <2>2
  <2>3. CASE o # b /\ o # c
        BY <1>6, <2>3 DEF CapsFit
  <2> QED
        BY <2>1, <2>2, <2>3
<1> QED
    BY <1>3, <1>4, <1>5, <1>6, <1>7, <1>9, <1>10 DEF c

\* Changing a link changes no size and frees nothing.
LEMMA RelinkKeeps ==
    ASSUME NEW h, HeapTypeOK(h), Tiled(h), CapsFit(h), NEW p, NEW lnk, NEW g,
           Relinked(h, g, p, lnk)
    PROVE  /\ Tiled(g) /\ CapsFit(g)
           /\ \A o \in DOMAIN h.blk : End(g, o) = End(h, o)
           /\ Free(g) = Free(h) /\ Used(g) = Used(h)
    BY DEF Relinked, Tiled, CapsFit, End, Free, Used

\* k is h with free block b off the list and cut down to need bytes if
\* that leaves a block.
Detached(h, k, b, need) ==
    /\ HeapTypeOK(k) /\ Tiled(k) /\ CapsFit(k)
    /\ b \in Free(k)
    /\ Threads(k, Free(k) \ {b})
    /\ Apart(k, Free(k) \ {b})
    /\ need <= k.blk[b].total_size
    /\ k.blk[b].total_size < need + BLOCK_MIN
    /\ Used(k) = Used(h)
    /\ \A o \in Used(h) : k.blk[o] = h.blk[o]
    /\ k.used_bytes = h.used_bytes
    /\ k.block_count = h.block_count

\* Detach leaves the rest of the list in order and nothing touching.
LEMMA DetachIs ==
    ASSUME NEW h, GoodHeap(h), NEW b \in Free(h), NEW need, need \in Nat,
           need >= BLOCK_MIN, need <= h.blk[b].total_size
    PROVE  Detached(h, Detach(h, b, need), b, need)
<1> DEFINE F == Free(h)
           D == DOMAIN h.blk
           p == PrevOf(h, b)
           k == Detach(h, b, need)
<1>0. HeapTypeOK(h) /\ Tiled(h) /\ CapsFit(h) /\ Threads(h, F) /\ Apart(h, F)
      BY DEF GoodHeap
<1>1. /\ b \in Nat /\ b \in D /\ F \subseteq D /\ D \subseteq Nat
      /\ h.blk[b].total_size \in Nat
      BY <1>0 DEF HeapTypeOK, Free, BlockHdr
<1>2. p \in {Head} \cup F /\ p < b /\ Link(h, p) = shm_link_enc(b)
      BY <1>0, PrevOfIs
<1>3. p \in Int /\ p # b /\ p \in {Head} \cup D
      BY <1>1, <1>2 DEF Head
<1>4. Link(h, b) \in Nat
      BY <1>0, <1>1 DEF Link, HeapTypeOK, BlockHdr, Head
<1>5. CASE h.blk[b].total_size - need >= BLOCK_MIN
  <2> DEFINE k0 == Carve(h, b, need, Link(h, b))
             c == b + need
  <2>1. Carved(h, k0, b, need, Link(h, b))
        BY <1>0, <1>1, <1>4, <1>5, CarveIs
  <2>2. k = SetLink(k0, p, shm_link_enc(c))
        BY <1>5 DEF Detach
  <2> HIDE DEF k0, k, p
  <2>3. /\ Tiled(k0) /\ CapsFit(k0)
        /\ c \in Nat /\ b < c /\ c < End(h, b)
        /\ k0.blk[b].allocated = 0 /\ k0.blk[b].total_size = need
        /\ k0.blk[c].allocated = 0 /\ k0.blk[c].next_free = Link(h, b)
        /\ End(k0, b) = c /\ End(k0, c) = End(h, b)
        /\ \A o \in D \ {b} : End(k0, o) = End(h, o)
    <3>1. h.blk[b].allocated = 0
          BY DEF Free
    <3> QED
          BY <1>0, <1>1, <1>4, <1>5, <2>1, <3>1, CarveKeeps
  <2>4. /\ HeapTypeOK(k0) /\ DOMAIN k0.blk = D \cup {c} /\ c \notin D
        /\ \A o \in D \ {b} : k0.blk[o] = h.blk[o]
        /\ k0.free_list = h.free_list
        BY <2>1 DEF Carved
  <2>5. shm_link_enc(c) \in Nat /\ p \in {Head} \cup DOMAIN k0.blk
        BY <1>3, <2>3, <2>4 DEF shm_link_enc
  <2> HIDE DEF c
  <2>6. Relinked(k0, k, p, shm_link_enc(c))
        BY <2>2, <2>4, <2>5, SetLinkIs
  <2>7. /\ Tiled(k) /\ CapsFit(k)
        /\ \A o \in D \cup {c} : End(k, o) = End(k0, o)
        /\ Free(k) = Free(k0) /\ Used(k) = Used(k0)
        BY <2>3, <2>4, <2>6, RelinkKeeps
  <2>8. Free(k0) = F \cup {c} /\ Used(k0) = Used(h) /\ b \notin Used(h)
        BY <1>1, <2>3, <2>4 DEF Free, Used
  <2>9. Free(k) \ {b} = (F \ {b}) \cup {c} /\ b \in Free(k)
        BY <1>1, <2>3, <2>7, <2>8
  <2>10. Threads(k, (F \ {b}) \cup {c})
    <3>1. Link(k, p) = shm_link_enc(c)
          BY <2>6 DEF Relinked
    <3>2. Link(k, c) = Link(h, b)
      <4>1. c # Head /\ c # p
            BY <1>1, <1>2, <1>3, <2>3 DEF Head
      <4> QED
            BY <2>3, <2>4, <2>6, <4>1 DEF Relinked, Link
    <3>3. ASSUME NEW q \in {Head} \cup (F \ {b}), q # p
          PROVE  Link(k, q) = Link(h, q)
      <4>1. q \in {Head} \cup DOMAIN k0.blk
            BY <1>1, <2>4
      <4>2. Link(k, q) = Link(k0, q)
            BY <2>6, <3>3, <4>1 DEF Relinked
      <4> QED
            BY <1>1, <2>4, <4>2 DEF Link
    <3>4. \A q \in F : b < q => c < q
          BY <1>0, <1>1, <2>3, EndIs
    <3> QED
          BY <1>0, <2>3, <3>1, <3>2, <3>3, <3>4, ReplaceThreads DEF p
  <2>11. Apart(k, (F \ {b}) \cup {c})
    <3> SUFFICES ASSUME NEW o \in (F \ {b}) \cup {c}
                 PROVE  End(k, o) \notin (F \ {b}) \cup {c}
          BY DEF Apart
    <3>1. CASE o = c
          BY <1>0, <1>1, <2>3, <2>7, <3>1, EndIs DEF Apart
    <3>2. CASE o # c
      <4>1. o \in F /\ o \in D \ {b} /\ End(k, o) = End(h, o)
            BY <1>1, <2>3, <2>7, <3>2
      <4>2. End(h, o) # c
            BY <1>0, <1>1, <2>3, <2>4, <4>1, EndIs DEF Tiled
      <4> QED
            BY <1>0, <4>1, <4>2 DEF Apart
    <3> QED
          BY <3>1, <3>2
  <2>12. k.blk[b].total_size = need
        BY <1>1, <2>3, <2>4, <2>6 DEF Relinked
  <2>13. \A o \in Used(h) : k.blk[o] = h.blk[o]
    <3> SUFFICES ASSUME NEW o \in Used(h)  PROVE  k.blk[o] = h.blk[o]
          OBVIOUS
    <3>1. o \in D \ {b} /\ o # p /\ o \in DOMAIN k0.blk
          BY <1>2, <2>4, <2>8, <1>1 DEF Used, Free, Head
    <3> QED
          BY <2>4, <2>6, <3>1 DEF Relinked
  <2>14. need <= k.blk[b].total_size /\ k.blk[b].total_size < need + BLOCK_MIN
        BY <2>12 DEF BLOCK_MIN, HDR, HEAP_ALIGN
  <2>15. HeapTypeOK(k) /\ Used(k) = Used(h)
        BY <2>6, <2>7, <2>8 DEF Relinked
  <2>16. Threads(k, Free(k) \ {b}) /\ Apart(k, Free(k) \ {b})
        BY <2>9, <2>10, <2>11
  <2>17. k.used_bytes = h.used_bytes /\ k.block_count = h.block_count
        BY <2>1, <2>6 DEF Carved, Relinked
  <2> QED
        BY <2>7, <2>9, <2>13, <2>14, <2>15, <2>16, <2>17 DEF Detached, k
<1>6. CASE ~(h.blk[b].total_size - need >= BLOCK_MIN)
  <2>1. k = SetLink(h, p, Link(h, b))
        BY <1>6 DEF Detach
  <2> HIDE DEF k, p
  <2>2. Relinked(h, k, p, Link(h, b))
        BY <1>0, <1>3, <1>4, <2>1, SetLinkIs
  <2>3. /\ Tiled(k) /\ CapsFit(k)
        /\ \A o \in D : End(k, o) = End(h, o)
        /\ Free(k) = F /\ Used(k) = Used(h)
        BY <1>0, <2>2, RelinkKeeps
  <2>4. /\ Link(k, p) = Link(h, b)
        /\ \A q \in {Head} \cup (F \ {b}) : q # p => Link(k, q) = Link(h, q)
        BY <1>1, <2>2 DEF Relinked
  <2>5. Threads(k, F \ {b})
        BY <1>0, <2>4, UnlinkThreads DEF p
  <2>6. Apart(k, F \ {b})
        BY <1>0, <1>1, <2>3 DEF Apart
  <2>7. /\ HeapTypeOK(k)
        /\ k.blk[b].total_size = h.blk[b].total_size
        BY <1>1, <2>2 DEF Relinked
  <2>8. \A o \in Used(h) : k.blk[o] = h.blk[o]
    <3>1. \A o \in Used(h) : o # p /\ o \in D
          BY <1>1, <1>2 DEF Used, Free, Head
    <3> QED
          BY <2>2, <3>1 DEF Relinked
  <2>9. need <= k.blk[b].total_size /\ k.blk[b].total_size < need + BLOCK_MIN
        BY <1>1, <1>6, <2>7 DEF BLOCK_MIN, HDR, HEAP_ALIGN
  <2>10. k.used_bytes = h.used_bytes /\ k.block_count = h.block_count
        BY <2>2 DEF Relinked
  <2> QED
        BY <2>3, <2>5, <2>6, <2>7, <2>8, <2>9, <2>10 DEF Detached, k
<1> QED
    BY <1>5, <1>6

\* g is h with the header of block b replaced by one of the same size that
\* says the block is in use; free_list is the same, the counters may differ.
Retagged(h, g, b) ==
    /\ HeapTypeOK(g)
    /\ DOMAIN g.blk = DOMAIN h.blk
    /\ g.blk[b].allocated = 1
    /\ g.blk[b].total_size = h.blk[b].total_size
    /\ g.blk[b].payload_cap = h.blk[b].payload_cap
    /\ \A o \in DOMAIN h.blk \ {b} : g.blk[o] = h.blk[o]
    /\ g.free_list = h.free_list

\* A new header e for block b and new counters.
LEMMA RetagIs ==
    ASSUME NEW h, HeapTypeOK(h), NEW b \in DOMAIN h.blk,
           NEW e, e \in BlockHdr, e.allocated = 1,
           e.total_size = h.blk[b].total_size,
           e.payload_cap = h.blk[b].payload_cap,
           NEW u, u \in Int, NEW c, c \in Int,
           NEW g, g = [h EXCEPT !.blk = [h.blk EXCEPT ![b] = e],
                                !.used_bytes = u, !.block_count = c]
    PROVE  Retagged(h, g, b)
<1> DEFINE f == [h.blk EXCEPT ![b] = e]
<1>1. /\ f \in [DOMAIN f -> BlockHdr] /\ DOMAIN f = DOMAIN h.blk
      /\ f[b] = e /\ \A o \in DOMAIN h.blk \ {b} : f[o] = h.blk[o]
      BY DEF HeapTypeOK
<1>2. g = [h EXCEPT !.blk = f, !.used_bytes = u, !.block_count = c]
      OBVIOUS
<1> HIDE DEF f
<1>3. g.blk = f /\ g.free_list = h.free_list /\ g.used_bytes = u
      /\ g.block_count = c
      BY <1>2 DEF HeapTypeOK
<1>4. g = [blk |-> f, free_list |-> h.free_list, used_bytes |-> u,
           block_count |-> c]
      BY <1>2 DEF HeapTypeOK
<1>5. DOMAIN f \subseteq 0 .. HeapSize - 1 /\ h.free_list \in Nat
      BY <1>1 DEF HeapTypeOK
<1>6. HeapTypeOK(g)
      BY <1>1, <1>3, <1>4, <1>5 DEF HeapTypeOK
<1> QED
    BY <1>1, <1>3, <1>6 DEF Retagged

\* A heap whose free blocks other than b are in order is good once b is
\* tagged as in use.
LEMMA RetagKeeps ==
    ASSUME NEW h, HeapTypeOK(h), Tiled(h), CapsFit(h), NEW b \in DOMAIN h.blk,
           Threads(h, Free(h) \ {b}), Apart(h, Free(h) \ {b}),
           NEW g, Retagged(h, g, b)
    PROVE  GoodHeap(g) /\ Used(g) = Used(h) \cup {b}
<1>1. DOMAIN h.blk \subseteq Nat /\ b # Head
      BY DEF HeapTypeOK, Head
<1>2. Free(g) = Free(h) \ {b} /\ Used(g) = Used(h) \cup {b}
      BY DEF Retagged, Free, Used
<1>3. \A o \in DOMAIN h.blk : End(g, o) = End(h, o)
      BY DEF Retagged, End
<1>4. Tiled(g) /\ CapsFit(g)
      BY <1>3 DEF Retagged, Tiled, CapsFit
<1>5. \A q \in {Head} \cup (Free(h) \ {b}) : Link(g, q) = Link(h, q)
      BY <1>1 DEF Retagged, Link, Free
<1>6. Threads(g, Free(g))
      BY <1>2, <1>5 DEF Threads
<1>7. Apart(g, Free(g))
      BY <1>2, <1>3 DEF Apart, Free
<1> QED
    BY <1>2, <1>4, <1>6, <1>7 DEF GoodHeap, Retagged

\* Tag replaces the header of b and counts the block.
LEMMA TagIs ==
    ASSUME NEW h, HeapTypeOK(h), NEW b \in DOMAIN h.blk
    PROVE  /\ Retagged(h, Tag(h, b), b)
           /\ Counted(h, Tag(h, b), h.blk[b].total_size, 1)
<1> DEFINE e == [h.blk[b] EXCEPT !.allocated = 1, !.next_free = 0]
           u == h.used_bytes + h.blk[b].total_size
           c == h.block_count + 1
           g == Tag(h, b)
<1>1. h.blk[b] \in BlockHdr
      BY DEF HeapTypeOK
<1>2. /\ e \in BlockHdr /\ e.allocated = 1
      /\ e.total_size = h.blk[b].total_size
      /\ e.payload_cap = h.blk[b].payload_cap
      BY <1>1 DEF BlockHdr
<1>3. u \in Int /\ c \in Int
      BY <1>1 DEF HeapTypeOK, BlockHdr
<1>4. g = [h EXCEPT !.blk = [h.blk EXCEPT ![b] = e],
                    !.used_bytes = u, !.block_count = c]
      BY DEF Tag, HeapTypeOK
<1> HIDE DEF e, u, c, g
<1>5. Retagged(h, g, b)
      BY <1>2, <1>3, <1>4, RetagIs
<1>6. g.used_bytes = u /\ g.block_count = c
      BY <1>4 DEF HeapTypeOK
<1>7. Counted(h, g, h.blk[b].total_size, 1)
      BY <1>6 DEF Counted, u, c
<1> QED
    BY <1>5, <1>7 DEF g

\* g is h with free block b taken into use for need bytes.
Taken(h, g, b, need) ==
    /\ GoodHeap(g)
    /\ b \in Free(h)
    /\ Used(g) = Used(h) \cup {b}
    /\ need <= g.blk[b].total_size
    /\ g.blk[b].total_size < need + BLOCK_MIN
    /\ \A o \in Used(h) : g.blk[o] = h.blk[o]
    /\ Counted(h, g, g.blk[b].total_size, 1)

\* heap_alloc_block finds a block that was free, gives it to the caller with
\* less than BLOCK_MIN bytes of slack, and touches no block in use.
LEMMA HeapAllocBlockIs ==
    ASSUME NEW h, GoodHeap(h), NEW need, need \in Nat, need >= BLOCK_MIN,
           Fits(h, need) # {}
    PROVE  Taken(h, heap_alloc_block(h, need), FirstFit(h, need), need)
<1> DEFINE b == FirstFit(h, need)
           k == Detach(h, b, need)
           g == heap_alloc_block(h, need)
<1>0. HeapTypeOK(h)
      BY DEF GoodHeap
<1>1. Fits(h, need) \in SUBSET Nat
      BY <1>0 DEF Fits, Free, HeapTypeOK
<1>2. b \in Fits(h, need)
  <2>1. \E o \in Fits(h, need) : \A q \in Fits(h, need) : o <= q
        BY <1>1, LeastExists
  <2> QED
        BY <2>1 DEF FirstFit
<1>3. b \in Free(h) /\ need <= h.blk[b].total_size
  <2>1. b \in Free(h) /\ h.blk[b].total_size >= need
        BY <1>2 DEF Fits
  <2>2. h.blk[b].total_size \in Nat
        BY <1>0, <2>1 DEF Free, HeapTypeOK, BlockHdr
  <2> QED
        BY <2>1, <2>2
<1> HIDE DEF b
<1>4. Detached(h, k, b, need)
      BY <1>3, DetachIs
<1>5. g = Tag(k, b)
      BY DEF heap_alloc_block, b
<1> HIDE DEF k, g
<1>6. HeapTypeOK(k) /\ b \in DOMAIN k.blk
      BY <1>4 DEF Detached, Free
<1>7. Retagged(k, g, b) /\ Counted(k, g, k.blk[b].total_size, 1)
      BY <1>5, <1>6, TagIs
<1>8. GoodHeap(g) /\ Used(g) = Used(k) \cup {b}
      BY <1>4, <1>6, <1>7, RetagKeeps DEF Detached
<1>9. need <= g.blk[b].total_size /\ g.blk[b].total_size < need + BLOCK_MIN
      BY <1>4, <1>7 DEF Detached, Retagged
<1>10. \A o \in Used(h) : g.blk[o] = h.blk[o]
  <2> SUFFICES ASSUME NEW o \in Used(h)  PROVE  g.blk[o] = h.blk[o]
        OBVIOUS
  <2>1. o \in Used(k) /\ k.blk[o] = h.blk[o]
        BY <1>4 DEF Detached
  <2>2. o # b /\ o \in DOMAIN k.blk
        BY <1>4, <2>1 DEF Detached, Used, Free
  <2> QED
        BY <1>7, <2>1, <2>2 DEF Retagged
<1>11. Used(k) = Used(h)
      BY <1>4 DEF Detached
<1>12. Counted(h, g, g.blk[b].total_size, 1)
  <2>1. /\ k.used_bytes = h.used_bytes /\ k.block_count = h.block_count
        /\ g.blk[b].total_size = k.blk[b].total_size
        BY <1>4, <1>7 DEF Detached, Retagged
  <2> QED
        BY <1>7, <2>1 DEF Counted
<1> QED
    BY <1>3, <1>8, <1>9, <1>10, <1>11, <1>12 DEF Taken, b, g

\* g is h with owner u, permissions P and id i written into the header of
\* block b.
Labelled(h, g, b, u, P, i) ==
    /\ GoodHeap(g)
    /\ Used(g) = Used(h)
    /\ g.blk[b].owner = u /\ g.blk[b].perms = P /\ g.blk[b].obj_id = i
    /\ g.blk[b].total_size = h.blk[b].total_size
    /\ g.blk[b].payload_cap = h.blk[b].payload_cap
    /\ \A o \in Used(h) \ {b} : g.blk[o] = h.blk[o]
    /\ g.used_bytes = h.used_bytes
    /\ g.block_count = h.block_count

\* Writing the label of a block in use keeps the heap good.
LEMMA LabelKeeps ==
    ASSUME NEW h, GoodHeap(h), NEW b \in Used(h), NEW u, u \in Nat,
           NEW P, P \in SUBSET Perm, NEW i, i \in Nat,
           NEW e, e = [h.blk[b] EXCEPT !.owner = u, !.perms = P, !.obj_id = i],
           NEW g, g = [h EXCEPT !.blk = [h.blk EXCEPT ![b] = e]]
    PROVE  Labelled(h, g, b, u, P, i)
<1>0. HeapTypeOK(h) /\ b \in DOMAIN h.blk /\ h.blk[b] \in BlockHdr
      BY DEF GoodHeap, HeapTypeOK, Used
<1>1. /\ e \in BlockHdr /\ e.allocated = 1
      /\ e.total_size = h.blk[b].total_size
      /\ e.payload_cap = h.blk[b].payload_cap
      /\ e.owner = u /\ e.perms = P /\ e.obj_id = i
      BY <1>0 DEF BlockHdr, Used
<1> DEFINE f == [h.blk EXCEPT ![b] = e]
<1>2. /\ f \in [DOMAIN f -> BlockHdr] /\ DOMAIN f = DOMAIN h.blk
      /\ DOMAIN f \subseteq 0 .. HeapSize - 1
      /\ f[b] = e /\ \A o \in DOMAIN h.blk \ {b} : f[o] = h.blk[o]
      BY <1>0, <1>1 DEF HeapTypeOK
<1>3. /\ HeapTypeOK(g) /\ g.blk = f /\ g.free_list = h.free_list
      /\ g.used_bytes = h.used_bytes /\ g.block_count = h.block_count
  <2>1. g = [h EXCEPT !.blk = f]
        OBVIOUS
  <2> HIDE DEF f
  <2> QED
        BY <1>0, <1>2, <2>1, WithBlk
<1> HIDE DEF f
<1>4. Retagged(h, g, b)
      BY <1>1, <1>2, <1>3 DEF Retagged
<1>5. Free(h) \ {b} = Free(h) /\ Used(h) \cup {b} = Used(h)
      BY DEF Free, Used
<1>6. GoodHeap(g) /\ Used(g) = Used(h)
      BY <1>0, <1>4, <1>5, RetagKeeps DEF GoodHeap
<1>7. g.blk[b] = e /\ \A o \in Used(h) \ {b} : g.blk[o] = h.blk[o]
      BY <1>2, <1>3 DEF Used
<1> QED
    BY <1>1, <1>3, <1>6, <1>7 DEF Labelled

\* g is h with block b, still in use by the same object, of at least n
\* bytes and less than BLOCK_MIN more.
Trimmed(h, g, b, n) ==
    /\ GoodHeap(g)
    /\ Used(g) = Used(h)
    /\ n <= g.blk[b].total_size
    /\ g.blk[b].total_size < n + BLOCK_MIN
    /\ g.blk[b].owner = h.blk[b].owner
    /\ g.blk[b].perms = h.blk[b].perms
    /\ g.blk[b].obj_id = h.blk[b].obj_id
    /\ \A o \in Used(h) \ {b} : g.blk[o] = h.blk[o]
    /\ Counted(h, g, g.blk[b].total_size - h.blk[b].total_size, 0)

\* Shrink returns the tail of a block, or leaves it if the tail is too small.
LEMMA ShrinkIs ==
    ASSUME NEW h, GoodHeap(h), NEW b \in Used(h), NEW n, n \in Nat,
           n >= BLOCK_MIN, n <= h.blk[b].total_size
    PROVE  Trimmed(h, Shrink(h, b, n), b, n)
<1> DEFINE rem == h.blk[b].total_size - n
           c == b + n
           k0 == Carve(h, b, n, 0)
           v == k0.used_bytes - rem
           k == [k0 EXCEPT !.used_bytes = v]
           g == Shrink(h, b, n)
<1>0. HeapTypeOK(h) /\ Tiled(h) /\ CapsFit(h) /\ b \in DOMAIN h.blk
      BY DEF GoodHeap, Used
<1>1. h.blk[b].total_size \in Nat /\ b \in Nat
      BY <1>0 DEF HeapTypeOK, BlockHdr
<1>2. CASE rem >= BLOCK_MIN
  <2>1. Carved(h, k0, b, n, 0)
        BY <1>0, <1>2, CarveIs
  <2>2. /\ Tiled(k0) /\ CapsFit(k0)
        /\ k0.blk[b].allocated = h.blk[b].allocated
        /\ k0.blk[b].total_size = n
        /\ k0.blk[c].allocated = 0
        /\ \A o \in DOMAIN h.blk \ {b} : End(k0, o) = End(h, o)
        BY <1>0, <1>2, <2>1, CarveKeeps
  <2>3. g = freelist_insert(k, c)
        BY <1>2 DEF Shrink
  <2> HIDE DEF k0
  <2>4. /\ HeapTypeOK(k0)
        /\ DOMAIN k0.blk = DOMAIN h.blk \cup {c} /\ c \notin DOMAIN h.blk
        /\ SizedHdr(h.blk[b], k0.blk[b], n)
        /\ \A o \in DOMAIN h.blk \ {b} : k0.blk[o] = h.blk[o]
        /\ k0.free_list = h.free_list
        /\ k0.used_bytes = h.used_bytes /\ k0.block_count = h.block_count
        BY <2>1 DEF Carved
  <2>5. v \in Int
        BY <1>1, <2>4 DEF HeapTypeOK
  <2> HIDE DEF v, c, g
  <2>6. /\ k.blk = k0.blk /\ k.free_list = k0.free_list /\ HeapTypeOK(k)
        /\ k.used_bytes = v /\ k.block_count = h.block_count
        BY <2>4, <2>5 DEF HeapTypeOK
  <2> HIDE DEF k
  <2>7. Tiled(k) /\ CapsFit(k)
        BY <2>2, <2>6 DEF Tiled, CapsFit, End
  <2>8. /\ Free(k) \ {c} = Free(h) /\ Used(k) = Used(h)
        /\ c \in DOMAIN k.blk /\ c \notin Used(h) /\ b # c
        BY <1>0, <2>2, <2>4, <2>6 DEF Free, Used
  <2>9. Threads(k, Free(h))
    <3>1. \A q \in {Head} \cup Free(h) : Link(k, q) = Link(h, q)
          BY <2>4, <2>6 DEF Link, Free, Used
    <3> QED
          BY <3>1 DEF GoodHeap, Threads
  <2>10. Apart(k, Free(h))
    <3>1. \A o \in Free(h) : End(k, o) = End(h, o)
          BY <2>2, <2>6 DEF End, Free, Used
    <3> QED
          BY <3>1 DEF GoodHeap, Apart
  <2>11. Released(k, g, c)
        BY <2>3, <2>6, <2>7, <2>8, <2>9, <2>10, FreelistInsertIs
  <2>12. GoodHeap(g) /\ Used(g) = Used(h)
         /\ \A o \in Used(h) : g.blk[o] = k.blk[o]
        BY <2>8, <2>11 DEF Released
  <2>13. \A o \in Used(h) \ {b} : g.blk[o] = h.blk[o]
        BY <2>4, <2>6, <2>12 DEF Used
  <2>14. SizedHdr(h.blk[b], g.blk[b], n)
        BY <2>4, <2>6, <2>12
  <2>15. Counted(h, g, g.blk[b].total_size - h.blk[b].total_size, 0)
    <3>1. /\ g.used_bytes = v /\ g.block_count = h.block_count
          /\ v = h.used_bytes - (h.blk[b].total_size - n)
          BY <2>4, <2>6, <2>11 DEF Released, v
    <3>2. h.used_bytes \in Int /\ h.block_count \in Int
          BY <1>0 DEF HeapTypeOK
    <3>3. g.blk[b].total_size = n
          BY <2>14 DEF SizedHdr
    <3> HIDE DEF v, rem
    <3> QED
          BY <1>1, <3>1, <3>2, <3>3 DEF Counted
  <2> QED
        BY <2>12, <2>13, <2>14, <2>15
           DEF Trimmed, SizedHdr, BLOCK_MIN, HDR, HEAP_ALIGN, g
<1>3. CASE ~(rem >= BLOCK_MIN)
  <2>1. g = h
        BY <1>3 DEF Shrink
  <2>2. h.blk[b].total_size < n + BLOCK_MIN
        BY <1>1, <1>3 DEF BLOCK_MIN, HDR, HEAP_ALIGN
  <2>3. Counted(h, h, h.blk[b].total_size - h.blk[b].total_size, 0)
        BY <1>0, <1>1 DEF Counted, HeapTypeOK
  <2> QED
        BY <2>1, <2>2, <2>3 DEF Trimmed
<1> QED
    BY <1>2, <1>3

\* g is h with the free block after b made part of b.
Absorbed(h, g, b) ==
    /\ GoodHeap(g)
    /\ Used(g) = Used(h)
    /\ g.blk[b].total_size =
          h.blk[b].total_size + h.blk[End(h, b)].total_size
    /\ g.blk[b].owner = h.blk[b].owner
    /\ g.blk[b].perms = h.blk[b].perms
    /\ g.blk[b].obj_id = h.blk[b].obj_id
    /\ \A o \in Used(h) \ {b} : g.blk[o] = h.blk[o]
    /\ Counted(h, g, h.blk[End(h, b)].total_size, 0)

\* Absorb takes the free successor off the list and extends b over it.
LEMMA AbsorbIs ==
    ASSUME NEW h, GoodHeap(h), NEW b \in Used(h), End(h, b) \in Free(h)
    PROVE  Absorbed(h, Absorb(h, b), b)
<1> DEFINE D == DOMAIN h.blk
           F == Free(h)
           c == End(h, b)
           s == h.blk[b].total_size + h.blk[c].total_size
           p == PrevOf(h, c)
           k1 == SetLink(h, p, Link(h, c))
           k2 == SetLink(k1, c, 0)
           e == [k2.blk[b] EXCEPT !.total_size = s, !.payload_cap = s - HDR]
           f == [o \in DOMAIN k2.blk \ {c} |-> IF o = b THEN e ELSE k2.blk[o]]
           v == k2.used_bytes + h.blk[c].total_size
           g == Absorb(h, b)
<1>0. HeapTypeOK(h) /\ Tiled(h) /\ CapsFit(h) /\ Threads(h, F) /\ Apart(h, F)
      BY DEF GoodHeap
<1>1. /\ b \in D /\ c \in D /\ c \in F /\ F \subseteq D /\ D \subseteq Nat
      /\ c # Head /\ b # c /\ b \notin F /\ h.blk[b].allocated = 1
      BY <1>0 DEF HeapTypeOK, Free, Used, Head
<1>2. /\ h.blk[b].total_size \in Nat /\ h.blk[c].total_size \in Nat
      /\ s \in Nat /\ s >= BLOCK_MIN /\ Link(h, c) \in Nat
  <2>1. /\ h.blk[b].total_size \in Nat /\ h.blk[c].total_size \in Nat
        /\ h.blk[c].next_free \in Nat
        BY <1>0, <1>1 DEF HeapTypeOK, BlockHdr
  <2>2. h.blk[b].total_size >= BLOCK_MIN
        BY <1>0, <1>1 DEF Tiled
  <2> QED
        BY <1>1, <2>1, <2>2 DEF BLOCK_MIN, HDR, HEAP_ALIGN, Link
<1>3. p \in {Head} \cup F /\ p # c /\ p # b /\ p \in {Head} \cup D
  <2>1. p \in {Head} \cup F /\ p < c
        BY <1>0, PrevOfIs
  <2> QED
        BY <1>1, <2>1 DEF Head
<1>4. g = [k2 EXCEPT !.used_bytes = v, !.blk = f]
  <2>1. Link(h, p) = shm_link_enc(c)
        BY <1>0, <1>1, PrevOfIs
  <2>2. freelist_remove(h, c) = k2
        BY <1>1, <1>3, <2>1 DEF freelist_remove, SetLink
  <2> QED
        BY <2>2 DEF Absorb
<1> HIDE DEF c, s, p, g
<1>5. Relinked(h, k1, p, Link(h, c))
      BY <1>0, <1>2, <1>3, SetLinkIs
<1>6. HeapTypeOK(k1) /\ DOMAIN k1.blk = D /\ 0 \in Nat
      BY <1>5 DEF Relinked
<1> HIDE DEF k1
<1>7. Relinked(k1, k2, c, 0)
      BY <1>1, <1>6, SetLinkIs
<1> HIDE DEF k2
<1>8. /\ HeapTypeOK(k2) /\ DOMAIN k2.blk = D
      /\ \A o \in D : o # c /\ o # p => k2.blk[o] = h.blk[o]
      /\ \A o \in D : /\ k2.blk[o].total_size = h.blk[o].total_size
                      /\ k2.blk[o].payload_cap = h.blk[o].payload_cap
                      /\ k2.blk[o].allocated = h.blk[o].allocated
      BY <1>5, <1>6, <1>7 DEF Relinked
<1>9. /\ Link(k2, p) = Link(h, c)
      /\ \A q \in {Head} \cup D : q # c /\ q # p => Link(k2, q) = Link(h, q)
      BY <1>3, <1>5, <1>6, <1>7 DEF Relinked
<1>10. k2.blk[b] = h.blk[b] /\ h.blk[b] \in BlockHdr
      BY <1>0, <1>1, <1>3, <1>8 DEF HeapTypeOK
<1>11. SizedHdr(h.blk[b], e, s)
      BY <1>2, <1>10, SizedHdrIs, Zenon
<1> HIDE DEF e
<1>12. /\ f \in [DOMAIN f -> BlockHdr] /\ DOMAIN f = D \ {c}
       /\ DOMAIN f \subseteq 0 .. HeapSize - 1 /\ f[b] = e
       /\ \A o \in D \ {b, c} : f[o] = k2.blk[o]
      BY <1>1, <1>8, <1>11 DEF HeapTypeOK, SizedHdr
<1>13. v \in Int
      BY <1>2, <1>8 DEF HeapTypeOK
<1> HIDE DEF f, v
<1>14. g.blk = f /\ g.free_list = k2.free_list /\ HeapTypeOK(g)
  <2>1. g = [blk |-> f, free_list |-> k2.free_list, used_bytes |-> v,
             block_count |-> k2.block_count]
        BY <1>4, <1>8 DEF HeapTypeOK
  <2>2. k2.free_list \in Nat /\ k2.block_count \in Int
        BY <1>8 DEF HeapTypeOK
  <2> QED
        BY <1>12, <1>13, <2>1, <2>2 DEF HeapTypeOK
<1>15. /\ g.blk[b].total_size = s
       /\ \A o \in D \ {b, c} : g.blk[o].total_size = h.blk[o].total_size
      BY <1>8, <1>11, <1>12, <1>14 DEF SizedHdr
<1>16. Tiled(g)
  <2>1. End(h, b) = c /\ DOMAIN g.blk = D \ {c}
        BY <1>12, <1>14 DEF c
  <2>2. g.blk[b].total_size = h.blk[b].total_size + h.blk[c].total_size
        BY <1>15 DEF s
  <2> QED
        BY <1>0, <1>1, <1>15, <2>1, <2>2, MergeTiles
<1>17. Free(g) = F \ {c} /\ Used(g) = Used(h)
      BY <1>1, <1>8, <1>11, <1>12, <1>14 DEF Free, Used, SizedHdr
<1>18. Threads(g, F \ {c})
  <2>1. \A q \in {Head} \cup (F \ {c}) : Link(g, q) = Link(k2, q)
        BY <1>1, <1>12, <1>14 DEF Link
  <2>2. Link(g, p) = Link(h, c)
        BY <1>3, <1>9, <2>1
  <2>3. \A q \in {Head} \cup (F \ {c}) : q # p => Link(g, q) = Link(h, q)
        BY <1>1, <1>9, <2>1
  <2> QED
        BY <1>0, <1>1, <2>2, <2>3, UnlinkThreads DEF p
<1>19. Apart(g, F \ {c})
  <2>1. \A o \in F \ {c} : End(g, o) = End(h, o)
        BY <1>1, <1>15 DEF End
  <2> QED
        BY <1>0, <2>1 DEF Apart
<1>20. CapsFit(g)
  <2> SUFFICES ASSUME NEW o \in DOMAIN g.blk
               PROVE  HDR + g.blk[o].payload_cap <= g.blk[o].total_size
        BY DEF CapsFit
  <2>1. CASE o = b
        BY <1>2, <1>11, <1>12, <1>14, <2>1 DEF SizedHdr
  <2>2. CASE o # b
        BY <1>0, <1>8, <1>12, <1>14, <2>2 DEF CapsFit
  <2> QED
        BY <2>1, <2>2
<1>21. \A o \in Used(h) \ {b} : g.blk[o] = h.blk[o]
  <2>1. \A o \in Used(h) \ {b} : o \in D \ {b, c} /\ o # p
        BY <1>1, <1>3 DEF Used, Free, Head
  <2> QED
        BY <1>8, <1>12, <1>14, <2>1
<1>22. GoodHeap(g)
      BY <1>14, <1>16, <1>17, <1>18, <1>19, <1>20 DEF GoodHeap
<1>23. g.blk[b] = e
      BY <1>12, <1>14
<1>24. Counted(h, g, h.blk[c].total_size, 0)
  <2>1. k2.used_bytes = h.used_bytes /\ k2.block_count = h.block_count
        BY <1>5, <1>7 DEF Relinked
  <2>2. g.used_bytes = v /\ g.block_count = k2.block_count
        BY <1>4, <1>8 DEF HeapTypeOK
  <2>3. v = h.used_bytes + h.blk[c].total_size
        BY <2>1 DEF v
  <2>4. h.block_count \in Int
        BY <1>0 DEF HeapTypeOK
  <2> QED
        BY <2>1, <2>2, <2>3, <2>4 DEF Counted
<1> QED
    BY <1>11, <1>17, <1>21, <1>22, <1>23, <1>24
       DEF Absorbed, SizedHdr, g, s, c

\* Growing in place ends with a block of the right size for the same object.
LEMMA GrowInPlaceIs ==
    ASSUME NEW h, GoodHeap(h), NEW b \in Used(h), NEW n, n \in Nat,
           n >= BLOCK_MIN, CanGrowInPlace(h, b, n)
    PROVE  Trimmed(h, GrowInPlace(h, b, n), b, n)
<1> DEFINE k == Absorb(h, b)
           g == Shrink(k, b, n)
<1>1. End(h, b) \in Free(h)
      BY DEF CanGrowInPlace
<1>2. Absorbed(h, k, b)
      BY <1>1, AbsorbIs
<1> HIDE DEF k
<1>3. GoodHeap(k) /\ b \in Used(k)
      BY <1>2 DEF Absorbed
<1>4. n <= k.blk[b].total_size
  <2>1. k.blk[b].total_size >= n
        BY <1>2 DEF Absorbed, CanGrowInPlace
  <2>2. k.blk[b].total_size \in Nat
        BY <1>3 DEF GoodHeap, HeapTypeOK, BlockHdr, Used
  <2> QED
        BY <2>1, <2>2
<1>5. Trimmed(k, g, b, n)
      BY <1>3, <1>4, ShrinkIs
<1>6. GrowInPlace(h, b, n) = g
      BY DEF GrowInPlace, k
<1> HIDE DEF g
<1>7. Counted(h, g, g.blk[b].total_size - h.blk[b].total_size, 0)
  <2> DEFINE x == h.blk[b].total_size
             y == h.blk[End(h, b)].total_size
             z == g.blk[b].total_size
  <2>1. /\ Counted(h, k, y, 0) /\ Counted(k, g, z - k.blk[b].total_size, 0)
        /\ k.blk[b].total_size = x + y
        BY <1>2, <1>5 DEF Trimmed, Absorbed
  <2>2. x \in Nat /\ y \in Nat /\ h.used_bytes \in Int /\ h.block_count \in Int
        BY <1>1 DEF GoodHeap, HeapTypeOK, BlockHdr, Used, Free
  <2>3. z \in Nat
        BY <1>3, <1>5 DEF Trimmed, GoodHeap, HeapTypeOK, BlockHdr, Used
  <2> HIDE DEF x, y, z
  <2>4. Counted(h, g, z - x, 0)
        BY <2>1, <2>2, <2>3 DEF Counted
  <2> QED
        BY <2>4 DEF x, z
<1>8. Trimmed(h, g, b, n)
      BY <1>2, <1>5, <1>7 DEF Trimmed, Absorbed
<1> QED
    BY <1>6, <1>8

\* Label writes the three label fields.
LEMMA LabelIs ==
    ASSUME NEW h, GoodHeap(h), NEW b \in Used(h), NEW u, u \in Nat,
           NEW P, P \in SUBSET Perm, NEW i, i \in Nat
    PROVE  Labelled(h, Label(h, b, u, P, i), b, u, P, i)
<1> DEFINE e == [h.blk[b] EXCEPT !.owner = u, !.perms = P, !.obj_id = i]
           g == [h EXCEPT !.blk = [h.blk EXCEPT ![b] = e]]
<1>1. Labelled(h, g, b, u, P, i)
      BY LabelKeeps
<1>2. Label(h, b, u, P, i) = g
      BY DEF Label
<1> QED
    BY <1>1, <1>2

\* g is h with the object at b moved to nb, a block for n bytes that was
\* free, and b given back.
Transferred(h, g, b, nb, n) ==
    /\ GoodHeap(g)
    /\ nb \notin Used(h)
    /\ Used(g) = (Used(h) \ {b}) \cup {nb}
    /\ n <= g.blk[nb].total_size
    /\ g.blk[nb].total_size < n + BLOCK_MIN
    /\ g.blk[nb].owner = h.blk[b].owner
    /\ g.blk[nb].perms = h.blk[b].perms
    /\ g.blk[nb].obj_id = h.blk[b].obj_id
    /\ g.blk[nb] = Relocated(h, b, n).blk[nb]
    /\ \A o \in Used(h) \ {b} : g.blk[o] = h.blk[o]
    /\ Counted(h, g, g.blk[nb].total_size - h.blk[b].total_size, 0)

\* A relocation allocates, labels and then frees the old block.
LEMMA RelocateIs ==
    ASSUME NEW h, GoodHeap(h), NEW b \in Used(h), NEW n, n \in Nat,
           n >= BLOCK_MIN, Fits(h, n) # {}
    PROVE  Transferred(h, heap_free_block(Relocated(h, b, n), b), b,
                       FirstFit(h, n), n)
<1> DEFINE nb == FirstFit(h, n)
           k1 == heap_alloc_block(h, n)
           k2 == Relocated(h, b, n)
           g == heap_free_block(k2, b)
           w == h.blk[b].owner
           P == h.blk[b].perms
           i == h.blk[b].obj_id
<1>1. Taken(h, k1, nb, n)
      BY HeapAllocBlockIs
<1>2. k2 = Label(k1, nb, w, P, i)
      BY DEF Relocated
<1>3. w \in Nat /\ P \in SUBSET Perm /\ i \in Nat
      BY DEF GoodHeap, HeapTypeOK, BlockHdr, Used
<1> HIDE DEF nb, k1, k2, g, w, P, i
<1>4. /\ GoodHeap(k1) /\ nb \in Used(k1) /\ nb \notin Used(h) /\ b # nb
      /\ Used(k1) = Used(h) \cup {nb}
      /\ \A o \in Used(h) : k1.blk[o] = h.blk[o]
      BY <1>1 DEF Taken, Free, Used
<1>5. Labelled(k1, k2, nb, w, P, i)
      BY <1>2, <1>3, <1>4, LabelIs
<1>6. /\ GoodHeap(k2) /\ Used(k2) = Used(h) \cup {nb} /\ b \in Used(k2)
      /\ \A o \in Used(h) : k2.blk[o] = h.blk[o]
      BY <1>4, <1>5 DEF Labelled
<1>7. /\ GoodHeap(g) /\ Used(g) = Used(k2) \ {b}
      /\ \A o \in Used(k2) \ {b} : g.blk[o] = k2.blk[o]
      /\ Counted(k2, g, -k2.blk[b].total_size, -1)
      BY <1>6, HeapFreeBlockIs DEF g
<1>8. Used(g) = (Used(h) \ {b}) \cup {nb} /\ g.blk[nb] = k2.blk[nb]
      BY <1>4, <1>6, <1>7
<1>9. \A o \in Used(h) \ {b} : g.blk[o] = h.blk[o]
      BY <1>6, <1>7
<1>10. /\ n <= g.blk[nb].total_size /\ g.blk[nb].total_size < n + BLOCK_MIN
       /\ g.blk[nb].owner = w /\ g.blk[nb].perms = P /\ g.blk[nb].obj_id = i
      BY <1>1, <1>5, <1>8 DEF Taken, Labelled
<1>11. Counted(h, g, g.blk[nb].total_size - h.blk[b].total_size, 0)
  <2> DEFINE x == h.blk[b].total_size
             y == g.blk[nb].total_size
  <2>1. Counted(h, k1, y, 1)
    <3>1. k1.blk[nb].total_size = y
          BY <1>5, <1>8 DEF Labelled
    <3> QED
          BY <1>1, <3>1 DEF Taken
  <2>2. k2.used_bytes = k1.used_bytes /\ k2.block_count = k1.block_count
        BY <1>5 DEF Labelled
  <2>3. k2.blk[b].total_size = x
        BY <1>6
  <2>4. Counted(k2, g, -x, -1)
        BY <1>7, <2>3
  <2>5. x \in Nat /\ h.used_bytes \in Int /\ h.block_count \in Int
        BY DEF GoodHeap, HeapTypeOK, BlockHdr, Used
  <2>6. y \in Nat
    <3>1. nb \in DOMAIN g.blk /\ HeapTypeOK(g)
          BY <1>7, <1>8 DEF Used, GoodHeap
    <3> QED
          BY <3>1 DEF HeapTypeOK, BlockHdr
  <2> HIDE DEF x, y
  <2>7. Counted(h, g, y - x, 0)
        BY <2>1, <2>2, <2>4, <2>5, <2>6 DEF Counted
  <2> QED
        BY <2>7 DEF x, y
<1> QED
    BY <1>4, <1>7, <1>8, <1>9, <1>10, <1>11 DEF Transferred, nb, k2, g, w, P, i
=============================================================================
