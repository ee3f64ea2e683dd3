----------------------------- MODULE ShmPayload -----------------------------
(***************************************************************************)
(* What is in the payloads of ShmAlloc's objects: cleared by shm_alloc,    *)
(* copied by a relocation in shm_resize, left alone by everything else,    *)
(* and written by their owners through shm_ptr.  The heap is taken in      *)
(* words of 4 bytes; a word holds 0, the id of the object whose owner      *)
(* wrote it, or JUNK, a block header or what is left in free space.        *)
(***************************************************************************)
EXTENDS ShmAlloc

VARIABLES
    bytes,      \* the words of the heap
    grown       \* the live objects that have grown in place

pvars == <<vars, bytes, grown>>

JUNK == -1
WORD == 4
ASSUME PayloadAssumption ==
    HeapSize % WORD = 0 /\ \A n \in PayloadSizes : n % WORD = 0

Words == 0 .. HeapSize \div WORD - 1

\* The words of len bytes from off.
WordsAt(off, len) == off \div WORD .. (off + len) \div WORD - 1

\* Headers are written over the words they occupy.  A free block is nobody's:
\* what the code leaves in it, old contents and old headers, is JUNK as well.
Covered(h) ==
    UNION {WordsAt(o, IF o \in Free(h) THEN h.blk[o].total_size ELSE HDR) :
              o \in DOMAIN h.blk}

WithHeaders(c, h) ==
    LET covered == Covered(h)
    IN  [w \in Words |-> IF w \in covered THEN JUNK ELSE c[w]]

\* memset to 0, and memcpy from offset src to offset dst, of len bytes.
Cleared(c, off, len) ==
    LET zeroed == WordsAt(off, len)
    IN  [w \in Words |-> IF w \in zeroed THEN 0 ELSE c[w]]

Copied(c, dst, src, len) ==
    LET target == WordsAt(dst, len)
    IN  [w \in Words |->
            IF w \in target THEN c[w + (src - dst) \div WORD] ELSE c[w]]

\* Seeded fault: the new payload is cleared instead of copied to.
Moved_ClearsAll(c, old, new) == Cleared(c, new.off, new.capacity)

\* A relocation copies what the old header admits to and clears the rest.
Moved(c, old, new) ==
    Cleared(Copied(c, new.off, old.off, old.capacity),
            new.off + old.capacity, new.capacity - old.capacity)

-----------------------------------------------------------------------------
PayloadInit ==
    /\ Init
    /\ bytes = WithHeaders([w \in Words |-> 0], heap)
    /\ grown = {}

\* Seeded fault: the payload is not cleared.
AllocPayload_Dirty(n, name, u, p) ==
    /\ shm_alloc(n, name, u, p)
    /\ bytes' = WithHeaders(bytes, heap')
    /\ UNCHANGED grown

AllocPayload(n, name, u, p) ==
    /\ shm_alloc(n, name, u, p)
    /\ LET e == dir'[dir_find_free_slot(dir)]
       IN  bytes' = IF dir' = dir THEN bytes
                    ELSE WithHeaders(Cleared(bytes, e.off, e.capacity), heap')
    /\ UNCHANGED grown

FreePayload(id, u, cp) ==
    /\ shm_free(id, u, cp)
    /\ bytes' = WithHeaders(bytes, heap')
    /\ grown' = IF dir' = dir THEN grown ELSE grown \ {id}

ResizePayload(id, n, u, cp) ==
    /\ shm_resize(id, n, u, cp)
    /\ LET i == dir_find_by_id(dir, id)
       IN  IF dir' = dir
           THEN UNCHANGED <<bytes, grown>>
           ELSE /\ bytes' = WithHeaders(IF dir'[i].off = dir[i].off THEN bytes
                                        ELSE Moved(bytes, dir[i], dir'[i]),
                                        heap')
                /\ grown' = IF /\ dir'[i].off = dir[i].off
                               /\ dir'[i].capacity > dir[i].capacity
                            THEN grown \cup {id} ELSE grown

SetPermsPayload(off, u, cp, p) ==
    shm_block_set_perms(off, u, cp, p) /\ UNCHANGED <<bytes, grown>>

\* The owner of object i writes all the bytes it asked for.
Fill(i) ==
    /\ ~Crashed
    /\ i \in LiveSlots
    /\ shm_ptr(dir[i].off, dir[i].owner, dir[i].perms, {"WRITE"})
    /\ LET own == WordsAt(dir[i].off, dir[i].used_size)
       IN  bytes' = [w \in Words |-> IF w \in own THEN dir[i].id ELSE bytes[w]]
    /\ UNCHANGED <<vars, grown>>

PayloadNext ==
    \/ \E n \in PayloadSizes, name \in Names, u \in Users, p \in ObjPerms :
          AllocPayload(n, name, u, p)
    \/ \E id \in 0 .. MaxId, u \in Users, cp \in CallerPerms :
          \/ FreePayload(id, u, cp)
          \/ \E n \in PayloadSizes : ResizePayload(id, n, u, cp)
    \/ \E off \in PayloadOffsets, u \in Users, cp \in CallerPerms, p \in ObjPerms :
          SetPermsPayload(off, u, cp, p)
    \/ \E i \in Slots : Fill(i)
    \/ Stopped /\ UNCHANGED <<bytes, grown>>

PayloadSpec == PayloadInit /\ [][PayloadNext]_pvars

-----------------------------------------------------------------------------
(***************************************************************************)
(* An object has the bytes its owner asked for, used_size, and those its   *)
(* header admits to, payload_cap.  Neither bounds the other: a block that  *)
(* was merged and handed out whole keeps a payload_cap from before the     *)
(* merge (shm_alloc.c:143), and its object is short.                       *)
(***************************************************************************)
Extent(e) == IF e.capacity < e.used_size THEN e.used_size ELSE e.capacity

\* The words of a short object that its payload_cap leaves out.
Beyond(e) == WordsAt(e.off + e.capacity, Extent(e) - e.capacity)

\* Word k of the object in slot i.
WordOf(c, d, i, k) == c[d[i].off \div WORD + k]

Least(a, b) == IF a < b THEN a ELSE b

\* Every byte that the object in slot i has before and after is what it was,
\* wherever it is now.  Excepted are the bytes beyond its payload_cap when it
\* is moved: they are not copied (shm_alloc.c:803-805).
Kept(i) ==
    \A k \in 0 .. Least(Extent(dir[i]), Extent(dir'[i])) \div WORD - 1 :
        \/ WordOf(bytes', dir', i, k) = WordOf(bytes, dir, i, k)
        \/ dir'[i].off # dir[i].off /\ k >= dir[i].capacity \div WORD

\* Splitting, merging and writing headers around an object, shrinking it,
\* growing it in place and calls about other objects keep every byte its
\* owner asked for; a relocation keeps those that payload_cap covers.
ContentsKept ==
    [][vars' # vars /\ ret' # CRASH =>
          \A i \in LiveSlots : dir'[i].id = dir[i].id => Kept(i)]_pvars

\* An object that has never grown in place holds only zeros and what its
\* owner wrote, nothing of the objects and the headers that were there before
\* it, except in the bytes that a stale payload_cap hides from the memsets of
\* shm_alloc and shm_resize (see ZeroFilled).
NothingInherited ==
    ~Crashed =>
        \A i \in LiveSlots :
            dir[i].id \notin grown =>
                \A w \in WordsAt(dir[i].off, Extent(dir[i])) \ Beyond(dir[i]) :
                    bytes[w] \in {0, dir[i].id}

-----------------------------------------------------------------------------
(***************************************************************************)
(* What the documentation says and the code does not do.                   *)
(***************************************************************************)
\* "The payload is zero-initialised (no constructor is called)."
\* (shm_alloc.hpp:89): of the bytes that its owner asked for, an object that
\* has not grown in place shows zeros and what the owner wrote.
ZeroFilled ==
    ~Crashed =>
        \A i \in LiveSlots :
            dir[i].id \notin grown =>
                \A w \in WordsAt(dir[i].off, dir[i].used_size) :
                    bytes[w] \in {0, dir[i].id}
=============================================================================
