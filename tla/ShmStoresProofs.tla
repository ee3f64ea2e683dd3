-------------------------- MODULE ShmStoresProofs --------------------------
(***************************************************************************)
(* An iteration with shm_dir_next beside writers that may die in any call, *)
(* for every heap size and directory size, whatever the deaths have left   *)
(* of the heap.                                                            *)
(***************************************************************************)
EXTENDS ShmStores, SequenceTheorems, WellFoundedInduction, TLAPS

-----------------------------------------------------------------------------
(***************************************************************************)
(* Sequences of stores.  Nothing is said of what a store puts into the     *)
(* heap: after a death that may be anything.                               *)
(***************************************************************************)
IsSeq(s) == \E S : s \in Seq(S)

\* u is s followed by t.
Joined(u, s, t) ==
    /\ IsSeq(u) /\ Len(s) \in Nat /\ Len(t) \in Nat
    /\ Len(u) = Len(s) + Len(t)
    /\ \A k \in 1 .. Len(s) : u[k] = s[k]
    /\ \A k \in 1 .. Len(t) : u[Len(s) + k] = t[k]

LEMMA ConcatIs ==
    ASSUME NEW s, NEW t, IsSeq(s), IsSeq(t)
    PROVE  Joined(s \o t, s, t)
<1>1. PICK S : s \in Seq(S)
      BY DEF IsSeq
<1>2. PICK T : t \in Seq(T)
      BY DEF IsSeq
<1>3. s \in Seq(S \cup T) /\ t \in Seq(S \cup T)
      BY <1>1, <1>2
<1>4. /\ s \o t \in Seq(S \cup T)
      /\ Len(s \o t) = Len(s) + Len(t)
      /\ \A k \in 1 .. Len(s) + Len(t) : (s \o t)[k] =
            IF k <= Len(s) THEN s[k] ELSE t[k - Len(s)]
      BY <1>3, ConcatProperties
<1>5. Len(s) \in Nat /\ Len(t) \in Nat
      BY <1>3, LenProperties
<1>6. IsSeq(s \o t)
      BY <1>4 DEF IsSeq
<1> QED
    BY <1>4, <1>5, <1>6 DEF Joined

LEMMA TailIs ==
    ASSUME NEW t, IsSeq(t), t # <<>>
    PROVE  /\ IsSeq(Tail(t)) /\ Len(t) \in Nat /\ Len(t) >= 1
           /\ Len(Tail(t)) = Len(t) - 1
           /\ \A k \in 1 .. Len(Tail(t)) : Tail(t)[k] = t[k + 1]
<1>1. PICK S : t \in Seq(S)
      BY DEF IsSeq
<1>2. /\ Tail(t) \in Seq(S) /\ Len(Tail(t)) = Len(t) - 1
      /\ \A k \in 1 .. Len(Tail(t)) : Tail(t)[k] = t[k + 1]
      BY <1>1, HeadTailProperties
<1>3. Len(t) \in Nat /\ Len(t) >= 1
      BY <1>1, EmptySeq, LenProperties
<1> QED
    BY <1>2, <1>3 DEF IsSeq

\* A store as W makes it.
IsStore(s) == DOMAIN s = {"part", "at", "set", "wipe", "flush"}

\* A store that gives an id to a slot, and one that counts an id as used.
Names(s) == s.part = "slot" /\ "id" \in DOMAIN s.set /\ s.set.id # 0
Raises(s) == s.part = "rh" /\ "next_id" \in DOMAIN s.set

\* A store that does neither.
PlainStore(s) ==
    /\ IsStore(s)
    /\ \/ s.part = "blk"
       \/ s.part = "rh" /\ s.at = 0 /\ ~Raises(s)
       \/ s.part = "slot" /\ s.at \in Slots /\ ~Names(s)

PlainStores(t) == IsSeq(t) /\ \A k \in 1 .. Len(t) : PlainStore(t[k])

LEMMA PersistedIs ==
    ASSUME NEW s, IsSeq(s), \A k \in 1 .. Len(s) : IsStore(s[k]), NEW lines
    PROVE  /\ IsSeq(Persisted(s, lines)) /\ Len(Persisted(s, lines)) = Len(s)
           /\ \A k \in 1 .. Len(s) :
                 /\ IsStore(Persisted(s, lines)[k])
                 /\ Persisted(s, lines)[k].part = s[k].part
                 /\ Persisted(s, lines)[k].at = s[k].at
                 /\ Persisted(s, lines)[k].set = s[k].set
<1> DEFINE new == [s[Len(s)] EXCEPT !.flush = @ \cup lines]
           p   == Persisted(s, lines)
<1>1. PICK S : s \in Seq(S)
      BY DEF IsSeq
<1>2. /\ Len(s) \in Nat /\ DOMAIN s = 1 .. Len(s)
      /\ s \in [1 .. Len(s) -> S]
      BY <1>1, LenProperties
<1>3. p = [k \in 1 .. Len(s) |-> IF k = Len(s) THEN new ELSE s[k]]
      BY <1>2 DEF Persisted
<1> HIDE DEF p
<1>4. /\ DOMAIN p = 1 .. Len(s)
      /\ \A k \in 1 .. Len(s) : p[k] = IF k = Len(s) THEN new ELSE s[k]
      BY <1>3
<1>5. Len(s) > 0 =>
        /\ IsStore(new) /\ new.part = s[Len(s)].part
        /\ new.at = s[Len(s)].at /\ new.set = s[Len(s)].set
      BY <1>2 DEF IsStore
<1> HIDE DEF new
<1>6. p \in [1 .. Len(s) -> S \cup {new}]
      BY <1>2, <1>3
<1>7. p \in Seq(S \cup {new}) /\ Len(p) = Len(s)
      BY <1>2, <1>6
<1>8. ASSUME NEW k \in 1 .. Len(s)
      PROVE  /\ IsStore(p[k]) /\ p[k].part = s[k].part
             /\ p[k].at = s[k].at /\ p[k].set = s[k].set
  <2>1. CASE k = Len(s)
        BY <2>1, <1>2, <1>4, <1>5
  <2>2. CASE k # Len(s)
        BY <2>2, <1>4
  <2> QED
        BY <2>1, <2>2
<1>9. IsSeq(p)
      BY <1>7 DEF IsSeq
<1> QED
    BY <1>7, <1>8, <1>9 DEF p

-----------------------------------------------------------------------------
(***************************************************************************)
(* What a store changes.                                                   *)
(***************************************************************************)
MemOK(m) ==
    /\ {"rh", "blk", "slot"} \subseteq DOMAIN m
    /\ 0 \in DOMAIN m.rh /\ "next_id" \in DOMAIN m.rh[0]
    /\ DOMAIN m.slot = Slots
    /\ \A i \in Slots :
          {"id", "off", "capacity", "alive"} \subseteq DOMAIN m.slot[i]

\* The function f after the store s to it.
Written(f, s) ==
    Over([o \in {s.at} |-> Over(s.set, IF s.at \in DOMAIN f THEN f[s.at] ELSE <<>>)], f)

LEMMA WrittenIs ==
    ASSUME NEW f, NEW s, s.at \in DOMAIN f
    PROVE  /\ DOMAIN Written(f, s) = DOMAIN f
           /\ \A i \in DOMAIN f : i # s.at => Written(f, s)[i] = f[i]
           /\ Written(f, s)[s.at] = Over(s.set, f[s.at])
<1>1. Written(f, s) = Over([o \in {s.at} |-> Over(s.set, f[s.at])], f)
      BY DEF Written
<1> DEFINE v == Over(s.set, f[s.at])
           g == [o \in {s.at} |-> v]
<1>2. DOMAIN g = {s.at} /\ g[s.at] = v
      OBVIOUS
<1> HIDE DEF v, g
<1> QED
    BY <1>1, <1>2 DEF Over, g, v

LEMMA OverIs ==
    ASSUME NEW f, NEW g, NEW a \in DOMAIN g
    PROVE  /\ a \in DOMAIN Over(f, g)
           /\ Over(f, g)[a] = IF a \in DOMAIN f THEN f[a] ELSE g[a]
    BY DEF Over

LEMMA ApplyIs ==
    ASSUME NEW m, MemOK(m), NEW s, s.part \in {"rh", "blk", "slot"}
    PROVE  /\ {"rh", "blk", "slot"} \subseteq DOMAIN Apply(m, s)
           /\ Apply(m, s).rh = IF s.part = "rh" THEN Written(m.rh, s) ELSE m.rh
           /\ Apply(m, s).slot =
                 IF s.part = "slot" THEN Written(m.slot, s) ELSE m.slot
<1> DEFINE x   == Written(m[s.part], s)
           new == [m EXCEPT ![s.part] = x]
           y   == Restrict(new.blk, DOMAIN new.blk \ s.wipe)
           g   == [new EXCEPT !.blk = y]
<1>1. Apply(m, s) = g
      BY DEF Apply, Written
<1> HIDE DEF x
<1>2. /\ DOMAIN new = DOMAIN m
      /\ new.rh = IF s.part = "rh" THEN x ELSE m.rh
      /\ new.slot = IF s.part = "slot" THEN x ELSE m.slot
      BY DEF MemOK
<1> HIDE DEF new, y
<1>3. /\ DOMAIN g = DOMAIN m /\ g.rh = new.rh /\ g.slot = new.slot
      BY <1>2 DEF MemOK
<1> HIDE DEF g
<1> QED
    BY <1>1, <1>2, <1>3 DEF MemOK, x

-----------------------------------------------------------------------------
(***************************************************************************)
(* The stores of the heap functions leave the directory and next_id alone, *)
(* on whatever memory they are made.                                       *)
(***************************************************************************)
LEMMA PlainTuple ==
    /\ PlainStores(<<>>)
    /\ \A a : PlainStore(a) => PlainStores(<<a>>)
    /\ \A a, b : PlainStore(a) /\ PlainStore(b) => PlainStores(<<a, b>>)
    /\ \A a, b, c :
          PlainStore(a) /\ PlainStore(b) /\ PlainStore(c) => PlainStores(<<a, b, c>>)
    /\ \A a, b, c, d :
          PlainStore(a) /\ PlainStore(b) /\ PlainStore(c) /\ PlainStore(d)
            => PlainStores(<<a, b, c, d>>)
<1>1. PlainStores(<<>>)
      BY EmptySeq DEF PlainStores, IsSeq
<1>2. ASSUME NEW a, PlainStore(a)  PROVE PlainStores(<<a>>)
  <2>1. <<a>> \in Seq({a})
        OBVIOUS
  <2>2. Len(<<a>>) = 1
        OBVIOUS
  <2>3. \A k \in 1 .. 1 : PlainStore(<<a>>[k])
        BY <1>2
  <2> QED
        BY <2>1, <2>2, <2>3 DEF PlainStores, IsSeq
<1>3. ASSUME NEW a, NEW b, PlainStore(a), PlainStore(b)
      PROVE  PlainStores(<<a, b>>)
  <2>1. <<a, b>> \in Seq({a, b})
        OBVIOUS
  <2>2. Len(<<a, b>>) = 2
        OBVIOUS
  <2>3. \A k \in 1 .. 2 : PlainStore(<<a, b>>[k])
        BY <1>3
  <2> QED
        BY <2>1, <2>2, <2>3 DEF PlainStores, IsSeq
<1>4. ASSUME NEW a, NEW b, NEW c, PlainStore(a), PlainStore(b), PlainStore(c)
      PROVE  PlainStores(<<a, b, c>>)
  <2>1. <<a, b, c>> \in Seq({a, b, c})
        OBVIOUS
  <2>2. Len(<<a, b, c>>) = 3
        OBVIOUS
  <2>3. \A k \in 1 .. 3 : PlainStore(<<a, b, c>>[k])
        BY <1>4
  <2> QED
        BY <2>1, <2>2, <2>3 DEF PlainStores, IsSeq
<1>5. ASSUME NEW a, NEW b, NEW c, NEW d,
             PlainStore(a), PlainStore(b), PlainStore(c), PlainStore(d)
      PROVE  PlainStores(<<a, b, c, d>>)
  <2>1. <<a, b, c, d>> \in Seq({a, b, c, d})
        OBVIOUS
  <2>2. Len(<<a, b, c, d>>) = 4
        OBVIOUS
  <2>3. \A k \in 1 .. 4 : PlainStore(<<a, b, c, d>>[k])
        BY <1>5
  <2> QED
        BY <2>1, <2>2, <2>3 DEF PlainStores, IsSeq
<1> QED
    BY <1>1, <1>2, <1>3, <1>4, <1>5

LEMMA PlainPersisted ==
    ASSUME NEW s, PlainStores(s), NEW lines
    PROVE  PlainStores(Persisted(s, lines))
<1> DEFINE p == Persisted(s, lines)
<1>1. IsSeq(s) /\ \A k \in 1 .. Len(s) : IsStore(s[k])
      BY DEF PlainStores, PlainStore
<1>2. /\ IsSeq(p) /\ Len(p) = Len(s)
      /\ \A k \in 1 .. Len(s) : /\ IsStore(p[k]) /\ p[k].part = s[k].part
                               /\ p[k].at = s[k].at /\ p[k].set = s[k].set
      BY <1>1, PersistedIs
<1> HIDE DEF p
<1>3. ASSUME NEW k \in 1 .. Len(s)  PROVE PlainStore(p[k])
  <2>1. PlainStore(s[k])
        BY DEF PlainStores
  <2> QED
        BY <1>2, <2>1 DEF PlainStore, Raises, Names
<1> QED
    BY <1>2, <1>3 DEF PlainStores, p

LEMMA PlainConcat ==
    ASSUME NEW s, NEW t, PlainStores(s), PlainStores(t)
    PROVE  PlainStores(s \o t)
<1> DEFINE u == s \o t
<1>0. Joined(u, s, t)
      BY ConcatIs DEF PlainStores
<1> HIDE DEF u
<1>1. /\ IsSeq(u) /\ Len(s) \in Nat /\ Len(t) \in Nat
      /\ Len(u) = Len(s) + Len(t)
      /\ \A k \in 1 .. Len(s) : u[k] = s[k]
      /\ \A k \in 1 .. Len(t) : u[Len(s) + k] = t[k]
      BY <1>0 DEF Joined
<1>2. ASSUME NEW k \in 1 .. Len(u)  PROVE PlainStore(u[k])
  <2>1. CASE k <= Len(s)
        BY <1>1, <2>1 DEF PlainStores
  <2>2. CASE k > Len(s)
    <3>1. k - Len(s) \in 1 .. Len(t) /\ k = Len(s) + (k - Len(s))
          BY <1>1, <2>2
    <3>2. u[k] = t[k - Len(s)]
          BY <1>1, <3>1
    <3> QED
          BY <3>1, <3>2 DEF PlainStores
  <2> QED
        BY <1>1, <2>1, <2>2
<1> QED
    BY <1>1, <1>2 DEF PlainStores, u

LEMMA BlkStore == \A at, set : PlainStore(W("blk", at, set))
    BY DEF W, PlainStore, IsStore, Raises

LEMMA RhStore ==
    ASSUME NEW set, "next_id" \notin DOMAIN set
    PROVE  PlainStore(W("rh", 0, set))
    BY DEF W, PlainStore, IsStore, Raises

LEMMA LinkStore == \A p, lnk : PlainStore(SetLink(p, lnk))
    BY BlkStore, RhStore DEF SetLink

LEMMA CountersStore == \A m, x, y : PlainStore(Counters(m, x, y))
    BY RhStore DEF Counters

LEMMA InsertStores ==
    ASSUME NEW m, NEW b
    PROVE  PlainStores(freelist_insert(m, b))
<1> DEFINE prev == Walk(m, {o \in DOMAIN m.blk : o > b})
           cur  == LinkOf(m, prev)
           fwd  == cur # 0 /\ b + m.blk[b].total_size = cur - 1
           size == m.blk[b].total_size
                     + (IF fwd THEN m.blk[cur - 1].total_size ELSE 0)
           nxt  == IF fwd THEN m.blk[cur - 1].next_free ELSE cur
           splice ==
               <<W("blk", b, [allocated |-> 0, obj_id |-> 0, owner |-> 0,
                              perms |-> {}]),
                 W("blk", b, [next_free |-> cur]),
                 SetLink(prev, b + 1)>>
           forward ==
               Persisted(<<W("blk", b, [total_size |-> size]),
                           W("blk", b, [next_free |-> nxt]),
                           W("blk", cur - 1, [magic |-> 0])>>,
                         PersistBlk(cur - 1))
           backward ==
               Persisted(<<W("blk", prev,
                             [total_size |-> m.blk[prev].total_size + size]),
                           W("blk", prev, [next_free |-> nxt]),
                           W("blk", b, [magic |-> 0])>>,
                         PersistBlk(b) \cup PersistBlk(prev))
           s == splice \o (IF fwd THEN forward ELSE <<>>)
           lines == PersistBlk(b) \cup
                    (IF prev = Root THEN PersistRh ELSE PersistBlk(prev))
           merges == prev # Root /\ prev + m.blk[prev].total_size = b
<1>1. freelist_insert(m, b) = IF merges THEN s \o backward ELSE Persisted(s, lines)
      BY DEF freelist_insert
<1> HIDE DEF prev, cur, fwd, size, nxt, merges, lines
<1>2. PlainStores(splice)
      BY BlkStore, LinkStore, PlainTuple
<1>3. PlainStores(forward) /\ PlainStores(backward)
      BY BlkStore, PlainTuple, PlainPersisted
<1> HIDE DEF splice, forward, backward
<1>4. PlainStores(s)
      BY <1>2, <1>3, PlainTuple, PlainConcat
<1> HIDE DEF s
<1>5. PlainStores(s \o backward) /\ PlainStores(Persisted(s, lines))
      BY <1>3, <1>4, PlainConcat, PlainPersisted
<1> QED
    BY <1>1, <1>5

LEMMA RemoveStores ==
    ASSUME NEW m, NEW target
    PROVE  PlainStores(freelist_remove(m, target))
    BY BlkStore, LinkStore, PlainTuple DEF freelist_remove

LEMMA UnlinkStores ==
    ASSUME NEW m, NEW prev, NEW b, NEW need
    PROVE  PlainStores(Unlink(m, prev, b, need))
<1> DEFINE rem == m.blk[b].total_size - need
           split == <<W("blk", b + need, Hdr(rem, m.blk[b].next_free)),
                      W("blk", b, [total_size |-> need]),
                      W("blk", b, [payload_cap |-> need - HDR])>>
           link == <<SetLink(prev, b + need + 1)>>
           skip == <<SetLink(prev, m.blk[b].next_free)>>
           p == Persisted(split, PersistBlk(b + need))
<1>1. Unlink(m, prev, b, need) = IF rem >= BLOCK_MIN THEN p \o link ELSE skip
      BY DEF Unlink
<1>2. PlainStores(split) /\ PlainStores(link) /\ PlainStores(skip)
      BY BlkStore, LinkStore, PlainTuple
<1> HIDE DEF split, link, skip
<1>3. PlainStores(p)
      BY <1>2, PlainPersisted
<1> HIDE DEF p
<1>4. PlainStores(p \o link)
      BY <1>2, <1>3, PlainConcat
<1> QED
    BY <1>1, <1>2, <1>4

LEMMA AllocBlockStores ==
    ASSUME NEW m, NEW need
    PROVE  PlainStores(heap_alloc_block(m, need))
<1> DEFINE prev  == PrevOfFit(m, need)
           b     == LinkOf(m, prev) - 1
           off   == Unlink(m, prev, b, need)
           taken == off \o <<Tagged(b)>>
           bytes == Run(m, taken).blk[b].total_size
           count == <<Counters(m, bytes, 1)>>
           p     == Persisted(count, PersistBlk(b) \cup PersistRh)
<1>1. heap_alloc_block(m, need) = taken \o p
      BY DEF heap_alloc_block
<1> HIDE DEF bytes
<1>2. PlainStores(off)
      BY UnlinkStores
<1> HIDE DEF off
<1>3. PlainStore(Tagged(b)) /\ PlainStore(Counters(m, bytes, 1))
      BY BlkStore, CountersStore DEF Tagged
<1>4. PlainStores(<<Tagged(b)>>) /\ PlainStores(count)
      BY <1>3, PlainTuple
<1> HIDE DEF count
<1>5. PlainStores(taken) /\ PlainStores(p)
      BY <1>2, <1>4, PlainConcat, PlainPersisted
<1> HIDE DEF taken, p
<1> QED
    BY <1>1, <1>5, PlainConcat

LEMMA FreeBlockStores ==
    ASSUME NEW m, NEW b
    PROVE  PlainStores(heap_free_block(m, b))
<1>1. PlainStores(<<Counters(m, -m.blk[b].total_size, -1)>>)
      BY CountersStore, PlainTuple
<1>2. PlainStores(freelist_insert(m, b))
      BY InsertStores
<1> QED
    BY <1>1, <1>2, PlainConcat DEF heap_free_block

LEMMA ShrinkHeap ==
    ASSUME NEW m, NEW b, NEW total
    PROVE  PlainStores(ShrinkStores(m, b, total))
<1> DEFINE rem  == m.blk[b].total_size - total
           cut  == <<W("blk", b + total, Hdr(rem, 0)),
                     Counters(m, -rem, 0),
                     W("blk", b, [total_size |-> total]),
                     W("blk", b, [payload_cap |-> total - HDR])>>
           trim == Persisted(cut, PersistBlk(b))
           back == freelist_insert(Run(m, trim), b + total)
<1>1. ShrinkStores(m, b, total) =
        IF rem >= BLOCK_MIN THEN trim \o back ELSE <<>>
      BY DEF ShrinkStores
<1>2. PlainStores(back)
      BY InsertStores
<1> HIDE DEF back
<1>3. PlainStores(cut)
      BY BlkStore, CountersStore, PlainTuple
<1> HIDE DEF cut
<1>4. PlainStores(trim)
      BY <1>3, PlainPersisted
<1> HIDE DEF trim
<1> QED
    BY <1>1, <1>2, <1>4, PlainTuple, PlainConcat

LEMMA GrowHeap ==
    ASSUME NEW m, NEW b, NEW total
    PROVE  PlainStores(GrowStores(m, b, total))
<1> DEFINE nxt      == b + m.blk[b].total_size
           combined == m.blk[b].total_size + m.blk[nxt].total_size
           off      == freelist_remove(m, nxt)
           join     == <<Counters(m, m.blk[nxt].total_size, 0),
                         W("blk", b, [total_size |-> combined]),
                         W("blk", b, [payload_cap |-> combined - HDR]),
                         W("blk", nxt, [magic |-> 0])>>
           joined   == Persisted(join, PersistBlk(nxt))
           absorb   == off \o joined
           rest     == ShrinkStores(Run(m, absorb), b, total)
           both     == absorb \o rest
           lines    == (IF rest = <<>> THEN PersistBlk(b) ELSE {}) \cup PersistRh
<1>1. GrowStores(m, b, total) = Persisted(both, lines)
      BY DEF GrowStores
<1>2. PlainStores(rest)
      BY ShrinkHeap
<1> HIDE DEF rest, lines
<1>3. PlainStores(off)
      BY RemoveStores
<1> HIDE DEF off
<1>4. PlainStores(join)
      BY BlkStore, CountersStore, PlainTuple
<1> HIDE DEF join
<1>5. PlainStores(joined)
      BY <1>4, PlainPersisted
<1> HIDE DEF joined
<1>6. PlainStores(absorb)
      BY <1>3, <1>5, PlainConcat
<1> HIDE DEF absorb
<1>7. PlainStores(both)
      BY <1>2, <1>6, PlainConcat
<1> HIDE DEF both
<1> QED
    BY <1>1, <1>7, PlainPersisted

\* A labelled block whose payload is cleared or copied.
LEMMA LabelStore ==
    ASSUME NEW b, NEW set, NEW wipe, NEW flush
    PROVE  PlainStore([W("blk", b, set) EXCEPT !.wipe = wipe, !.flush = flush])
    BY DEF W, PlainStore, IsStore, Raises

LEMMA RelocateHeap ==
    ASSUME NEW m, NEW b, NEW total
    PROVE  PlainStores(RelocateStores(m, b, total))
<1> DEFINE nb    == FitLink(m, total) - 1
           found == heap_alloc_block(m, total)
           cap   == Run(m, found).blk[nb].payload_cap
           set   == [owner |-> m.blk[b].owner, perms |-> m.blk[b].perms,
                     obj_id |-> m.blk[b].obj_id]
           wipe  == Under(nb, cap)
           flush == PersistPayload(nb, cap) \cup PersistBlk(nb)
           label == [W("blk", nb, set) EXCEPT !.wipe = wipe, !.flush = flush]
           moved == found \o <<label>>
           freed == heap_free_block(Run(m, moved), b)
<1>1. RelocateStores(m, b, total) = moved \o freed
      BY DEF RelocateStores
<1>2. PlainStores(freed)
      BY FreeBlockStores
<1> HIDE DEF freed
<1>3. PlainStores(found)
      BY AllocBlockStores
<1> HIDE DEF found, nb, cap, set, wipe, flush
<1>4. PlainStore(label)
      BY LabelStore
<1> HIDE DEF label
<1>5. PlainStores(moved)
      BY <1>3, <1>4, PlainTuple, PlainConcat
<1> HIDE DEF moved
<1> QED
    BY <1>1, <1>2, <1>5, PlainConcat

LEMMA SlotStore ==
    ASSUME NEW i \in Slots, NEW set, "id" \in DOMAIN set => set.id = 0
    PROVE  PlainStore(W("slot", i, set))
    BY DEF W, PlainStore, IsStore, Names

-----------------------------------------------------------------------------
(***************************************************************************)
(* Ids.                                                                    *)
(***************************************************************************)
NextId(m) == m.rh[0].next_id

\* Every id in a slot, live or not, is below next_id and in no other slot.
IdsOK(m) ==
    /\ NextId(m) \in Nat
    /\ \A i \in Slots : m.slot[i].id \in Nat /\ m.slot[i].id < NextId(m)
    /\ \A i, j \in Slots :
          m.slot[i].id # 0 /\ m.slot[i].id = m.slot[j].id => i = j

\* What the stores t that are still to be made on m will do to ids: a store
\* that names a slot gives it an id that no slot has, after next_id has
\* moved past it.
StepOK(m, t, k) ==
    /\ t[k].part \in {"rh", "blk", "slot"}
    /\ t[k].part = "rh" => t[k].at = 0
    /\ t[k].part = "slot" => t[k].at \in Slots
    /\ Raises(t[k]) => /\ t[k].set.next_id = NextId(m) + 1
                       /\ \A j \in 1 .. k - 1 : ~Raises(t[j])
    /\ Names(t[k]) => /\ t[k].set.id \in Nat
                      /\ \A i \in Slots : m.slot[i].id < t[k].set.id
                      /\ \A j \in 1 .. k - 1 : ~Names(t[j])
                      /\ \/ t[k].set.id < NextId(m)
                         \/ /\ t[k].set.id = NextId(m)
                            /\ \E j \in 1 .. k - 1 : Raises(t[j])

PlanOK(m, t) == IsSeq(t) /\ \A k \in 1 .. Len(t) : StepOK(m, t, k)

\* From m to g no slot gets an id that another slot has.
IdsKept(m, g) ==
    \A i \in Slots : \/ g.slot[i].id = 0
                     \/ g.slot[i].id = m.slot[i].id
                     \/ \A j \in Slots : m.slot[j].id # g.slot[i].id

LEMMA PlainPlan ==
    ASSUME NEW m, NEW t, PlainStores(t)
    PROVE  PlanOK(m, t)
<1>1. ASSUME NEW k \in 1 .. Len(t)  PROVE StepOK(m, t, k)
  <2>1. PlainStore(t[k])
        BY DEF PlainStores
  <2>2. ~Names(t[k]) /\ ~Raises(t[k])
        BY <2>1 DEF PlainStore, Names, Raises
  <2> QED
        BY <2>1, <2>2 DEF PlainStore, StepOK
<1> QED
    BY <1>1 DEF PlanOK, PlainStores

\* What one store does to the ids.
LEMMA StoreIds ==
    ASSUME NEW m, MemOK(m), IdsOK(m), NEW t, PlanOK(m, t), t # <<>>, NEW g,
           g = Apply(m, t[1])
    PROVE  /\ MemOK(g) /\ IdsOK(g) /\ IdsKept(m, g)
           /\ NextId(g) = IF Raises(t[1]) THEN NextId(m) + 1 ELSE NextId(m)
           /\ \A i \in Slots : \/ g.slot[i].id = 0
                               \/ g.slot[i].id = m.slot[i].id
                               \/ Names(t[1]) /\ g.slot[i].id = t[1].set.id
<1> DEFINE s == t[1]
<1>1. Len(t) \in Nat /\ Len(t) >= 1
      BY TailIs DEF PlanOK
<1>2. StepOK(m, t, 1)
      BY <1>1 DEF PlanOK
<1>3. /\ s.part \in {"rh", "blk", "slot"}
      /\ s.part = "rh" => s.at = 0
      /\ s.part = "slot" => s.at \in Slots
      /\ Raises(s) => s.set.next_id = NextId(m) + 1
      /\ Names(s) => /\ s.set.id \in Nat /\ s.set.id < NextId(m)
                     /\ \A i \in Slots : m.slot[i].id < s.set.id
      BY <1>2 DEF StepOK
<1> HIDE DEF s
<1>4. /\ {"rh", "blk", "slot"} \subseteq DOMAIN g
      /\ g.rh = IF s.part = "rh" THEN Written(m.rh, s) ELSE m.rh
      /\ g.slot = IF s.part = "slot" THEN Written(m.slot, s) ELSE m.slot
      BY <1>3, ApplyIs DEF s
<1>5. /\ 0 \in DOMAIN g.rh /\ "next_id" \in DOMAIN g.rh[0]
      /\ NextId(g) = IF Raises(s) THEN NextId(m) + 1 ELSE NextId(m)
  <2>1. CASE s.part = "rh"
    <3>1. /\ DOMAIN g.rh = DOMAIN m.rh /\ g.rh[0] = Over(s.set, m.rh[0])
          BY <2>1, <1>3, <1>4, WrittenIs DEF MemOK
    <3>2. "next_id" \in DOMAIN m.rh[0]
          BY DEF MemOK
    <3>3. /\ "next_id" \in DOMAIN g.rh[0]
          /\ g.rh[0].next_id = IF "next_id" \in DOMAIN s.set
                               THEN s.set.next_id ELSE m.rh[0].next_id
          BY <3>1, <3>2, OverIs
    <3> QED
          BY <2>1, <3>1, <3>3, <1>3 DEF MemOK, NextId, Raises
  <2>2. CASE s.part # "rh"
        BY <2>2, <1>4 DEF MemOK, NextId, Raises
  <2> QED
        BY <2>1, <2>2
<1>6. /\ DOMAIN g.slot = Slots
      /\ \A i \in Slots :
            {"id", "off", "capacity", "alive"} \subseteq DOMAIN g.slot[i]
      /\ \A i \in Slots : \/ g.slot[i].id = m.slot[i].id
                          \/ /\ s.part = "slot" /\ i = s.at /\ "id" \in DOMAIN s.set
                             /\ g.slot[i].id = s.set.id
  <2>1. CASE s.part = "slot"
    <3>1. /\ DOMAIN g.slot = Slots /\ s.at \in Slots
          /\ \A i \in Slots : i # s.at => g.slot[i] = m.slot[i]
          /\ g.slot[s.at] = Over(s.set, m.slot[s.at])
          BY <2>1, <1>3, <1>4, WrittenIs DEF MemOK
    <3>2. \A a \in {"id", "off", "capacity", "alive"} : a \in DOMAIN m.slot[s.at]
          BY <3>1 DEF MemOK
    <3>3. \A a \in {"id", "off", "capacity", "alive"} : a \in DOMAIN g.slot[s.at]
          BY <3>1, <3>2, OverIs
    <3>4. g.slot[s.at].id = IF "id" \in DOMAIN s.set
                            THEN s.set.id ELSE m.slot[s.at].id
          BY <3>1, <3>2, OverIs
    <3> QED
          BY <2>1, <3>1, <3>3, <3>4 DEF MemOK
  <2>2. CASE s.part # "slot"
        BY <2>2, <1>4 DEF MemOK
  <2> QED
        BY <2>1, <2>2
<1>7. MemOK(g)
      BY <1>4, <1>5, <1>6 DEF MemOK
<1>8. \A i \in Slots :
        \/ g.slot[i].id = 0
        \/ g.slot[i].id = m.slot[i].id
        \/ Names(s) /\ i = s.at /\ g.slot[i].id = s.set.id
      BY <1>6 DEF Names
<1>9. IdsKept(m, g)
      BY <1>3, <1>8 DEF IdsKept, IdsOK
<1>10. NextId(g) \in Nat /\ NextId(g) >= NextId(m)
      BY <1>5 DEF IdsOK
<1>11. \A i \in Slots : g.slot[i].id \in Nat /\ g.slot[i].id < NextId(g)
  <2> TAKE i \in Slots
  <2>1. m.slot[i].id \in Nat /\ m.slot[i].id < NextId(m) /\ NextId(m) \in Nat
        BY DEF IdsOK
  <2> QED
        BY <2>1, <1>3, <1>8, <1>10
<1>12. ASSUME NEW i \in Slots, NEW j \in Slots, g.slot[i].id # 0,
              g.slot[i].id = g.slot[j].id
       PROVE  i = j
  <2>1. m.slot[i].id \in Nat /\ m.slot[j].id \in Nat
        BY DEF IdsOK
  <2>2. \/ g.slot[i].id = m.slot[i].id
        \/ Names(s) /\ i = s.at /\ g.slot[i].id = s.set.id
        BY <1>8, <1>12
  <2>3. \/ g.slot[j].id = m.slot[j].id
        \/ Names(s) /\ j = s.at /\ g.slot[j].id = s.set.id
        BY <1>8, <1>12
  <2>4. Names(s) => m.slot[i].id # s.set.id /\ m.slot[j].id # s.set.id
        BY <1>3, <2>1
  <2>5. m.slot[i].id # 0 /\ m.slot[i].id = m.slot[j].id => i = j
        BY DEF IdsOK
  <2> QED
        BY <1>12, <2>2, <2>3, <2>4, <2>5
<1>13. IdsOK(g)
      BY <1>10, <1>11, <1>12 DEF IdsOK
<1> QED
    BY <1>5, <1>7, <1>8, <1>9, <1>13 DEF s

\* The rest of the plan is a plan for what the store leaves.
LEMMA StorePlan ==
    ASSUME NEW m, MemOK(m), IdsOK(m), NEW t, PlanOK(m, t), t # <<>>, NEW g,
           g = Apply(m, t[1])
    PROVE  PlanOK(g, Tail(t))
<1> DEFINE u == Tail(t)
<1>1. /\ IsSeq(u) /\ Len(t) \in Nat /\ Len(t) >= 1 /\ Len(u) = Len(t) - 1
      /\ \A k \in 1 .. Len(u) : u[k] = t[k + 1]
      BY TailIs DEF PlanOK
<1>2. /\ NextId(g) = IF Raises(t[1]) THEN NextId(m) + 1 ELSE NextId(m)
      /\ \A i \in Slots : \/ g.slot[i].id = 0
                          \/ g.slot[i].id = m.slot[i].id
                          \/ Names(t[1]) /\ g.slot[i].id = t[1].set.id
      BY StoreIds
<1>3. NextId(m) \in Nat /\ \A i \in Slots : m.slot[i].id \in Nat
      BY DEF IdsOK
<1> HIDE DEF u
<1>4. ASSUME NEW k \in 1 .. Len(u)  PROVE StepOK(g, u, k)
  <2> DEFINE s == u[k]
  <2>1. s = t[k + 1] /\ k \in Nat /\ k + 1 \in 1 .. Len(t)
        BY <1>1
  <2>2. \A j \in 1 .. k - 1 : u[j] = t[j + 1] /\ j + 1 \in 1 .. k
        BY <1>1
  <2>3. StepOK(m, t, k + 1)
        BY <2>1 DEF PlanOK
  <2>4. /\ s.part \in {"rh", "blk", "slot"}
        /\ s.part = "rh" => s.at = 0
        /\ s.part = "slot" => s.at \in Slots
        /\ Raises(s) => /\ s.set.next_id = NextId(m) + 1
                        /\ \A j \in 1 .. k : ~Raises(t[j])
        /\ Names(s) => /\ s.set.id \in Nat
                       /\ \A i \in Slots : m.slot[i].id < s.set.id
                       /\ \A j \in 1 .. k : ~Names(t[j])
                       /\ \/ s.set.id < NextId(m)
                          \/ /\ s.set.id = NextId(m)
                             /\ \E j \in 1 .. k : Raises(t[j])
        BY <2>1, <2>3 DEF StepOK
  <2> HIDE DEF s
  <2>5. 1 \in 1 .. k
        BY <2>1
  <2>6. Raises(s) => /\ s.set.next_id = NextId(g) + 1
                     /\ \A j \in 1 .. k - 1 : ~Raises(u[j])
        BY <1>2, <2>2, <2>4, <2>5
  <2>7. ASSUME Names(s)
        PROVE  /\ \A i \in Slots : g.slot[i].id < s.set.id
               /\ \A j \in 1 .. k - 1 : ~Names(u[j])
    <3>1. /\ s.set.id \in Nat /\ \A i \in Slots : m.slot[i].id < s.set.id
          /\ ~Names(t[1])
          BY <2>4, <2>5, <2>7
    <3>2. ASSUME NEW i \in Slots  PROVE g.slot[i].id < s.set.id
      <4>1. s.set.id > 0
            BY <1>3, <3>1
      <4> QED
            BY <1>2, <3>1, <4>1
    <3>3. \A j \in 1 .. k - 1 : ~Names(u[j])
          BY <2>2, <2>4, <2>7
    <3> QED
          BY <3>2, <3>3
  <2>8. ASSUME Names(s)
        PROVE  \/ s.set.id < NextId(g)
               \/ /\ s.set.id = NextId(g)
                  /\ \E j \in 1 .. k - 1 : Raises(u[j])
    <3>1. s.set.id \in Nat
          BY <2>4, <2>8
    <3>2. CASE s.set.id < NextId(m)
          BY <1>2, <1>3, <3>1, <3>2
    <3>3. CASE /\ s.set.id = NextId(m)
               /\ \E j \in 1 .. k : Raises(t[j])
      <4>1. PICK j \in 1 .. k : Raises(t[j])
            BY <3>3
      <4>2. CASE j = 1
            BY <1>2, <1>3, <3>1, <3>3, <4>1, <4>2
      <4>3. CASE j # 1
        <5>1. j - 1 \in 1 .. k - 1
              BY <4>3
        <5>2. u[j - 1] = t[j]
              BY <2>2, <5>1
        <5> QED
              BY <1>2, <1>3, <3>1, <3>3, <4>1, <5>1, <5>2
      <4> QED
            BY <4>2, <4>3
    <3> QED
          BY <2>4, <2>8, <3>2, <3>3
  <2> QED
        BY <2>4, <2>6, <2>7, <2>8 DEF StepOK, s
<1> QED
    BY <1>1, <1>4 DEF PlanOK, u

-----------------------------------------------------------------------------
(***************************************************************************)
(* The plans of the calls.                                                 *)
(***************************************************************************)
\* The lowest of some slots is a slot.
LEMMA LowestSlot ==
    ASSUME NEW S, S \subseteq Slots, S # {}
    PROVE  Atomic!Lowest(S) \in Slots
<1> DEFINE R == {ss \in Nat \X Nat : ss[1] < ss[2]}
<1>1. S \in SUBSET Nat
      BY StoresAssumption DEF Slots
<1>2. IsWellFoundedOn(R, Nat)
      BY NatLessThanWellFounded, Zenon DEF OpToRel
<1>3. \E x \in S : \A y \in S : ~(<<y, x>> \in R)
  <2> HIDE DEF R
  <2> QED
      BY <1>1, <1>2, WFMin, Zenon
<1>4. PICK x \in S : \A y \in S : ~(<<y, x>> \in R)
      BY <1>3
<1>5. ASSUME NEW y \in S  PROVE x <= y
  <2>1. x \in Nat /\ y \in Nat
        BY <1>1
  <2>2. y < x => <<y, x>> \in R
        BY <2>1
  <2> QED
        BY <1>4, <2>1, <2>2
<1>6. Atomic!Lowest(S) \in S
      BY <1>5 DEF Atomic!Lowest
<1> QED
    BY <1>6

LEMMA FreePlan ==
    ASSUME NEW m, NEW i \in Slots
    PROVE  PlanOK(m, FreeStores(m, i))
<1> DEFINE h == heap_free_block(m, m.slot[i].off - HDR)
           e == <<W("slot", i, Atomic!EmptySlot)>>
           p == Persisted(e, PersistSlot(i))
<1>1. FreeStores(m, i) = h \o p
      BY DEF FreeStores
<1>2. PlainStores(h)
      BY FreeBlockStores
<1> HIDE DEF h
<1>3. PlainStores(e)
      BY SlotStore, PlainTuple DEF Atomic!EmptySlot
<1> HIDE DEF e
<1>4. PlainStores(p)
      BY <1>3, PlainPersisted
<1> HIDE DEF p
<1>5. PlainStores(h \o p)
      BY <1>2, <1>4, PlainConcat
<1> QED
    BY <1>1, <1>5, PlainPlan

LEMMA ResizePlan ==
    ASSUME NEW m, NEW i \in Slots, NEW size
    PROVE  PlanOK(m, ResizeStores(m, i, size))
<1> DEFINE b     == m.slot[i].off - HDR
           total == Atomic!NeedTotal(size)
           moves == total > m.blk[b].total_size /\ ~CanGrowInPlace(m, b, total)
           nb    == IF moves THEN FitLink(m, total) - 1 ELSE b
           s     == IF total <= m.blk[b].total_size THEN ShrinkStores(m, b, total)
                    ELSE IF moves THEN RelocateStores(m, b, total)
                    ELSE GrowStores(m, b, total)
           x     == nb + HDR
           c     == Run(m, s).blk[nb].payload_cap
           place == IF moves THEN <<W("slot", i, [off |-> x])>> ELSE <<>>
           e     == <<W("slot", i, [capacity |-> c, used_size |-> size])>>
           p     == Persisted(e, PersistSlot(i))
<1>1. ResizeStores(m, i, size) = s \o place \o p
      BY DEF ResizeStores
<1> HIDE DEF b, total, nb, c, x
<1>2. PlainStores(s)
      BY ShrinkHeap, RelocateHeap, GrowHeap
<1> HIDE DEF s, moves
<1>3. PlainStores(e) /\ PlainStores(place)
      BY SlotStore, PlainTuple
<1> HIDE DEF e, place
<1>4. PlainStores(p)
      BY <1>3, PlainPersisted
<1> HIDE DEF p
<1>5. PlainStores(s \o place)
      BY <1>2, <1>3, PlainConcat
<1>6. PlainStores(s \o place \o p)
      BY <1>4, <1>5, PlainConcat
<1> QED
    BY <1>1, <1>6, PlainPlan

LEMMA PermsPlan ==
    ASSUME NEW m, NEW b, NEW perms
    PROVE  PlanOK(m, SetPermsStores(m, b, perms))
<1> DEFINE S == Atomic!SlotsOfId(m.slot, m.blk[b].obj_id)
           i == Atomic!Lowest(S)
           h == <<W("blk", b, [perms |-> perms])>>
           e == <<W("slot", i, [perms |-> perms])>>
           p == Persisted(h, PersistBlk(b))
           q == IF S = {} THEN <<>> ELSE Persisted(e, PersistSlot(i))
<1>1. SetPermsStores(m, b, perms) = p \o q
      BY DEF SetPermsStores
<1>2. S \subseteq Slots
      BY DEF Atomic!SlotsOfId, Atomic!Slots, Slots
<1> HIDE DEF S
<1>3. S # {} => i \in Slots
      BY <1>2, LowestSlot
<1> HIDE DEF i
<1>4. PlainStores(h) /\ (S # {} => PlainStores(e))
      BY <1>3, BlkStore, SlotStore, PlainTuple
<1> HIDE DEF h, e
<1>5. PlainStores(p) /\ PlainStores(q)
      BY <1>4, PlainTuple, PlainPersisted
<1> HIDE DEF p, q
<1>6. PlainStores(p \o q)
      BY <1>5, PlainConcat
<1> QED
    BY <1>1, <1>6, PlainPlan

\* t is s followed by two stores and by five more.
After(t, s, a, b, c, d, e, f, g) ==
    /\ IsSeq(t) /\ Len(s) \in Nat /\ Len(t) = Len(s) + 7
    /\ \A k \in 1 .. Len(s) : t[k] = s[k]
    /\ t[Len(s) + 1] = a /\ t[Len(s) + 2] = b
    /\ t[Len(s) + 3] = c /\ t[Len(s) + 4] = d /\ t[Len(s) + 5] = e
    /\ t[Len(s) + 6] = f /\ t[Len(s) + 7] = g

LEMMA AfterIs ==
    ASSUME NEW s, IsSeq(s), NEW a, NEW b, NEW c, NEW d, NEW e, NEW f, NEW g
    PROVE  After((s \o <<a, b>>) \o <<c, d, e, f, g>>, s, a, b, c, d, e, f, g)
<1> DEFINE pre  == <<a, b>>
           post == <<c, d, e, f, g>>
           v    == s \o pre
           t    == v \o post
<1>1. pre \in Seq({a, b}) /\ post \in Seq({c, d, e, f, g})
      OBVIOUS
<1>2. IsSeq(pre) /\ IsSeq(post)
      BY <1>1 DEF IsSeq
<1>3. Len(pre) = 2 /\ Len(post) = 5
      OBVIOUS
<1>4. /\ pre[1] = a /\ pre[2] = b /\ post[1] = c /\ post[2] = d /\ post[3] = e
      /\ post[4] = f /\ post[5] = g
      OBVIOUS
<1> HIDE DEF pre, post
<1>5. Joined(v, s, pre)
      BY <1>2, ConcatIs
<1> HIDE DEF v
<1>6. IsSeq(v)
      BY <1>5 DEF Joined
<1>7. Joined(t, v, post)
      BY <1>2, <1>6, ConcatIs
<1> HIDE DEF t
<1>8. /\ Len(s) \in Nat /\ Len(v) = Len(s) + 2
      /\ \A k \in 1 .. Len(s) : v[k] = s[k]
      /\ v[Len(s) + 1] = a /\ v[Len(s) + 2] = b
      BY <1>3, <1>4, <1>5 DEF Joined
<1>9. /\ IsSeq(t) /\ Len(t) = (Len(s) + 2) + 5
      /\ \A k \in 1 .. Len(s) + 2 : t[k] = v[k]
      /\ \A k \in 1 .. 5 : t[(Len(s) + 2) + k] = post[k]
      BY <1>3, <1>7, <1>8 DEF Joined
<1>10. /\ t[Len(s) + 3] = c /\ t[Len(s) + 4] = d /\ t[Len(s) + 5] = e
       /\ t[Len(s) + 6] = f /\ t[Len(s) + 7] = g
  <2>1. /\ (Len(s) + 2) + 1 = Len(s) + 3 /\ (Len(s) + 2) + 2 = Len(s) + 4
        /\ (Len(s) + 2) + 3 = Len(s) + 5 /\ (Len(s) + 2) + 4 = Len(s) + 6
        /\ (Len(s) + 2) + 5 = Len(s) + 7
        BY <1>8
  <2> QED
        BY <1>4, <1>9, <2>1
<1>11. After(t, s, a, b, c, d, e, f, g)
  <2>1. /\ \A k \in 1 .. Len(s) : t[k] = s[k]
        /\ t[Len(s) + 1] = a /\ t[Len(s) + 2] = b
    <3>1. Len(s) \in Nat
          BY <1>8
    <3>2. ASSUME NEW k \in 1 .. Len(s)
          PROVE  t[k] = s[k]
      <4>1. k \in 1 .. Len(s) + 2
            BY <3>1
      <4> QED
            BY <4>1, <1>8, <1>9
    <3>3. Len(s) + 1 \in 1 .. Len(s) + 2 /\ Len(s) + 2 \in 1 .. Len(s) + 2
          BY <3>1
    <3>4. t[Len(s) + 1] = v[Len(s) + 1] /\ t[Len(s) + 2] = v[Len(s) + 2]
          BY <3>3, <1>9
    <3> QED
          BY <3>2, <3>4, <1>8
  <2>2. Len(t) = Len(s) + 7
        BY <1>8, <1>9
  <2> QED
        BY <1>8, <1>9, <1>10, <2>1, <2>2 DEF After
<1> QED
    BY <1>11 DEF t, v, pre, post

LEMMA AllocPlan ==
    ASSUME NEW m, MemOK(m), IdsOK(m), Atomic!FreeSlots(m.slot) # {},
           NextId(m) # 0, NEW size, NEW user, NEW perms
    PROVE  PlanOK(m, AllocStores(m, size, user, perms))
<1> DEFINE need  == Atomic!NeedTotal(size)
           b     == FitLink(m, need) - 1
           found == heap_alloc_block(m, need)
           cap   == Run(m, found).blk[b].payload_cap
           id    == NextId(m)
           i     == Atomic!dir_find_free_slot(m.slot)
           set   == [owner |-> user, perms |-> perms, obj_id |-> id]
           wipe  == Under(b, cap)
           flush == PersistPayload(b, cap) \cup PersistBlk(b)
           N == W("rh", 0, [next_id |-> id + 1])
           L == [W("blk", b, set) EXCEPT !.wipe = wipe, !.flush = flush]
           E == W("slot", i, Atomic!EmptySlot)
           F == W("slot", i, [id |-> id])
           G == W("slot", i, [off |-> b + HDR])
           H == W("slot", i, [capacity |-> cap, used_size |-> size,
                              owner |-> user, perms |-> perms])
           lines == PersistSlot(i) \cup PersistRh
           A == [W("slot", i, [alive |-> 1]) EXCEPT !.flush = lines]
           t == (found \o <<N, L>>) \o <<E, F, G, H, A>>
           n == Len(found)
<1>1. AllocStores(m, size, user, perms) = t
      BY DEF AllocStores, AllocParts, NextId
<1>2. i \in Slots
  <2>1. Atomic!FreeSlots(m.slot) \subseteq Slots
        BY DEF Atomic!FreeSlots, Atomic!Slots, Slots
  <2> QED
        BY <2>1, LowestSlot DEF Atomic!dir_find_free_slot
<1>3. id \in Nat /\ id # 0 /\ \A j \in Slots : m.slot[j].id < id
      BY DEF IdsOK
<1>4. PlainStores(found)
      BY AllocBlockStores
<1> HIDE DEF found, b, cap, id, i, set, wipe, flush, lines
<1>5. PlainStore(L)
      BY LabelStore
<1>6. PlainStore(E)
      BY <1>2, SlotStore DEF Atomic!EmptySlot
<1>7. PlainStore(G) /\ PlainStore(H) /\ PlainStore(A)
      BY <1>2 DEF W, PlainStore, IsStore, Names
<1>8. /\ N.part = "rh" /\ N.at = 0 /\ Raises(N) /\ ~Names(N)
      /\ N.set.next_id = id + 1
      BY DEF W, Raises, Names
<1>9. /\ F.part = "slot" /\ F.at = i /\ Names(F) /\ ~Raises(F) /\ F.set.id = id
      BY <1>3 DEF W, Raises, Names
<1> HIDE DEF N, L, E, F, G, H, A
<1>10. IsSeq(found)
      BY <1>4 DEF PlainStores
<1>11. After(t, found, N, L, E, F, G, H, A)
      BY <1>10, AfterIs
<1> HIDE DEF t, n
<1>12. /\ n \in Nat /\ IsSeq(t) /\ Len(t) = n + 7
      BY <1>11 DEF After, n
<1>13. \A k \in 1 .. n : t[k] = found[k]
      BY <1>11 DEF After, n
<1>14. t[n + 1] = N /\ t[n + 2] = L
      BY <1>11 DEF After, n
<1>15. t[n + 3] = E /\ t[n + 4] = F /\ t[n + 5] = G /\ t[n + 6] = H /\ t[n + 7] = A
      BY <1>11 DEF After, n
<1>16. ASSUME NEW k \in 1 .. n + 7, k # n + 1, k # n + 4
       PROVE  PlainStore(t[k])
  <2>1. k \in 1 .. n \/ k \in {n + 2, n + 3, n + 5, n + 6, n + 7}
        BY <1>12, <1>16
  <2>2. \A j \in 1 .. n : PlainStore(found[j])
        BY <1>4 DEF PlainStores, n
  <2> QED
        BY <2>1, <2>2, <1>5, <1>6, <1>7, <1>13, <1>14, <1>15
<1>17. ASSUME NEW k \in 1 .. n + 7  PROVE StepOK(m, t, k)
  <2>1. \A j \in 1 .. n + 7 :
           /\ j # n + 1 => ~Raises(t[j])
           /\ j # n + 4 => ~Names(t[j])
    <3> TAKE j \in 1 .. n + 7
    <3>1. PlainStore(t[j]) => ~Raises(t[j]) /\ ~Names(t[j])
          BY DEF PlainStore, Raises, Names
    <3> QED
          BY <3>1, <1>8, <1>9, <1>14, <1>15, <1>16
  <2>2. \A j \in 1 .. k - 1 : j \in 1 .. n + 7 /\ j # k
        BY <1>12
  <2>3. CASE k = n + 1
    <3>1. \A j \in 1 .. k - 1 : ~Raises(t[j])
          BY <2>1, <2>2, <2>3
    <3>2. t[k] = N
          BY <1>14, <2>3
    <3> QED
          BY <3>1, <3>2, <1>8 DEF StepOK, id
  <2>4. CASE k = n + 4
    <3>1. \A j \in 1 .. k - 1 : ~Names(t[j])
          BY <2>1, <2>2, <2>4
    <3>2. t[k] = F
          BY <1>15, <2>4
    <3>3. n + 1 \in 1 .. k - 1 /\ Raises(t[n + 1])
          BY <1>8, <1>12, <1>14, <2>4
    <3> QED
          BY <3>1, <3>2, <3>3, <1>2, <1>3, <1>9 DEF StepOK, id
  <2>5. CASE k # n + 1 /\ k # n + 4
    <3>1. PlainStore(t[k])
          BY <1>16, <2>5
    <3> QED
          BY <3>1, <2>1, <2>5 DEF StepOK, PlainStore
  <2> QED
        BY <2>3, <2>4, <2>5
<1> QED
    BY <1>1, <1>12, <1>17 DEF PlanOK

-----------------------------------------------------------------------------
(***************************************************************************)
(* The reader.                                                             *)
(***************************************************************************)
\* The slots of the objects that have not changed since the iteration began,
\* and the report of one.
Found(m, r) == {i \in Live(m) : Entry(m, i) \in r.steady}
Report(m, i) == [at |-> i, entry |-> Entry(m, i)]

\* A reader, field by field.
Rd(pc, cursor, id, off, reports, steady) ==
    [pc |-> pc, cursor |-> cursor, out |-> [id |-> id, off |-> off],
     reports |-> reports, steady |-> steady]

ReaderShape(r) ==
    /\ r = Rd(r.pc, r.cursor, r.out.id, r.out.off, r.reports, r.steady)
    /\ r.cursor \in 0 .. DirCap
    /\ r.pc \in {"id", "copy_id", "copy_off", "copy_capacity"} => r.cursor \in Slots
    /\ r.pc = "done" => r.cursor = DirCap

\* What has been reported: the slots of Found before the cursor.
Reported(m, r) ==
    /\ r.steady \subseteq Entries(m)
    /\ \A i \in Found(m, r) : i < r.cursor => Report(m, i) \in r.reports
    /\ \A x \in r.reports : \E i \in Found(m, r) : i < r.cursor /\ x = Report(m, i)

\* What has been copied belongs to the slot under the cursor, if that is one
\* of Found, and to no other of them.
Copied(m, r) ==
    /\ r.pc \in {"copy_off", "copy_capacity"} =>
          \A i \in Found(m, r) : m.slot[i].id = r.out.id <=> i = r.cursor
    /\ r.pc = "copy_capacity" =>
          (r.cursor \in Found(m, r) => r.out.off = m.slot[r.cursor].off)

ReaderOK(m, r) == ReaderShape(r) /\ Reported(m, r) /\ Copied(m, r)

LEMMA RdIs ==
    ASSUME NEW a, NEW b, NEW c, NEW d, NEW e, NEW f, NEW r, r = Rd(a, b, c, d, e, f)
    PROVE  /\ r.pc = a /\ r.cursor = b /\ r.out.id = c /\ r.out.off = d
           /\ r.reports = e /\ r.steady = f
    BY DEF Rd

\* Entries tell slots apart.
LEMMA EntryIs ==
    ASSUME NEW m, NEW g, NEW i, NEW j
    PROVE  /\ Entry(m, i).id = m.slot[i].id
           /\ Entry(m, i).off = m.slot[i].off
           /\ Entry(m, i).capacity = m.slot[i].capacity
           /\ Entry(m, i) = Entry(g, j) => m.slot[i].id = g.slot[j].id
    BY DEF Entry

\* An entry of g that was steady in m was in the same slot of m.
LEMMA WasThere ==
    ASSUME NEW m, NEW g, IdsOK(m), IdsKept(m, g), NEW T, T \subseteq Entries(m),
           NEW i \in Live(g), Entry(g, i) \in T
    PROVE  i \in Live(m) /\ Entry(m, i) = Entry(g, i)
<1>1. PICK j \in Live(m) : Entry(m, j) = Entry(g, i)
      BY DEF Entries
<1>2. /\ m.slot[j].id = g.slot[i].id /\ i \in Slots /\ j \in Slots
      /\ g.slot[i].id # 0
      BY <1>1, EntryIs DEF Live
<1>3. g.slot[i].id = m.slot[i].id
      BY <1>2 DEF IdsKept
<1>4. i = j
      BY <1>2, <1>3 DEF IdsOK
<1> QED
    BY <1>1, <1>4

\* The reader after a store from m to g.
Shrunk(r, T) == [r EXCEPT !.steady = T,
                          !.reports = {x \in r.reports : x.entry \in T}]

LEMMA StoreReader ==
    ASSUME NEW m, NEW g, IdsOK(m), IdsKept(m, g), NEW r, ReaderOK(m, r),
           NEW T, T = r.steady \cap Entries(g)
    PROVE  ReaderOK(g, Shrunk(r, T))
<1> DEFINE q == Shrunk(r, T)
           R == {x \in r.reports : x.entry \in T}
<1>1. q = Rd(r.pc, r.cursor, r.out.id, r.out.off, R, T)
  <2> HIDE DEF R
  <2>1. PICK a, b, c, d, e, f : r = Rd(a, b, c, d, e, f)
        BY DEF ReaderOK, ReaderShape
  <2>2. q = [r EXCEPT !.steady = T, !.reports = R]
        BY DEF Shrunk, R
  <2> HIDE DEF q
  <2>3. q = Rd(a, b, c, d, R, T)
        BY <2>1, <2>2 DEF Rd
  <2>4. r.pc = a /\ r.cursor = b /\ r.out.id = c /\ r.out.off = d
        BY <2>1, RdIs
  <2> QED
        BY <2>3, <2>4
<1> HIDE DEF q, R
<1>2. /\ q.pc = r.pc /\ q.cursor = r.cursor /\ q.out.id = r.out.id
      /\ q.out.off = r.out.off /\ q.steady = T /\ q.reports = R
      BY <1>1, RdIs
<1>3. ReaderShape(q)
      BY <1>1, <1>2 DEF ReaderOK, ReaderShape
<1> USE DEF R
<1>4. r.steady \subseteq Entries(m)
      BY DEF ReaderOK, Reported
<1>5. ASSUME NEW i \in Found(g, q)
      PROVE  i \in Found(m, r) /\ Entry(m, i) = Entry(g, i)
  <2>1. i \in Live(g) /\ Entry(g, i) \in r.steady
        BY <1>2 DEF Found
  <2>2. i \in Live(m) /\ Entry(m, i) = Entry(g, i)
        BY <1>4, <2>1, WasThere
  <2> QED
        BY <2>1, <2>2 DEF Found
<1>6. \A i \in Found(g, q) : i < q.cursor => Report(g, i) \in q.reports
  <2> TAKE i \in Found(g, q)
  <2>1. i \in Found(m, r) /\ Entry(m, i) = Entry(g, i) /\ Entry(g, i) \in T
        BY <1>2, <1>5 DEF Found
  <2>2. Report(g, i) = Report(m, i) /\ Report(g, i).entry \in T
        BY <2>1 DEF Report
  <2>3. i < r.cursor => Report(m, i) \in r.reports
        BY <2>1 DEF ReaderOK, Reported
  <2> QED
        BY <1>2, <2>2, <2>3
<1>7. \A x \in q.reports : \E i \in Found(g, q) : i < q.cursor /\ x = Report(g, i)
  <2> TAKE x \in q.reports
  <2>1. x \in r.reports /\ x.entry \in T
        BY <1>2
  <2>2. PICK i \in Found(m, r) : i < r.cursor /\ x = Report(m, i)
        BY <2>1 DEF ReaderOK, Reported
  <2>3. Entry(m, i) \in T /\ i \in Live(m)
        BY <2>1, <2>2 DEF Report, Found
  <2>4. PICK j \in Live(g) : Entry(g, j) = Entry(m, i)
        BY <2>3 DEF Entries
  <2>5. j \in Found(g, q)
        BY <1>2, <2>3, <2>4 DEF Found
  <2>6. j \in Found(m, r) /\ Entry(m, j) = Entry(g, j)
        BY <1>5, <2>5
  <2>7. /\ m.slot[i].id = m.slot[j].id /\ m.slot[i].id # 0
        /\ i \in Slots /\ j \in Slots
        BY <2>3, <2>4, <2>6, EntryIs DEF Live, Found
  <2>8. i = j
        BY <2>7 DEF IdsOK
  <2> QED
        BY <1>2, <2>2, <2>4, <2>5, <2>8 DEF Report
<1>8. Reported(g, q)
  <2>1. q.steady \subseteq Entries(g)
        BY <1>2
  <2> QED
      BY <1>6, <1>7, <2>1 DEF Reported
<1>9. Copied(g, q)
  <2>1. ASSUME NEW i \in Found(g, q)
        PROVE  /\ i \in Found(m, r) /\ g.slot[i].id = m.slot[i].id
               /\ g.slot[i].off = m.slot[i].off
        BY <1>5, EntryIs
  <2>2. Copied(m, r)
        BY DEF ReaderOK
  <2>3. q.pc \in {"copy_off", "copy_capacity"} =>
          \A i \in Found(g, q) : g.slot[i].id = q.out.id <=> i = q.cursor
        BY <1>2, <2>1, <2>2 DEF Copied
  <2>4. q.pc = "copy_capacity" =>
          (q.cursor \in Found(g, q) => q.out.off = g.slot[q.cursor].off)
        BY <1>2, <2>1, <2>2 DEF Copied
  <2> QED
        BY <2>3, <2>4 DEF Copied
<1> QED
    BY <1>3, <1>8, <1>9 DEF ReaderOK, q

\* The reader that has not begun, or has ended.
LEMMA IdleOK == \A m : ReaderOK(m, IdleReader)
<1> TAKE m
<1> DEFINE r == IdleReader
<1>1. r = Rd("idle", 0, 0, 0, {}, {})
      BY DEF IdleReader, NoEntry, Rd
<1>2. /\ r.pc = "idle" /\ r.cursor = 0 /\ r.out.id = 0 /\ r.out.off = 0
      /\ r.reports = {} /\ r.steady = {}
      BY <1>1, RdIs
<1> HIDE DEF r
<1> QED
    BY <1>1, <1>2, StoresAssumption
    DEF ReaderOK, ReaderShape, Reported, Copied, Found, r

\* The reader keeps its part of the invariant.
LEMMA ReaderKeeps ==
    ASSUME MemOK(mem), IdsOK(mem), ReaderOK(mem, rd), Reader
    PROVE  ReaderOK(mem, rd')
<1>1. PICK a, b, c, d, e, f : rd = Rd(a, b, c, d, e, f)
      BY DEF ReaderOK, ReaderShape
<1>2. /\ rd.pc = a /\ rd.cursor = b /\ rd.out.id = c /\ rd.out.off = d
      /\ rd.reports = e /\ rd.steady = f
      BY <1>1, RdIs
<1>3. /\ b \in 0 .. DirCap
      /\ a \in {"id", "copy_id", "copy_off", "copy_capacity"} => b \in Slots
      /\ a = "done" => b = DirCap
      BY <1>2 DEF ReaderOK, ReaderShape
<1> DEFINE S == {i \in Live(mem) : Entry(mem, i) \in f}
<1>4. \A r : r.steady = f => Found(mem, r) = S
      BY DEF Found
<1>5. /\ f \subseteq Entries(mem)
      /\ \A i \in S : i < b => Report(mem, i) \in e
      /\ \A x \in e : \E i \in S : i < b /\ x = Report(mem, i)
      BY <1>2, <1>4 DEF ReaderOK, Reported
<1>6. /\ a \in {"copy_off", "copy_capacity"} =>
           \A i \in S : mem.slot[i].id = c <=> i = b
      /\ a = "copy_capacity" => (b \in S => d = mem.slot[b].off)
      BY <1>2, <1>4 DEF ReaderOK, Copied
<1>7. \A i \in S : i \in Slots /\ mem.slot[i].alive = 1 /\ mem.slot[i].id # 0
      BY DEF Live
<1>8. \A i \in Slots : i \in Int /\ 0 <= i /\ i < DirCap
      BY StoresAssumption DEF Slots
<1> HIDE DEF S
\* A step to pc x with the cursor where it is.
<1>9. ASSUME NEW x, NEW y, NEW z, rd' = Rd(x, b, y, z, e, f),
             x \in {"id", "copy_id", "copy_off", "copy_capacity"} => b \in Slots,
             x = "done" => b = DirCap,
             x \in {"copy_off", "copy_capacity"} =>
                \A i \in S : mem.slot[i].id = y <=> i = b,
             x = "copy_capacity" => (b \in S => z = mem.slot[b].off)
      PROVE  ReaderOK(mem, rd')
  <2>1. /\ rd'.pc = x /\ rd'.cursor = b /\ rd'.out.id = y /\ rd'.out.off = z
        /\ rd'.reports = e /\ rd'.steady = f
        BY <1>9, RdIs
  <2>2. Found(mem, rd') = S
        BY <1>4, <2>1
  <2>3. ReaderShape(rd')
        BY <1>3, <1>9, <2>1 DEF ReaderShape
  <2>4. Reported(mem, rd')
        BY <1>5, <2>1, <2>2 DEF Reported
  <2>5. Copied(mem, rd')
        BY <1>9, <2>1, <2>2 DEF Copied
  <2> QED
        BY <2>3, <2>4, <2>5 DEF ReaderOK
\* A step that leaves the slot under the cursor, with the reports R.
<1>10. ASSUME NEW R, NEW y, NEW z, b \in Slots, rd' = Rd("alive", b + 1, y, z, R, f),
              R = e \cup (IF b \in S THEN {Report(mem, b)} ELSE {})
       PROVE  ReaderOK(mem, rd')
  <2>1. /\ rd'.pc = "alive" /\ rd'.cursor = b + 1 /\ rd'.out.id = y
        /\ rd'.out.off = z /\ rd'.reports = R /\ rd'.steady = f
        BY <1>10, RdIs
  <2>2. Found(mem, rd') = S
        BY <1>4, <2>1
  <2>3. b \in Int /\ b + 1 \in 0 .. DirCap
        BY <1>8, <1>10, StoresAssumption
  <2>4. ReaderShape(rd')
        BY <1>10, <2>1, <2>3 DEF ReaderShape
  <2>5. \A i \in S : i < b + 1 <=> i < b \/ i = b
        BY <1>7, <1>8, <2>3
  <2>6. \A i \in S : i < b + 1 => Report(mem, i) \in R
        BY <1>5, <1>10, <2>5
  <2>7. \A x \in R : \E i \in S : i < b + 1 /\ x = Report(mem, i)
    <3> TAKE x \in R
    <3>1. CASE x \in e
      <4>1. PICK i \in S : i < b /\ x = Report(mem, i)
            BY <1>5, <3>1
      <4> QED
            BY <2>5, <4>1
    <3>2. CASE b \in S /\ x = Report(mem, b)
          BY <2>5, <3>2
    <3> QED
          BY <1>10, <3>1, <3>2
  <2>8. Reported(mem, rd')
        BY <1>5, <2>1, <2>2, <2>6, <2>7 DEF Reported
  <2>9. Copied(mem, rd')
        BY <2>1 DEF Copied
  <2> QED
        BY <2>4, <2>8, <2>9 DEF ReaderOK
<1>11. CASE ReaderBegins
  <2>1. rd' = [IdleReader EXCEPT !.pc = "alive", !.steady = Entries(mem)]
        BY <1>11 DEF ReaderBegins
  <2>2. rd' = Rd("alive", 0, 0, 0, {}, Entries(mem))
        BY <2>1 DEF IdleReader, NoEntry, Rd
  <2>3. /\ rd'.pc = "alive" /\ rd'.cursor = 0 /\ rd'.out.id = 0
        /\ rd'.out.off = 0 /\ rd'.reports = {} /\ rd'.steady = Entries(mem)
        BY <2>2, RdIs
  <2>4. ReaderShape(rd')
        BY <2>2, <2>3, StoresAssumption DEF ReaderShape
  <2>5. \A i \in Found(mem, rd') : ~(i < 0)
        BY <1>8 DEF Found, Live
  <2>6. Reported(mem, rd')
        BY <2>3, <2>5 DEF Reported
  <2>7. Copied(mem, rd')
        BY <2>3 DEF Copied
  <2> QED
        BY <2>4, <2>6, <2>7 DEF ReaderOK
<1>12. CASE ReadAlive
  <2>1. /\ a = "alive"
        /\ rd' = IF b = DirCap THEN [rd EXCEPT !.pc = "done"]
                 ELSE IF mem.slot[b].alive = 1 THEN [rd EXCEPT !.pc = "id"]
                 ELSE [rd EXCEPT !.cursor = @ + 1]
        BY <1>2, <1>12 DEF ReadAlive
  <2>2. CASE b = DirCap
    <3>1. rd' = Rd("done", b, c, d, e, f)
          BY <1>1, <2>1, <2>2 DEF Rd
    <3> QED
          BY <3>1, <1>9, <2>2
  <2>3. CASE b # DirCap
    <3>1. b \in Slots
          BY <1>3, <2>3, StoresAssumption DEF Slots
    <3>2. CASE mem.slot[b].alive = 1
      <4>1. rd' = Rd("id", b, c, d, e, f)
            BY <1>1, <2>1, <2>3, <3>2 DEF Rd
      <4> QED
            BY <4>1, <1>9, <3>1
    <3>3. CASE mem.slot[b].alive # 1
      <4>1. rd' = Rd("alive", b + 1, c, d, e, f)
            BY <1>1, <2>1, <2>3, <3>3 DEF Rd
      <4>2. b \notin S
            BY <1>7, <3>3
      <4>3. e = e \cup (IF b \in S THEN {Report(mem, b)} ELSE {})
            BY <4>2
      <4> QED
            BY <1>10, <3>1, <4>1, <4>3
    <3> QED
          BY <3>2, <3>3
  <2> QED
        BY <2>2, <2>3
<1>13. CASE ReadId
  <2>1. /\ a = "id" /\ b \in Slots
        /\ rd' = IF mem.slot[b].id # 0 THEN [rd EXCEPT !.pc = "copy_id"]
                 ELSE [rd EXCEPT !.cursor = @ + 1, !.pc = "alive"]
        BY <1>2, <1>3, <1>13 DEF ReadId
  <2>2. CASE mem.slot[b].id # 0
    <3>1. rd' = Rd("copy_id", b, c, d, e, f)
          BY <1>1, <2>1, <2>2 DEF Rd
    <3> QED
          BY <3>1, <1>9, <2>1
  <2>3. CASE mem.slot[b].id = 0
    <3>1. rd' = Rd("alive", b + 1, c, d, e, f)
          BY <1>1, <2>1, <2>3 DEF Rd
    <3>2. b \notin S
          BY <1>7, <2>3
    <3>3. e = e \cup (IF b \in S THEN {Report(mem, b)} ELSE {})
          BY <3>2
    <3> QED
          BY <1>10, <2>1, <3>1, <3>3
  <2> QED
        BY <2>2, <2>3
<1>14. CASE CopyId
  <2>1. /\ a = "copy_id" /\ b \in Slots
        /\ rd' = [rd EXCEPT !.pc = "copy_off", !.out.id = mem.slot[b].id]
        BY <1>2, <1>3, <1>14 DEF CopyId
  <2>2. rd' = Rd("copy_off", b, mem.slot[b].id, d, e, f)
        BY <1>1, <2>1 DEF Rd
  <2>3. \A i \in S : mem.slot[i].id = mem.slot[b].id <=> i = b
        BY <1>7, <2>1 DEF IdsOK
  <2> QED
        BY <1>9, <2>1, <2>2, <2>3
<1>15. CASE CopyOff
  <2>1. /\ a = "copy_off" /\ b \in Slots
        /\ rd' = [rd EXCEPT !.pc = "copy_capacity", !.out.off = mem.slot[b].off]
        BY <1>2, <1>3, <1>15 DEF CopyOff
  <2>2. rd' = Rd("copy_capacity", b, c, mem.slot[b].off, e, f)
        BY <1>1, <2>1 DEF Rd
  <2> QED
        BY <1>6, <1>9, <2>1, <2>2
<1>16. CASE CopyCapacity
  <2> DEFINE n == [id |-> c, off |-> d, capacity |-> mem.slot[b].capacity]
             x == [at |-> b, entry |-> n]
             R == IF n \in f THEN e \cup {x} ELSE e
  <2>1. /\ a = "copy_capacity" /\ b \in Slots
        /\ rd' = [rd EXCEPT !.pc = "alive", !.cursor = @ + 1, !.out = NoEntry,
                            !.reports = IF n \in f THEN @ \cup {x} ELSE @]
        BY <1>2, <1>3, <1>16 DEF CopyCapacity
  <2>2. rd' = Rd("alive", b + 1, 0, 0, R, f)
        BY <1>1, <2>1 DEF Rd, NoEntry
  <2>3. b \in S => n = Entry(mem, b)
        BY <1>6, <2>1 DEF Entry
  <2>4. n \in f => b \in S
    <3> SUFFICES ASSUME n \in f  PROVE b \in S
        OBVIOUS
    <3>1. PICK i \in Live(mem) : Entry(mem, i) = n
          BY <1>5 DEF Entries
    <3>2. i \in S
          BY <3>1 DEF S
    <3>3. mem.slot[i].id = c
          BY <3>1, EntryIs
    <3> QED
          BY <1>6, <2>1, <3>2, <3>3
  <2>5. b \in S => n \in f
        BY <2>3 DEF S
  <2>6. b \in S => x = Report(mem, b)
        BY <2>3 DEF Report
  <2>7. R = e \cup (IF b \in S THEN {Report(mem, b)} ELSE {})
        BY <2>4, <2>5, <2>6
  <2> HIDE DEF R, x, n
  <2> QED
        BY <1>10, <2>1, <2>2, <2>7
<1>17. CASE ReaderEnds
      BY <1>17, IdleOK DEF ReaderEnds
<1> QED
    BY <1>11, <1>12, <1>13, <1>14, <1>15, <1>16, <1>17 DEF Reader

-----------------------------------------------------------------------------
(***************************************************************************)
(* The invariant.                                                          *)
(***************************************************************************)
IterInv == /\ MemOK(mem) /\ IdsOK(mem) /\ PlanOK(mem, todo)
           /\ NextId(mem) # 0 /\ ReaderOK(mem, rd)

LEMMA InitIter == Init => IterInv
<1> SUFFICES ASSUME Init  PROVE IterInv
    OBVIOUS
<1>1. mem = InitMem /\ todo = <<>> /\ rd = IdleReader
      BY DEF Init
<1>2. MemOK(InitMem) /\ NextId(InitMem) = 1
      BY DEF MemOK, InitMem, NextId, Atomic!EmptySlot
<1>3. \A i \in Slots : InitMem.slot[i].id = 0
      BY DEF InitMem, Atomic!EmptySlot
<1>4. IdsOK(InitMem)
      BY <1>2, <1>3 DEF IdsOK
<1>5. PlanOK(mem, <<>>)
      BY PlainTuple, PlainPlan
<1> QED
    BY <1>1, <1>2, <1>4, <1>5, IdleOK DEF IterInv

LEMMA NextIter == IterInv /\ [Next]_vars => IterInv'
<1> SUFFICES ASSUME IterInv, [Next]_vars  PROVE IterInv'
    OBVIOUS
<1>1. /\ MemOK(mem) /\ IdsOK(mem) /\ PlanOK(mem, todo) /\ NextId(mem) # 0
      /\ ReaderOK(mem, rd)
      BY DEF IterInv
\* A call that begins with the stores s.
<1>2. ASSUME NEW name, NEW s, region_lock(name, s), PlanOK(mem, s)
      PROVE  IterInv'
      BY <1>1, <1>2 DEF region_lock, IterInv
<1>3. PlanOK(mem, <<>>)
      BY PlainTuple, PlainPlan
<1>4. CASE Call
  <2>1. ASSUME NEW n \in PayloadSizes, NEW u \in Users, NEW p \in ObjPerms,
               shm_alloc(n, u, p)
        PROVE  IterInv'
    <3>1. /\ Atomic!FreeSlots(mem.slot) # {}
          /\ region_lock("shm_alloc", AllocStores(mem, n, u, p))
          BY <2>1 DEF shm_alloc
    <3>2. PlanOK(mem, AllocStores(mem, n, u, p))
          BY <1>1, <3>1, AllocPlan
    <3> QED
          BY <1>2, <3>1, <3>2
  <2>2. ASSUME NEW id, NEW i \in Slots, NEW u, NEW cp, shm_free(id, i, u, cp)
        PROVE  IterInv'
    <3>1. region_lock("shm_free", FreeStores(mem, i))
          BY <2>2 DEF shm_free
    <3> QED
          BY <1>2, <3>1, FreePlan
  <2>3. ASSUME NEW id, NEW i \in Slots, NEW u, NEW cp, NEW n,
               shm_resize(id, i, n, u, cp)
        PROVE  IterInv'
    <3>1. \/ region_lock("shm_resize", ResizeStores(mem, i, n))
          \/ region_lock("SIGSEGV", <<>>)
          BY <2>3 DEF shm_resize
    <3> QED
          BY <1>2, <1>3, <3>1, ResizePlan
  <2>4. ASSUME NEW b, NEW u, NEW cp, NEW p, shm_block_set_perms(b, u, cp, p)
        PROVE  IterInv'
    <3>1. region_lock("shm_block_set_perms", SetPermsStores(mem, b, p))
          BY <2>4 DEF shm_block_set_perms
    <3> QED
          BY <1>2, <3>1, PermsPlan
  <2> QED
        BY <1>4, <2>1, <2>2, <2>3, <2>4 DEF Call
<1>5. CASE Store
  <2> DEFINE g == Apply(mem, todo[1])
             T == rd.steady \cap Entries(g)
  <2>1. /\ todo # <<>> /\ mem' = g /\ todo' = Tail(todo)
        /\ rd' = [rd EXCEPT !.steady = T,
                            !.reports = {r \in @ : r.entry \in T}]
        BY <1>5 DEF Store
  <2>2. rd' = Shrunk(rd, T)
        BY <2>1 DEF Shrunk
  <2>3. /\ MemOK(g) /\ IdsOK(g) /\ IdsKept(mem, g) /\ PlanOK(g, Tail(todo))
        /\ NextId(g) = IF Raises(todo[1]) THEN NextId(mem) + 1 ELSE NextId(mem)
        BY <1>1, <2>1, StoreIds, StorePlan
  <2> HIDE DEF g
  <2>4. NextId(g) # 0
        BY <1>1, <2>3 DEF IdsOK
  <2>5. ReaderOK(g, Shrunk(rd, T))
        BY <1>1, <2>3, StoreReader
  <2> HIDE DEF T
  <2> QED
        BY <2>1, <2>2, <2>3, <2>4, <2>5 DEF IterInv
<1>6. CASE Die
      BY <1>1, <1>3, <1>6 DEF Die, IterInv
<1>7. CASE Reader
  <2>1. mem' = mem /\ todo' = todo
        BY <1>7 DEF Reader
  <2>2. ReaderOK(mem, rd')
        BY <1>1, <1>7, ReaderKeeps
  <2> QED
        BY <1>1, <2>1, <2>2 DEF IterInv
<1>8. CASE UNCHANGED vars
      BY <1>1, <1>8 DEF vars, IterInv
<1> QED
    BY <1>4, <1>5, <1>6, <1>7, <1>8 DEF Next

\* The reports are complete when the cursor has passed all slots.
LEMMA IterationFollows == IterInv => IterationComplete
<1> SUFFICES ASSUME IterInv, rd.pc = "done", NEW n \in rd.steady
             PROVE  \E r \in rd.reports :
                       /\ r.entry = n
                       /\ \A q \in rd.reports : q.entry = n => q = r
    BY DEF IterationComplete
<1>1. Reported(mem, rd) /\ rd.cursor = DirCap /\ IdsOK(mem)
      BY DEF IterInv, ReaderOK, ReaderShape
<1>2. PICK i \in Live(mem) : Entry(mem, i) = n
      BY <1>1 DEF Reported, Entries
<1>3. i \in Found(mem, rd) /\ i \in Slots /\ mem.slot[i].id # 0
      BY <1>2 DEF Found, Live
<1>4. i < rd.cursor
      BY <1>1, <1>3, StoresAssumption DEF Slots
<1>5. Report(mem, i) \in rd.reports /\ Report(mem, i).entry = n
      BY <1>1, <1>2, <1>3, <1>4 DEF Reported, Report
<1>6. ASSUME NEW q \in rd.reports, q.entry = n  PROVE q = Report(mem, i)
  <2>1. PICK j \in Found(mem, rd) : q = Report(mem, j)
        BY <1>1 DEF Reported
  <2>2. Entry(mem, j) = n /\ j \in Slots
        BY <1>6, <2>1 DEF Report, Found, Live
  <2>3. mem.slot[j].id = mem.slot[i].id
        BY <1>2, <2>2, EntryIs
  <2>4. i = j
        BY <1>1, <1>3, <2>2, <2>3 DEF IdsOK
  <2> QED
        BY <2>1, <2>4
<1> QED
    BY <1>5, <1>6

\* An iteration with shm_dir_next, which reads the directory field by field
\* and without the mutex, reports every object that lives unchanged from its
\* start to its end exactly once and as it is, while other processes clear,
\* write and reuse slots and die at any store of any call.
THEOREM IterationIsComplete == Spec => []IterationComplete
<1>1. Init => IterInv
      BY InitIter
<1>2. IterInv /\ [Next]_vars => IterInv'
      BY NextIter
<1>3. IterInv => IterationComplete
      BY IterationFollows
<1> QED
    BY <1>1, <1>2, <1>3, PTL DEF Spec

\* No two slots have the same id and next_id is past all of them, though
\* processes die at any store of any call and leave slots half written.
THEOREM IdsAreUnique == Spec => []IdsUnique
<1>1. Init => IterInv
      BY InitIter
<1>2. IterInv /\ [Next]_vars => IterInv'
      BY NextIter
<1>3. IterInv => IdsUnique
      BY DEF IterInv, IdsOK, NextId, IdsUnique
<1> QED
    BY <1>1, <1>2, <1>3, PTL DEF Spec
=============================================================================
