---------------------------- MODULE ShmCapProofs ----------------------------
(***************************************************************************)
(* Capabilities are sound, for any number of capabilities and objects, as  *)
(* long as no two object ids have the same epoch.                          *)
(***************************************************************************)
EXTENDS ShmCap, ShmAllocProofs

\* A capability is for an object whose id was issued, tagged with that id's
\* epoch, and grants no more than was available.
CapOK(c, n) ==
    /\ c \in Cap
    /\ c.perms \subseteq c.avail
    /\ c.obj \in 1 .. n - 1
    /\ c.epoch = c.obj % EpochMod

\* The inductive invariant.
CapInv ==
    /\ IInv
    /\ next_id <= MaxId + 1
    /\ \A c \in caps : CapOK(c, next_id)

\* At first there is no capability.
LEMMA CapInitInv == CapInit => CapInv
<1> SUFFICES ASSUME CapInit  PROVE CapInv
      OBVIOUS
<1>1. IInv
      BY InitIInv DEF CapInit
<1>2. next_id = 1 /\ caps = {}
      BY DEF CapInit, Init
<1>3. MaxId \in Nat
      BY InputAssumption
<1>4. next_id <= MaxId + 1
      BY <1>2, <1>3
<1> QED
    BY <1>1, <1>2, <1>4 DEF CapInv

\* Capabilities stay sound while the allocator works.
LEMMA AllocatorStepKeeps ==
    ASSUME CapInv, AllocatorStep
    PROVE  CapInv'
<1>0. IInv /\ Next /\ next_id <= MaxId + 1 /\ caps' = caps
      BY DEF CapInv, AllocatorStep
<1>1. IInv'
      BY <1>0, NextIInv
<1>2. next_id' \in Nat /\ next_id <= next_id' /\ next_id' <= MaxId + 1
      BY <1>0, IdsGrow
<1>3. next_id \in Nat
      BY <1>0 DEF IInv, TypeOK
<1>4. ASSUME NEW c \in caps
      PROVE  CapOK(c, next_id')
      BY <1>2, <1>3 DEF CapInv, CapOK
<1> QED
    BY <1>0, <1>1, <1>2, <1>4 DEF CapInv

\* A block in use belongs to an object whose id was issued.
LEMMA UsedHasId ==
    ASSUME IInv, ~Crashed, NEW b \in Used(heap)
    PROVE  \E i \in Live(dir) :
              /\ At(dir, i) = b /\ dir[i].id = heap.blk[b].obj_id
              /\ dir[i].perms = heap.blk[b].perms
              /\ heap.blk[b].obj_id \in 1 .. next_id - 1
<1>1. DirOK(heap, dir, next_id)
      BY DEF IInv
<1>2. PICK i \in Live(dir) : At(dir, i) = b
      BY <1>1 DEF DirOK
<1> QED
    BY <1>1, <1>2 DEF DirOK, Agrees

\* The offsets that callers present are natural numbers.
LEMMA PayloadOffsetIs ==
    ASSUME NEW off \in PayloadOffsets
    PROVE  off \in Nat
<1>1. PICK k \in 0 .. (HeapSize - BLOCK_MIN) \div HEAP_ALIGN :
          off = shm_poff_of_blk(HEAP_ALIGN * k)
      BY DEF PayloadOffsets
<1>2. k \in Nat
      BY <1>1
<1> QED
    BY <1>1, <1>2 DEF shm_poff_of_blk, HDR, HEAP_ALIGN

\* A derived capability is sound.
LEMMA DeriveKeeps ==
    ASSUME CapInv, NEW off \in PayloadOffsets, NEW u \in Users,
           NEW cp \in CallerPerms, NEW grant \in GrantPerms,
           shm_cap_derive(off, u, cp, grant)
    PROVE  CapInv'
<1> DEFINE b == shm_blk_of_poff(off)
           x == heap.blk[b]
           ep == x.obj_id % EpochMod
           av == x.perms \cap cp
           c == [addr |-> off, perms |-> grant, epoch |-> ep,
                 bounds |-> x.payload_cap, obj |-> x.obj_id, avail |-> av]
<1>0. /\ IInv /\ ~Crashed /\ UNCHANGED vars /\ caps' = caps \cup {c}
      /\ b \in Used(heap) /\ grant \subseteq av
      BY DEF CapInv, shm_cap_derive, CanDerive, Used
<1>1. GoodHeap(heap)
      BY <1>0 DEF IInv
<1>2. x.payload_cap \in Nat /\ x.obj_id \in Nat /\ x.perms \in SUBSET Perm
      BY <1>0, <1>1, UsedIs
<1>3. x.obj_id \in 1 .. next_id - 1
      BY <1>0, UsedHasId
<1>4. off \in Nat /\ grant \in SUBSET Perm /\ av \in SUBSET Perm
      BY <1>2, PayloadOffsetIs, CapAssumption
<1>5. ep \in Nat
      BY <1>2, CapAssumption
<1> HIDE DEF x, ep, av
<1>6. /\ c \in Cap /\ c.perms = grant /\ c.avail = av /\ c.obj = x.obj_id
      /\ c.epoch = ep
      BY <1>2, <1>4, <1>5 DEF Cap
<1>7. CapOK(c, next_id)
      BY <1>0, <1>3, <1>6 DEF CapOK, ep
<1> HIDE DEF c
<1>8. IInv' /\ next_id' = next_id
      BY <1>0, NextIInv DEF vars
<1> QED
    BY <1>0, <1>7, <1>8 DEF CapInv

\* A narrowed capability is sound.
LEMMA NarrowKeeps ==
    ASSUME CapInv, NEW c \in caps, NEW P \in GrantPerms, shm_cap_narrow(c, P)
    PROVE  CapInv'
<1> DEFINE x == [c EXCEPT !.perms = P]
<1>0. CapOK(c, next_id) /\ P \subseteq c.perms /\ caps' = caps \cup {x}
      BY DEF CapInv, shm_cap_narrow
<1>1. c \in Cap /\ P \in SUBSET Perm
      BY <1>0, CapAssumption DEF CapOK
<1>2. /\ x \in Cap /\ x.perms = P /\ x.avail = c.avail /\ x.obj = c.obj
      /\ x.epoch = c.epoch
      BY <1>1 DEF Cap
<1>3. CapOK(x, next_id)
      BY <1>0, <1>2 DEF CapOK
<1> HIDE DEF x
<1>4. IInv' /\ next_id' = next_id
      BY NextIInv DEF CapInv, shm_cap_narrow, vars
<1> QED
    BY <1>0, <1>3, <1>4 DEF CapInv

\* Every step keeps the invariant.
LEMMA CapNextInv == CapInv /\ [CapNext]_capVars => CapInv'
<1> SUFFICES ASSUME CapInv, [CapNext]_capVars  PROVE CapInv'
      OBVIOUS
<1>1. CASE UNCHANGED capVars
  <2>1. UNCHANGED vars /\ caps' = caps /\ next_id' = next_id
        BY <1>1 DEF capVars, vars
  <2>2. IInv'
        BY <2>1, NextIInv DEF CapInv
  <2> QED
        BY <2>1, <2>2 DEF CapInv
<1> QED
    BY <1>1, AllocatorStepKeeps, DeriveKeeps, NarrowKeeps DEF CapNext

\* The invariant holds throughout.
THEOREM CapInvariance == CapSpec => []CapInv
    BY CapInitInv, CapNextInv, PTL DEF CapSpec

\* Ids up to the modulus have different epochs.
LEMMA EpochsDiffer ==
    ASSUME NEW m \in Nat \ {0}, NEW a \in 1 .. m, NEW b \in 1 .. m, a % m = b % m
    PROVE  a = b
<1>1. \A x \in Nat : x < m => x % m = x
      BY SMT
<1>2. m % m = 0
      BY SMT
<1>3. CASE a < m /\ b < m
      BY <1>1, <1>3
<1>4. CASE a = m
      BY <1>1, <1>2, <1>4
<1>5. CASE b = m
      BY <1>1, <1>2, <1>5
<1> QED
    BY <1>3, <1>4, <1>5

\* The capability words keep their types.
THEOREM CapTypes == CapSpec => []CapTypeOK
<1>1. CapInv => CapTypeOK
      BY DEF CapInv, CapOK, CapTypeOK, IInv
<1> QED
    BY CapInvariance, <1>1, PTL

\* No sequence of derivations and narrowings widens what was granted.
THEOREM NoWidening == CapSpec => []CapsNeverWiden
<1>1. CapInv => CapsNeverWiden
      BY DEF CapInv, CapOK, CapsNeverWiden
<1> QED
    BY CapInvariance, <1>1, PTL

\* An accepted capability leads to the object it was derived from.
LEMMA DerefFollows ==
    ASSUME MaxId <= EpochMod, CapInv, ~Crashed, NEW c \in caps, NEW required,
           shm_cap_deref(c, required)
    PROVE  \E i \in LiveSlots :
              /\ dir[i].id = c.obj
              /\ dir[i].off = c.addr
              /\ required \subseteq dir[i].perms
              /\ c.addr + c.bounds <= End(heap, BlockOf(i))
<1> DEFINE b == shm_blk_of_poff(c.addr)
           x == heap.blk[b]
<1>0. IInv /\ GoodHeap(heap) /\ TypeOK /\ CapOK(c, next_id) /\ next_id <= MaxId + 1
      BY DEF CapInv, IInv
<1>1. /\ b \in Used(heap) /\ x.obj_id % EpochMod = c.epoch
      /\ x.payload_cap % BoundMod = c.bounds /\ required \subseteq x.perms
      BY DEF shm_cap_deref, shm_cap_is_valid, Used
<1>2. PICK i \in Live(dir) :
         /\ At(dir, i) = b /\ dir[i].id = x.obj_id /\ dir[i].perms = x.perms
         /\ x.obj_id \in 1 .. next_id - 1
      BY <1>0, <1>1, UsedHasId
<1>3. x.obj_id = c.obj
  <2>1. /\ next_id \in Nat /\ MaxId \in Nat /\ EpochMod \in Nat \ {0}
        BY <1>0, InputAssumption, CapAssumption DEF TypeOK
  <2>2. x.obj_id \in 1 .. EpochMod /\ c.obj \in 1 .. EpochMod
        BY <1>0, <1>2, <2>1 DEF CapOK
  <2> QED
        BY <1>0, <1>1, <2>1, <2>2, EpochsDiffer DEF CapOK
<1>4. i \in LiveSlots /\ BlockOf(i) = b
      BY <1>2 DEF Live, LiveSlots, BlockOf, At
<1>5. /\ b \in Nat /\ b \in DOMAIN heap.blk
      /\ x.payload_cap \in Nat /\ x.total_size \in Nat
      BY <1>0, <1>1, UsedIs
<1>6. dir[i].off \in Nat /\ c.addr \in Nat /\ c.bounds \in Nat
      BY <1>0, <1>4 DEF TypeOK, LiveSlots, Slot, CapOK, Cap
<1>7. dir[i].off = c.addr
      BY <1>2, <1>6 DEF At, shm_blk_of_poff, HDR
<1>8. c.bounds <= x.payload_cap
  <2>1. ASSUME NEW n \in Nat, NEW m \in Nat \ {0}
        PROVE  n % m <= n
        BY SMT
  <2> QED
        BY <1>1, <1>5, <2>1, CapAssumption
<1>9. c.addr = b + HDR
      BY <1>6 DEF shm_blk_of_poff, HDR
<1>10. HDR + x.payload_cap <= x.total_size
      BY <1>0, <1>5 DEF GoodHeap, CapsFit
<1>11. End(heap, BlockOf(i)) = b + x.total_size
      BY <1>4 DEF End
<1> HIDE DEF b, x
<1>12. c.addr + c.bounds <= End(heap, BlockOf(i))
      BY <1>5, <1>6, <1>8, <1>9, <1>10, <1>11 DEF HDR
<1> QED
    BY <1>1, <1>2, <1>3, <1>4, <1>7, <1>12

\* While no id exceeds the number of epochs, a capability that shm_cap_deref
\* accepts is for the object it was derived from, which is still live, still
\* at that address and still grants what is asked.
THEOREM DerefIsSound == MaxId <= EpochMod => (CapSpec => []DerefSound)
<1> SUFFICES ASSUME MaxId <= EpochMod  PROVE CapSpec => []DerefSound
      OBVIOUS
<1>1. CapInv => DerefSound
      BY DerefFollows DEF DerefSound
<1> QED
    BY CapInvariance, <1>1, PTL
=============================================================================
