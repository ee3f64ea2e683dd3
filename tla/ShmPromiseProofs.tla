-------------------------- MODULE ShmPromiseProofs --------------------------
(***************************************************************************)
(* The allocator against its references, for every heap size and directory *)
(* size.  Every step of ShmAlloc is, through the directory, a step of      *)
(* ShmObjects or a stutter.  The counters of shm_pool_stats are the bytes  *)
(* and blocks that ShmAllocWalk counts, and its walks over the free list   *)
(* stop where the operators of ShmAlloc say.                               *)
(***************************************************************************)
EXTENDS FiniteSetTheorems, ShmAllocWalk, ShmAllocPromise, ShmAllocProofs

\* The objects that live slots of d describe, and what a slot says of one.
Ids(d) == {d[i].id : i \in Live(d)}
Entry(e) == [name |-> e.name, owner |-> e.owner, perms |-> e.perms,
             size |-> e.used_size]

\* No id is in two live slots.
Unique(d) == \A i, j \in Live(d) : d[i].id = d[j].id => i = j

\* The inductive invariant: ids stay within the bound of the table.
PromiseInv == IInv /\ next_id <= MaxId + 1

-----------------------------------------------------------------------------
(***************************************************************************)
(* The table.                                                              *)
(***************************************************************************)
\* The scan for the id in a live slot finds that slot.
LEMMA FindsItsSlot ==
    ASSUME NEW d, Unique(d), NEW i \in Live(d)
    PROVE  dir_find_by_id(d, d[i].id) = i
<1> DEFINE S == SlotsOfId(d, d[i].id)
<1>1. i \in S /\ S \subseteq Slots
      BY DEF SlotsOfId, Live
<1>2. Lowest(S) \in S
      BY <1>1, LowestIs
<1>3. \A j \in S : j \in Live(d) /\ d[j].id = d[i].id
      BY DEF SlotsOfId, Live
<1> HIDE DEF S
<1>4. Lowest(S) = i
      BY <1>2, <1>3 DEF Unique
<1> QED
    BY <1>4 DEF dir_find_by_id, S

\* The table has one row for every live slot.
LEMMA TableRows ==
    ASSUME NEW d, Unique(d)
    PROVE  /\ DOMAIN Objects(d) = Ids(d)
           /\ \A i \in Live(d) : Objects(d)[d[i].id] = Entry(d[i])
<1>1. Objects(d) = [id \in Ids(d) |-> Entry(d[dir_find_by_id(d, id)])]
      BY DEF Objects, Ids, Live, Entry
<1>2. \A i \in Live(d) : dir_find_by_id(d, d[i].id) = i
      BY FindsItsSlot
<1>3. \A i \in Live(d) : d[i].id \in Ids(d)
      BY DEF Ids
<1> QED
    BY <1>1, <1>2, <1>3

\* The rows are all there is to the table.
LEMMA TableIs ==
    ASSUME NEW d, Unique(d), NEW f, NEW S, f = [x \in S |-> f[x]], S = Ids(d),
           \A i \in Live(d) : f[d[i].id] = Entry(d[i])
    PROVE  Objects(d) = f
<1>1. Objects(d) = [id \in Ids(d) |-> Entry(d[dir_find_by_id(d, id)])]
      BY DEF Objects, Ids, Live, Entry
<1>2. ASSUME NEW x \in S  PROVE f[x] = Entry(d[dir_find_by_id(d, x)])
  <2>1. PICK i \in Live(d) : d[i].id = x
        BY DEF Ids
  <2> QED
        BY <2>1, FindsItsSlot
<1> QED
    BY <1>1, <1>2

\* From directory d to g, slot i becomes live, or is no longer live, or no
\* slot does either, and live slots keep their ids.
Gained(d, g, i) == /\ i \notin Live(d) /\ Live(g) = Live(d) \cup {i}
                   /\ \A j \in Live(d) : g[j].id = d[j].id
Lost(d, g, i) == /\ i \in Live(d) /\ Live(g) = Live(d) \ {i}
                 /\ \A j \in Live(g) : g[j].id = d[j].id
SameIds(d, g) == Live(g) = Live(d) /\ \A j \in Live(d) : g[j].id = d[j].id

\* A slot that is gained brings its id.
LEMMA IdsGained ==
    ASSUME NEW d, NEW g, NEW i, Gained(d, g, i)
    PROVE  Ids(g) = Ids(d) \cup {g[i].id}
<1>1. \A x : x \in Ids(g) <=> (x = g[i].id \/ \E j \in Live(d) : x = d[j].id)
      BY DEF Ids, Gained
<1>2. \A x : x \in Ids(d) <=> \E j \in Live(d) : x = d[j].id
      BY DEF Ids
<1> QED
    BY <1>1, <1>2

\* A slot that is lost takes its id along, and no other.
LEMMA IdsLost ==
    ASSUME NEW d, NEW g, NEW i, Lost(d, g, i), Unique(d)
    PROVE  Ids(g) = Ids(d) \ {d[i].id}
<1>1. \A j \in Live(d) \ {i} : g[j].id = d[j].id /\ d[j].id # d[i].id
      BY DEF Lost, Unique
<1>2. \A x : x \in Ids(g) <=> \E j \in Live(d) \ {i} : x = d[j].id
      BY <1>1 DEF Ids, Lost
<1>3. \A x : x \in Ids(d) <=> \E j \in Live(d) : x = d[j].id
      BY DEF Ids
<1>4. \A x : x \in Ids(g) <=> x \in Ids(d) /\ x # d[i].id
      BY <1>1, <1>2, <1>3
<1> QED
    BY <1>4

\* The same live slots with the same ids.
LEMMA IdsSame ==
    ASSUME NEW d, NEW g, SameIds(d, g)
    PROVE  Ids(g) = Ids(d)
<1>1. \A x : x \in Ids(g) <=> \E j \in Live(d) : x = d[j].id
      BY DEF Ids, SameIds
<1>2. \A x : x \in Ids(d) <=> \E j \in Live(d) : x = d[j].id
      BY DEF Ids
<1> QED
    BY <1>1, <1>2

\* What the invariant says of the directory.
LEMMA DirIs ==
    ASSUME IInv, ~Crashed
    PROVE  /\ Unique(dir) /\ dir \in [Slots -> Slot]
           /\ DirOK(heap, dir, next_id)
           /\ \A i \in Live(dir) : dir[i].id \in 1 .. next_id - 1
           /\ next_id \in Nat \ {0} /\ 0 \notin Ids(dir)
<1>1. DirOK(heap, dir, next_id) /\ dir \in [Slots -> Slot]
      /\ next_id \in Nat \ {0}
      BY DEF IInv, TypeOK
<1>2. \A i \in Live(dir) : dir[i].id \in 1 .. next_id - 1
      BY <1>1 DEF DirOK
<1>3. 0 \notin Ids(dir)
      BY <1>1, <1>2 DEF Ids
<1> QED
    BY <1>1, <1>2, <1>3 DEF DirOK, Unique

\* There is no free slot exactly when there are as many objects as slots.
LEMMA FullIs ==
    ASSUME IInv, ~Crashed
    PROVE  Promise!Full <=> FreeSlots(dir) = {}
<1> DEFINE f == [i \in Live(dir) |-> dir[i].id]
<1>1. IsFiniteSet(Slots) /\ Cardinality(Slots) = DirCap
      BY DirAssumption, FS_Interval DEF Slots
<1>2. Live(dir) \subseteq Slots
      BY DEF Live
<1>3. IsFiniteSet(Live(dir)) /\ (Cardinality(Slots) = Cardinality(Live(dir)) => Slots = Live(dir))
      BY <1>1, <1>2, FS_Subset
<1>4. f \in Surjection(Live(dir), Ids(dir))
      BY DEF Surjection, Ids
<1>5. f \in Injection(Live(dir), Ids(dir))
      BY DirIs DEF Injection, IsInjective, Ids, Unique
<1>6. Cardinality(Ids(dir)) = Cardinality(Live(dir))
      BY <1>3, <1>4, <1>5, FS_Surjection
<1>7. FreeSlots(dir) = {} <=> Live(dir) = Slots
  <2>1. ASSUME NEW i \in Slots
        PROVE  i \in FreeSlots(dir) <=> i \notin Live(dir)
    <3>1. dir[i].alive \in {0, 1}
          BY DirIs DEF Slot
    <3>2. i \in Live(dir) => dir[i].id # 0
          BY DirIs DEF Ids
    <3> QED
          BY <3>1, <3>2 DEF FreeSlots, Live
  <2>2. FreeSlots(dir) \subseteq Slots
        BY DEF FreeSlots
  <2> QED
        BY <1>2, <2>1, <2>2
<1>8. DOMAIN Objects(dir) = Ids(dir)
      BY DirIs, TableRows
<1>9. Promise!Full <=> Cardinality(Ids(dir)) = DirCap
  <2>1. Promise!Cardinality(Ids(dir)) = Cardinality(Ids(dir))
        BY Zenon DEF Promise!Cardinality, Cardinality
  <2> QED
        BY <1>8, <2>1, Zenon DEF Promise!Full
<1>10. Live(dir) = Slots <=> Cardinality(Live(dir)) = DirCap
      BY <1>1, <1>3, Zenon
<1> QED
    BY <1>6, <1>7, <1>9, <1>10, Zenon

\* The directory check and the table's verdict are the same.
LEMMA VerdictIs ==
    ASSUME IInv, ~Crashed, NEW id, NEW u, NEW cp, NEW perm
    PROVE  AccessById(dir, id, u, cp, {perm}) = Promise!Verdict(id, u, cp, perm)
<1>1. /\ DOMAIN Objects(dir) = Ids(dir) /\ 0 \notin Ids(dir)
      /\ \A i \in Live(dir) : Objects(dir)[dir[i].id] = Entry(dir[i])
      BY DirIs, TableRows
<1>2. CASE id = 0
      BY <1>1, <1>2 DEF AccessById, Promise!Verdict
<1>3. CASE id # 0 /\ id \notin Ids(dir)
  <2>1. SlotsOfId(dir, id) = {}
        BY <1>3 DEF SlotsOfId, Ids, Live
  <2> QED
        BY <1>1, <1>3, <2>1 DEF AccessById, Promise!Verdict
<1>4. CASE id \in Ids(dir)
  <2>1. PICK i \in Live(dir) : dir[i].id = id
        BY <1>4 DEF Ids
  <2>2. dir_find_by_id(dir, id) = i
        BY <2>1, DirIs, FindsItsSlot
  <2>3. i \in SlotsOfId(dir, id) /\ id # 0 /\ dir[i].alive = 1
        BY <1>1, <1>4, <2>1 DEF SlotsOfId, Live
  <2>4. AccessById(dir, id, u, cp, {perm}) = Access(dir[i], u, cp, {perm})
        BY <2>1, <2>2, <2>3 DEF AccessById, check_dir_access
  <2>5. /\ Objects(dir)[id].owner = dir[i].owner
        /\ Objects(dir)[id].perms = dir[i].perms
    <3>1. Objects(dir)[id] = Entry(dir[i])
          BY <1>1, <2>1
    <3> QED
          BY <3>1 DEF Entry
  <2>6. Promise!May(Objects(dir)[id], u, cp, perm)
          <=> Access(dir[i], u, cp, {perm}) = "OK"
        BY <2>5 DEF Promise!May, Access
  <2>7. Access(dir[i], u, cp, {perm}) \in {"OK", "EACCES"}
        BY DEF Access
  <2> QED
        BY <1>1, <1>4, <2>3, <2>4, <2>6, <2>7 DEF Promise!Verdict
<1> QED
    BY <1>2, <1>3, <1>4

-----------------------------------------------------------------------------
(***************************************************************************)
(* The calls.                                                              *)
(***************************************************************************)
\* A call that fails leaves the table alone.
LEMMA FailRefuses ==
    ASSUME NEW errno, Fail(errno)
    PROVE  Promise!Refuse(errno)
<1>1. ret' = errno /\ dir' = dir /\ next_id' = next_id
      BY DEF Fail
<1>2. Objects(dir)' = Objects(dir)
      BY <1>1 DEF Objects
<1> QED
    BY <1>1, <1>2 DEF Promise!Refuse

\* The invariant after a call keeps ids apart.
LEMMA UniqueAfter ==
    ASSUME IInv', ~Crashed'
    PROVE  Unique(dir')
    BY DEF IInv, DirOK, Unique

\* shm_alloc adds one row, or refuses for the reason it gives.
LEMMA AllocKept ==
    ASSUME IInv, NEW n \in PayloadSizes, NEW name \in Names, NEW u \in Users,
           NEW P \in ObjPerms, shm_alloc(n, name, u, P)
    PROVE  Promise!Alloc(n, Trunc(name), u, P)
<1> DEFINE i == dir_find_free_slot(dir)
           b == FirstFit(heap, NeedTotal(n))
<1>1. ~Crashed /\ IInv'
      BY AllocKeeps DEF shm_alloc
<1>2. Promise!Full <=> FreeSlots(dir) = {}
      BY <1>1, FullIs
<1>3. CASE n = 0 /\ Fail("EINVAL")
      BY <1>3, FailRefuses DEF Promise!Alloc
<1>4. CASE n # 0 /\ FreeSlots(dir) = {} /\ Fail("ENOSPC")
      BY <1>2, <1>4, FailRefuses DEF Promise!Alloc
<1>5. CASE n # 0 /\ FreeSlots(dir) # {} /\ Fail("ENOMEM")
      BY <1>2, <1>5, FailRefuses DEF Promise!Alloc
<1>6. CASE /\ n # 0 /\ FreeSlots(dir) # {}
           /\ Created(i, b, n, Trunc(name), u, P)
  <2> HIDE DEF i, b
  <2> DEFINE row == [name |-> Trunc(name), owner |-> u, perms |-> P, size |-> n]
             S == DOMAIN Objects(dir) \cup {next_id}
             f == [id \in S |-> IF id = next_id THEN row ELSE Objects(dir)[id]]
  <2>1. PICK s \in Slot :
           /\ dir' = [dir EXCEPT ![i] = s] /\ s.alive = 1 /\ s.id = next_id
           /\ s.name = Trunc(name) /\ s.used_size = n
           /\ s.owner = u /\ s.perms = P
        BY <1>6 DEF Created
  <2>2. /\ i \in Slots /\ i \notin Live(dir) /\ ret' = "OK"
        /\ next_id' = next_id + 1
        BY <1>6 DEF Created
  <2>3. /\ Unique(dir) /\ dir \in [Slots -> Slot] /\ next_id \in Nat
        /\ \A j \in Live(dir) : dir[j].id \in 1 .. next_id - 1
        BY <1>1, DirIs
  <2>4. ~Crashed'
        BY <2>2 DEF Crashed, CRASH
  <2>5. Unique(dir')
        BY <1>1, <2>4, UniqueAfter
  <2>6. dir'[i] = s /\ \A j \in Slots \ {i} : dir'[j] = dir[j]
        BY <2>1, <2>2, <2>3
  <2>7. Live(dir') = Live(dir) \cup {i}
        BY <2>1, <2>2, <2>6 DEF Live
  <2>8. DOMAIN Objects(dir) = Ids(dir)
        BY <2>3, TableRows
  <2>9. S = Ids(dir')
    <3>1. \A j \in Live(dir) : dir'[j].id = dir[j].id
          BY <2>2, <2>6 DEF Live
    <3>2. Gained(dir, dir', i)
          BY <2>2, <2>7, <3>1 DEF Gained
    <3>3. Ids(dir') = Ids(dir) \cup {dir'[i].id}
          BY <3>2, IdsGained
    <3> QED
          BY <2>1, <2>6, <2>8, <3>3
  <2>10. ASSUME NEW j \in Live(dir')
         PROVE  f[dir'[j].id] = Entry(dir'[j])
    <3>1. dir'[j].id \in S
          BY <2>9 DEF Ids
    <3>2. CASE j = i
      <4>1. Entry(s) = row
            BY <2>1 DEF Entry
      <4> QED
            BY <2>1, <2>6, <3>1, <3>2, <4>1
    <3>3. CASE j # i
      <4>1. j \in Live(dir) /\ dir'[j] = dir[j]
            BY <2>6, <2>7, <3>3 DEF Live
      <4>2. dir[j].id # next_id
            BY <2>3, <4>1
      <4>3. Objects(dir)[dir[j].id] = Entry(dir[j])
            BY <2>3, <4>1, TableRows
      <4> HIDE DEF row
      <4> QED
            BY <3>1, <4>1, <4>2, <4>3
    <3> QED
          BY <3>2, <3>3
  <2>11. f = [x \in S |-> f[x]]
        OBVIOUS
  <2> HIDE DEF f, S
  <2>12. Objects(dir') = f
        BY <2>5, <2>9, <2>10, <2>11, TableIs
  <2>13. Objects(dir)' = f
        BY <2>12
  <2> QED
        BY <1>2, <1>6, <2>2, <2>13 DEF Promise!Alloc, f, S
<1> QED
    BY <1>3, <1>4, <1>5, <1>6, AllocDoes

\* shm_free removes one row, or refuses for the reason the table gives.
LEMMA FreeKept ==
    ASSUME IInv, NEW id, NEW u, NEW cp, shm_free(id, u, cp)
    PROVE  Promise!FreeObj(id, u, cp)
<1> DEFINE i == dir_find_by_id(dir, id)
           acc == AccessById(dir, id, u, cp, {"FREE"})
<1>1. ~Crashed /\ IInv'
      BY FreeKeeps DEF shm_free
<1>2. acc = Promise!Verdict(id, u, cp, "FREE")
      BY <1>1, VerdictIs
<1>3. CASE acc # "OK" /\ Fail(acc)
  <2>1. Promise!Refuse(acc)
        BY <1>3, FailRefuses
  <2> QED
        BY <1>2, <1>3, <2>1 DEF Promise!FreeObj
<1>4. CASE acc = "OK" /\ dir[i].id = id /\ Removed(i)
  <2> HIDE DEF i, acc
  <2> DEFINE S == DOMAIN Objects(dir) \ {id}
             f == [k \in S |-> Objects(dir)[k]]
  <2>1. /\ i \in Live(dir) /\ dir' = [dir EXCEPT ![i] = EmptySlot]
        /\ ret' = "OK" /\ next_id' = next_id
        BY <1>4 DEF Removed
  <2>2. Unique(dir) /\ dir \in [Slots -> Slot]
        BY <1>1, DirIs
  <2>3. ~Crashed'
        BY <2>1 DEF Crashed, CRASH
  <2>4. Unique(dir')
        BY <1>1, <2>3, UniqueAfter
  <2>5. EmptySlot.alive = 0 /\ i \in Slots
        BY <2>1 DEF EmptySlot, Live
  <2>6. dir'[i] = EmptySlot /\ \A j \in Slots \ {i} : dir'[j] = dir[j]
        BY <2>1, <2>2, <2>5
  <2>7. /\ Live(dir') = Live(dir) \ {i}
        /\ \A j \in Live(dir') : dir'[j] = dir[j]
        BY <2>5, <2>6 DEF Live
  <2>9. /\ DOMAIN Objects(dir) = Ids(dir)
        /\ \A j \in Live(dir) : Objects(dir)[dir[j].id] = Entry(dir[j])
        BY <2>2, TableRows
  <2>10. S = Ids(dir')
    <3>1. Lost(dir, dir', i)
          BY <2>1, <2>7 DEF Lost
    <3>2. Ids(dir') = Ids(dir) \ {dir[i].id}
          BY <2>2, <3>1, IdsLost
    <3> QED
          BY <1>4, <2>9, <3>2
  <2>11. ASSUME NEW j \in Live(dir')
         PROVE  f[dir'[j].id] = Entry(dir'[j])
    <3>1. dir'[j].id \in S
          BY <2>10 DEF Ids
    <3> QED
          BY <2>7, <2>9, <3>1
  <2>12. f = [x \in S |-> f[x]]
        OBVIOUS
  <2> HIDE DEF f, S
  <2>13. Objects(dir') = f
        BY <2>4, <2>10, <2>11, <2>12, TableIs
  <2>14. Objects(dir)' = f
        BY <2>13
  <2> QED
        BY <1>2, <1>4, <2>1, <2>14 DEF Promise!FreeObj, f, S
<1> QED
    BY <1>3, <1>4, FreeDoes

\* From directory d to g only the contents of slot i change, to e.
Replaced(d, g, i, e) == /\ d \in [Slots -> Slot] /\ g = [d EXCEPT ![i] = e]
                        /\ e.id = d[i].id /\ e.alive = 1

\* Other contents in a live slot with the same id change that row.
LEMMA RowChanged ==
    ASSUME Unique(dir), Unique(dir'), NEW i \in Live(dir), NEW e,
           Replaced(dir, dir', i, e)
    PROVE  Objects(dir)' = [Objects(dir) EXCEPT ![dir[i].id] = Entry(e)]
<1> DEFINE S == DOMAIN Objects(dir)
           f == [Objects(dir) EXCEPT ![dir[i].id] = Entry(e)]
<1>1. i \in Slots
      BY DEF Live
<1>2. dir'[i] = e /\ \A j \in Slots \ {i} : dir'[j] = dir[j]
      BY <1>1 DEF Replaced
<1>3. Live(dir') = Live(dir)
      BY <1>1, <1>2 DEF Live, Replaced
<1>4. \A j \in Live(dir) : dir'[j].id = dir[j].id
      BY <1>2 DEF Live, Replaced
<1>5. SameIds(dir, dir')
      BY <1>3, <1>4 DEF SameIds
<1>6. Ids(dir') = Ids(dir)
      BY <1>5, IdsSame
<1>7. /\ S = Ids(dir)
      /\ \A j \in Live(dir) : Objects(dir)[dir[j].id] = Entry(dir[j])
      BY TableRows
<1>8. Objects(dir) = [x \in S |-> Objects(dir)[x]]
      BY DEF Objects
<1>9. f = [x \in S |-> f[x]]
      BY <1>8
<1>10. ASSUME NEW j \in Live(dir')  PROVE f[dir'[j].id] = Entry(dir'[j])
  <2>1. j \in Live(dir) /\ dir'[j].id = dir[j].id /\ dir[j].id \in S
        BY <1>3, <1>4, <1>7 DEF Ids
  <2>2. CASE j = i
    <3>1. dir'[j] = e
          BY <1>2, <2>2
    <3>2. f[dir[i].id] = Entry(e)
          BY <1>8, <2>1, <2>2
    <3> QED
          BY <2>1, <2>2, <3>1, <3>2
  <2>3. CASE j # i
    <3>1. dir'[j] = dir[j] /\ dir[j].id # dir[i].id
          BY <1>2, <2>1, <2>3 DEF Live, Unique
    <3>2. f[dir[j].id] = Objects(dir)[dir[j].id]
          BY <1>8, <2>1, <3>1
    <3> QED
          BY <1>7, <2>1, <3>1, <3>2
  <2> QED
        BY <2>2, <2>3
<1> HIDE DEF f, S
<1>11. S = Ids(dir')
      BY <1>6, <1>7
<1>12. Objects(dir') = f
      BY <1>9, <1>10, <1>11, TableIs
<1> QED
    BY <1>12 DEF f

\* shm_resize changes the size of one object, refuses, finds no room or does
\* not return.
LEMMA ResizeKept ==
    ASSUME IInv, NEW id, NEW n \in PayloadSizes, NEW u, NEW cp,
           shm_resize(id, n, u, cp)
    PROVE  \/ Promise!Resize(id, n, u, cp)
           \/ Dies /\ Promise!Verdict(id, u, cp, "RESIZE") = "OK"
<1> DEFINE i == dir_find_by_id(dir, id)
           acc == IF n = 0 THEN "EINVAL"
                  ELSE AccessById(dir, id, u, cp, {"RESIZE"})
           v == IF n = 0 THEN "EINVAL" ELSE Promise!Verdict(id, u, cp, "RESIZE")
<1>1. ~Crashed /\ IInv'
      BY ResizeKeeps DEF shm_resize
<1>2. acc = v
      BY <1>1, VerdictIs
<1>3. CASE acc # "OK" /\ Fail(acc)
  <2>1. Promise!Refuse(acc)
        BY <1>3, FailRefuses
  <2> HIDE DEF acc
  <2> QED
        BY <1>2, <1>3, <2>1 DEF Promise!Resize
<1>4. CASE acc = "OK" /\ Fail("ENOMEM")
  <2>1. Promise!Refuse("ENOMEM")
        BY <1>4, FailRefuses
  <2> HIDE DEF acc
  <2> QED
        BY <1>2, <1>4, <2>1 DEF Promise!Resize
<1>5. CASE acc = "OK" /\ Died
  <2>1. ret' = "SIGSEGV" /\ dir' = dir /\ next_id' = next_id
        BY <1>5 DEF Died, CRASH
  <2>2. Objects(dir)' = Objects(dir)
        BY <2>1 DEF Objects
  <2>3. Dies
        BY <2>1, <2>2 DEF Dies, Promise!Refuse, CRASH
  <2>4. Promise!Verdict(id, u, cp, "RESIZE") = "OK"
        BY <1>2, <1>5
  <2> QED
        BY <2>3, <2>4
<1>6. CASE acc = "OK" /\ dir[i].id = id /\ \E nb : Resized(i, nb, n)
  <2> HIDE DEF i
  <2>1. PICK nb : Resized(i, nb, n)
        BY <1>6
  <2> DEFINE e == [dir[i] EXCEPT !.off = shm_poff_of_blk(nb),
                                 !.capacity = heap'.blk[nb].payload_cap,
                                 !.used_size = n]
  <2>2. /\ i \in Live(dir) /\ dir' = [dir EXCEPT ![i] = e]
        /\ ret' = "OK" /\ next_id' = next_id
        BY <2>1 DEF Resized, SlotSet
  <2>3. Unique(dir) /\ dir \in [Slots -> Slot]
        BY <1>1, DirIs
  <2>4. ~Crashed'
        BY <2>2 DEF Crashed, CRASH
  <2>5. Unique(dir')
        BY <1>1, <2>4, UniqueAfter
  <2>6. dir[i] \in Slot /\ dir[i].alive = 1
        BY <2>2, <2>3 DEF Live
  <2>7. /\ e.id = id /\ e.alive = 1 /\ e.name = dir[i].name
        /\ e.owner = dir[i].owner /\ e.perms = dir[i].perms /\ e.used_size = n
        BY <1>6, <2>6 DEF Slot
  <2>8. Objects(dir)[id] = Entry(dir[i])
        BY <1>6, <2>2, <2>3, TableRows
  <2> HIDE DEF e
  <2>9. Entry(e) = [Entry(dir[i]) EXCEPT !.size = n]
        BY <2>7 DEF Entry
  <2>10. Objects(dir)' = [Objects(dir) EXCEPT ![id] = Entry(e)]
    <3>1. Replaced(dir, dir', i, e)
          BY <1>6, <2>2, <2>3, <2>7 DEF Replaced
    <3>2. Objects(dir)' = [Objects(dir) EXCEPT ![dir[i].id] = Entry(e)]
          BY <2>2, <2>3, <2>5, <3>1, RowChanged
    <3> QED
          BY <1>6, <3>2
  <2>11. Objects(dir)' = [Objects(dir) EXCEPT ![id].size = n]
        BY <2>8, <2>9, <2>10
  <2> HIDE DEF acc
  <2> QED
        BY <1>2, <1>6, <2>2, <2>11 DEF Promise!Resize
<1> QED
    BY <1>3, <1>4, <1>5, <1>6, ResizeDoes

\* The copy of owner and permissions in a block header leads to the table's
\* verdict.
LEMMA BlockVerdictIs ==
    ASSUME IInv, ~Crashed, NEW i \in Live(dir), NEW u, NEW cp, NEW perm
    PROVE  check_block_access(heap, At(dir, i), u, cp, {perm})
             = Promise!Verdict(dir[i].id, u, cp, perm)
<1>1. /\ At(dir, i) \in Used(heap) /\ Agrees(dir[i], heap.blk[At(dir, i)])
      /\ dir[i].id # 0 /\ dir[i].alive = 1
      BY DirIs DEF DirOK, Ids, Live
<1>2. dir_find_by_id(dir, dir[i].id) = i
      BY DirIs, FindsItsSlot
<1>3. i \in SlotsOfId(dir, dir[i].id)
      BY <1>1 DEF SlotsOfId, Live
<1>4. AccessById(dir, dir[i].id, u, cp, {perm}) = Access(dir[i], u, cp, {perm})
      BY <1>1, <1>2, <1>3 DEF AccessById, check_dir_access
<1>5. check_block_access(heap, At(dir, i), u, cp, {perm})
        = Access(heap.blk[At(dir, i)], u, cp, {perm})
      BY <1>1 DEF check_block_access, Used
<1>6. Access(heap.blk[At(dir, i)], u, cp, {perm})
        = Access(dir[i], u, cp, {perm})
      BY <1>1 DEF Access, Agrees
<1> QED
    BY <1>4, <1>5, <1>6, VerdictIs

\* shm_block_set_perms changes the permissions of one object, or refuses as
\* the table says.
LEMMA SetPermsKept ==
    ASSUME IInv, NEW i \in Live(dir), NEW off, shm_blk_of_poff(off) = At(dir, i),
           NEW u, NEW cp, NEW P \in ObjPerms, shm_block_set_perms(off, u, cp, P)
    PROVE  Promise!SetPerms(dir[i].id, u, cp, P)
<1> DEFINE acc == check_block_access(heap, At(dir, i), u, cp, {"WRITE"})
<1>1. ~Crashed /\ IInv'
      BY SetPermsKeeps DEF shm_block_set_perms
<1>2. acc = Promise!Verdict(dir[i].id, u, cp, "WRITE")
      BY <1>1, BlockVerdictIs
<1>3. CASE acc # "OK" /\ Fail(acc)
  <2>1. Promise!Refuse(acc)
        BY <1>3, FailRefuses
  <2> HIDE DEF acc
  <2> QED
        BY <1>2, <1>3, <2>1 DEF Promise!SetPerms
<1>4. CASE acc = "OK" /\ \E j : At(dir, j) = At(dir, i) /\ Repermed(j, P)
  <2>1. PICK j : At(dir, j) = At(dir, i) /\ Repermed(j, P)
        BY <1>4
  <2> DEFINE e == [dir[i] EXCEPT !.perms = P]
  <2>2. j \in Live(dir)
        BY <2>1 DEF Repermed
  <2>3. j = i
        BY <1>1, <2>1, <2>2, DirIs, DirInjective
  <2>4. dir' = [dir EXCEPT ![i] = e] /\ ret' = "OK" /\ next_id' = next_id
        BY <2>1, <2>3 DEF Repermed
  <2>5. Unique(dir) /\ dir \in [Slots -> Slot]
        BY <1>1, DirIs
  <2>6. ~Crashed'
        BY <2>4 DEF Crashed, CRASH
  <2>7. Unique(dir')
        BY <1>1, <2>6, UniqueAfter
  <2>8. dir[i] \in Slot /\ dir[i].alive = 1
        BY <2>5 DEF Live
  <2>9. /\ e.id = dir[i].id /\ e.alive = 1 /\ e.name = dir[i].name
        /\ e.owner = dir[i].owner /\ e.perms = P
        /\ e.used_size = dir[i].used_size
        BY <2>8 DEF Slot
  <2>10. Objects(dir)[dir[i].id] = Entry(dir[i])
        BY <2>5, TableRows
  <2> HIDE DEF e
  <2>11. Entry(e) = [Entry(dir[i]) EXCEPT !.perms = P]
        BY <2>9 DEF Entry
  <2>12. Objects(dir)' = [Objects(dir) EXCEPT ![dir[i].id] = Entry(e)]
    <3>1. Replaced(dir, dir', i, e)
          BY <2>4, <2>5, <2>9 DEF Replaced
    <3> QED
          BY <2>5, <2>7, <3>1, RowChanged
  <2>13. Objects(dir)' = [Objects(dir) EXCEPT ![dir[i].id].perms = P]
        BY <2>10, <2>11, <2>12
  <2> HIDE DEF acc
  <2> QED
        BY <1>2, <1>4, <2>4, <2>13 DEF Promise!SetPerms
<1>5. \/ acc # "OK" /\ Fail(acc)
      \/ acc = "OK" /\ \E j : At(dir, j) = At(dir, i) /\ Repermed(j, P)
      BY SetPermsDoes
<1> QED
    BY <1>3, <1>4, <1>5

-----------------------------------------------------------------------------
(***************************************************************************)
(* The theorems.                                                           *)
(***************************************************************************)
\* At first the table is empty.
LEMMA InitKept == Init => Promise!Init
<1> SUFFICES ASSUME Init  PROVE Promise!Init
      OBVIOUS
<1>1. dir = [i \in Slots |-> EmptySlot] /\ next_id = 1 /\ ret = "OK"
      BY DEF Init
<1>2. EmptySlot.alive = 0
      BY DEF EmptySlot
<1>3. Live(dir) = {}
      BY <1>1, <1>2 DEF Live
<1>4. Unique(dir) /\ Ids(dir) = {}
      BY <1>3 DEF Unique, Ids
<1> DEFINE f == [id \in {} |-> {}]
<1>5. f = [x \in {} |-> f[x]]
      OBVIOUS
<1>6. \A i \in Live(dir) : f[dir[i].id] = Entry(dir[i])
      BY <1>3
<1> HIDE DEF f
<1>7. Objects(dir) = f
      BY <1>4, <1>5, <1>6, TableIs
<1> QED
    BY <1>1, <1>7 DEF Promise!Init, f

\* Every step is a step of the table, or a stutter, or a death.
LEMMA NextKept ==
    ASSUME PromiseInv, [Next]_vars
    PROVE  [Promise!Next \/ Dies]_(Promise!vars)
<1>0. IInv /\ next_id <= MaxId + 1
      BY DEF PromiseInv
<1>1. CASE \E n \in PayloadSizes, name \in Names, u \in Users, p \in ObjPerms :
              shm_alloc(n, name, u, p)
  <2>1. PICK n \in PayloadSizes, name \in Names, u \in Users, p \in ObjPerms :
              shm_alloc(n, name, u, p)
        BY <1>1
  <2>2. Promise!Alloc(n, Trunc(name), u, p) /\ Trunc(name) \in StoredNames
        BY <1>0, <2>1, AllocKept DEF StoredNames
  <2> QED
        BY <2>2 DEF Promise!Next
<1>2. CASE \E id \in 0 .. MaxId, u \in Users, cp \in CallerPerms :
              shm_free(id, u, cp)
  <2>1. PICK id \in 0 .. MaxId, u \in Users, cp \in CallerPerms :
              shm_free(id, u, cp)
        BY <1>2
  <2>2. Promise!FreeObj(id, u, cp)
        BY <1>0, <2>1, FreeKept
  <2> QED
        BY <2>2 DEF Promise!Next
<1>3. CASE \E id \in 0 .. MaxId, n \in PayloadSizes, u \in Users,
              cp \in CallerPerms : shm_resize(id, n, u, cp)
  <2>1. PICK id \in 0 .. MaxId, n \in PayloadSizes, u \in Users,
              cp \in CallerPerms : shm_resize(id, n, u, cp)
        BY <1>3
  <2>2. Promise!Resize(id, n, u, cp) \/ Dies
        BY <1>0, <2>1, ResizeKept
  <2> QED
        BY <2>2 DEF Promise!Next
<1>4. CASE \E off \in PayloadOffsets, u \in Users, cp \in CallerPerms,
              p \in ObjPerms : shm_block_set_perms(off, u, cp, p)
  <2>1. PICK off \in PayloadOffsets, u \in Users, cp \in CallerPerms,
              p \in ObjPerms : shm_block_set_perms(off, u, cp, p)
        BY <1>4
  <2> DEFINE b == shm_blk_of_poff(off)
  <2>2. ~Crashed
        BY <2>1 DEF shm_block_set_perms
  <2>3. CASE b \in Used(heap)
    <3>1. PICK i \in Live(dir) : At(dir, i) = b
          BY <1>0, <2>2, <2>3, DirIs DEF DirOK
    <3>2. Promise!SetPerms(dir[i].id, u, cp, p)
          BY <1>0, <2>1, <3>1, SetPermsKept
    <3>3. dir[i].id \in 1 .. next_id - 1 /\ next_id \in Nat
          BY <1>0, <2>2, DirIs
    <3>4. dir[i].id \in 0 .. MaxId
      <4>1. MaxId \in Nat
            BY InputAssumption
      <4> QED
            BY <1>0, <3>3, <4>1
    <3>5. dir[i].id \in DOMAIN Objects(dir)
      <4>1. Unique(dir)
            BY <1>0, <2>2, DirIs
      <4>2. DOMAIN Objects(dir) = Ids(dir) /\ dir[i].id \in Ids(dir)
            BY <4>1, TableRows DEF Ids
      <4> QED
            BY <4>2
    <3> QED
          BY <3>2, <3>4, <3>5 DEF Promise!Next
  <2>4. CASE b \notin Used(heap)
    <3>1. check_block_access(heap, b, u, cp, {"WRITE"}) = "EINVAL"
          BY <2>4 DEF check_block_access, Used
    <3>2. Fail("EINVAL")
          BY <2>1, <3>1 DEF shm_block_set_perms
    <3>3. Promise!NoObjectThere
          BY <3>2, FailRefuses DEF Promise!NoObjectThere
    <3> QED
          BY <3>3 DEF Promise!Next
  <2> QED
        BY <2>3, <2>4
<1>5. CASE UNCHANGED vars
  <2>1. dir' = dir /\ next_id' = next_id /\ ret' = ret
        BY <1>5 DEF vars
  <2>2. Objects(dir)' = Objects(dir)
        BY <2>1 DEF Objects
  <2> QED
        BY <2>1, <2>2 DEF Promise!vars
<1>6. CASE Stopped
      BY <1>5, <1>6 DEF Stopped
<1> QED
    BY <1>1, <1>2, <1>3, <1>4, <1>5, <1>6 DEF Next

\* Ids stay within the bound.
THEOREM PromiseInvariance == Spec => []PromiseInv
<1>1. Init => PromiseInv
  <2> SUFFICES ASSUME Init  PROVE PromiseInv
        OBVIOUS
  <2>1. next_id = 1 /\ IInv
        BY InitIInv DEF Init
  <2>2. MaxId \in Nat
        BY InputAssumption
  <2> QED
        BY <2>1, <2>2 DEF PromiseInv
<1>2. PromiseInv /\ [Next]_vars => PromiseInv'
  <2> SUFFICES ASSUME PromiseInv, [Next]_vars  PROVE PromiseInv'
        OBVIOUS
  <2>1. IInv'
        BY NextIInv DEF PromiseInv
  <2>2. next_id' <= MaxId + 1
        BY IdsGrow DEF PromiseInv, vars
  <2> QED
        BY <2>1, <2>2 DEF PromiseInv
<1> QED
    BY <1>1, <1>2, PTL DEF Spec

\* The allocator implements its interface: seen through the directory, every
\* call of shm_alloc, shm_free, shm_resize and shm_block_set_perms is one
\* step of the table of objects, whatever the heap does underneath, unless
\* shm_resize brings its caller down.
THEOREM Implements == Spec => ImplementsPromise
<1>1. PromiseInv /\ [Next]_vars => [Promise!Next \/ Dies]_(Promise!vars)
      BY NextKept
<1> QED
    BY <1>1, InitKept, PromiseInvariance, PTL DEF Spec, ImplementsPromise

\* Call by call, and caller by caller: a call that the interface refuses to
\* this caller is refused, with the error that the interface gives, and one
\* that succeeds does to the object named what the interface says.
THEOREM CallsAreKept == Spec => EveryCallKept
<1> DEFINE Call ==
       /\ \A n \in PayloadSizes, name \in Names, u \in Users, p \in ObjPerms :
              shm_alloc(n, name, u, p) => Promise!Alloc(n, Trunc(name), u, p)
       /\ \A id \in 0 .. MaxId, u \in Users, cp \in CallerPerms :
              /\ shm_free(id, u, cp) => Promise!FreeObj(id, u, cp)
              /\ \A n \in PayloadSizes :
                    shm_resize(id, n, u, cp) =>
                       \/ Promise!Resize(id, n, u, cp)
                       \/ Dies /\ Promise!Verdict(id, u, cp, "RESIZE") = "OK"
       /\ \A i \in LiveSlots, u \in Users, cp \in CallerPerms, p \in ObjPerms :
              shm_block_set_perms(dir[i].off, u, cp, p) =>
                 Promise!SetPerms(dir[i].id, u, cp, p)
<1>1. IInv => Call
  <2> SUFFICES ASSUME IInv  PROVE Call
        OBVIOUS
  <2>1. ASSUME NEW n \in PayloadSizes, NEW name \in Names, NEW u \in Users,
               NEW p \in ObjPerms, shm_alloc(n, name, u, p)
        PROVE  Promise!Alloc(n, Trunc(name), u, p)
        BY <2>1, AllocKept
  <2>2. ASSUME NEW id \in 0 .. MaxId, NEW u \in Users, NEW cp \in CallerPerms,
               shm_free(id, u, cp)
        PROVE  Promise!FreeObj(id, u, cp)
        BY <2>2, FreeKept
  <2>3. ASSUME NEW id \in 0 .. MaxId, NEW u \in Users, NEW cp \in CallerPerms,
               NEW n \in PayloadSizes, shm_resize(id, n, u, cp)
        PROVE  \/ Promise!Resize(id, n, u, cp)
               \/ Dies /\ Promise!Verdict(id, u, cp, "RESIZE") = "OK"
        BY <2>3, ResizeKept
  <2>4. ASSUME NEW i \in LiveSlots, NEW u \in Users, NEW cp \in CallerPerms,
               NEW p \in ObjPerms, shm_block_set_perms(dir[i].off, u, cp, p)
        PROVE  Promise!SetPerms(dir[i].id, u, cp, p)
    <3>1. i \in Live(dir) /\ shm_blk_of_poff(dir[i].off) = At(dir, i)
          BY DEF LiveSlots, Live, At
    <3> QED
          BY <2>4, <3>1, SetPermsKept
  <2> QED
        BY <2>1, <2>2, <2>3, <2>4
<1> HIDE DEF Call
<1>2. Spec => [][Call]_vars
      BY <1>1, Invariance, PTL DEF Spec
<1> QED
    BY <1>2 DEF EveryCallKept, Call

-----------------------------------------------------------------------------
(***************************************************************************)
(* Counting bytes.                                                         *)
(***************************************************************************)
\* The bytes of the blocks S.
Span(h, S) == UNION {o .. End(h, o) - 1 : o \in S}

\* A byte belongs to the blocks S when one of them begins at or below it and
\* ends above it.
LEMMA SpanIs ==
    ASSUME NEW h, GoodHeap(h), NEW S, S \subseteq DOMAIN h.blk, NEW x
    PROVE  x \in Span(h, S) <=> x \in Nat /\ \E o \in S : o <= x /\ x < End(h, o)
<1>1. \A o \in S : o \in Nat /\ End(h, o) \in Nat
      BY EndIs DEF GoodHeap
<1>2. x \in Span(h, S) <=> \E o \in S : x \in o .. End(h, o) - 1
      BY DEF Span
<1>3. ASSUME NEW o \in S
      PROVE  x \in o .. End(h, o) - 1 <=> x \in Nat /\ o <= x /\ x < End(h, o)
      BY <1>1
<1> QED
    BY <1>2, <1>3

\* The blocks lie in the heap, so their bytes are finitely many.
LEMMA SpanFinite ==
    ASSUME NEW h, GoodHeap(h), NEW S, S \subseteq DOMAIN h.blk
    PROVE  /\ Span(h, S) \subseteq 0 .. HeapSize - 1
           /\ IsFiniteSet(Span(h, S)) /\ IsFiniteSet(S)
           /\ Cardinality(Span(h, S)) \in Nat /\ Cardinality(S) \in Nat
<1>1. HeapSize \in Nat
      BY HeapAssumption
<1>2. ASSUME NEW x \in Span(h, S)  PROVE x \in 0 .. HeapSize - 1
  <2>1. PICK o \in S : x \in Nat /\ x < End(h, o)
        BY SpanIs
  <2>2. End(h, o) \in Nat /\ End(h, o) <= HeapSize
        BY EndIs DEF GoodHeap, Tiled
  <2> QED
        BY <1>1, <2>1, <2>2
<1>3. IsFiniteSet(0 .. HeapSize - 1)
      BY <1>1, FS_Interval
<1>4. S \subseteq 0 .. HeapSize - 1
      BY DEF GoodHeap, HeapTypeOK
<1>5. IsFiniteSet(Span(h, S)) /\ IsFiniteSet(S)
      BY <1>2, <1>3, <1>4, FS_Subset
<1> QED
    BY <1>2, <1>5, FS_CardinalityType

\* Bytes counts them.
LEMMA BytesIs ==
    ASSUME NEW h, NEW S
    PROVE  Bytes(h, S) = Cardinality(Span(h, S))
    BY DEF Bytes, Span

\* Different blocks have no byte in common, so disjoint sets of blocks add up.
LEMMA BytesUnion ==
    ASSUME NEW h, GoodHeap(h), NEW S, S \subseteq DOMAIN h.blk,
           NEW T, T \subseteq DOMAIN h.blk, S \cap T = {}
    PROVE  Bytes(h, S \cup T) = Bytes(h, S) + Bytes(h, T)
<1>1. Span(h, S \cup T) = Span(h, S) \cup Span(h, T)
      BY DEF Span
<1>2. Span(h, S) \cap Span(h, T) = {}
  <2> SUFFICES ASSUME NEW x \in Span(h, S), x \in Span(h, T)  PROVE FALSE
        OBVIOUS
  <2>1. PICK o \in S : x \in Nat /\ o <= x /\ x < End(h, o)
        BY SpanIs
  <2>2. PICK q \in T : x \in Nat /\ q <= x /\ x < End(h, q)
        BY SpanIs
  <2>3. /\ o \in Nat /\ q \in Nat /\ End(h, o) \in Nat /\ End(h, q) \in Nat
        /\ o # q /\ o \in DOMAIN h.blk /\ q \in DOMAIN h.blk
        BY EndIs DEF GoodHeap
  <2>4. (o < q => End(h, o) <= q) /\ (q < o => End(h, q) <= o)
        BY <2>3 DEF GoodHeap, Tiled
  <2> QED
        BY <2>1, <2>2, <2>3, <2>4
<1>3. /\ IsFiniteSet(Span(h, S)) /\ Cardinality(Span(h, S)) \in Nat
      /\ IsFiniteSet(Span(h, T)) /\ Cardinality(Span(h, T)) \in Nat
      BY SpanFinite
<1>4. Cardinality(Span(h, S) \cap Span(h, T)) = 0
      BY <1>2, FS_EmptySet
<1>5. Cardinality(Span(h, S) \cup Span(h, T))
        = Cardinality(Span(h, S)) + Cardinality(Span(h, T))
  <2> DEFINE A == Span(h, S)
             B == Span(h, T)
  <2> HIDE DEF A, B
  <2>1. /\ IsFiniteSet(A) /\ IsFiniteSet(B) /\ Cardinality(A \cap B) = 0
        /\ Cardinality(A) \in Nat /\ Cardinality(B) \in Nat
        BY <1>3, <1>4 DEF A, B
  <2>2. Cardinality(A \cup B)
          = Cardinality(A) + Cardinality(B) - Cardinality(A \cap B)
        BY <2>1, FS_Union
  <2>3. Cardinality(A \cup B) = Cardinality(A) + Cardinality(B)
        BY <2>1, <2>2
  <2> QED
        BY <2>3 DEF A, B
<1> QED
    BY <1>1, <1>5, BytesIs

\* One block has as many bytes as its header says.
LEMMA BytesOne ==
    ASSUME NEW h, GoodHeap(h), NEW b \in DOMAIN h.blk
    PROVE  Bytes(h, {b}) = h.blk[b].total_size
<1> DEFINE t == h.blk[b].total_size
           x == End(h, b) - 1
<1>1. Span(h, {b}) = b .. x
      BY DEF Span
<1>2. b \in Nat /\ t \in Nat /\ t > 0 /\ x = b + t - 1
  <2>1. t \in Nat /\ t >= BLOCK_MIN
        BY DEF GoodHeap, HeapTypeOK, BlockHdr, Tiled
  <2>2. b \in Nat /\ End(h, b) = b + t
        BY EndIs DEF GoodHeap
  <2> QED
        BY <2>1, <2>2 DEF BLOCK_MIN, HDR, HEAP_ALIGN
<1> HIDE DEF t, x
<1>3. Cardinality(b .. x) = t
  <2>1. b \in Int /\ x \in Int /\ ~(b > x) /\ x - b + 1 = t
        BY <1>2
  <2> QED
        BY <2>1, FS_Interval
<1> QED
    BY <1>1, <1>3, BytesIs DEF t

\* Blocks of the same sizes cover the same bytes.
LEMMA BytesSame ==
    ASSUME NEW h, NEW g, NEW S,
           \A o \in S : g.blk[o].total_size = h.blk[o].total_size
    PROVE  Bytes(g, S) = Bytes(h, S)
<1>1. \A o \in S : End(g, o) = End(h, o)
      BY DEF End
<1>2. Span(g, S) = Span(h, S)
      BY <1>1 DEF Span
<1> QED
    BY <1>2, BytesIs

\* The blocks together have every byte of the heap.
LEMMA BytesAll ==
    ASSUME NEW h, GoodHeap(h)
    PROVE  Bytes(h, DOMAIN h.blk) = HeapSize
<1> DEFINE D == DOMAIN h.blk
<1>1. HeapSize \in Nat
      BY HeapAssumption
<1>2. \A o \in D : o \in Nat /\ End(h, o) \in Nat /\ o < End(h, o)
      BY EndIs DEF GoodHeap
<1>3. ASSUME NEW x \in 0 .. HeapSize - 1  PROVE x \in Span(h, D)
  <2> DEFINE P == {o \in D : o <= x}
  <2>1. 0 \in P /\ P \in SUBSET Int /\ x \in Int
        BY <1>1, <1>2 DEF GoodHeap, Tiled
  <2>2. \A o \in P : Head <= o /\ o <= x
        BY <1>2 DEF Head
  <2>3. PICK o \in P : \A q \in P : q <= o
        BY <2>1, <2>2, GreatestExists
  <2>4. x < End(h, o)
    <3> SUFFICES ASSUME ~(x < End(h, o))  PROVE FALSE
          OBVIOUS
    <3>1. End(h, o) <= x /\ End(h, o) # HeapSize
          BY <1>1, <1>2
    <3>2. End(h, o) \in D
          BY <3>1 DEF GoodHeap, Tiled
    <3> QED
          BY <1>2, <2>3, <3>1, <3>2
  <2>5. x \in Nat /\ o \in D /\ o <= x
        BY <1>1
  <2> QED
        BY <2>4, <2>5, SpanIs
<1>4. Span(h, D) = 0 .. HeapSize - 1
      BY <1>3, SpanFinite
<1>5. Cardinality(0 .. HeapSize - 1) = HeapSize
  <2>1. 0 \in Int /\ HeapSize - 1 \in Int /\ ~(0 > HeapSize - 1)
        BY HeapAssumption DEF BLOCK_MIN, HDR, HEAP_ALIGN
  <2>2. (HeapSize - 1) - 0 + 1 = HeapSize
        BY <1>1
  <2> QED
        BY <2>1, <2>2, FS_Interval
<1> QED
    BY <1>4, <1>5, BytesIs

-----------------------------------------------------------------------------
(***************************************************************************)
(* The counters of the region header.                                      *)
(***************************************************************************)
\* used_bytes and block_count are those of the blocks in use.
Booked(h) ==
    /\ h.used_bytes = Bytes(h, Used(h))
    /\ h.block_count = Cardinality(Used(h))

\* Blocks in use are blocks, and neither free nor infinitely many.
LEMMA UsedFinite ==
    ASSUME NEW h, GoodHeap(h), NEW S, S \subseteq Used(h)
    PROVE  /\ S \subseteq DOMAIN h.blk
           /\ Bytes(h, S) \in Nat
           /\ IsFiniteSet(S) /\ Cardinality(S) \in Nat
<1>1. S \subseteq DOMAIN h.blk
      BY DEF Used
<1> QED
    BY <1>1, SpanFinite, BytesIs

\* One more block in use: its bytes and one block more.
LEMMA BookOne ==
    ASSUME NEW h, GoodHeap(h), NEW R, NEW b, b \notin R,
           Used(h) = R \cup {b}
    PROVE  /\ Bytes(h, Used(h)) = Bytes(h, R) + h.blk[b].total_size
           /\ Cardinality(Used(h)) = Cardinality(R) + 1
<1>1. /\ R \subseteq DOMAIN h.blk /\ b \in DOMAIN h.blk /\ R \cap {b} = {}
      /\ IsFiniteSet(R) /\ {b} \subseteq DOMAIN h.blk
      BY UsedFinite DEF Used
<1>2. Bytes(h, R \cup {b}) = Bytes(h, R) + Bytes(h, {b})
      BY <1>1, BytesUnion
<1>3. Bytes(h, {b}) = h.blk[b].total_size
      BY <1>1, BytesOne
<1>4. Cardinality(R \cup {b}) = Cardinality(R) + 1
      BY <1>1, FS_AddElement
<1> QED
    BY <1>2, <1>3, <1>4

\* What a call does to the blocks in use: those of R stay as they are.
Stays(h, g, R) ==
    /\ R \subseteq Used(h) /\ R \subseteq Used(g)
    /\ \A o \in R : g.blk[o] = h.blk[o]

\* The sizes and numbers that the next three lemmas add up.
LEMMA StaysCounted ==
    ASSUME NEW h, GoodHeap(h), NEW g, GoodHeap(g), NEW R, Stays(h, g, R)
    PROVE  /\ Bytes(g, R) = Bytes(h, R)
           /\ Bytes(h, R) \in Nat /\ Cardinality(R) \in Nat
    BY BytesSame, UsedFinite DEF Stays

\* A block is taken into use and counted.
LEMMA BookTaken ==
    ASSUME NEW h, GoodHeap(h), Booked(h), NEW g, GoodHeap(g), NEW b,
           b \notin Used(h), Used(g) = Used(h) \cup {b},
           \A o \in Used(h) : g.blk[o] = h.blk[o],
           Counted(h, g, g.blk[b].total_size, 1)
    PROVE  Booked(g)
<1>1. Bytes(g, Used(h)) = Bytes(h, Used(h))
      BY StaysCounted DEF Stays
<1>2. /\ Bytes(g, Used(g)) = Bytes(g, Used(h)) + g.blk[b].total_size
      /\ Cardinality(Used(g)) = Cardinality(Used(h)) + 1
      BY BookOne
<1> QED
    BY <1>1, <1>2 DEF Booked, Counted

\* A block is given back and no longer counted.
LEMMA BookReleased ==
    ASSUME NEW h, GoodHeap(h), Booked(h), NEW g, GoodHeap(g),
           NEW b \in Used(h), Used(g) = Used(h) \ {b},
           \A o \in Used(h) \ {b} : g.blk[o] = h.blk[o],
           Counted(h, g, -h.blk[b].total_size, -1)
    PROVE  Booked(g)
<1> DEFINE R == Used(h) \ {b}
<1>1. Stays(h, g, R) /\ Used(g) = R /\ b \notin R /\ Used(h) = R \cup {b}
      BY DEF Stays
<1> HIDE DEF R
<1>2. /\ Bytes(g, R) = Bytes(h, R) /\ Bytes(h, R) \in Nat
      /\ Cardinality(R) \in Nat
      BY <1>1, StaysCounted
<1>3. /\ Bytes(h, Used(h)) = Bytes(h, R) + h.blk[b].total_size
      /\ Cardinality(Used(h)) = Cardinality(R) + 1
      BY <1>1, BookOne
<1>4. h.blk[b].total_size \in Nat
      BY UsedIs
<1>5. /\ g.used_bytes = h.used_bytes + (-h.blk[b].total_size)
      /\ g.block_count = h.block_count + (-1)
      BY DEF Counted
<1>6. /\ h.used_bytes = Bytes(h, R) + h.blk[b].total_size
      /\ h.block_count = Cardinality(R) + 1
      BY <1>3 DEF Booked
<1>7. g.used_bytes = Bytes(h, R) /\ g.block_count = Cardinality(R)
      BY <1>2, <1>4, <1>5, <1>6
<1> QED
    BY <1>1, <1>2, <1>7 DEF Booked

\* A block in use is shrunk, grown or exchanged for another one.
LEMMA BookPlaced ==
    ASSUME NEW h, GoodHeap(h), Booked(h), NEW b \in Used(h), NEW g, NEW nb,
           NEW n, Placed(h, g, b, nb, n), nb = b \/ nb \notin Used(h)
    PROVE  Booked(g)
<1> DEFINE R == Used(h) \ {b}
           x == h.blk[b].total_size
           y == g.blk[nb].total_size
<1>1. /\ GoodHeap(g) /\ Stays(h, g, R) /\ b \notin R /\ nb \notin R
      /\ Used(h) = R \cup {b} /\ Used(g) = R \cup {nb}
      BY DEF Stays, Placed
<1> HIDE DEF R
<1>2. /\ Bytes(g, R) = Bytes(h, R) /\ Bytes(h, R) \in Nat
      /\ Cardinality(R) \in Nat
      BY <1>1, StaysCounted
<1>3. /\ Bytes(h, Used(h)) = Bytes(h, R) + x
      /\ Cardinality(Used(h)) = Cardinality(R) + 1
      BY <1>1, BookOne
<1>4. /\ Bytes(g, Used(g)) = Bytes(g, R) + y
      /\ Cardinality(Used(g)) = Cardinality(R) + 1
      BY <1>1, BookOne
<1>5. x \in Nat
      BY UsedIs
<1>6. y \in Nat
      BY <1>1, UsedIs
<1>7. g.used_bytes = h.used_bytes + (y - x) /\ g.block_count = h.block_count + 0
      BY DEF Placed, Counted
<1>8. h.used_bytes = Bytes(h, R) + x /\ h.block_count = Cardinality(R) + 1
      BY <1>3 DEF Booked
<1> HIDE DEF x, y
<1>9. g.used_bytes = Bytes(h, R) + y /\ g.block_count = Cardinality(R) + 1
      BY <1>2, <1>5, <1>6, <1>7, <1>8
<1> QED
    BY <1>2, <1>4, <1>9 DEF Booked

\* Labels do not count.
LEMMA BookSame ==
    ASSUME NEW h, Booked(h), NEW g, Used(g) = Used(h),
           \A o \in Used(h) : g.blk[o].total_size = h.blk[o].total_size,
           g.used_bytes = h.used_bytes, g.block_count = h.block_count
    PROVE  Booked(g)
    BY BytesSame DEF Booked

-----------------------------------------------------------------------------
\* The inductive invariant of the counters.
BookInv == IInv /\ (~Crashed => Booked(heap))

\* A new region has nothing in use and counts nothing.
LEMMA InitBooked == Init => BookInv
<1> SUFFICES ASSUME Init  PROVE BookInv
      OBVIOUS
<1>1. IInv
      BY InitIInv
<1>2. heap.used_bytes = 0 /\ heap.block_count = 0
      BY DEF Init
<1>3. Used(heap) = {}
      BY DEF Init, Used, FreeHdr
<1>4. Span(heap, {}) = {}
      BY DEF Span
<1>5. Bytes(heap, Used(heap)) = 0 /\ Cardinality(Used(heap)) = 0
      BY <1>3, <1>4, BytesIs, FS_EmptySet
<1> QED
    BY <1>1, <1>2, <1>5 DEF BookInv, Booked

\* Every step keeps the counters exact.
LEMMA NextBooked == BookInv /\ [Next]_vars => BookInv'
<1> SUFFICES ASSUME BookInv, [Next]_vars  PROVE BookInv'
      OBVIOUS
<1>0. IInv /\ IInv'
      BY NextIInv DEF BookInv
<1>1. CASE UNCHANGED <<heap, ret>>
      BY <1>0, <1>1 DEF BookInv, Crashed
<1>2. ASSUME NEW e, Fail(e), ~Crashed  PROVE BookInv'
      BY <1>0, <1>2 DEF BookInv, Fail, Crashed
<1>3. ASSUME ~Crashed
      PROVE  GoodHeap(heap) /\ DirOK(heap, dir, next_id) /\ Booked(heap)
      BY <1>0, <1>3 DEF IInv, BookInv
<1>4. ASSUME NEW n \in PayloadSizes, NEW name \in Names, NEW u \in Users,
             NEW p \in ObjPerms, shm_alloc(n, name, u, p)
      PROVE  BookInv'
  <2>1. ~Crashed
        BY <1>4 DEF shm_alloc
  <2>2. ASSUME NEW i, NEW b, Created(i, b, n, Trunc(name), u, p)
        PROVE  BookInv'
    <3>1. /\ b \notin Used(heap) /\ GoodHeap(heap')
          /\ Used(heap') = Used(heap) \cup {b}
          /\ \A o \in Used(heap) : heap'.blk[o] = heap.blk[o]
          /\ Counted(heap, heap', heap'.blk[b].total_size, 1)
          BY <2>2 DEF Created
    <3>2. Booked(heap')
          BY <1>3, <2>1, <3>1, BookTaken
    <3> QED
          BY <1>0, <3>2 DEF BookInv
  <2> QED
        BY <1>0, <1>2, <1>4, <2>1, <2>2, AllocDoes
<1>5. ASSUME NEW id, NEW u, NEW cp, shm_free(id, u, cp)
      PROVE  BookInv'
  <2>1. ~Crashed
        BY <1>5 DEF shm_free
  <2>2. ASSUME NEW i, Removed(i)  PROVE BookInv'
    <3> DEFINE b == At(dir, i)
    <3>1. b \in Used(heap)
          BY <1>3, <2>1, <2>2 DEF DirOK, Removed
    <3>2. /\ GoodHeap(heap') /\ Used(heap') = Used(heap) \ {b}
          /\ \A o \in Used(heap) \ {b} : heap'.blk[o] = heap.blk[o]
          /\ Counted(heap, heap', -heap.blk[b].total_size, -1)
          BY <2>2 DEF Removed
    <3> HIDE DEF b
    <3>3. Booked(heap')
          BY <1>3, <2>1, <3>1, <3>2, BookReleased
    <3> QED
          BY <1>0, <3>3 DEF BookInv
  <2> QED
        BY <1>0, <1>2, <1>5, <2>1, <2>2, FreeDoes
<1>6. ASSUME NEW id, NEW n \in PayloadSizes, NEW u, NEW cp,
             shm_resize(id, n, u, cp)
      PROVE  BookInv'
  <2>1. ~Crashed
        BY <1>6 DEF shm_resize
  <2>2. ASSUME NEW i, NEW nb, Resized(i, nb, n)  PROVE BookInv'
    <3> DEFINE b == At(dir, i)
               m == NeedTotal(n)
    <3>1. b \in Used(heap)
          BY <1>3, <2>1, <2>2 DEF DirOK, Resized
    <3>2. Placed(heap, heap', b, nb, m) /\ (nb = b \/ nb \notin Used(heap))
          BY <2>2 DEF Resized
    <3> HIDE DEF b, m
    <3>3. Booked(heap')
          BY <1>3, <2>1, <3>1, <3>2, BookPlaced
    <3> QED
          BY <1>0, <3>3 DEF BookInv
  <2>3. CASE Died
        BY <1>0, <2>3 DEF BookInv, Died, Crashed
  <2> QED
        BY <1>0, <1>2, <1>6, <2>1, <2>2, <2>3, ResizeDoes
<1>7. ASSUME NEW off, NEW u, NEW cp, NEW p \in ObjPerms,
             shm_block_set_perms(off, u, cp, p)
      PROVE  BookInv'
  <2>1. ~Crashed
        BY <1>7 DEF shm_block_set_perms
  <2>2. ASSUME NEW i, Repermed(i, p)  PROVE BookInv'
    <3> DEFINE b == At(dir, i)
    <3>1. b \in Used(heap)
          BY <1>3, <2>1, <2>2 DEF DirOK, Repermed
    <3>2. /\ Used(heap') = Used(heap)
          /\ \A o \in Used(heap) \ {b} : heap'.blk[o] = heap.blk[o]
          /\ heap'.blk[b] = [heap.blk[b] EXCEPT !.perms = p]
          /\ heap'.used_bytes = heap.used_bytes
          /\ heap'.block_count = heap.block_count
          BY <2>2 DEF Repermed
    <3> HIDE DEF b
    <3>3. heap.blk[b] \in BlockHdr
          BY <1>3, <2>1, <3>1 DEF GoodHeap, HeapTypeOK, Used
    <3>4. heap'.blk[b].total_size = heap.blk[b].total_size
          BY <3>2, <3>3 DEF BlockHdr
    <3>5. \A o \in Used(heap) : heap'.blk[o].total_size = heap.blk[o].total_size
          BY <3>2, <3>4
    <3>6. Booked(heap')
          BY <1>3, <2>1, <3>2, <3>5, BookSame
    <3> QED
          BY <1>0, <3>6 DEF BookInv
  <2> QED
        BY <1>0, <1>2, <1>7, <2>1, <2>2, SetPermsDoes
<1> QED
    BY <1>1, <1>4, <1>5, <1>6, <1>7 DEF Next, Stopped, vars

\* The counters and the directory count the same blocks.
LEMMA AccountingFollows == BookInv => AccountingExact
<1> SUFFICES ASSUME BookInv, ~Crashed
             PROVE  /\ heap.used_bytes = Bytes(heap, Allocated(heap))
                    /\ HeapSize - heap.used_bytes = Bytes(heap, Free(heap))
                    /\ heap.block_count = Cardinality(Allocated(heap))
                    /\ heap.block_count = Cardinality(LiveSlots)
      BY DEF AccountingExact
<1>1. GoodHeap(heap) /\ DirOK(heap, dir, next_id) /\ Booked(heap)
      BY DEF BookInv, IInv
<1>2. /\ Allocated(heap) = Used(heap) /\ Used(heap) \cap Free(heap) = {}
      /\ Used(heap) \cup Free(heap) = DOMAIN heap.blk
      BY <1>1 DEF Allocated, Used, Free, GoodHeap, HeapTypeOK, BlockHdr
<1>3. /\ Used(heap) \subseteq DOMAIN heap.blk /\ Free(heap) \subseteq DOMAIN heap.blk
      BY DEF Used, Free
<1>4. HeapSize = Bytes(heap, Used(heap)) + Bytes(heap, Free(heap))
      BY <1>1, <1>2, <1>3, BytesUnion, BytesAll
<1>5. Bytes(heap, Used(heap)) \in Nat /\ Bytes(heap, Free(heap)) \in Nat
      BY <1>1, <1>3, SpanFinite, BytesIs
<1>6. LiveSlots = Live(dir)
      BY DEF LiveSlots, Live
<1>7. Cardinality(Live(dir)) = Cardinality(Used(heap))
  <2> DEFINE f == [i \in Live(dir) |-> At(dir, i)]
  <2>1. IsFiniteSet(Live(dir))
    <3>1. IsFiniteSet(Slots)
          BY DirAssumption, FS_Interval DEF Slots
    <3>2. Live(dir) \subseteq Slots
          BY DEF Live
    <3> QED
          BY <3>1, <3>2, FS_Subset
  <2>2. f \in [Live(dir) -> Used(heap)]
        BY <1>1 DEF DirOK
  <2>3. f \in Surjection(Live(dir), Used(heap))
        BY <1>1, <2>2 DEF Surjection, DirOK
  <2>4. f \in Injection(Live(dir), Used(heap))
        BY <1>1, <2>2, DirInjective DEF Injection, IsInjective
  <2> QED
        BY <2>1, <2>3, <2>4, FS_Surjection
<1> QED
    BY <1>1, <1>2, <1>4, <1>5, <1>6, <1>7 DEF Booked

\* For every heap, however often blocks are split, merged, grown and moved:
\* what shm_pool_stats reports is what there is.
THEOREM AccountingIsExact == Spec => []AccountingExact
    BY InitBooked, NextBooked, AccountingFollows, PTL DEF Spec

-----------------------------------------------------------------------------
(***************************************************************************)
(* The loops over the free list.                                           *)
(***************************************************************************)
Nx(h, p) == shm_link_dec(Link(h, p))

\* Nodes are integers between Head and the end of the heap; every one but
\* the last links to the next higher one.
LEMMA NodesAre ==
    ASSUME NEW h, GoodHeap(h)
    PROVE  /\ Head \in Nodes(h) /\ Nodes(h) \subseteq Int
           /\ \A p \in Nodes(h) : Head <= p /\ p <= HeapSize
           /\ \A p \in Nodes(h) :
                 \/ Link(h, p) = 0 /\ \A q \in Nodes(h) : q <= p
                 \/ /\ Nx(h, p) \in Free(h) /\ Nx(h, p) \in Nodes(h)
                    /\ p < Nx(h, p)
                    /\ \A q \in Nodes(h) : q <= p \/ Nx(h, p) <= q
<1>1. Free(h) \subseteq 0 .. HeapSize - 1 /\ HeapSize \in Nat
      BY HeapAssumption DEF GoodHeap, HeapTypeOK, Free
<1>2. /\ Head \in Nodes(h) /\ Nodes(h) \subseteq Int
      /\ \A p \in Nodes(h) : Head <= p /\ p <= HeapSize
      BY <1>1 DEF Nodes, Head
<1>3. ASSUME NEW p \in Nodes(h)
      PROVE  \/ Link(h, p) = 0 /\ \A q \in Nodes(h) : q <= p
             \/ /\ Nx(h, p) \in Free(h) /\ Nx(h, p) \in Nodes(h)
                /\ p < Nx(h, p)
                /\ \A q \in Nodes(h) : q <= p \/ Nx(h, p) <= q
  <2>1. \A q \in Nodes(h) : q \in Free(h) \/ q <= p
        BY <1>2 DEF Nodes
  <2>2. \/ Link(h, p) = 0 /\ \A q \in Free(h) : q <= p
        \/ /\ Nx(h, p) \in Free(h) /\ p < Nx(h, p)
           /\ \A q \in Free(h) : q <= p \/ Nx(h, p) <= q
        BY DEF GoodHeap, Threads, Nodes, Nx
  <2> QED
        BY <2>1, <2>2 DEF Nodes
<1> QED
    BY <1>2, <1>3

\* Any set of nodes has a lowest and a highest one.
LEMMA EndNodes ==
    ASSUME NEW h, GoodHeap(h), NEW S, S \subseteq Nodes(h), S # {}
    PROVE  /\ \E p \in S : \A q \in S : p <= q
           /\ \E p \in S : \A q \in S : q <= p
<1>1. /\ S \subseteq Int /\ \A p \in S : Head <= p /\ p <= HeapSize
      /\ HeapSize \in Int
      BY NodesAre, HeapAssumption
<1>2. \E p \in S : \A q \in S : q <= p
      BY <1>1, GreatestExists
<1>3. CASE Head \in S
      BY <1>1, <1>2, <1>3
<1>4. CASE Head \notin S
  <2>1. S \in SUBSET Nat
        BY <1>1, <1>4 DEF Head
  <2> QED
        BY <1>2, <2>1, LeastExists
<1> QED
    BY <1>3, <1>4

\* A loop ends, at the first node of the list where it may: the equation
\* that defines the walk has one solution, which maps each node to the
\* lowest stop from there on.
LEMMA WalkIs ==
    ASSUME NEW h, GoodHeap(h), NEW Stops, Stops \subseteq Nodes(h),
           \A p \in Nodes(h) : Link(h, p) = 0 => p \in Stops
    PROVE  /\ Walk(h, Stops) \in Stops
           /\ \A q \in Stops : Walk(h, Stops) <= q
<1> DEFINE N == Nodes(h)
           On(p) == {q \in Stops : p <= q}
           sol == [p \in N |-> CHOOSE q \in On(p) : \A r \in On(p) : q <= r]
           Def(f) == [p \in N |-> IF p \in Stops THEN p
                                  ELSE f[shm_link_dec(Link(h, p))]]
           w == CHOOSE f : f = Def(f)
<1>1. /\ Head \in N /\ N \subseteq Int
      /\ \A p \in N : Head <= p
      /\ \A p \in N : p \in Stops \/ /\ Nx(h, p) \in N /\ p < Nx(h, p)
                                     /\ \A q \in N : q <= p \/ Nx(h, p) <= q
      BY NodesAre
<1>2. ASSUME NEW p \in N
      PROVE  /\ sol[p] \in Stops /\ p <= sol[p]
             /\ \A q \in Stops : p <= q => sol[p] <= q
  <2>1. On(p) # {}
    <3>1. PICK m \in N : \A q \in N : q <= m
          BY <1>1, EndNodes
    <3>2. m \in Stops
          BY <1>1, <3>1
    <3> QED
          BY <3>1, <3>2
  <2>2. \E q \in On(p) : \A r \in On(p) : q <= r
        BY <2>1, EndNodes
  <2> QED
        BY <2>2
<1>3. ASSUME NEW p \in N, p \in Stops  PROVE sol[p] = p
      BY <1>1, <1>2, <1>3
<1>4. ASSUME NEW p \in N, p \notin Stops
      PROVE  sol[p] = sol[Nx(h, p)]
  <2>1. On(p) = On(Nx(h, p))
        BY <1>1, <1>4
  <2>2. Nx(h, p) \in N
        BY <1>1, <1>4
  <2> QED
        BY <2>1, <2>2
<1> HIDE DEF sol
<1>5. sol = Def(sol)
  <2>1. sol = [p \in N |-> sol[p]]
        BY DEF sol
  <2>2. \A p \in N : sol[p] = IF p \in Stops THEN p
                              ELSE sol[shm_link_dec(Link(h, p))]
        BY <1>3, <1>4 DEF Nx
  <2> QED
        BY <2>1, <2>2
<1>6. w = Def(w)
      BY <1>5, Zenon
<1>7. Walk(h, Stops) = w[Head]
      BY DEF Walk
<1> HIDE DEF w
<1>8. \A p \in N : w[p] = IF p \in Stops THEN p ELSE w[Nx(h, p)]
      BY <1>6 DEF Nx
<1>9. \A p \in N : w[p] = sol[p]
  <2> DEFINE B == {p \in N : w[p] # sol[p]}
  <2> SUFFICES ASSUME B # {}  PROVE FALSE
        OBVIOUS
  <2>1. PICK p \in B : \A q \in B : q <= p
        BY EndNodes
  <2>2. p \notin Stops
        BY <1>3, <1>8
  <2>3. w[Nx(h, p)] # sol[Nx(h, p)]
        BY <1>4, <1>8, <2>2
  <2>4. Nx(h, p) \in N /\ p < Nx(h, p)
        BY <1>1, <2>2
  <2> QED
        BY <1>1, <2>1, <2>3, <2>4
<1>10. Walk(h, Stops) = sol[Head]
      BY <1>1, <1>7, <1>9
<1> QED
    BY <1>1, <1>2, <1>10

\* The loop of freelist_insert ends at the last node below b.
LEMMA WalkInsertIs ==
    ASSUME NEW h, GoodHeap(h), NEW b \in Nat, b \notin Free(h)
    PROVE  WalkInsert(h, b) = InsertPrev(h, b)
<1> DEFINE Stops == {p \in Nodes(h) : Link(h, p) = 0 \/ shm_link_dec(Link(h, p)) > b}
           w == Walk(h, Stops)
           ip == InsertPrev(h, b)
<1>1. Free(h) \ {b} = Free(h) /\ HeapTypeOK(h) /\ Threads(h, Free(h))
      BY DEF GoodHeap
<1>2. /\ ip \in Nodes(h) /\ ip < b
      /\ Link(h, ip) = 0 \/ shm_link_dec(Link(h, ip)) > b
      BY <1>1, InsertPrevIs DEF Nodes
<1>3. w \in Stops /\ \A q \in Stops : w <= q
      BY WalkIs
<1>4. w <= ip /\ w \in Nodes(h)
      BY <1>2, <1>3
<1>5. ip <= w
  <2>1. CASE Link(h, w) = 0 /\ \A q \in Nodes(h) : q <= w
        BY <1>2, <2>1
  <2>2. CASE Link(h, w) # 0 /\ Nx(h, w) \in Nodes(h)
             /\ (ip <= w \/ Nx(h, w) <= ip)
    <3>1. Nx(h, w) > b
          BY <1>3, <2>2 DEF Nx
    <3> QED
          BY <1>2, <2>2, <3>1, NodesAre
  <2>3. CASE Link(h, w) = 0
    <3>1. ~(Nx(h, w) \in Free(h))
      <4>1. Nx(h, w) = -1
            BY <2>3 DEF Nx, shm_link_dec
      <4> QED
            BY <4>1, <1>1 DEF Free, HeapTypeOK
    <3> QED
          BY <1>4, <2>1, <2>3, <3>1, NodesAre
  <2> QED
        BY <1>2, <1>4, <2>1, <2>2, <2>3, NodesAre
<1>6. w = ip
      BY <1>2, <1>4, <1>5, NodesAre
<1> QED
    BY <1>6 DEF WalkInsert

\* Of two nodes where a loop may stop, the one before block b and the one
\* where it does stop, the second is the first if it does not stop early.
LEMMA StopsAtPrev ==
    ASSUME NEW h, GoodHeap(h), NEW b \in Free(h), NEW w \in Nodes(h),
           w <= PrevOf(h, b), Link(h, w) # 0 => b <= Nx(h, w)
    PROVE  w = PrevOf(h, b)
<1> DEFINE p == PrevOf(h, b)
<1>1. p \in Nodes(h) /\ p < b /\ b \in Int
  <2>1. HeapTypeOK(h) /\ Threads(h, Free(h))
        BY DEF GoodHeap
  <2>2. p \in Nodes(h) /\ p < b
        BY <2>1, PrevOfIs DEF Nodes
  <2> QED
        BY <2>1, <2>2 DEF Free, HeapTypeOK
<1> HIDE DEF p
<1>2. \/ \A q \in Nodes(h) : q <= w
      \/ Link(h, w) # 0 /\ Nx(h, w) \in Nodes(h) /\ (p <= w \/ Nx(h, w) <= p)
  <2>1. Link(h, w) = 0 => Nx(h, w) \notin Free(h)
    <3>1. -1 \notin Free(h)
          BY DEF Free, GoodHeap, HeapTypeOK
    <3> QED
          BY <3>1 DEF Nx, shm_link_dec
  <2> QED
        BY <1>1, <2>1, NodesAre
<1>3. p <= w
      BY <1>1, <1>2, NodesAre
<1>4. w \in Int /\ p \in Int /\ w <= p
      BY <1>1, NodesAre DEF p
<1> QED
    BY <1>3, <1>4 DEF p

\* The loop of heap_alloc_block ends before the lowest block that fits, or
\* at the end of the list if none does.
LEMMA WalkFitIs ==
    ASSUME NEW h, GoodHeap(h), NEW need
    PROVE  IF Fits(h, need) = {}
           THEN Link(h, WalkFit(h, need)) = 0
           ELSE WalkFit(h, need) = PrevOf(h, FirstFit(h, need))
<1> DEFINE Stops == {p \in Nodes(h) :
                        \/ Link(h, p) = 0
                        \/ h.blk[shm_link_dec(Link(h, p))].total_size >= need}
           w == Walk(h, Stops)
<1>1. w \in Stops /\ \A q \in Stops : w <= q
      BY WalkIs
<1>2. w \in Nodes(h) /\ WalkFit(h, need) = w
      BY <1>1 DEF WalkFit
<1>3. Link(h, w) # 0 => Nx(h, w) \in Fits(h, need)
      BY <1>1, <1>2, NodesAre DEF Fits, Nx
<1>4. CASE Fits(h, need) = {}
      BY <1>2, <1>3, <1>4
<1>5. CASE Fits(h, need) # {}
  <2> DEFINE b == FirstFit(h, need)
  <2>1. HeapTypeOK(h) /\ Threads(h, Free(h)) /\ Fits(h, need) \in SUBSET Nat
        BY DEF GoodHeap, HeapTypeOK, Fits, Free
  <2>2. b \in Fits(h, need) /\ \A q \in Fits(h, need) : b <= q
    <3>1. \E o \in Fits(h, need) : \A q \in Fits(h, need) : o <= q
          BY <1>5, <2>1, LeastExists
    <3> QED
          BY <3>1 DEF FirstFit
  <2> HIDE DEF b
  <2>3. b \in Free(h) /\ b \in Nat /\ h.blk[b].total_size >= need
        BY <2>1, <2>2 DEF Fits
  <2>4. PrevOf(h, b) \in Nodes(h) /\ Link(h, PrevOf(h, b)) = shm_link_enc(b)
        BY <2>1, <2>3, PrevOfIs DEF Nodes
  <2>5. shm_link_dec(Link(h, PrevOf(h, b))) = b
        BY <2>3, <2>4 DEF shm_link_dec, shm_link_enc
  <2>6. PrevOf(h, b) \in Stops
        BY <2>3, <2>4, <2>5
  <2>7. w = PrevOf(h, b)
    <3>1. w <= PrevOf(h, b) /\ (Link(h, w) # 0 => b <= Nx(h, w))
          BY <1>1, <1>3, <2>2, <2>6
    <3> HIDE DEF w
    <3> QED
          BY <1>2, <2>3, <3>1, StopsAtPrev
  <2> QED
        BY <1>2, <1>5, <2>7 DEF b
<1> QED
    BY <1>4, <1>5

\* The loop of freelist_remove ends before its target.
LEMMA WalkRemoveIs ==
    ASSUME NEW h, GoodHeap(h), NEW b \in Free(h)
    PROVE  WalkRemove(h, b) = PrevOf(h, b)
<1> DEFINE Stops == {p \in Nodes(h) :
                        Link(h, p) = 0 \/ shm_link_dec(Link(h, p)) = b}
           w == Walk(h, Stops)
<1>1. w \in Stops /\ \A q \in Stops : w <= q
      BY WalkIs
<1>2. w \in Nodes(h) /\ WalkRemove(h, b) = w
      BY <1>1 DEF WalkRemove
<1>3. b \in Nat /\ HeapTypeOK(h) /\ Threads(h, Free(h))
      BY DEF GoodHeap, HeapTypeOK, Free
<1>4. PrevOf(h, b) \in Nodes(h) /\ Link(h, PrevOf(h, b)) = shm_link_enc(b)
      BY <1>3, PrevOfIs DEF Nodes
<1>5. PrevOf(h, b) \in Stops
      BY <1>3, <1>4 DEF shm_link_dec, shm_link_enc
<1>6. w <= PrevOf(h, b) /\ (Link(h, w) # 0 => b <= Nx(h, w))
      BY <1>1, <1>3, <1>5 DEF Nx
<1> HIDE DEF w
<1> QED
    BY <1>2, <1>6, StopsAtPrev

\* For every heap: the loops that the code runs, following next_free from
\* free_list, come to an end and stop where ShmAlloc says.
THEOREM WalksAreRight == Spec => []WalksAgree
<1>1. IInv => WalksAgree
  <2> SUFFICES ASSUME IInv, ~Crashed
               PROVE  /\ \A b \in (0 .. HeapSize - 1) \ Free(heap) :
                            WalkInsert(heap, b) = InsertPrev(heap, b)
                      /\ \A n \in PayloadSizes :
                            LET need == NeedTotal(n)
                            IN  IF Fits(heap, need) = {}
                                THEN Link(heap, WalkFit(heap, need)) = 0
                                ELSE WalkFit(heap, need)
                                       = PrevOf(heap, FirstFit(heap, need))
                      /\ \A b \in Free(heap) : WalkRemove(heap, b) = PrevOf(heap, b)
        BY DEF WalksAgree
  <2>1. GoodHeap(heap)
        BY DEF IInv
  <2>2. \A b \in (0 .. HeapSize - 1) \ Free(heap) : b \in Nat /\ b \notin Free(heap)
        BY HeapAssumption
  <2> QED
        BY <2>1, <2>2, WalkInsertIs, WalkFitIs, WalkRemoveIs
<1> QED
    BY <1>1, Invariance, PTL
=============================================================================
