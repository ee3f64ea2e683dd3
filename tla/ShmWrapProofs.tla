---------------------------- MODULE ShmWrapProofs ----------------------------
(***************************************************************************)
(* The C++ wrappers, for every number of processes: between the C calls of *)
(* one shm::make or shm::free no other process can take the object away,   *)
(* as long as no caller holds ADMIN.                                       *)
(***************************************************************************)
EXTENDS ShmWrap, ShmAllocProofs

\* The hypothesis of this module: neither a caller's permission word nor a
\* handle's, which shm::make takes from the object, carries ADMIN, the
\* permission that lets a caller free and move what belongs to others.
NoAdmin == \A P \in CallerPerms \cup ObjPerms : "ADMIN" \notin P

RW == {"READ", "WRITE"}

\* The block at the handle of a process in state e.
Place(e) == shm_blk_of_poff(e.off)

\* Process p, in state e and inside a wrapper, has its handle at a block of
\* heap h that belongs to it, in the condition that the wrapper's next step
\* relies on; B are the constructed objects.
Busy(p, e, h, B) ==
    LET b == h.blk[Place(e)]
    IN  e.pc # "idle" =>
            /\ Place(e) \in Used(h) /\ b.owner = p
            /\ e.pc = "construct" => b.perms = e.perms
            /\ e.pc = "dtor" => RW \subseteq b.perms
            /\ e.pc \in {"info", "free"} => b.obj_id \notin B
            /\ e.pc = "free" => b.obj_id = e.id

\* The object with header b at o belongs to a process; if it can be resolved
\* at all it is in D, constructed or destroyed in vain, unless its owner is
\* just making or freeing it.
Settled(b, o, pr, D) ==
    /\ b.owner \in Users
    /\ RW \subseteq b.perms =>
          \/ b.obj_id \in D
          \/ /\ pr[b.owner].pc \in {"construct", "ctor", "info", "free"}
             /\ Place(pr[b.owner]) = o

\* Every object in B has a block in h.
Exist(h, B) == \A x \in B : \E o \in Used(h) : h.blk[o].obj_id = x

\* Processes pr, constructed objects B and zombies Z fit heap h.
Calm(h, pr, B, Z) ==
    /\ \A p \in Users : Busy(p, pr[p], h, B)
    /\ \A o \in Used(h) : Settled(h.blk[o], o, pr, B \cup Z)
    /\ Exist(h, B)

ProcsOK(pr) == /\ pr \in [Users -> Proc]
               /\ \A p \in Users : "ADMIN" \notin pr[p].perms

\* The inductive invariant of the wrappers.
WrapInv ==
    /\ IInv
    /\ ProcsOK(proc)
    /\ built \cup zombies \subseteq 1 .. next_id - 1
    /\ ~Crashed => Calm(heap, proc, built, zombies)

-----------------------------------------------------------------------------
(***************************************************************************)
(* Blocks and their objects.                                               *)
(***************************************************************************)
\* The block of an object carries an id that was issued.
LEMMA BlockHasId ==
    ASSUME IInv, ~Crashed, NEW o \in Used(heap)
    PROVE  heap.blk[o].obj_id \in 1 .. next_id - 1
<1>1. DirOK(heap, dir, next_id)
      BY DEF IInv
<1>2. PICK i \in Live(dir) : At(dir, i) = o
      BY <1>1 DEF DirOK
<1>3. dir[i].id \in 1 .. next_id - 1 /\ Agrees(dir[i], heap.blk[At(dir, i)])
      BY <1>1 DEF DirOK
<1>4. heap.blk[o].obj_id = dir[i].id
      BY <1>2, <1>3 DEF Agrees
<1> QED
    BY <1>3, <1>4

\* No two blocks carry the same id.
LEMMA IdsDiffer ==
    ASSUME IInv, ~Crashed, NEW o \in Used(heap), NEW q \in Used(heap),
           heap.blk[o].obj_id = heap.blk[q].obj_id
    PROVE  o = q
<1>1. DirOK(heap, dir, next_id)
      BY DEF IInv
<1>2. PICK i \in Live(dir) : At(dir, i) = o
      BY <1>1 DEF DirOK
<1>3. PICK j \in Live(dir) : At(dir, j) = q
      BY <1>1 DEF DirOK
<1>4. heap.blk[o].obj_id = dir[i].id /\ heap.blk[q].obj_id = dir[j].id
      BY <1>1, <1>2, <1>3 DEF DirOK, Agrees
<1>5. i = j
      BY <1>1, <1>4 DEF DirOK
<1> QED
    BY <1>2, <1>3, <1>5

\* A process that is not using ADMIN passes a check only on its own objects.
LEMMA ById ==
    ASSUME IInv, ~Crashed, NEW id, NEW p, NEW cp, "ADMIN" \notin cp, NEW req,
           AccessById(dir, id, p, cp, req) = "OK"
    PROVE  LET b == At(dir, dir_find_by_id(dir, id))
           IN  b \in Used(heap) /\ heap.blk[b].owner = p /\ heap.blk[b].obj_id = id
<1> DEFINE i == dir_find_by_id(dir, id)
<1>1. i \in Live(dir) /\ dir[i].id = id
      BY AccessByIdIs
<1>2. check_dir_access(dir[i], p, cp, req) = "OK"
      BY DEF AccessById
<1>3. dir[i].owner = p
      BY <1>2 DEF check_dir_access, Access
<1>4. DirOK(heap, dir, next_id)
      BY DEF IInv
<1> HIDE DEF i
<1>5. At(dir, i) \in Used(heap) /\ Agrees(dir[i], heap.blk[At(dir, i)])
      BY <1>1, <1>4 DEF DirOK
<1>6. /\ At(dir, i) \in Used(heap) /\ heap.blk[At(dir, i)].owner = p
      /\ heap.blk[At(dir, i)].obj_id = id
      BY <1>1, <1>3, <1>5 DEF Agrees
<1> QED
    BY <1>6 DEF i

\* What shm_ptr tells a process about its handle.
LEMMA Resolved ==
    ASSUME NEW off, NEW p, NEW cp, "ADMIN" \notin cp
    PROVE  LET b == shm_blk_of_poff(off)
           IN  shm_ptr(off, p, cp, RW)
                 <=> /\ b \in Used(heap) /\ heap.blk[b].owner = p
                     /\ RW \subseteq heap.blk[b].perms /\ RW \subseteq cp
    BY DEF shm_ptr, check_block_access, Access, Used

-----------------------------------------------------------------------------
(***************************************************************************)
(* Steps of a process.                                                     *)
(***************************************************************************)
\* From h, B, Z to g, C, Y nothing changes for the blocks of processes other
\* than p.
KeepsOthers(p, h, g, B, Z, C, Y) ==
    /\ \A o \in Used(h) : h.blk[o].owner # p =>
          /\ o \in Used(g) /\ g.blk[o] = h.blk[o]
          /\ h.blk[o].obj_id \in C => h.blk[o].obj_id \in B
          /\ h.blk[o].obj_id \in B \cup Z => h.blk[o].obj_id \in C \cup Y
    /\ \A o \in Used(g) : g.blk[o].owner # p =>
          o \in Used(h) /\ h.blk[o].owner # p

\* The blocks of process p are settled.
OwnSettled(p, h, pr, D) ==
    \A o \in Used(h) : h.blk[o].owner = p => Settled(h.blk[o], o, pr, D)

\* A step of process p that touches only blocks and objects of p keeps the
\* others calm; what remains to be shown is about p.
LEMMA CalmStep ==
    ASSUME NEW h, NEW g, NEW pr, NEW f, NEW B, NEW Z, NEW C, NEW Y,
           NEW p \in Users, Calm(h, pr, B, Z),
           \A q \in Users : q # p => f[q] = pr[q],
           KeepsOthers(p, h, g, B, Z, C, Y),
           Busy(p, f[p], g, C), OwnSettled(p, g, f, C \cup Y), Exist(g, C)
    PROVE  Calm(g, f, C, Y)
<1>1. ASSUME NEW q \in Users  PROVE Busy(q, f[q], g, C)
  <2>1. CASE q = p
        BY <2>1
  <2>2. CASE q # p
    <3>1. f[q] = pr[q] /\ Busy(q, pr[q], h, B)
          BY <2>2 DEF Calm
    <3>2. CASE pr[q].pc = "idle"
          BY <3>1, <3>2 DEF Busy
    <3>3. CASE pr[q].pc # "idle"
      <4> DEFINE o == Place(pr[q])
      <4>1. o \in Used(h) /\ h.blk[o].owner = q
            BY <3>1, <3>3 DEF Busy
      <4>2. /\ o \in Used(g) /\ g.blk[o] = h.blk[o]
            /\ h.blk[o].obj_id \in C => h.blk[o].obj_id \in B
            BY <2>2, <4>1 DEF KeepsOthers
      <4> HIDE DEF o
      <4>3. Busy(q, pr[q], g, C)
            BY <3>1, <4>2 DEF Busy, o
      <4> QED
            BY <3>1, <4>3
    <3> QED
          BY <3>2, <3>3
  <2> QED
        BY <2>1, <2>2
<1>2. ASSUME NEW o \in Used(g)  PROVE Settled(g.blk[o], o, f, C \cup Y)
  <2>1. CASE g.blk[o].owner = p
        BY <2>1 DEF OwnSettled
  <2>2. CASE g.blk[o].owner # p
    <3>1. o \in Used(h) /\ h.blk[o].owner # p
          BY <2>2 DEF KeepsOthers
    <3>2. /\ g.blk[o] = h.blk[o]
          /\ h.blk[o].obj_id \in B \cup Z => h.blk[o].obj_id \in C \cup Y
          BY <3>1 DEF KeepsOthers
    <3>3. Settled(h.blk[o], o, pr, B \cup Z)
          BY <3>1 DEF Calm
    <3>4. f[h.blk[o].owner] = pr[h.blk[o].owner]
          BY <3>1, <3>3 DEF Settled
    <3> QED
          BY <3>2, <3>3, <3>4 DEF Settled
  <2> QED
        BY <2>1, <2>2
<1> QED
    BY <1>1, <1>2 DEF Calm

\* The same for a step that changes neither the heap nor the objects.
LEMMA CalmAlone ==
    ASSUME NEW h, NEW pr, NEW f, NEW B, NEW Z, NEW p \in Users,
           Calm(h, pr, B, Z), \A q \in Users : q # p => f[q] = pr[q],
           Busy(p, f[p], h, B), OwnSettled(p, h, f, B \cup Z)
    PROVE  Calm(h, f, B, Z)
<1>1. KeepsOthers(p, h, h, B, Z, B, Z)
      BY DEF KeepsOthers
<1>2. Exist(h, B)
      BY DEF Calm
<1> QED
    BY <1>1, <1>2, CalmStep

\* A process changes only its own state.
LEMMA ProcChange ==
    ASSUME ProcsOK(proc), NEW p \in Users, NEW e \in Proc,
           "ADMIN" \notin e.perms, proc' = [proc EXCEPT ![p] = e]
    PROVE  /\ ProcsOK(proc') /\ proc'[p] = e
           /\ \A q \in Users : q # p => proc'[q] = proc[q]
    BY DEF ProcsOK

\* A step that leaves the region alone keeps the invariant if it is calm.
LEMMA LocalKeeps ==
    ASSUME WrapInv, UNCHANGED vars, ProcsOK(proc'),
           built' \cup zombies' \subseteq 1 .. next_id - 1,
           ~Crashed => Calm(heap, proc', built', zombies')
    PROVE  WrapInv'
<1>1. heap' = heap /\ dir' = dir /\ next_id' = next_id /\ ret' = ret
      BY DEF vars
<1>2. IInv'
      BY NextIInv DEF WrapInv
<1>3. ~Crashed' => Calm(heap', proc', built', zombies')
      BY <1>1 DEF Crashed
<1>4. built' \cup zombies' \subseteq 1 .. next_id' - 1
      BY <1>1
<1> QED
    BY <1>2, <1>3, <1>4 DEF WrapInv, ProcsOK, Calm, Exist

\* The same for a step of p that does not run a constructor or destructor.
LEMMA StepKeeps ==
    ASSUME WrapInv, ~Crashed, NEW p \in Users, NEW e \in Proc,
           "ADMIN" \notin e.perms, proc' = [proc EXCEPT ![p] = e], Local,
           Busy(p, e, heap, built),
           OwnSettled(p, heap, proc', built \cup zombies)
    PROVE  WrapInv'
<1>1. /\ UNCHANGED vars /\ built' = built /\ zombies' = zombies
      BY DEF Local
<1>2. /\ ProcsOK(proc') /\ proc'[p] = e
      /\ \A q \in Users : q # p => proc'[q] = proc[q]
      BY ProcChange DEF WrapInv
<1>3. Calm(heap, proc, built, zombies)
      BY DEF WrapInv
<1>5. Busy(p, proc'[p], heap, built)
      BY <1>2
<1>6. Calm(heap, proc', built, zombies)
      BY <1>2, <1>3, <1>5, CalmAlone
<1>7. built' \cup zombies' \subseteq 1 .. next_id - 1
      BY <1>1 DEF WrapInv
<1>8. Calm(heap, proc', built', zombies')
      BY <1>1, <1>6
<1> QED
    BY <1>1, <1>2, <1>7, <1>8, LocalKeeps

\* What the invariant says of process p.
LEMMA ProcessIs ==
    ASSUME WrapInv, NEW p \in Users
    PROVE  /\ proc[p] \in Proc /\ "ADMIN" \notin proc[p].perms
           /\ ~Crashed => /\ Busy(p, proc[p], heap, built)
                          /\ OwnSettled(p, heap, proc, built \cup zombies)
<1>1. proc[p] \in Proc /\ "ADMIN" \notin proc[p].perms
      BY DEF WrapInv, ProcsOK
<1>2. ~Crashed => /\ Busy(p, proc[p], heap, built)
                  /\ OwnSettled(p, heap, proc, built \cup zombies)
      BY DEF WrapInv, Calm, OwnSettled
<1> QED
    BY <1>1, <1>2

\* construct gives up on an object that its handle cannot resolve, and only
\* on such a one.
LEMMA MakeConstructKeeps ==
    ASSUME WrapInv, NEW p \in Users, MakeConstruct(p)
    PROVE  WrapInv'
<1> DEFINE pc == IF get_mut(p) THEN "ctor" ELSE "idle"
           e == [proc[p] EXCEPT !.pc = pc]
           o == Place(proc[p])
<1>1. ~Crashed /\ proc[p].pc = "construct" /\ Goto(p, pc) /\ Local
      BY DEF MakeConstruct
<1>2. /\ proc[p] \in Proc /\ "ADMIN" \notin proc[p].perms
      /\ Busy(p, proc[p], heap, built)
      /\ OwnSettled(p, heap, proc, built \cup zombies)
      BY <1>1, ProcessIs
<1>3. /\ e \in Proc /\ e.pc = pc /\ e.off = proc[p].off
      /\ e.perms = proc[p].perms
      /\ proc' = [proc EXCEPT ![p] = e]
  <2>1. pc \in {"idle", "construct", "ctor", "dtor", "info", "free"}
        OBVIOUS
  <2> HIDE DEF pc
  <2>2. /\ [proc[p] EXCEPT !.pc = pc] \in Proc
        /\ [proc[p] EXCEPT !.pc = pc].pc = pc
        /\ [proc[p] EXCEPT !.pc = pc].off = proc[p].off
        /\ [proc[p] EXCEPT !.pc = pc].perms = proc[p].perms
        BY <1>2, <2>1 DEF Proc
  <2>3. proc' = [proc EXCEPT ![p] = [proc[p] EXCEPT !.pc = pc]]
        BY <1>1 DEF Goto, WrapInv, ProcsOK
  <2> QED
        BY <2>2, <2>3
<1>4. proc'[p] = e
      BY <1>3 DEF WrapInv, ProcsOK
<1>5. /\ o \in Used(heap) /\ heap.blk[o].owner = p
      /\ heap.blk[o].perms = proc[p].perms
      BY <1>1, <1>2 DEF Busy
<1>6. get_mut(p) <=> RW \subseteq heap.blk[o].perms
      BY <1>2, <1>5, Resolved DEF get_mut, RW, Place
<1> HIDE DEF e, o
<1>7. Busy(p, e, heap, built)
      BY <1>3, <1>5 DEF Busy, Place, o
<1>8. ASSUME NEW q \in Used(heap), heap.blk[q].owner = p
      PROVE  Settled(heap.blk[q], q, proc', built \cup zombies)
  <2>1. Settled(heap.blk[q], q, proc, built \cup zombies)
        BY <1>2, <1>8 DEF OwnSettled
  <2>2. Place(e) = o
        BY <1>3 DEF Place, o
  <2>3. CASE q = o
        BY <1>3, <1>4, <1>6, <1>8, <2>1, <2>2, <2>3 DEF Settled
  <2>4. CASE q # o
        BY <1>4, <1>8, <2>1, <2>2, <2>4 DEF Settled, o
  <2> QED
        BY <2>3, <2>4
<1> QED
    BY <1>1, <1>2, <1>3, <1>7, <1>8, StepKeeps DEF OwnSettled

\* A process that starts shm::free has resolved a constructed object.
LEMMA FreeBeginsKeeps ==
    ASSUME WrapInv, NEW p \in Users, NEW cp \in CallerPerms, NoAdmin,
           FreeBegins(p, cp)
    PROVE  WrapInv'
<1> DEFINE e == [proc[p] EXCEPT !.pc = "dtor", !.perms = cp]
           o == Place(proc[p])
<1>1. /\ ~Crashed /\ proc[p].pc = "idle" /\ Local
      /\ shm_ptr(proc[p].off, p, cp, RW)
      /\ proc' = [proc EXCEPT ![p].pc = "dtor", ![p].perms = cp]
      BY DEF FreeBegins, RW
<1>2. /\ proc[p] \in Proc
      /\ OwnSettled(p, heap, proc, built \cup zombies)
      BY <1>1, ProcessIs
<1>3. cp \in SUBSET Perm /\ "ADMIN" \notin cp
      BY InputAssumption DEF NoAdmin
<1>4. /\ e \in Proc /\ e.pc = "dtor" /\ e.off = proc[p].off /\ e.perms = cp
      BY <1>2, <1>3 DEF Proc
<1>5. proc' = [proc EXCEPT ![p] = e] /\ proc'[p] = e
      BY <1>1 DEF WrapInv, ProcsOK
<1>6. o \in Used(heap) /\ heap.blk[o].owner = p /\ RW \subseteq heap.blk[o].perms
      BY <1>1, <1>3, Resolved DEF Place
<1> HIDE DEF e, o
<1>7. Busy(p, e, heap, built)
      BY <1>4, <1>6 DEF Busy, Place, o
<1>8. OwnSettled(p, heap, proc', built \cup zombies)
      BY <1>1, <1>2, <1>5 DEF OwnSettled, Settled
<1>9. "ADMIN" \notin e.perms
      BY <1>3, <1>4
<1> QED
    BY <1>1, <1>4, <1>5, <1>7, <1>8, <1>9, StepKeeps

\* shm_block_info finds the id of the object that was destroyed.
LEMMA FreeInfoKeeps ==
    ASSUME WrapInv, NEW p \in Users, FreeInfo(p)
    PROVE  WrapInv'
<1> DEFINE id == shm_block_info(proc[p].off)
           e == [proc[p] EXCEPT !.pc = "free", !.id = id]
           o == Place(proc[p])
<1>1. /\ ~Crashed /\ proc[p].pc = "info" /\ Local
      /\ proc' = [proc EXCEPT ![p].pc = IF id = 0 THEN "idle" ELSE "free",
                              ![p].id = id]
      BY DEF FreeInfo
<1>2. /\ proc[p] \in Proc /\ "ADMIN" \notin proc[p].perms
      /\ Busy(p, proc[p], heap, built)
      /\ OwnSettled(p, heap, proc, built \cup zombies)
      BY <1>1, ProcessIs
<1>3. /\ o \in Used(heap) /\ heap.blk[o].owner = p
      /\ heap.blk[o].obj_id \notin built
      BY <1>1, <1>2 DEF Busy
<1>4. id = heap.blk[o].obj_id
      BY <1>3 DEF shm_block_info, Place, Used
<1>5. heap.blk[o].obj_id \in 1 .. next_id - 1
      BY <1>1, <1>3, BlockHasId DEF WrapInv
<1>6. next_id \in Nat
      BY DEF WrapInv, IInv, TypeOK
<1> HIDE DEF id
<1>7. id # 0 /\ id \in Nat
      BY <1>4, <1>5, <1>6
<1>8. /\ e \in Proc /\ e.pc = "free" /\ e.off = proc[p].off /\ e.id = id
      /\ e.perms = proc[p].perms
      BY <1>2, <1>7 DEF Proc
<1>9. proc' = [proc EXCEPT ![p] = e] /\ proc'[p] = e
      BY <1>1, <1>7 DEF WrapInv, ProcsOK
<1> HIDE DEF e, o
<1>10. Busy(p, e, heap, built)
      BY <1>3, <1>4, <1>8 DEF Busy, Place, o
<1>11. Place(proc'[p]) = Place(proc[p]) /\ proc'[p].pc = "free"
      BY <1>8, <1>9 DEF Place
<1>12. OwnSettled(p, heap, proc', built \cup zombies)
      BY <1>2, <1>11 DEF OwnSettled, Settled
<1>13. "ADMIN" \notin e.perms
      BY <1>2, <1>8
<1> QED
    BY <1>1, <1>8, <1>9, <1>10, <1>12, <1>13, StepKeeps

\* A handle may be pointed anywhere while its process is in no wrapper.
LEMMA FindKeeps ==
    ASSUME WrapInv, NEW p \in Users, NEW r, r.off \in Nat, Find(p, r)
    PROVE  WrapInv'
<1> DEFINE e == [proc[p] EXCEPT !.off = r.off]
<1>1. /\ ~Crashed /\ proc[p].pc = "idle" /\ Local
      /\ proc' = [proc EXCEPT ![p].off = r.off]
      BY DEF Find
<1>2. /\ proc[p] \in Proc /\ "ADMIN" \notin proc[p].perms
      /\ OwnSettled(p, heap, proc, built \cup zombies)
      BY <1>1, ProcessIs
<1>3. e \in Proc /\ e.pc = "idle" /\ e.perms = proc[p].perms
      BY <1>1, <1>2 DEF Proc
<1>4. proc' = [proc EXCEPT ![p] = e] /\ proc'[p] = e
      BY <1>1 DEF WrapInv, ProcsOK
<1> HIDE DEF e
<1>5. Busy(p, e, heap, built)
      BY <1>3 DEF Busy
<1>6. OwnSettled(p, heap, proc', built \cup zombies)
      BY <1>1, <1>2, <1>4 DEF OwnSettled, Settled
<1> QED
    BY <1>1, <1>2, <1>3, <1>4, <1>5, <1>6, StepKeeps

-----------------------------------------------------------------------------
(***************************************************************************)
(* Constructors and destructors.                                           *)
(***************************************************************************)
\* A constructor runs in the process's own object.
LEMMA RunConstructorKeeps ==
    ASSUME WrapInv, NEW p \in Users, RunConstructor(p)
    PROVE  WrapInv'
<1> DEFINE e == [proc[p] EXCEPT !.pc = "idle"]
           o == Place(proc[p])
           x == heap.blk[o].obj_id
           C == built \cup {x}
<1>1. /\ ~Crashed /\ proc[p].pc = "ctor"
      /\ built' = C /\ zombies' = zombies /\ UNCHANGED vars
      /\ proc' = [proc EXCEPT ![p] = e]
      BY DEF RunConstructor, Goto, ObjAt, Place, WrapInv, ProcsOK
<1>2. /\ proc[p] \in Proc /\ "ADMIN" \notin proc[p].perms
      /\ Busy(p, proc[p], heap, built)
      /\ OwnSettled(p, heap, proc, built \cup zombies)
      BY <1>1, ProcessIs
<1>3. e \in Proc /\ e.pc = "idle" /\ e.perms = proc[p].perms
      BY <1>2 DEF Proc
<1>4. o \in Used(heap) /\ heap.blk[o].owner = p
      BY <1>1, <1>2 DEF Busy
<1>5. /\ ProcsOK(proc') /\ proc'[p] = e
      /\ \A q \in Users : q # p => proc'[q] = proc[q]
      BY <1>1, <1>2, <1>3, ProcChange DEF WrapInv
<1>6. x \in 1 .. next_id - 1
      BY <1>1, <1>4, BlockHasId DEF WrapInv
<1>7. built' \cup zombies' \subseteq 1 .. next_id - 1
      BY <1>1, <1>6 DEF WrapInv
<1>8. Calm(heap, proc, built, zombies)
      BY <1>1 DEF WrapInv
<1> HIDE DEF e, o
<1>9. \A q \in Used(heap) : q # o => heap.blk[q].obj_id # x
      BY <1>1, <1>4, IdsDiffer DEF WrapInv
<1>10. KeepsOthers(p, heap, heap, built, zombies, C, zombies)
      BY <1>4, <1>9 DEF KeepsOthers
<1>11. Busy(p, proc'[p], heap, C)
      BY <1>3, <1>5 DEF Busy
<1>12. Exist(heap, C)
      BY <1>4, <1>8 DEF Exist, Calm
<1>13. ASSUME NEW q \in Used(heap), heap.blk[q].owner = p
      PROVE  Settled(heap.blk[q], q, proc', C \cup zombies)
  <2>1. Settled(heap.blk[q], q, proc, built \cup zombies)
        BY <1>2, <1>13 DEF OwnSettled
  <2>2. CASE q = o
        BY <2>1, <2>2 DEF Settled
  <2>3. CASE q # o
        BY <1>13, <2>1, <2>3 DEF Settled, o
  <2> QED
        BY <2>2, <2>3
<1>14. OwnSettled(p, heap, proc', C \cup zombies)
      BY <1>13 DEF OwnSettled
<1> HIDE DEF C
<1>15. Calm(heap, proc', C, zombies)
      BY <1>5, <1>8, <1>10, <1>11, <1>12, <1>14, CalmStep
<1>16. Calm(heap, proc', built', zombies')
      BY <1>1, <1>15
<1> QED
    BY <1>1, <1>5, <1>7, <1>16, LocalKeeps

\* A destructor runs in the process's own object.
LEMMA RunDestructorKeeps ==
    ASSUME WrapInv, NEW p \in Users, RunDestructor(p)
    PROVE  WrapInv'
<1> DEFINE e == [proc[p] EXCEPT !.pc = "info"]
           o == Place(proc[p])
           x == heap.blk[o].obj_id
           C == built \ {x}
<1>1. /\ ~Crashed /\ proc[p].pc = "dtor"
      /\ built' = C /\ zombies' = zombies /\ UNCHANGED vars
      /\ proc' = [proc EXCEPT ![p] = e]
      BY DEF RunDestructor, Goto, ObjAt, Place, WrapInv, ProcsOK
<1>2. /\ proc[p] \in Proc /\ "ADMIN" \notin proc[p].perms
      /\ Busy(p, proc[p], heap, built)
      /\ OwnSettled(p, heap, proc, built \cup zombies)
      BY <1>1, ProcessIs
<1>3. /\ e \in Proc /\ e.pc = "info" /\ e.perms = proc[p].perms
      /\ e.off = proc[p].off
      BY <1>2 DEF Proc
<1>4. o \in Used(heap) /\ heap.blk[o].owner = p
      BY <1>1, <1>2 DEF Busy
<1>5. /\ ProcsOK(proc') /\ proc'[p] = e
      /\ \A q \in Users : q # p => proc'[q] = proc[q]
      BY <1>1, <1>2, <1>3, ProcChange DEF WrapInv
<1>6. built' \cup zombies' \subseteq 1 .. next_id - 1
      BY <1>1 DEF WrapInv
<1>7. Calm(heap, proc, built, zombies)
      BY <1>1 DEF WrapInv
<1>8. Place(proc'[p]) = o /\ proc'[p].pc = "info"
      BY <1>3, <1>5 DEF Place
<1> HIDE DEF e, o
<1>9. \A q \in Used(heap) : q # o => heap.blk[q].obj_id # x
      BY <1>1, <1>4, IdsDiffer DEF WrapInv
<1>10. KeepsOthers(p, heap, heap, built, zombies, C, zombies)
      BY <1>4, <1>9 DEF KeepsOthers
<1>11. Busy(p, proc'[p], heap, C)
      BY <1>4, <1>8 DEF Busy
<1>12. Exist(heap, C)
      BY <1>7 DEF Exist, Calm
<1>13. ASSUME NEW q \in Used(heap), heap.blk[q].owner = p
      PROVE  Settled(heap.blk[q], q, proc', C \cup zombies)
  <2>1. Settled(heap.blk[q], q, proc, built \cup zombies)
        BY <1>2, <1>13 DEF OwnSettled
  <2>2. CASE q = o
        BY <1>8, <1>13, <2>1, <2>2 DEF Settled
  <2>3. CASE q # o
        BY <1>9, <1>13, <2>1, <2>3 DEF Settled, o
  <2> QED
        BY <2>2, <2>3
<1>14. OwnSettled(p, heap, proc', C \cup zombies)
      BY <1>13 DEF OwnSettled
<1> HIDE DEF C
<1>15. Calm(heap, proc', C, zombies)
      BY <1>5, <1>7, <1>10, <1>11, <1>12, <1>14, CalmStep
<1>16. Calm(heap, proc', built', zombies')
      BY <1>1, <1>15
<1> QED
    BY <1>1, <1>5, <1>6, <1>16, LocalKeeps

-----------------------------------------------------------------------------
(***************************************************************************)
(* Calls of the allocator.                                                 *)
(***************************************************************************)
\* What has to be shown of a call.
LEMMA CallKeeps ==
    ASSUME IInv', ProcsOK(proc'),
           built' \cup zombies' \subseteq 1 .. next_id' - 1,
           ~Crashed' => Calm(heap', proc', built', zombies')
    PROVE  WrapInv'
    BY DEF WrapInv, ProcsOK, Calm, Exist

\* A call that fails and leaves the process where it was keeps everything.
LEMMA RefusedKeeps ==
    ASSUME WrapInv, ~Crashed, IInv', heap' = heap, next_id' = next_id,
           proc' = proc, built' = built, zombies' = zombies
    PROVE  WrapInv'
<1>1. ProcsOK(proc) /\ Calm(heap, proc, built, zombies)
      BY DEF WrapInv
<1>2. ProcsOK(proc')
      BY <1>1
<1>3. Calm(heap', proc', built', zombies')
      BY <1>1
<1>4. built' \cup zombies' \subseteq 1 .. next_id' - 1
      BY DEF WrapInv
<1> QED
    BY <1>2, <1>3, <1>4, CallKeeps

\* shm::make starts with an object of the process's own.
LEMMA MakeAllocKeeps ==
    ASSUME WrapInv, NoAdmin, NEW p \in Users, NEW n \in PayloadSizes,
           NEW name \in Names, NEW P \in ObjPerms, MakeAlloc(p, n, name, P)
    PROVE  WrapInv'
<1> DEFINE i == dir_find_free_slot(dir)
           b == FirstFit(heap, NeedTotal(n))
           e == [pc |-> "construct", off |-> dir'[i].off, perms |-> P, id |-> 0]
<1>1. /\ proc[p].pc = "idle" /\ shm_alloc(n, name, p, P)
      /\ proc' = IF dir' = dir THEN proc ELSE [proc EXCEPT ![p] = e]
      /\ built' = built /\ zombies' = zombies
      BY DEF MakeAlloc
<1>2. ~Crashed /\ IInv /\ ProcsOK(proc) /\ Calm(heap, proc, built, zombies)
      BY <1>1 DEF shm_alloc, WrapInv
<1>3. IInv'
      BY <1>1, <1>2, AllocKeeps
<1>4. CASE \E errno : Fail(errno)
      BY <1>1, <1>2, <1>3, <1>4, RefusedKeeps DEF Fail
<1>5. CASE Created(i, b, n, Trunc(name), p, P)
  <2> HIDE DEF i, b
  <2>1. PICK s \in Slot :
           /\ dir' = [dir EXCEPT ![i] = s] /\ s.alive = 1 /\ s.id = next_id
           /\ s.owner = p /\ s.perms = P /\ shm_blk_of_poff(s.off) = b
           /\ Agrees(s, heap'.blk[b])
        BY <1>5 DEF Created
  <2>2. /\ i \in Slots /\ i \notin Live(dir) /\ b \notin Used(heap)
        /\ Used(heap') = Used(heap) \cup {b}
        /\ \A o \in Used(heap) : heap'.blk[o] = heap.blk[o]
        /\ next_id' = next_id + 1
        BY <1>5 DEF Created
  <2>3. dir \in [Slots -> Slot] /\ next_id \in Nat
        BY <1>2 DEF IInv, TypeOK
  <2>4. dir'[i] = s /\ dir' # dir
        BY <2>1, <2>2, <2>3 DEF Live
  <2>5. proc' = [proc EXCEPT ![p] = e]
        BY <1>1, <2>4
  <2>6. P \in SUBSET Perm /\ "ADMIN" \notin P
        BY InputAssumption DEF NoAdmin
  <2>7. s.off \in Nat
        BY DEF Slot
  <2>8. /\ e \in Proc /\ e.pc = "construct" /\ e.off = s.off /\ e.perms = P
        BY <2>4, <2>6, <2>7 DEF Proc
  <2> HIDE DEF e
  <2>9. /\ ProcsOK(proc') /\ proc'[p] = e
        /\ \A q \in Users : q # p => proc'[q] = proc[q]
        BY <1>2, <2>5, <2>6, <2>8, ProcChange
  <2>10. Place(e) = b /\ heap'.blk[b].owner = p /\ heap'.blk[b].perms = P
        BY <2>1, <2>8 DEF Place, Agrees
  <2>11. Busy(p, proc'[p], heap', built)
        BY <2>2, <2>8, <2>9, <2>10 DEF Busy
  <2>12. KeepsOthers(p, heap, heap', built, zombies, built, zombies)
        BY <2>2, <2>10 DEF KeepsOthers
  <2>13. Exist(heap', built)
        BY <1>2, <2>2 DEF Exist, Calm
  <2>14. ASSUME NEW o \in Used(heap'), heap'.blk[o].owner = p
         PROVE  Settled(heap'.blk[o], o, proc', built \cup zombies)
    <3>1. CASE o = b
          BY <2>8, <2>9, <2>10, <2>14, <3>1 DEF Settled
    <3>2. CASE o # b
      <4>1. o \in Used(heap) /\ heap'.blk[o] = heap.blk[o]
            BY <2>2, <3>2
      <4>2. Settled(heap.blk[o], o, proc, built \cup zombies)
            BY <1>2, <4>1 DEF Calm
      <4> QED
            BY <1>1, <2>14, <4>1, <4>2 DEF Settled
    <3> QED
          BY <3>1, <3>2
  <2>15. OwnSettled(p, heap', proc', built \cup zombies)
        BY <2>14 DEF OwnSettled
  <2>16. Calm(heap', proc', built, zombies)
        BY <1>2, <2>9, <2>11, <2>12, <2>13, <2>15, CalmStep
  <2>17. Calm(heap', proc', built', zombies')
        BY <1>1, <2>16
  <2>18. built' \cup zombies' \subseteq 1 .. next_id' - 1
        BY <1>1, <2>2, <2>3 DEF WrapInv
  <2> QED
        BY <1>3, <2>9, <2>17, <2>18, CallKeeps
<1> QED
    BY <1>1, <1>2, <1>4, <1>5, AllocDoes

\* shm_free, called for the object that was destroyed, frees it or leaves a
\* zombie.
LEMMA FreeCallKeeps ==
    ASSUME WrapInv, NEW p \in Users, FreeCall(p)
    PROVE  WrapInv'
<1> DEFINE e == [proc[p] EXCEPT !.pc = "idle", !.id = 0]
           o == Place(proc[p])
           x == proc[p].id
           i == dir_find_by_id(dir, x)
           acc == AccessById(dir, x, p, proc[p].perms, {"FREE"})
           Y == IF ret' = "OK" THEN zombies ELSE zombies \cup {x}
<1>1. /\ proc[p].pc = "free" /\ shm_free(x, p, proc[p].perms)
      /\ zombies' = Y /\ built' = built
      /\ proc' = [proc EXCEPT ![p] = e]
      BY DEF FreeCall, WrapInv, ProcsOK
<1>2. ~Crashed /\ IInv /\ ProcsOK(proc) /\ Calm(heap, proc, built, zombies)
      BY <1>1 DEF shm_free, WrapInv
<1>3. IInv'
      BY <1>1, <1>2, FreeKeeps
<1>4. /\ proc[p] \in Proc /\ "ADMIN" \notin proc[p].perms
      /\ Busy(p, proc[p], heap, built)
      /\ OwnSettled(p, heap, proc, built \cup zombies)
      BY <1>2, ProcessIs
<1>5. e \in Proc /\ e.pc = "idle" /\ e.perms = proc[p].perms
      BY <1>4 DEF Proc
<1> HIDE DEF e
<1>6. /\ ProcsOK(proc') /\ proc'[p] = e
      /\ \A q \in Users : q # p => proc'[q] = proc[q]
      BY <1>1, <1>2, <1>4, <1>5, ProcChange
<1>7. /\ o \in Used(heap) /\ heap.blk[o].owner = p
      /\ heap.blk[o].obj_id = x /\ x \notin built
      BY <1>1, <1>4 DEF Busy
<1>8. x \in 1 .. next_id - 1
      BY <1>2, <1>7, BlockHasId
<1>9. Busy(p, proc'[p], heap', built)
      BY <1>5, <1>6 DEF Busy
<1> HIDE DEF o, x
<1>10. CASE acc # "OK" /\ Fail(acc)
  <2>1. heap' = heap /\ next_id' = next_id /\ Y = zombies \cup {x}
        BY <1>10 DEF Fail
  <2>2. KeepsOthers(p, heap, heap', built, zombies, built, Y)
        BY <2>1 DEF KeepsOthers
  <2>3. Exist(heap', built)
        BY <1>2, <2>1 DEF Calm
  <2>4. ASSUME NEW q \in Used(heap'), heap'.blk[q].owner = p
        PROVE  Settled(heap'.blk[q], q, proc', built \cup Y)
    <3>1. Settled(heap.blk[q], q, proc, built \cup zombies)
          BY <1>2, <2>1 DEF Calm
    <3>2. CASE q = o
          BY <1>7, <2>1, <3>1, <3>2 DEF Settled
    <3>3. CASE q # o
          BY <2>1, <2>4, <3>1, <3>3 DEF Settled, o
    <3> QED
          BY <3>2, <3>3
  <2>5. OwnSettled(p, heap', proc', built \cup Y)
        BY <2>4 DEF OwnSettled
  <2> HIDE DEF Y
  <2>6. Calm(heap', proc', built, Y)
        BY <1>2, <1>6, <1>9, <2>2, <2>3, <2>5, CalmStep
  <2>7. Calm(heap', proc', built', zombies')
        BY <1>1, <2>6
  <2>8. built' \cup zombies' \subseteq 1 .. next_id' - 1
        BY <1>1, <1>8, <2>1 DEF WrapInv
  <2> QED
        BY <1>3, <1>6, <2>7, <2>8, CallKeeps
<1>11. CASE acc = "OK" /\ Removed(i)
  <2>1. /\ At(dir, i) \in Used(heap) /\ heap.blk[At(dir, i)].owner = p
        /\ heap.blk[At(dir, i)].obj_id = x
        BY <1>2, <1>4, <1>11, ById
  <2>2. At(dir, i) = o
        BY <1>2, <1>7, <2>1, IdsDiffer
  <2> HIDE DEF i
  <2>3. /\ Used(heap') = Used(heap) \ {o} /\ ret' = "OK" /\ next_id' = next_id
        /\ \A q \in Used(heap) \ {o} : heap'.blk[q] = heap.blk[q]
        BY <1>11, <2>2 DEF Removed
  <2>4. Y = zombies
        BY <2>3
  <2>5. KeepsOthers(p, heap, heap', built, zombies, built, zombies)
        BY <1>7, <2>3 DEF KeepsOthers
  <2>6. Exist(heap', built)
        BY <1>2, <1>7, <2>3 DEF Exist, Calm
  <2>7. ASSUME NEW q \in Used(heap'), heap'.blk[q].owner = p
        PROVE  Settled(heap'.blk[q], q, proc', built \cup zombies)
    <3>1. q \in Used(heap) /\ q # o /\ heap'.blk[q] = heap.blk[q]
          BY <2>3
    <3>2. Settled(heap.blk[q], q, proc, built \cup zombies)
          BY <1>2, <3>1 DEF Calm
    <3> QED
          BY <2>7, <3>1, <3>2 DEF Settled, o
  <2>8. OwnSettled(p, heap', proc', built \cup zombies)
        BY <2>7 DEF OwnSettled
  <2>9. Calm(heap', proc', built, zombies)
        BY <1>2, <1>6, <1>9, <2>5, <2>6, <2>8, CalmStep
  <2>10. Calm(heap', proc', built', zombies')
        BY <1>1, <2>4, <2>9
  <2>11. built' \cup zombies' \subseteq 1 .. next_id' - 1
        BY <1>1, <2>3, <2>4 DEF WrapInv
  <2> QED
        BY <1>3, <1>6, <2>10, <2>11, CallKeeps
<1> QED
    BY <1>1, <1>2, <1>10, <1>11, FreeDoes

\* shm_resize moves only objects of a process that is in no wrapper.
LEMMA ResizeCallKeeps ==
    ASSUME WrapInv, NoAdmin, NEW p \in Users, NEW id, NEW n \in PayloadSizes,
           NEW cp \in CallerPerms, Resize(p, id, n, cp)
    PROVE  WrapInv'
<1> DEFINE i == dir_find_by_id(dir, id)
           b == At(dir, i)
           acc == IF n = 0 THEN "EINVAL"
                  ELSE AccessById(dir, id, p, cp, {"RESIZE"})
<1>1. /\ proc[p].pc = "idle" /\ shm_resize(id, n, p, cp)
      /\ proc' = proc /\ built' = built /\ zombies' = zombies
      BY DEF Resize
<1>2. ~Crashed /\ IInv /\ ProcsOK(proc) /\ Calm(heap, proc, built, zombies)
      BY <1>1 DEF shm_resize, WrapInv
<1>3. IInv' /\ ProcsOK(proc')
      BY <1>1, <1>2, ResizeKeeps
<1>4. built \cup zombies \subseteq 1 .. next_id - 1
      BY DEF WrapInv
<1>5. CASE \E errno : Fail(errno)
      BY <1>1, <1>2, <1>3, <1>5, RefusedKeeps DEF Fail
<1>6. CASE Died
  <2>1. Crashed' /\ next_id' = next_id
        BY <1>6 DEF Died, Crashed
  <2>2. built' \cup zombies' \subseteq 1 .. next_id' - 1
        BY <1>1, <1>4, <2>1
  <2> QED
        BY <1>3, <2>1, <2>2, CallKeeps
<1>7. CASE acc = "OK" /\ \E nb : Resized(i, nb, n)
  <2>1. PICK nb : Resized(i, nb, n)
        BY <1>7
  <2>2. "ADMIN" \notin cp
        BY DEF NoAdmin
  <2>3. b \in Used(heap) /\ heap.blk[b].owner = p
        BY <1>2, <1>7, <2>2, ById
  <2> HIDE DEF i
  <2>4. /\ nb = b \/ nb \notin Used(heap)
        /\ Used(heap') = (Used(heap) \ {b}) \cup {nb}
        /\ heap'.blk[nb].owner = heap.blk[b].owner
        /\ heap'.blk[nb].perms = heap.blk[b].perms
        /\ heap'.blk[nb].obj_id = heap.blk[b].obj_id
        /\ \A o \in Used(heap) \ {b} : heap'.blk[o] = heap.blk[o]
        /\ next_id' = next_id
        BY <2>1 DEF Resized, Placed
  <2> HIDE DEF b
  <2>5. KeepsOthers(p, heap, heap', built, zombies, built, zombies)
        BY <2>3, <2>4 DEF KeepsOthers
  <2>6. Busy(p, proc'[p], heap', built)
        BY <1>1 DEF Busy
  <2>7. ASSUME NEW x \in built
        PROVE  \E o \in Used(heap') : heap'.blk[o].obj_id = x
    <3>1. PICK o \in Used(heap) : heap.blk[o].obj_id = x
          BY <1>2 DEF Calm, Exist
    <3>2. CASE o = b
          BY <2>4, <3>1, <3>2
    <3>3. CASE o # b
          BY <2>4, <3>1, <3>3
    <3> QED
          BY <3>2, <3>3
  <2>8. Exist(heap', built)
        BY <2>7 DEF Exist
  <2>9. ASSUME NEW q \in Used(heap'), heap'.blk[q].owner = p
        PROVE  Settled(heap'.blk[q], q, proc', built \cup zombies)
    <3>1. CASE q = nb
      <4>1. Settled(heap.blk[b], b, proc, built \cup zombies)
            BY <1>2, <2>3 DEF Calm
      <4> QED
            BY <1>1, <2>3, <2>4, <3>1, <4>1 DEF Settled
    <3>2. CASE q # nb
      <4>1. q \in Used(heap) /\ heap'.blk[q] = heap.blk[q]
            BY <2>4, <3>2
      <4>2. Settled(heap.blk[q], q, proc, built \cup zombies)
            BY <1>2, <4>1 DEF Calm
      <4> QED
            BY <1>1, <4>1, <4>2
    <3> QED
          BY <3>1, <3>2
  <2>10. OwnSettled(p, heap', proc', built \cup zombies)
        BY <2>9 DEF OwnSettled
  <2>11. \A q \in Users : q # p => proc'[q] = proc[q]
        BY <1>1
  <2>12. Calm(heap', proc', built, zombies)
        BY <1>2, <2>5, <2>6, <2>8, <2>10, <2>11, CalmStep
  <2>13. Calm(heap', proc', built', zombies')
        BY <1>1, <2>12
  <2>14. built' \cup zombies' \subseteq 1 .. next_id' - 1
        BY <1>1, <1>4, <2>4
  <2> QED
        BY <1>3, <2>13, <2>14, CallKeeps
<1> QED
    BY <1>1, <1>2, <1>5, <1>6, <1>7, ResizeDoes

-----------------------------------------------------------------------------
(***************************************************************************)
(* The invariant and the theorems.                                         *)
(***************************************************************************)
\* At first no process has a handle and no object exists.
LEMMA WrapInitInv == WrapInit => WrapInv
<1> SUFFICES ASSUME WrapInit  PROVE WrapInv
      OBVIOUS
<1>1. IInv
      BY InitIInv DEF WrapInit
<1>2. built = {} /\ zombies = {} /\ proc = [p \in Users |-> NullHandle]
      BY DEF WrapInit
<1>3. NullHandle \in Proc /\ NullHandle.pc = "idle" /\ NullHandle.perms = {}
      BY DEF NullHandle, Proc
<1>4. ProcsOK(proc) /\ \A p \in Users : proc[p].pc = "idle"
      BY <1>2, <1>3 DEF ProcsOK
<1>5. DOMAIN heap.blk = {0} /\ heap.blk[0].allocated = 0
      BY DEF WrapInit, Init, FreeHdr
<1>6. Used(heap) = {}
      BY <1>5 DEF Used
<1>7. Calm(heap, proc, built, zombies)
      BY <1>2, <1>4, <1>6 DEF Calm, Busy, Exist
<1>8. built \cup zombies \subseteq 1 .. next_id - 1
      BY <1>2
<1> QED
    BY <1>1, <1>4, <1>7, <1>8 DEF WrapInv

\* A lookup that succeeds returns an offset that some slot holds.
LEMMA LookupOffsets ==
    ASSUME IInv, NEW p, NEW cp
    PROVE  /\ \A id : shm_lookup(id, p, cp).off \in Nat
           /\ \A nm : shm_lookup_by_name(nm, p, cp).off \in Nat
<1>1. dir \in [Slots -> Slot]
      BY DEF IInv, TypeOK
<1>2. \A i \in Slots : dir[i].off \in Nat
      BY <1>1 DEF Slot
<1>3. ASSUME NEW id  PROVE shm_lookup(id, p, cp).off \in Nat
  <2> DEFINE acc == AccessById(dir, id, p, cp, {"READ"})
             i == dir_find_by_id(dir, id)
  <2>1. CASE acc = "OK"
    <3>1. i \in Slots
          BY <2>1, AccessByIdIs DEF Live
    <3> QED
          BY <1>2, <2>1, <3>1 DEF shm_lookup
  <2>2. CASE acc # "OK"
        BY <2>2 DEF shm_lookup
  <2> QED
        BY <2>1, <2>2
<1>4. ASSUME NEW nm  PROVE shm_lookup_by_name(nm, p, cp).off \in Nat
  <2> DEFINE i == dir_find_by_name(dir, nm)
             acc == IF SlotsOfName(dir, nm) = {} THEN "ENOENT"
                    ELSE check_dir_access(dir[i], p, cp, {"READ"})
  <2>1. CASE acc = "OK"
    <3>1. SlotsOfName(dir, nm) # {} /\ SlotsOfName(dir, nm) \subseteq Slots
          BY <2>1 DEF SlotsOfName
    <3>2. i \in Slots
          BY <3>1, LowestIs DEF dir_find_by_name
    <3> QED
          BY <1>2, <2>1, <3>2 DEF shm_lookup_by_name
  <2>2. CASE acc # "OK"
        BY <2>2 DEF shm_lookup_by_name
  <2> QED
        BY <2>1, <2>2
<1> QED
    BY <1>3, <1>4

\* Every step of a wrapper keeps the invariant.
LEMMA WrapNextInv ==
    ASSUME NoAdmin, WrapInv, [WrapNext]_wvars
    PROVE  WrapInv'
<1>1. CASE \E p \in Users, n \in PayloadSizes, name \in Names, P \in ObjPerms :
              MakeAlloc(p, n, name, P)
      BY <1>1, MakeAllocKeeps
<1>2. CASE \E p \in Users : MakeConstruct(p)
      BY <1>2, MakeConstructKeeps
<1>3. CASE \E p \in Users : RunConstructor(p)
      BY <1>3, RunConstructorKeeps
<1>4. CASE \E p \in Users : RunDestructor(p)
      BY <1>4, RunDestructorKeeps
<1>5. CASE \E p \in Users : FreeInfo(p)
      BY <1>5, FreeInfoKeeps
<1>6. CASE \E p \in Users : FreeCall(p)
      BY <1>6, FreeCallKeeps
<1>7. CASE \E p \in Users, cp \in CallerPerms : FreeBegins(p, cp)
      BY <1>7, FreeBeginsKeeps
<1>8. CASE \E p \in Users, cp \in CallerPerms :
              \/ \E id \in 1 .. MaxId : Find(p, shm_lookup(id, p, cp))
              \/ \E nm \in Names : Find(p, shm_lookup_by_name(nm, p, cp))
  <2>1. IInv
        BY DEF WrapInv
  <2>2. PICK p \in Users, cp \in CallerPerms :
              \/ \E id \in 1 .. MaxId : Find(p, shm_lookup(id, p, cp))
              \/ \E nm \in Names : Find(p, shm_lookup_by_name(nm, p, cp))
        BY <1>8
  <2>3. \E r : r.off \in Nat /\ Find(p, r)
        BY <2>1, <2>2, LookupOffsets
  <2> QED
        BY <2>3, FindKeeps
<1>9. CASE \E p \in Users, cp \in CallerPerms, id \in 1 .. MaxId,
              n \in PayloadSizes : Resize(p, id, n, cp)
      BY <1>9, ResizeCallKeeps
<1>10. CASE UNCHANGED wvars
  <2>1. /\ UNCHANGED vars /\ proc' = proc /\ built' = built /\ zombies' = zombies
        BY <1>10 DEF wvars
  <2>2. ProcsOK(proc') /\ built' \cup zombies' \subseteq 1 .. next_id - 1
        BY <2>1 DEF WrapInv
  <2>3. ~Crashed => Calm(heap, proc', built', zombies')
        BY <2>1 DEF WrapInv
  <2> QED
        BY <2>1, <2>2, <2>3, LocalKeeps
<1>11. CASE Stopped /\ UNCHANGED <<proc, built, zombies>>
      BY <1>10, <1>11 DEF Stopped, wvars
<1> QED
    BY <1>1, <1>2, <1>3, <1>4, <1>5, <1>6, <1>7, <1>8, <1>9, <1>10, <1>11
       DEF WrapNext

\* The invariant holds throughout.
THEOREM WrapInvariance == NoAdmin => (WrapSpec => []WrapInv)
<1> SUFFICES ASSUME NoAdmin  PROVE WrapSpec => []WrapInv
      OBVIOUS
<1>1. WrapInv /\ [WrapNext]_wvars => WrapInv'
      BY WrapNextInv
<1> QED
    BY <1>1, WrapInitInv, PTL DEF WrapSpec

\* The state of the processes that use the wrappers keeps its type, and no
\* constructor or destructor ever runs on an id that was not issued.
THEOREM WrapTypes == NoAdmin => (WrapSpec => []WrapTypeOK)
<1> SUFFICES ASSUME NoAdmin  PROVE WrapSpec => []WrapTypeOK
      OBVIOUS
<1>1. WrapInv => WrapTypeOK
      BY DEF WrapInv, WrapTypeOK, IInv, ProcsOK
<1> QED
    BY <1>1, WrapInvariance, PTL

\* From the check in shm_ptr until the call of shm_free the block at a
\* handle stays the caller's own, however many processes come in between
\* and whatever they allocate, free, resize or look up.
THEOREM OwnBlocksStay == NoAdmin => (WrapSpec => []ResolvedStaysOwn)
<1> SUFFICES ASSUME NoAdmin  PROVE WrapSpec => []ResolvedStaysOwn
      OBVIOUS
<1>1. ASSUME WrapInv, ~Crashed, NEW p \in Users
      PROVE  /\ proc[p].pc \in {"ctor", "dtor", "info", "free"} => Own(p)
             /\ proc[p].pc = "free" => ObjAt(p) = proc[p].id
  <2>1. Busy(p, proc[p], heap, built)
        BY <1>1, ProcessIs
  <2> QED
        BY <2>1 DEF Busy, Own, ObjAt, Place, Used
<1>2. WrapInv => ResolvedStaysOwn
      BY <1>1 DEF ResolvedStaysOwn
<1> QED
    BY <1>2, WrapInvariance, PTL

\* An object that has been constructed is not freed before its destructor
\* has run, whichever process calls shm_free.
THEOREM RaiiIsHonoured == NoAdmin => (WrapSpec => []RaiiHonoured)
<1> SUFFICES ASSUME NoAdmin  PROVE WrapSpec => []RaiiHonoured
      OBVIOUS
<1>1. ASSUME WrapInv, ~Crashed, NEW x \in built
      PROVE  x \in {dir[i].id : i \in LiveSlots}
  <2>1. PICK o \in Used(heap) : heap.blk[o].obj_id = x
        BY <1>1 DEF WrapInv, Calm, Exist
  <2>2. DirOK(heap, dir, next_id)
        BY <1>1 DEF WrapInv, IInv
  <2>3. PICK i \in Live(dir) : At(dir, i) = o
        BY <2>2 DEF DirOK
  <2>4. dir[i].id = x
        BY <2>1, <2>2, <2>3 DEF DirOK, Agrees
  <2> QED
        BY <2>3, <2>4 DEF Live, LiveSlots
<1>2. WrapInv => RaiiHonoured
      BY <1>1 DEF RaiiHonoured
<1> QED
    BY <1>2, WrapInvariance, PTL

\* No destructor runs on memory in which no constructor ran, and none runs a
\* second time unless shm_free refused to free what the first had destroyed.
THEOREM DestructorsRunOnce == NoAdmin => (WrapSpec => []DestroyedOnce)
<1> SUFFICES ASSUME NoAdmin  PROVE WrapSpec => []DestroyedOnce
      OBVIOUS
<1>1. ASSUME WrapInv, ~Crashed, NEW p \in Users, proc[p].pc = "dtor"
      PROVE  ObjAt(p) \in built \cup zombies
  <2> DEFINE o == Place(proc[p])
  <2>1. /\ Busy(p, proc[p], heap, built)
        /\ OwnSettled(p, heap, proc, built \cup zombies)
        BY <1>1, ProcessIs
  <2>2. /\ o \in Used(heap) /\ heap.blk[o].owner = p
        /\ RW \subseteq heap.blk[o].perms
        BY <1>1, <2>1 DEF Busy
  <2>3. heap.blk[o].obj_id \in built \cup zombies
        BY <1>1, <2>1, <2>2 DEF OwnSettled, Settled
  <2> QED
        BY <2>3 DEF ObjAt, Place
<1>2. WrapInv => DestroyedOnce
      BY <1>1 DEF DestroyedOnce
<1> QED
    BY <1>2, WrapInvariance, PTL
=============================================================================
