-------------------------- MODULE ShmRegionProofs --------------------------
(***************************************************************************)
(* The life of a region, for any number of processes and memory objects,   *)
(* either backend and any fingerprints.  What a process leaves behind does *)
(* not depend on the others; that host_count is exact and that fingerprints*)
(* keep strangers out holds of processes that create and attach in order.  *)
(***************************************************************************)
EXTENDS ShmRegion, FiniteSetTheorems, TLAPS

-----------------------------------------------------------------------------
(***************************************************************************)
(* Types, and what a process holds at each point of its call.              *)
(***************************************************************************)
\* A process has an object exactly while it is in a call or attached; it
\* gets its mapping after the size check and gives it up before the
\* descriptor.
Tidy(p) ==
    /\ proc[p].pc \in {"idle", "dead"} <=> proc[p].f = NONE
    /\ proc[p].pc \in {"idle", "size", "map", "close"} => ~proc[p].mapped
    /\ proc[p].pc = "idle" => ~proc[p].fd

HandlesInv == RegionTypeOK /\ \A p \in Procs : Tidy(p)

\* A fresh handle and a zeroed object have their types.
LEMMA FreshTypes ==
    /\ Idle \in Proc
    /\ \A large \in BOOLEAN : Zeroed(large) \in File
    BY DEF Idle, Proc, Zeroed, File, NONE, Opening, Closing

\* p's handle is now e, which is tidy; everybody else's is as it was.
LEMMA HandleStep ==
    ASSUME HandlesInv, NEW p \in Procs, NEW e \in Proc,
           proc' = [proc EXCEPT ![p] = e],
           e.pc \in {"idle", "dead"} <=> e.f = NONE,
           e.pc \in {"idle", "size", "map", "close"} => ~e.mapped,
           e.pc = "idle" => ~e.fd,
           name' \in Files \cup {NONE}, file' \in [Files -> File]
    PROVE  HandlesInv'
<1>1. /\ proc' \in [Procs -> Proc] /\ proc'[p] = e
      /\ \A q \in Procs : q # p => proc'[q] = proc[q]
      BY DEF HandlesInv, RegionTypeOK
<1>2. ASSUME NEW q \in Procs
      PROVE  Tidy(q)'
  <2>1. CASE q = p
        BY <1>1, <2>1 DEF Tidy
  <2>2. CASE q # p
    <3>1. Tidy(q) /\ proc'[q] = proc[q]
          BY <1>1, <2>2 DEF HandlesInv
    <3> QED
          BY <3>1 DEF Tidy
  <2> QED
        BY <2>1, <2>2
<1> QED
    BY <1>1, <1>2 DEF HandlesInv, RegionTypeOK

\* Only the place of p changes, between places where p has its object.
LEMMA GotoKeeps ==
    ASSUME HandlesInv, NEW p \in Procs,
           NEW pc \in {"open"} \cup Opening \cup Closing, Goto(p, pc),
           proc[p].pc \notin {"idle", "dead"},
           pc \in {"idle", "size", "map", "close"} => ~proc[p].mapped,
           name' = name, file' \in [Files -> File]
    PROVE  HandlesInv'
<1> DEFINE e == [proc[p] EXCEPT !.pc = pc]
<1>1. proc[p] \in Proc /\ Tidy(p) /\ name \in Files \cup {NONE}
      BY DEF HandlesInv, RegionTypeOK
<1>2. pc \notin {"idle", "dead"}
      BY DEF Opening, Closing
<1>3. e \in Proc /\ e.pc = pc /\ e.f = proc[p].f /\ e.mapped = proc[p].mapped
      BY <1>1 DEF Proc
<1>4. proc' = [proc EXCEPT ![p] = e]
      BY DEF Goto
<1> HIDE DEF e
<1> QED
    BY <1>1, <1>2, <1>3, <1>4, HandleStep DEF Tidy

\* A call that returns leaves nothing behind if it releases what it holds.
LEMMA ReturnKeeps ==
    ASSUME HandlesInv, NEW p \in Procs, NEW rel, Return(p, rel),
           "fd" \in rel, "mapping" \in rel \/ ~proc[p].mapped,
           name' \in Files \cup {NONE}, file' \in [Files -> File]
    PROVE  HandlesInv'
<1> DEFINE x == proc[p].fd /\ "fd" \notin rel
           y == proc[p].mapped /\ "mapping" \notin rel
           e == [Idle EXCEPT !.fd = x, !.mapped = y]
<1>1. proc' = [proc EXCEPT ![p] = e]
      BY DEF Return
<1>2. x \in BOOLEAN /\ ~x /\ y \in BOOLEAN /\ ~y
      OBVIOUS
<1> HIDE DEF x, y
<1>3. e \in Proc
      BY <1>2, FreshTypes DEF Proc
<1>4. e.pc = "idle" /\ e.f = NONE /\ ~e.mapped /\ ~e.fd
      BY <1>2 DEF Idle
<1> HIDE DEF e
<1> QED
    BY <1>1, <1>3, <1>4, HandleStep

\* Nobody has a region open at first.
LEMMA HandlesInit == RegionInit => HandlesInv
<1> SUFFICES ASSUME RegionInit  PROVE HandlesInv
      OBVIOUS
<1>1. /\ Idle \in Proc /\ Idle.pc = "idle" /\ Idle.f = NONE
      /\ ~Idle.mapped /\ ~Idle.fd
      BY FreshTypes DEF Idle
<1>2. (Backend = "DAX") \in BOOLEAN
      OBVIOUS
<1>3. Zeroed(Backend = "DAX") \in File
      BY <1>2, FreshTypes
<1>4. name \in Files \cup {NONE}
      BY RegionAssumption DEF RegionInit
<1>5. \A p \in Procs : proc[p] = Idle
      BY DEF RegionInit
<1> QED
    BY <1>1, <1>3, <1>4, <1>5 DEF RegionInit, HandlesInv, RegionTypeOK, Tidy

\* p works on a memory object while it is in a call.
LEMMA Working ==
    ASSUME HandlesInv, NEW p \in Procs, proc[p].pc \notin {"idle", "dead"}
    PROVE  /\ proc[p].f \in Files /\ file[proc[p].f] \in File
           /\ proc[p] \in Proc
<1>1. proc[p] \in Proc /\ proc[p].f # NONE
      BY DEF HandlesInv, RegionTypeOK, Tidy
<1>2. proc[p].f \in Files
      BY <1>1 DEF Proc
<1> QED
    BY <1>1, <1>2 DEF HandlesInv, RegionTypeOK

\* A new value of one object has its type if it is made from an old one.
LEMMA FileStep ==
    ASSUME HandlesInv, NEW f \in Files, NEW x \in File,
           file' = [file EXCEPT ![f] = x]
    PROVE  /\ file' \in [Files -> File] /\ file'[f] = x
           /\ \A g \in Files : g # f => file'[g] = file[g]
    BY DEF HandlesInv, RegionTypeOK

\* The name stays a name or is removed.
LEMMA NameStep ==
    ASSUME HandlesInv, NEW cond, UnlinkIf(cond)
    PROVE  name' \in Files \cup {NONE}
    BY DEF HandlesInv, RegionTypeOK, UnlinkIf

\* shm_open keeps handles tidy.
LEMMA OpenFdTidy ==
    ASSUME HandlesInv, NEW p \in Procs, NEW creating \in BOOLEAN,
           NEW large \in BOOLEAN, NEW enforce \in SUBSET Kinds,
           OpenFd(p, creating, large, enforce)
    PROVE  HandlesInv'
<1> DEFINE x == creating /\ large
           y == IF creating THEN {} ELSE enforce
           E(f) == [Idle EXCEPT !.pc = "size", !.f = f, !.fd = TRUE,
                                !.creating = creating, !.large = x, !.enforce = y]
<1>1. PICK f \in Files :
         /\ \/ name = f /\ UNCHANGED <<name, file>>
            \/ name' = f /\ file' = [file EXCEPT ![f] = Zeroed(FALSE)]
         /\ proc' = [proc EXCEPT ![p] = E(f)]
      BY DEF OpenFd
<1>2. name' \in Files \cup {NONE} /\ file' \in [Files -> File]
  <2>1. CASE name = f /\ UNCHANGED <<name, file>>
        BY <2>1 DEF HandlesInv, RegionTypeOK
  <2>2. CASE name' = f /\ file' = [file EXCEPT ![f] = Zeroed(FALSE)]
        BY <2>2, FreshTypes, FileStep
  <2> QED
        BY <1>1, <2>1, <2>2
<1>3. x \in BOOLEAN /\ y \in SUBSET Kinds /\ f # NONE
      BY RegionAssumption
<1> HIDE DEF x, y
<1>4. E(f) \in Proc
      BY <1>3 DEF Idle, Proc, Opening
<1>5. E(f).pc = "size" /\ E(f).f = f /\ ~E(f).mapped
      BY DEF Idle
<1> HIDE DEF E
<1> QED
    BY <1>1, <1>2, <1>3, <1>4, <1>5, HandleStep

\* Setting or reading the size keeps handles tidy.
LEMMA SetSizeTidy ==
    ASSUME HandlesInv, NEW p \in Procs, SetSize(p)
    PROVE  HandlesInv'
<1> DEFINE f == proc[p].f
           stats == Backend = "POSIX" /\ ~proc[p].creating
           v == CASE stats -> file[f].large [] Backend = "DAX" -> TRUE
                  [] OTHER -> proc[p].large
           e == [proc[p] EXCEPT !.pc = "map", !.large = v]
<1>0. /\ f \in Files /\ file[f] \in File /\ proc[p] \in Proc /\ ~proc[p].mapped
      /\ f # NONE
      BY Working, RegionAssumption DEF SetSize, HandlesInv, Tidy
<1>1. CASE \/ Return(p, {"fd"}) /\ UnlinkIf(TRUE) /\ UNCHANGED file
           \/ Return(p, {"fd"}) /\ UNCHANGED <<name, file>>
  <2>1. name' \in Files \cup {NONE} /\ file' \in [Files -> File]
        BY <1>1, NameStep DEF HandlesInv, RegionTypeOK
  <2> QED
        BY <1>0, <1>1, <2>1, ReturnKeeps
<1>2. CASE /\ \/ file' = [file EXCEPT ![f].large = TRUE] \/ file' = file
           /\ proc' = [proc EXCEPT ![p] = e] /\ UNCHANGED name
  <2>1. file' \in [Files -> File]
    <3>1. [file[f] EXCEPT !.large = TRUE] \in File
          BY <1>0 DEF File
    <3> QED
          BY <1>0, <1>2, <3>1 DEF HandlesInv, RegionTypeOK
  <2>2. v \in BOOLEAN
        BY <1>0 DEF File, Proc
  <2> HIDE DEF v
  <2>3. e \in Proc /\ e.pc = "map" /\ e.f = f /\ e.mapped = proc[p].mapped
        BY <1>0, <2>2 DEF Proc, Opening
  <2>4. name' \in Files \cup {NONE}
        BY <1>2 DEF HandlesInv, RegionTypeOK
  <2> HIDE DEF e
  <2> QED
        BY <1>0, <1>2, <2>1, <2>3, <2>4, HandleStep
<1> QED
    BY <1>1, <1>2 DEF SetSize

\* mmap keeps handles tidy.
LEMMA MapRegionTidy ==
    ASSUME HandlesInv, NEW p \in Procs, MapRegion(p)
    PROVE  HandlesInv'
<1> DEFINE pc == IF proc[p].creating THEN "memset" ELSE "validate"
           e == [proc[p] EXCEPT !.mapped = TRUE, !.pc = pc]
<1>0. /\ proc[p] \in Proc /\ ~proc[p].mapped /\ proc[p].f # NONE
      /\ file' = file /\ file \in [Files -> File]
      BY Working, RegionAssumption DEF MapRegion, HandlesInv, Tidy, RegionTypeOK
<1>1. CASE Return(p, {"fd"}) /\ UnlinkIf(proc[p].creating)
      BY <1>0, <1>1, NameStep, ReturnKeeps
<1>2. CASE proc' = [proc EXCEPT ![p] = e] /\ UNCHANGED name
  <2>1. pc \in {"memset", "validate"}
        OBVIOUS
  <2> HIDE DEF pc
  <2>2. e \in Proc /\ e.pc = pc /\ e.f = proc[p].f
        BY <1>0, <2>1 DEF Proc, Opening
  <2>3. name' \in Files \cup {NONE}
        BY <1>2 DEF HandlesInv, RegionTypeOK
  <2> HIDE DEF e
  <2> QED
        BY <1>0, <1>2, <2>1, <2>2, <2>3, HandleStep
<1> QED
    BY <1>1, <1>2 DEF MapRegion

\* The steps of region_init keep handles tidy.
LEMMA RegionInitTidy ==
    ASSUME HandlesInv, NEW p \in Procs,
           InitMagic(p) \/ InitHeader(p) \/ InitMutex(p) \/ InitHeap(p)
    PROVE  HandlesInv'
<1> DEFINE f == proc[p].f
           prints == [k \in Kinds |-> Fingerprint(p, k)]
<1>0. /\ f \in Files /\ file[f] \in File /\ proc[p].pc \notin {"idle", "dead"}
      BY Working DEF InitMagic, InitHeader, InitMutex, InitHeap
<1>1. prints \in [Kinds -> Nat]
      BY RegionAssumption
<1>2. /\ [Zeroed(TRUE) EXCEPT !.magic = TRUE] \in File
      /\ [file[f] EXCEPT !.owner = NONE, !.robust = TRUE] \in File
      /\ [file[f] EXCEPT !.heap = TRUE] \in File
      BY <1>0, FreshTypes DEF File
<1> HIDE DEF prints
<1>3. [file[f] EXCEPT !.host_count = 0, !.counted = {}, !.prints = prints] \in File
      BY <1>0, <1>1 DEF File
<1>4. \E x \in File : file' = [file EXCEPT ![f] = x]
  <2>1. CASE InitMagic(p)
        BY <1>2, <2>1 DEF InitMagic
  <2>2. CASE InitHeader(p)
    <3>1. file' = [file EXCEPT ![f] = [file[f] EXCEPT !.host_count = 0,
                                 !.counted = {}, !.prints = prints]]
          BY <1>0, <2>2 DEF InitHeader, prints, HandlesInv, RegionTypeOK
    <3> QED
          BY <1>3, <3>1
  <2>3. CASE InitMutex(p)
    <3>1. file' = [file EXCEPT ![f] = [file[f] EXCEPT !.owner = NONE, !.robust = TRUE]]
          BY <1>0, <2>3 DEF InitMutex, HandlesInv, RegionTypeOK
    <3> QED
          BY <1>2, <3>1
  <2>4. CASE InitHeap(p)
        BY <1>2, <2>4 DEF InitHeap
  <2> QED
        BY <2>1, <2>2, <2>3, <2>4
<1>5. file' \in [Files -> File]
      BY <1>0, <1>4, FileStep
<1>6. \E pc \in {"header", "mutex", "heap", "lock"} : Goto(p, pc) /\ name' = name
      BY DEF InitMagic, InitHeader, InitMutex, InitHeap
<1>7. \A pc \in {"header", "mutex", "heap", "lock"} :
         pc \in {"open"} \cup Opening \cup Closing
      BY DEF Opening
<1> QED
    BY <1>0, <1>5, <1>6, <1>7, GotoKeeps

\* Validation keeps handles tidy.
LEMMA ValidateTidy ==
    ASSUME HandlesInv, NEW p \in Procs, Validate(p)
    PROVE  HandlesInv'
<1>0. /\ proc[p].pc = "validate" /\ file' = file /\ name' = name
      /\ name \in Files \cup {NONE} /\ file \in [Files -> File]
      BY DEF Validate, HandlesInv, RegionTypeOK
<1>1. CASE Goto(p, "lock")
      BY <1>0, <1>1, GotoKeeps DEF Opening
<1>2. CASE Return(p, {"fd", "mapping"})
      BY <1>0, <1>2, ReturnKeeps
<1> QED
    BY <1>1, <1>2 DEF Validate

\* Taking the mutex keeps handles tidy.
LEMMA LockTidy ==
    ASSUME HandlesInv, NEW p \in Procs, region_lock(p)
    PROVE  HandlesInv'
<1> DEFINE f == proc[p].f
           pc == IF proc[p].pc = "lock" THEN "count" ELSE "uncount"
<1>0. f \in Files /\ file[f] \in File /\ proc[p].pc \notin {"idle", "dead"}
      BY Working DEF region_lock
<1>1. [file[f] EXCEPT !.owner = p] \in File
      BY <1>0 DEF File
<1>2. file' \in [Files -> File]
      BY <1>0, <1>1, FileStep DEF region_lock
<1>3. pc \in {"count", "uncount"} /\ Goto(p, pc) /\ name' = name
      BY DEF region_lock
<1> HIDE DEF pc
<1> QED
    BY <1>0, <1>2, <1>3, GotoKeeps DEF Opening, Closing

\* Loading host_count keeps handles tidy.
LEMMA LoadCountTidy ==
    ASSUME HandlesInv, NEW p \in Procs, LoadCount(p)
    PROVE  HandlesInv'
<1> DEFINE n == file[proc[p].f].host_count
           pc == IF proc[p].pc = "count" THEN "counted" ELSE "uncounted"
           e == [proc[p] EXCEPT !.n = n, !.pc = pc]
<1>0. /\ proc[p].f \in Files /\ file[proc[p].f] \in File /\ proc[p] \in Proc
      /\ proc[p].f # NONE
      BY Working, RegionAssumption DEF LoadCount
<1>1. n \in Nat /\ pc \in {"counted", "uncounted"}
      BY <1>0 DEF File
<1>2. proc' = [proc EXCEPT ![p] = e] /\ name' = name /\ file' = file
      BY DEF LoadCount
<1> HIDE DEF n, pc
<1>3. e \in Proc /\ e.pc = pc /\ e.f = proc[p].f
      BY <1>0, <1>1 DEF Proc, Opening, Closing
<1>4. name' \in Files \cup {NONE} /\ file' \in [Files -> File]
      BY <1>2 DEF HandlesInv, RegionTypeOK
<1> HIDE DEF e
<1> QED
    BY <1>0, <1>1, <1>2, <1>3, <1>4, HandleStep

\* Counting in keeps handles tidy.
LEMMA FinishOpenTidy ==
    ASSUME HandlesInv, NEW p \in Procs, FinishOpen(p)
    PROVE  HandlesInv'
<1> DEFINE f == proc[p].f
           m == proc[p].n + 1
           c == file[f].counted \cup {p}
           w == Unlocked(f, p)
           x == [file[f] EXCEPT !.host_count = m, !.counted = c, !.owner = w]
           e == [proc[p] EXCEPT !.pc = "open", !.n = 0]
<1>0. f \in Files /\ file[f] \in File /\ proc[p] \in Proc /\ f # NONE
      BY Working, RegionAssumption DEF FinishOpen
<1>1. m \in Nat /\ c \in SUBSET Procs /\ w \in Procs \cup {NONE}
      BY <1>0 DEF File, Proc, Unlocked
<1>2. /\ file' = [file EXCEPT ![f] = x] /\ name' = name
      /\ proc' = [proc EXCEPT ![p] = e]
      BY <1>0 DEF FinishOpen, HandlesInv, RegionTypeOK
<1> HIDE DEF m, c, w
<1>3. x \in File
      BY <1>0, <1>1 DEF File
<1>4. file' \in [Files -> File] /\ name' \in Files \cup {NONE}
      BY <1>0, <1>2, <1>3, FileStep DEF HandlesInv, RegionTypeOK
<1>5. e \in Proc /\ e.pc = "open" /\ e.f = f
      BY <1>0 DEF Proc
<1> HIDE DEF e
<1> QED
    BY <1>0, <1>2, <1>4, <1>5, HandleStep

\* Counting out keeps handles tidy: the mapping is gone, the descriptor next.
LEMMA FinishCountTidy ==
    ASSUME HandlesInv, NEW p \in Procs, FinishCount(p)
    PROVE  HandlesInv'
<1> DEFINE f == proc[p].f
           m == IF proc[p].n > 0 THEN proc[p].n - 1 ELSE file[f].host_count
           c == file[f].counted \ {p}
           w == Unlocked(f, p)
           x == [file[f] EXCEPT !.host_count = m, !.counted = c, !.owner = w]
           e == [proc[p] EXCEPT !.pc = "close", !.mapped = FALSE, !.n = 0]
<1>0. f \in Files /\ file[f] \in File /\ proc[p] \in Proc /\ f # NONE
      BY Working, RegionAssumption DEF FinishCount
<1>1. m \in Nat /\ c \in SUBSET Procs /\ w \in Procs \cup {NONE}
      BY <1>0 DEF File, Proc, Unlocked
<1>2. /\ file' = [file EXCEPT ![f] = x] /\ name' = name
      /\ proc' = [proc EXCEPT ![p] = e]
      BY <1>0 DEF FinishCount, HandlesInv, RegionTypeOK
<1> HIDE DEF m, c, w
<1>3. x \in File
      BY <1>0, <1>1 DEF File
<1>4. file' \in [Files -> File] /\ name' \in Files \cup {NONE}
      BY <1>0, <1>2, <1>3, FileStep DEF HandlesInv, RegionTypeOK
<1>5. e \in Proc /\ e.pc = "close" /\ e.f = f /\ ~e.mapped
      BY <1>0 DEF Proc, Closing
<1> HIDE DEF e
<1> QED
    BY <1>0, <1>2, <1>4, <1>5, HandleStep

\* Starting to close, closing the descriptor and dying keep handles tidy.
LEMMA LeavingTidy ==
    ASSUME HandlesInv, NEW p \in Procs,
           (\E unlink \in BOOLEAN : StartClose(p, unlink)) \/ CloseFd(p) \/ Die(p)
    PROVE  HandlesInv'
<1>0. file' = file /\ file \in [Files -> File] /\ name \in Files \cup {NONE}
      BY DEF StartClose, CloseFd, Die, HandlesInv, RegionTypeOK
<1>1. ASSUME NEW unlink \in BOOLEAN, StartClose(p, unlink)
      PROVE  HandlesInv'
  <2> DEFINE e == [proc[p] EXCEPT !.pc = "unlock", !.unlink = unlink]
  <2>1. proc[p] \in Proc /\ proc[p].f # NONE
        BY <1>1, Working, RegionAssumption DEF StartClose
  <2>2. e \in Proc /\ e.pc = "unlock" /\ e.f = proc[p].f
        BY <2>1 DEF Proc, Closing
  <2>3. proc' = [proc EXCEPT ![p] = e] /\ name' = name
        BY <1>1 DEF StartClose
  <2> HIDE DEF e
  <2> QED
        BY <1>0, <2>1, <2>2, <2>3, HandleStep
<1>2. CASE CloseFd(p)
  <2>1. ~proc[p].mapped
        BY <1>2 DEF CloseFd, HandlesInv, Tidy
  <2> QED
        BY <1>0, <1>2, <2>1, NameStep, ReturnKeeps DEF CloseFd
<1>3. CASE Die(p)
  <2> DEFINE e == [Idle EXCEPT !.pc = "dead"]
  <2>1. e \in Proc /\ e.pc = "dead" /\ e.f = NONE
        BY FreshTypes DEF Idle, Proc
  <2>2. proc' = [proc EXCEPT ![p] = e] /\ name' = name
        BY <1>3 DEF Die
  <2> HIDE DEF e
  <2> QED
        BY <1>0, <2>1, <2>2, HandleStep
<1> QED
    BY <1>1, <1>2, <1>3

\* Every step keeps types and handles.
LEMMA HandlesNext == HandlesInv /\ [RegionNext]_regionVars => HandlesInv'
<1> SUFFICES ASSUME HandlesInv, [RegionNext]_regionVars  PROVE HandlesInv'
      OBVIOUS
<1>1. ASSUME NEW p \in Procs, Step(p)
      PROVE  HandlesInv'
      BY <1>1, SetSizeTidy, MapRegionTidy, RegionInitTidy, ValidateTidy,
         LoadCountTidy, FinishOpenTidy, FinishCountTidy, LeavingTidy DEF Step
<1>2. CASE UNCHANGED regionVars
      BY <1>2 DEF regionVars, HandlesInv, RegionTypeOK, Tidy
<1> QED
    BY <1>1, <1>2, OpenFdTidy, LockTidy, LeavingTidy DEF RegionNext, AllDead

\* Types and handles hold up, whatever the processes do and in what order.
THEOREM HandlesInvariant == RegionSpec => []HandlesInv
    BY HandlesInit, HandlesNext, PTL DEF RegionSpec

\* Every field of every region header and handle keeps its type.
THEOREM RegionTypes == RegionSpec => []RegionTypeOK
<1>1. HandlesInv => RegionTypeOK
      BY DEF HandlesInv
<1> QED
    BY HandlesInvariant, <1>1, PTL

\* No way out of shm_region_open and shm_region_close leaks a descriptor or
\* a mapping, even if processes create and attach in any order.
THEOREM NoLeaks == RegionSpec => []NothingLeaked
<1>1. HandlesInv => NothingLeaked
      BY DEF HandlesInv, Tidy, NothingLeaked
<1> QED
    BY HandlesInvariant, <1>1, PTL

-----------------------------------------------------------------------------
(***************************************************************************)
(* Processes that create and attach in order.                              *)
(***************************************************************************)
Ready == {"lock", "count", "counted", "open", "unlock", "uncount", "uncounted"}
Critical == {"count", "counted", "uncount", "uncounted"}
Enrolled == {"open", "unlock", "uncount", "uncounted"}

\* No other process has p's object.
Alone(p) == \A q \in Procs : q # p => proc[q].f # proc[p].f

\* What process p may rely on: while it creates a region it has the object to
\* itself and what it has written stays; when it attaches, the region is
\* complete; between lock and unlock it owns the mutex, and the count it has
\* loaded is not out of date; once it is let in, it stays of the kind.
InOrder(p) ==
    LET f == proc[p].f
    IN  /\ proc[p].creating /\ proc[p].pc \in Opening => Alone(p)
        /\ proc[p].pc = "memset" => proc[p].creating
        /\ proc[p].pc = "validate" => ~proc[p].creating
        /\ proc[p].pc \in {"header", "mutex", "heap"} =>
              /\ proc[p].creating /\ ~file[f].heap
              /\ file[f].host_count = 0 /\ file[f].counted = {}
        /\ proc[p].pc = "heap" => file[f].robust
        /\ proc[p].pc \in Ready \/ (f # NONE /\ ~proc[p].creating) => file[f].heap
        /\ proc[p].pc \in Critical => file[f].owner = p
        /\ proc[p].pc \in {"counted", "uncounted"} => proc[p].n = file[f].host_count
        /\ proc[p].pc \in Ready /\ ~proc[p].creating => ~Foreign(p)

\* A region that is complete counts those who have counted themselves: they
\* are attached or closing, or they died before they could uncount themselves.
Exact(f) ==
    file[f].heap =>
        /\ file[f].robust
        /\ IsFiniteSet(file[f].counted)
        /\ file[f].host_count = Cardinality(file[f].counted)
        /\ \A p \in Procs :
              /\ proc[p].f = f /\ proc[p].pc \in Enrolled => p \in file[f].counted
              /\ p \in file[f].counted =>
                    \/ proc[p].pc = "dead"
                    \/ proc[p].f = f /\ proc[p].pc \in Enrolled

OrderInv ==
    /\ HandlesInv
    /\ \A p \in Procs : InOrder(p)
    /\ \A f \in Files : Exact(f)

\* Nothing that q relies on is changed in its object.
Respects(q) ==
    LET f == proc[q].f
    IN  /\ proc[q].pc \notin {"header", "mutex", "heap"}
        /\ file'[f].heap = file[f].heap /\ file'[f].prints = file[f].prints
        /\ proc[q].pc \in Critical => /\ file'[f].owner = file[f].owner
                                      /\ file'[f].host_count = file[f].host_count

\* A step of p leaves q in order.
LEMMA OtherInOrder ==
    ASSUME OrderInv, NEW p \in Procs, NEW q \in Procs, q # p,
           \A r \in Procs : r # p => proc'[r] = proc[r],
           \/ proc[q].f = NONE \/ file'[proc[q].f] = file[proc[q].f] \/ Respects(q),
           proc[q].creating /\ proc[q].pc \in Opening => proc'[p].f # proc[q].f
    PROVE  InOrder(q)'
<1>0. InOrder(q) /\ proc'[q] = proc[q]
      BY DEF OrderInv
<1>1. CASE proc[q].f = NONE
  <2>1. proc[q].pc \in {"idle", "dead"}
        BY <1>1 DEF OrderInv, HandlesInv, Tidy
  <2> QED
        BY <1>0, <1>1, <2>1 DEF InOrder, Opening, Ready, Critical
<1>2. CASE proc[q].f # NONE
  <2>1. proc[q].creating /\ proc[q].pc \in Opening => Alone(q)'
        BY <1>0 DEF InOrder, Alone
  <2>2. CASE file'[proc[q].f] = file[proc[q].f]
    <3>1. Foreign(q)' <=> Foreign(q)
          BY <1>0, <2>2 DEF Foreign
    <3> QED
          BY <1>0, <2>1, <2>2, <3>1 DEF InOrder
  <2>3. CASE Respects(q)
    <3>1. Foreign(q)' <=> Foreign(q)
          BY <1>0, <2>3 DEF Foreign, Respects
    <3>2. \A x \in {"counted", "uncounted"} : x \in Critical
          BY DEF Critical
    <3> QED
          BY <1>0, <2>1, <2>3, <3>1, <3>2 DEF InOrder, Respects
  <2> QED
        BY <1>2, <2>2, <2>3
<1> QED
    BY <1>1, <1>2

\* The count of g stays exact if it is not touched and p neither enrols in
\* g nor leaves it, except by death.
LEMMA ExactKept ==
    ASSUME OrderInv, NEW p \in Procs, proc[p].pc # "dead", NEW g \in Files,
           \A r \in Procs : r # p => proc'[r] = proc[r],
           file'[g].heap => /\ file[g].heap /\ file'[g].robust = file[g].robust
                            /\ file'[g].host_count = file[g].host_count
                            /\ file'[g].counted = file[g].counted,
           \/ proc'[p].pc = "dead" /\ proc'[p].f = NONE
           \/ (proc'[p].f = g /\ proc'[p].pc \in Enrolled)
                <=> (proc[p].f = g /\ proc[p].pc \in Enrolled)
    PROVE  Exact(g)'
<1> SUFFICES ASSUME file'[g].heap  PROVE Exact(g)'
      BY DEF Exact
<1>1. Exact(g) /\ file[g].heap /\ g # NONE
      BY RegionAssumption DEF OrderInv
<1>2. ASSUME NEW q \in Procs
      PROVE  /\ proc'[q].f = g /\ proc'[q].pc \in Enrolled => q \in file[g].counted
             /\ q \in file[g].counted => \/ proc'[q].pc = "dead"
                                         \/ proc'[q].f = g /\ proc'[q].pc \in Enrolled
  <2>1. CASE q = p
        BY <1>1, <2>1 DEF Exact
  <2>2. CASE q # p
        BY <1>1, <2>2 DEF Exact
  <2> QED
        BY <2>1, <2>2
<1> QED
    BY <1>1, <1>2 DEF Exact

\* A step of p that changes no object keeps everyone in order, if p stays
\* with its object or leaves it without having been counted, or by death.
LEMMA QuietStep ==
    ASSUME OrderInv, HandlesInv', NEW p \in Procs, proc[p].pc # "dead",
           \A r \in Procs : r # p => proc'[r] = proc[r], file' = file,
           \/ proc'[p].pc = "dead" /\ proc'[p].f = NONE
           \/ /\ proc'[p].pc = "idle" /\ proc'[p].f = NONE
              /\ proc[p].pc \notin Enrolled
           \/ /\ proc'[p].f = proc[p].f
              /\ proc'[p].pc \in Enrolled <=> proc[p].pc \in Enrolled,
           proc'[p].f # NONE => InOrder(p)'
    PROVE  OrderInv'
<1>1. \A g \in Files : Exact(g)'
  <2> SUFFICES ASSUME NEW g \in Files  PROVE Exact(g)'
        OBVIOUS
  <2>1. g # NONE
        BY RegionAssumption
  <2> QED
        BY <2>1, ExactKept
<1>2. ASSUME NEW q \in Procs, q # p
      PROVE  InOrder(q)'
  <2>1. proc[q].creating /\ proc[q].pc \in Opening => proc'[p].f # proc[q].f
    <3> SUFFICES ASSUME proc[q].creating, proc[q].pc \in Opening
                 PROVE  proc'[p].f # proc[q].f
          OBVIOUS
    <3>1. Alone(q) /\ proc[q].f # NONE
          BY DEF OrderInv, InOrder, HandlesInv, Tidy, Opening
    <3> QED
          BY <1>2, <3>1 DEF Alone
  <2> QED
        BY <1>2, <2>1, OtherInOrder
<1>3. InOrder(p)'
  <2>1. CASE proc'[p].f = NONE
    <3>1. proc'[p].pc \in {"idle", "dead"}
          BY <2>1 DEF HandlesInv, Tidy
    <3> QED
          BY <2>1, <3>1 DEF InOrder, Opening, Ready, Critical
  <2> QED
        BY <2>1
<1> QED
    BY <1>1, <1>2, <1>3 DEF OrderInv

\* What Return does to the handles.
LEMMA ReturnDoes ==
    ASSUME HandlesInv, NEW p \in Procs, NEW rel, Return(p, rel)
    PROVE  /\ proc'[p].pc = "idle" /\ proc'[p].f = NONE
           /\ \A r \in Procs : r # p => proc'[r] = proc[r]
<1> DEFINE x == proc[p].fd /\ "fd" \notin rel
           y == proc[p].mapped /\ "mapping" \notin rel
           e == [Idle EXCEPT !.fd = x, !.mapped = y]
<1>1. proc' = [proc EXCEPT ![p] = e]
      BY DEF Return
<1> HIDE DEF x, y
<1>2. e.pc = "idle" /\ e.f = NONE
      BY DEF Idle
<1> HIDE DEF e
<1> QED
    BY <1>1, <1>2 DEF HandlesInv, RegionTypeOK

\* What Goto does to the handles.
LEMMA GotoDoes ==
    ASSUME HandlesInv, NEW p \in Procs, NEW pc, Goto(p, pc)
    PROVE  /\ proc'[p].pc = pc /\ proc'[p].f = proc[p].f
           /\ proc'[p].creating = proc[p].creating
           /\ proc'[p].enforce = proc[p].enforce /\ proc'[p].n = proc[p].n
           /\ \A r \in Procs : r # p => proc'[r] = proc[r]
<1>1. proc \in [Procs -> Proc] /\ proc[p] \in Proc
      BY DEF HandlesInv, RegionTypeOK
<1>2. proc' = [proc EXCEPT ![p] = [proc[p] EXCEPT !.pc = pc]]
      BY DEF Goto
<1> QED
    BY <1>1, <1>2 DEF Proc

\* An error path that leaves objects alone keeps order.
LEMMA ReturnOrder ==
    ASSUME OrderInv, HandlesInv', NEW p \in Procs, NEW rel, Return(p, rel),
           file' = file, proc[p].pc \notin Enrolled \cup {"dead"}
    PROVE  OrderInv'
<1>1. /\ proc'[p].pc = "idle" /\ proc'[p].f = NONE
      /\ \A r \in Procs : r # p => proc'[r] = proc[r]
      BY ReturnDoes DEF OrderInv
<1> QED
    BY <1>1, QuietStep

\* p, alone with its object, changes it: nobody else notices.
LEMMA AloneStep ==
    ASSUME OrderInv, HandlesInv', NEW p \in Procs, proc[p].f \in Files,
           proc[p].creating, proc[p].pc \in Opening, proc'[p].f = proc[p].f,
           proc'[p].pc \notin Enrolled \cup {"dead"},
           \A r \in Procs : r # p => proc'[r] = proc[r],
           \A g \in Files : g # proc[p].f => file'[g] = file[g],
           InOrder(p)', Exact(proc[p].f)'
    PROVE  OrderInv'
<1>0. Alone(p) /\ proc[p].pc \notin Enrolled /\ proc[p].pc # "dead"
      BY DEF OrderInv, InOrder, Opening, Enrolled
<1>1. ASSUME NEW q \in Procs, q # p
      PROVE  InOrder(q)'
  <2>1. proc[q].f # proc[p].f /\ (proc[q].f = NONE \/ proc[q].f \in Files)
        BY <1>0, <1>1 DEF Alone, OrderInv, HandlesInv, RegionTypeOK, Proc
  <2> QED
        BY <1>1, <2>1, OtherInOrder
<1>2. ASSUME NEW g \in Files
      PROVE  Exact(g)'
  <2>1. CASE g # proc[p].f
        BY <1>0, <2>1, ExactKept
  <2> QED
        BY <2>1
<1> QED
    BY <1>1, <1>2 DEF OrderInv

\* Setting or reading the size keeps order.
LEMMA SetSizeOrder ==
    ASSUME OrderInv, HandlesInv', NEW p \in Procs, SetSize(p)
    PROVE  OrderInv'
<1> DEFINE f == proc[p].f
           stats == Backend = "POSIX" /\ ~proc[p].creating
           v == CASE stats -> file[f].large [] Backend = "DAX" -> TRUE
                  [] OTHER -> proc[p].large
           e == [proc[p] EXCEPT !.pc = "map", !.large = v]
<1>0. /\ HandlesInv /\ proc[p].pc = "size" /\ InOrder(p)
      /\ f \in Files /\ file[f] \in File /\ proc[p] \in Proc
      BY Working DEF SetSize, OrderInv
<1>1. CASE /\ Return(p, {"fd"}) /\ file' = file
      BY <1>0, <1>1, ReturnOrder DEF Enrolled
<1>2. CASE /\ \/ proc[p].creating /\ file' = [file EXCEPT ![f].large = TRUE]
              \/ file' = file
           /\ proc' = [proc EXCEPT ![p] = e]
  <2> HIDE DEF v
  <2>1. e.pc = "map" /\ e.f = f /\ e.creating = proc[p].creating
        BY <1>0 DEF Proc
  <2> HIDE DEF e
  <2>2. /\ proc'[p] = e /\ \A r \in Procs : r # p => proc'[r] = proc[r]
        BY <1>0, <1>2 DEF HandlesInv, RegionTypeOK
  <2>3. /\ file'[f].heap = file[f].heap /\ file'[f].robust = file[f].robust
        /\ file'[f].host_count = file[f].host_count
        /\ file'[f].counted = file[f].counted
        /\ \A g \in Files : g # f => file'[g] = file[g]
        BY <1>0, <1>2 DEF HandlesInv, RegionTypeOK, File
  <2>4. InOrder(p)'
    <3>1. proc[p].creating => Alone(p)'
          BY <1>0, <2>1, <2>2 DEF InOrder, Alone, Opening
    <3> QED
          BY <1>0, <2>1, <2>2, <2>3, <3>1 DEF InOrder, Ready, Critical
  <2>5. CASE file' = file
        BY <1>0, <2>1, <2>2, <2>4, <2>5, QuietStep DEF Enrolled
  <2>6. CASE proc[p].creating
    <3>1. Exact(f)'
          BY <1>0, <2>1, <2>2, <2>3, ExactKept DEF Enrolled
    <3> QED
          BY <1>0, <2>1, <2>2, <2>3, <2>4, <2>6, <3>1, AloneStep
             DEF Enrolled, Opening
  <2> QED
        BY <1>2, <2>5, <2>6
<1> QED
    BY <1>1, <1>2 DEF SetSize

\* mmap keeps order.
LEMMA MapRegionOrder ==
    ASSUME OrderInv, HandlesInv', NEW p \in Procs, MapRegion(p)
    PROVE  OrderInv'
<1> DEFINE pc == IF proc[p].creating THEN "memset" ELSE "validate"
           e == [proc[p] EXCEPT !.mapped = TRUE, !.pc = pc]
<1>0. HandlesInv /\ proc[p].pc = "map" /\ InOrder(p) /\ proc[p] \in Proc /\ file' = file
      BY Working DEF MapRegion, OrderInv
<1>1. CASE Return(p, {"fd"})
      BY <1>0, <1>1, ReturnOrder DEF Enrolled
<1>2. CASE proc' = [proc EXCEPT ![p] = e]
  <2>1. /\ pc \in {"memset", "validate"}
        /\ pc = "memset" => proc[p].creating
        /\ pc = "validate" => ~proc[p].creating
        OBVIOUS
  <2> HIDE DEF pc
  <2>2. e.pc = pc /\ e.f = proc[p].f /\ e.creating = proc[p].creating
        BY <1>0 DEF Proc
  <2> HIDE DEF e
  <2>3. proc'[p] = e /\ \A r \in Procs : r # p => proc'[r] = proc[r]
        BY <1>0, <1>2 DEF HandlesInv, RegionTypeOK
  <2>4. InOrder(p)'
    <3>1. proc[p].creating => Alone(p)'
          BY <1>0, <2>2, <2>3 DEF InOrder, Alone, Opening
    <3> QED
          BY <1>0, <2>1, <2>2, <2>3, <3>1 DEF InOrder, Ready, Critical
  <2> QED
        BY <1>0, <2>1, <2>2, <2>3, <2>4, QuietStep DEF Enrolled
<1> QED
    BY <1>1, <1>2 DEF MapRegion

\* region_init keeps order: each of its groups of stores is made by a process
\* that is alone with the object.
LEMMA RegionInitOrder ==
    ASSUME OrderInv, HandlesInv', NEW p \in Procs,
           InitMagic(p) \/ InitHeader(p) \/ InitMutex(p) \/ InitHeap(p)
    PROVE  OrderInv'
<1> DEFINE f == proc[p].f
<1>0. /\ HandlesInv /\ InOrder(p) /\ proc[p].creating /\ proc[p].pc \in Opening
      /\ f \in Files /\ file[f] \in File /\ proc[p] \in Proc /\ Alone(p)
  <2>1. proc[p].pc \in {"memset", "header", "mutex", "heap"} /\ HandlesInv /\ InOrder(p)
        BY DEF InitMagic, InitHeader, InitMutex, InitHeap, OrderInv
  <2>2. proc[p].creating /\ proc[p].pc \in Opening
        BY <2>1 DEF InOrder, Opening
  <2> QED
        BY <2>1, <2>2, Working DEF InOrder
<1>1. PICK pc \in {"header", "mutex", "heap", "lock"} : Goto(p, pc)
      BY DEF InitMagic, InitHeader, InitMutex, InitHeap
<1>2. /\ proc'[p].pc = pc /\ proc'[p].f = f /\ proc'[p].creating
      /\ \A r \in Procs : r # p => proc'[r] = proc[r]
      BY <1>0, <1>1, GotoDoes
<1>3. Alone(p)'
      BY <1>0, <1>2 DEF Alone
<1>4. \A g \in Files : g # f => file'[g] = file[g]
      BY <1>0 DEF InitMagic, InitHeader, InitMutex, InitHeap, HandlesInv, RegionTypeOK
<1>5. /\ pc \in {"header", "mutex", "heap"} =>
            ~file'[f].heap /\ file'[f].host_count = 0 /\ file'[f].counted = {}
      /\ pc = "heap" => file'[f].robust
      /\ pc = "lock" => /\ file'[f].heap /\ file'[f].robust
                        /\ file'[f].host_count = 0 /\ file'[f].counted = {}
  <2>1. CASE InitMagic(p)
    <3>1. pc = "header"
          BY <1>0, <1>2, <2>1, GotoDoes DEF InitMagic
    <3>2. file'[f] = [Zeroed(TRUE) EXCEPT !.magic = TRUE]
          BY <1>0, <2>1 DEF InitMagic, HandlesInv, RegionTypeOK
    <3> QED
          BY <3>1, <3>2 DEF Zeroed
  <2>2. CASE InitHeader(p)
    <3>1. pc = "mutex" /\ proc[p].pc = "header"
          BY <1>0, <1>2, <2>2, GotoDoes DEF InitHeader
    <3>2. /\ file'[f].heap = file[f].heap
          /\ file'[f].host_count = 0 /\ file'[f].counted = {}
          BY <1>0, <2>2 DEF InitHeader, HandlesInv, RegionTypeOK, File
    <3> QED
          BY <1>0, <3>1, <3>2 DEF InOrder
  <2>3. CASE InitMutex(p)
    <3>1. pc = "heap" /\ proc[p].pc = "mutex"
          BY <1>0, <1>2, <2>3, GotoDoes DEF InitMutex
    <3>2. /\ file'[f].heap = file[f].heap /\ file'[f].robust
          /\ file'[f].host_count = file[f].host_count
          /\ file'[f].counted = file[f].counted
          BY <1>0, <2>3 DEF InitMutex, HandlesInv, RegionTypeOK, File
    <3> QED
          BY <1>0, <3>1, <3>2 DEF InOrder
  <2>4. CASE InitHeap(p)
    <3>1. pc = "lock" /\ proc[p].pc = "heap"
          BY <1>0, <1>2, <2>4, GotoDoes DEF InitHeap
    <3>2. /\ file'[f].heap /\ file'[f].robust = file[f].robust
          /\ file'[f].host_count = file[f].host_count
          /\ file'[f].counted = file[f].counted
          BY <1>0, <2>4 DEF InitHeap, HandlesInv, RegionTypeOK, File
    <3> QED
          BY <1>0, <3>1, <3>2 DEF InOrder
  <2> QED
        BY <2>1, <2>2, <2>3, <2>4
<1>6. InOrder(p)'
      BY <1>2, <1>3, <1>5 DEF InOrder, Opening, Ready, Critical
<1>7. Exact(f)'
  <2> SUFFICES ASSUME file'[f].heap  PROVE Exact(f)'
        BY <1>2 DEF Exact
  <2>1. pc = "lock" /\ file'[f].robust /\ file'[f].host_count = 0 /\ file'[f].counted = {}
        BY <1>5
  <2>2. IsFiniteSet({}) /\ Cardinality({}) = 0
        BY FS_EmptySet
  <2>3. ASSUME NEW q \in Procs
        PROVE  ~(proc'[q].f = f /\ proc'[q].pc \in Enrolled)
        BY <1>2, <1>3, <2>1 DEF Alone, Enrolled
  <2> QED
        BY <1>2, <2>1, <2>2, <2>3 DEF Exact
<1>8. proc'[p].pc \notin Enrolled \cup {"dead"}
      BY <1>2 DEF Enrolled
<1> QED
    BY <1>0, <1>2, <1>4, <1>6, <1>7, <1>8, AloneStep

\* Validation keeps order, and a process it lets in is of the kind.
LEMMA ValidateOrder ==
    ASSUME OrderInv, HandlesInv', NEW p \in Procs, Validate(p)
    PROVE  OrderInv'
<1>0. /\ HandlesInv /\ proc[p].pc = "validate" /\ InOrder(p) /\ proc[p] \in Proc
      /\ file' = file /\ proc[p].f # NONE /\ ~proc[p].creating
      BY Working, RegionAssumption DEF Validate, OrderInv, InOrder
<1>1. CASE Return(p, {"fd", "mapping"})
      BY <1>0, <1>1, ReturnOrder DEF Enrolled
<1>2. CASE ~Foreign(p) /\ Goto(p, "lock")
  <2>1. /\ proc'[p].pc = "lock" /\ proc'[p].f = proc[p].f
        /\ ~proc'[p].creating /\ proc'[p].enforce = proc[p].enforce
        /\ \A r \in Procs : r # p => proc'[r] = proc[r]
        BY <1>0, <1>2, GotoDoes
  <2>2. ~Foreign(p)'
        BY <1>0, <1>2, <2>1 DEF Foreign
  <2>3. InOrder(p)'
        BY <1>0, <2>1, <2>2 DEF InOrder, Critical
  <2> QED
        BY <1>0, <2>1, <2>3, QuietStep DEF Enrolled
<1> QED
    BY <1>1, <1>2 DEF Validate

\* Starting to close, closing the descriptor and dying keep order.
LEMMA LeavingOrder ==
    ASSUME OrderInv, HandlesInv', NEW p \in Procs,
           (\E unlink \in BOOLEAN : StartClose(p, unlink)) \/ CloseFd(p) \/ Die(p)
    PROVE  OrderInv'
<1>0. HandlesInv /\ InOrder(p) /\ file' = file
      BY DEF StartClose, CloseFd, Die, OrderInv
<1>1. ASSUME NEW unlink \in BOOLEAN, StartClose(p, unlink)
      PROVE  OrderInv'
  <2> DEFINE e == [proc[p] EXCEPT !.pc = "unlock", !.unlink = unlink]
  <2>1. proc[p] \in Proc /\ proc[p].pc = "open"
        BY <1>0, <1>1, Working DEF StartClose
  <2>2. /\ e.pc = "unlock" /\ e.f = proc[p].f /\ e.creating = proc[p].creating
        /\ e.enforce = proc[p].enforce
        BY <2>1 DEF Proc
  <2>3. proc' = [proc EXCEPT ![p] = e]
        BY <1>1 DEF StartClose
  <2> HIDE DEF e
  <2>4. proc'[p] = e /\ \A r \in Procs : r # p => proc'[r] = proc[r]
        BY <1>0, <2>3 DEF HandlesInv, RegionTypeOK
  <2>5. Foreign(p)' <=> Foreign(p)
        BY <1>0, <2>2, <2>4 DEF Foreign
  <2>6. InOrder(p)'
        BY <1>0, <2>1, <2>2, <2>4, <2>5 DEF InOrder, Opening, Ready, Critical
  <2> QED
        BY <1>0, <2>1, <2>2, <2>4, <2>6, QuietStep DEF Enrolled
<1>2. CASE CloseFd(p)
      BY <1>0, <1>2, ReturnOrder DEF CloseFd, Enrolled
<1>3. CASE Die(p)
  <2> DEFINE e == [Idle EXCEPT !.pc = "dead"]
  <2>1. e.pc = "dead" /\ e.f = NONE
        BY DEF Idle
  <2>2. proc' = [proc EXCEPT ![p] = e] /\ proc[p].pc # "dead"
        BY <1>3 DEF Die
  <2> HIDE DEF e
  <2>3. proc'[p] = e /\ \A r \in Procs : r # p => proc'[r] = proc[r]
        BY <1>0, <2>2 DEF HandlesInv, RegionTypeOK
  <2> QED
        BY <1>0, <2>1, <2>2, <2>3, QuietStep
<1> QED
    BY <1>1, <1>2, <1>3

\* Taking the mutex keeps order: it is taken only from nobody or from the dead.
LEMMA LockOrder ==
    ASSUME OrderInv, HandlesInv', NEW p \in Procs, region_lock(p)
    PROVE  OrderInv'
<1> DEFINE f == proc[p].f
           pc == IF proc[p].pc = "lock" THEN "count" ELSE "uncount"
<1>0. /\ HandlesInv /\ InOrder(p) /\ f \in Files /\ file[f] \in File
      /\ proc[p] \in Proc /\ proc[p].pc \in {"lock", "unlock"}
      BY Working DEF region_lock, OrderInv
<1>1. /\ proc'[p].pc = pc /\ proc'[p].f = f /\ proc'[p].enforce = proc[p].enforce
      /\ proc'[p].creating = proc[p].creating
      /\ \A r \in Procs : r # p => proc'[r] = proc[r]
      BY <1>0, GotoDoes DEF region_lock
<1>2. file' = [file EXCEPT ![f] = [file[f] EXCEPT !.owner = p]]
      BY DEF region_lock
<1>3. /\ file'[f].owner = p /\ file'[f].heap = file[f].heap
      /\ file'[f].prints = file[f].prints /\ file'[f].robust = file[f].robust
      /\ file'[f].host_count = file[f].host_count
      /\ file'[f].counted = file[f].counted
      /\ \A g \in Files : g # f => file'[g] = file[g]
      BY <1>0, <1>2 DEF HandlesInv, RegionTypeOK, File
<1>4. proc[p].pc \in Ready
      BY <1>0 DEF Ready
<1>5. /\ pc \in {"count", "uncount"}
      /\ pc \in Opening <=> proc[p].pc \in Opening
      /\ pc \in Enrolled <=> proc[p].pc \in Enrolled
      BY <1>0 DEF Opening, Enrolled
<1> HIDE DEF pc
<1>6. InOrder(p)'
  <2>1. Foreign(p)' <=> Foreign(p)
        BY <1>1, <1>3 DEF Foreign
  <2>2. proc'[p].creating /\ proc'[p].pc \in Opening => Alone(p)'
        BY <1>0, <1>1, <1>5 DEF InOrder, Alone
  <2> QED
        BY <1>0, <1>1, <1>3, <1>4, <1>5, <2>1, <2>2 DEF InOrder
<1>7. ASSUME NEW q \in Procs, q # p
      PROVE  InOrder(q)'
  <2>1. proc[q].f \in Files \cup {NONE} /\ InOrder(q) /\ Tidy(q)
        BY DEF OrderInv, HandlesInv, RegionTypeOK, Proc
  <2>2. proc[q].creating /\ proc[q].pc \in Opening => proc[q].f # f
        BY <1>7, <2>1 DEF InOrder, Alone
  <2>3. CASE proc[q].f = f
    <3>1. proc[q].pc \notin Critical
      <4>1. SUFFICES ASSUME proc[q].pc \in Critical  PROVE FALSE
            OBVIOUS
      <4>2. file[f].owner = q /\ q # NONE
            BY <2>1, <2>3, <4>1, RegionAssumption DEF InOrder
      <4>3. proc[q].pc = "dead"
            BY <4>2 DEF region_lock, Obtainable
      <4> QED
            BY <4>1, <4>3 DEF Critical
    <3>2. proc[q].pc \notin {"header", "mutex", "heap"}
          BY <2>1, <2>2, <2>3 DEF InOrder, Opening
    <3>3. Respects(q)
          BY <1>3, <2>3, <3>1, <3>2 DEF Respects
    <3> QED
          BY <1>1, <1>7, <2>2, <3>3, OtherInOrder
  <2>4. CASE proc[q].f # f
        BY <1>1, <1>3, <1>7, <2>1, <2>4, OtherInOrder
  <2> QED
        BY <2>3, <2>4
<1>8. ASSUME NEW g \in Files
      PROVE  Exact(g)'
  <2>1. /\ file'[g].heap => /\ file[g].heap /\ file'[g].robust = file[g].robust
                            /\ file'[g].host_count = file[g].host_count
                            /\ file'[g].counted = file[g].counted
        BY <1>3
  <2> QED
        BY <1>0, <1>1, <1>5, <2>1, ExactKept
<1> QED
    BY <1>6, <1>7, <1>8 DEF OrderInv

\* Loading host_count keeps order.
LEMMA LoadCountOrder ==
    ASSUME OrderInv, HandlesInv', NEW p \in Procs, LoadCount(p)
    PROVE  OrderInv'
<1> DEFINE f == proc[p].f
           n == file[f].host_count
           pc == IF proc[p].pc = "count" THEN "counted" ELSE "uncounted"
           e == [proc[p] EXCEPT !.n = n, !.pc = pc]
<1>0. /\ HandlesInv /\ InOrder(p) /\ f \in Files
      /\ proc[p] \in Proc /\ proc[p].pc \in {"count", "uncount"}
      BY Working DEF LoadCount, OrderInv
<1>1. proc' = [proc EXCEPT ![p] = e] /\ file' = file
      BY DEF LoadCount
<1>2. /\ pc \in {"counted", "uncounted"}
      /\ pc \in Opening <=> proc[p].pc \in Opening
      /\ pc \in Enrolled <=> proc[p].pc \in Enrolled
      /\ proc[p].pc \in Ready \cap Critical
      BY <1>0 DEF Opening, Enrolled, Ready, Critical
<1> HIDE DEF n, pc
<1>3. /\ e.pc = pc /\ e.f = f /\ e.n = n /\ e.creating = proc[p].creating
      /\ e.enforce = proc[p].enforce
      BY <1>0 DEF Proc
<1> HIDE DEF e
<1>4. proc'[p] = e /\ \A r \in Procs : r # p => proc'[r] = proc[r]
      BY <1>0, <1>1 DEF HandlesInv, RegionTypeOK
<1>5. InOrder(p)'
  <2>1. Foreign(p)' <=> Foreign(p)
        BY <1>1, <1>3, <1>4 DEF Foreign
  <2>2. proc'[p].creating /\ proc'[p].pc \in Opening => Alone(p)'
        BY <1>0, <1>2, <1>3, <1>4 DEF InOrder, Alone
  <2>3. file'[f].heap /\ file'[f].owner = p
        BY <1>0, <1>1, <1>2 DEF InOrder
  <2> QED
        BY <1>0, <1>1, <1>2, <1>3, <1>4, <2>1, <2>2, <2>3 DEF InOrder, n
<1> QED
    BY <1>0, <1>1, <1>2, <1>3, <1>4, <1>5, QuietStep

\* What the owner of a mutex does to the count leaves the others in order:
\* none of them is between lock and unlock.
LEMMA OwnerStep ==
    ASSUME OrderInv, NEW p \in Procs, proc[p].pc \in Critical,
           proc[p].f \in Files, proc'[p].f = proc[p].f,
           \A r \in Procs : r # p => proc'[r] = proc[r],
           file'[proc[p].f].heap = file[proc[p].f].heap,
           file'[proc[p].f].prints = file[proc[p].f].prints,
           \A g \in Files : g # proc[p].f => file'[g] = file[g],
           NEW q \in Procs, q # p
    PROVE  InOrder(q)'
<1> DEFINE f == proc[p].f
<1>1. proc[q].f \in Files \cup {NONE} /\ InOrder(q) /\ InOrder(p)
      BY DEF OrderInv, HandlesInv, RegionTypeOK, Proc
<1>2. proc[q].creating /\ proc[q].pc \in Opening => proc[q].f # f
      BY <1>1 DEF InOrder, Alone
<1>3. CASE proc[q].f = f
  <2>1. proc[q].pc \notin Critical
        BY <1>1, <1>3 DEF InOrder
  <2>2. proc[q].pc \notin {"header", "mutex", "heap"}
        BY <1>1, <1>2, <1>3 DEF InOrder, Opening
  <2>3. Respects(q)
        BY <1>3, <2>1, <2>2 DEF Respects
  <2> QED
        BY <1>2, <2>3, OtherInOrder
<1>4. CASE proc[q].f # f
      BY <1>1, <1>4, OtherInOrder
<1> QED
    BY <1>3, <1>4

\* Counting in keeps order.
LEMMA FinishOpenOrder ==
    ASSUME OrderInv, HandlesInv', NEW p \in Procs, FinishOpen(p)
    PROVE  OrderInv'
<1> DEFINE f == proc[p].f
           m == proc[p].n + 1
           c == file[f].counted \cup {p}
           w == Unlocked(f, p)
           x == [file[f] EXCEPT !.host_count = m, !.counted = c, !.owner = w]
           e == [proc[p] EXCEPT !.pc = "open", !.n = 0]
<1>0. /\ HandlesInv /\ InOrder(p) /\ f \in Files /\ file[f] \in File
      /\ proc[p] \in Proc /\ proc[p].pc = "counted" /\ f # NONE
      BY Working, RegionAssumption DEF FinishOpen, OrderInv
<1>1. file' = [file EXCEPT ![f] = x] /\ proc' = [proc EXCEPT ![p] = e]
      BY <1>0 DEF FinishOpen, HandlesInv, RegionTypeOK
<1> HIDE DEF m, c, w
<1>2. /\ x.host_count = m /\ x.counted = c /\ x.heap = file[f].heap
      /\ x.robust = file[f].robust /\ x.prints = file[f].prints
      BY <1>0 DEF File
<1>3. /\ e.pc = "open" /\ e.f = f /\ e.creating = proc[p].creating
      /\ e.enforce = proc[p].enforce
      BY <1>0 DEF Proc
<1> HIDE DEF x, e
<1>4. /\ proc'[p] = e /\ \A r \in Procs : r # p => proc'[r] = proc[r]
      /\ file'[f] = x /\ \A g \in Files : g # f => file'[g] = file[g]
      BY <1>0, <1>1 DEF HandlesInv, RegionTypeOK
<1>5. /\ Exact(f) /\ file[f].heap /\ proc[p].n = file[f].host_count
      BY <1>0 DEF InOrder, OrderInv, Ready
<1>6. InOrder(p)'
  <2>1. Foreign(p)' <=> Foreign(p)
        BY <1>2, <1>3, <1>4 DEF Foreign
  <2>2. proc[p].pc \in Ready
        BY <1>0 DEF Ready
  <2> QED
        BY <1>0, <1>2, <1>3, <1>4, <1>5, <2>1, <2>2
           DEF InOrder, Opening, Critical
<1>7. ASSUME NEW q \in Procs, q # p
      PROVE  InOrder(q)'
  <2>1. proc[p].pc \in Critical
        BY <1>0 DEF Critical
  <2>2. /\ proc'[p].f = proc[p].f /\ file'[proc[p].f].heap = file[proc[p].f].heap
        /\ file'[proc[p].f].prints = file[proc[p].f].prints
        BY <1>2, <1>3, <1>4
  <2> QED
        BY <1>0, <1>4, <1>7, <2>1, <2>2, OwnerStep
<1>8. ASSUME NEW g \in Files
      PROVE  Exact(g)'
  <2>1. CASE g # f
        BY <1>0, <1>3, <1>4, <2>1, ExactKept
  <2>2. CASE g = f
    <3>1. p \notin file[f].counted
          BY <1>0, <1>5 DEF Exact, Enrolled
    <3>2. IsFiniteSet(c) /\ m = Cardinality(c)
      <4>1. IsFiniteSet(file[f].counted) /\ m = Cardinality(file[f].counted) + 1
            BY <1>5 DEF Exact, m
      <4> QED
            BY <3>1, <4>1, FS_AddElement DEF c
    <3>3. ASSUME NEW q \in Procs
          PROVE  /\ proc'[q].f = f /\ proc'[q].pc \in Enrolled => q \in c
                 /\ q \in c => \/ proc'[q].pc = "dead"
                               \/ proc'[q].f = f /\ proc'[q].pc \in Enrolled
      <4>1. CASE q = p
            BY <1>3, <1>4, <4>1 DEF c, Enrolled
      <4>2. CASE q # p
            BY <1>4, <1>5, <4>2 DEF Exact, c
      <4> QED
            BY <4>1, <4>2
    <3>4. file'[g].robust /\ file'[g].counted = c /\ file'[g].host_count = m
          BY <1>2, <1>4, <1>5, <2>2 DEF Exact
    <3> QED
          BY <2>2, <3>2, <3>3, <3>4 DEF Exact
  <2> QED
        BY <2>1, <2>2
<1> QED
    BY <1>6, <1>7, <1>8 DEF OrderInv

\* Counting out keeps order: a count that is exact is not 0 then.
LEMMA FinishCountOrder ==
    ASSUME OrderInv, HandlesInv', NEW p \in Procs, FinishCount(p)
    PROVE  OrderInv'
<1> DEFINE f == proc[p].f
           m == IF proc[p].n > 0 THEN proc[p].n - 1 ELSE file[f].host_count
           c == file[f].counted \ {p}
           w == Unlocked(f, p)
           x == [file[f] EXCEPT !.host_count = m, !.counted = c, !.owner = w]
           e == [proc[p] EXCEPT !.pc = "close", !.mapped = FALSE, !.n = 0]
<1>0. /\ HandlesInv /\ InOrder(p) /\ f \in Files /\ file[f] \in File
      /\ proc[p] \in Proc /\ proc[p].pc = "uncounted" /\ f # NONE
      BY Working, RegionAssumption DEF FinishCount, OrderInv
<1>1. file' = [file EXCEPT ![f] = x] /\ proc' = [proc EXCEPT ![p] = e]
      BY <1>0 DEF FinishCount, HandlesInv, RegionTypeOK
<1> HIDE DEF m, c, w
<1>2. /\ x.host_count = m /\ x.counted = c /\ x.heap = file[f].heap
      /\ x.robust = file[f].robust /\ x.prints = file[f].prints
      BY <1>0 DEF File
<1>3. /\ e.pc = "close" /\ e.f = f /\ e.creating = proc[p].creating
      /\ e.enforce = proc[p].enforce
      BY <1>0 DEF Proc
<1> HIDE DEF x, e
<1>4. /\ proc'[p] = e /\ \A r \in Procs : r # p => proc'[r] = proc[r]
      /\ file'[f] = x /\ \A g \in Files : g # f => file'[g] = file[g]
      BY <1>0, <1>1 DEF HandlesInv, RegionTypeOK
<1>5. /\ Exact(f) /\ file[f].heap /\ proc[p].n = file[f].host_count
      BY <1>0 DEF InOrder, OrderInv, Ready
<1>6. InOrder(p)'
      BY <1>2, <1>3, <1>4, <1>5 DEF InOrder, Opening, Ready, Critical
<1>7. ASSUME NEW q \in Procs, q # p
      PROVE  InOrder(q)'
  <2>1. proc[p].pc \in Critical
        BY <1>0 DEF Critical
  <2>2. /\ proc'[p].f = proc[p].f /\ file'[proc[p].f].heap = file[proc[p].f].heap
        /\ file'[proc[p].f].prints = file[proc[p].f].prints
        BY <1>2, <1>3, <1>4
  <2> QED
        BY <1>0, <1>4, <1>7, <2>1, <2>2, OwnerStep
<1>8. ASSUME NEW g \in Files
      PROVE  Exact(g)'
  <2>1. CASE g # f
        BY <1>0, <1>3, <1>4, <2>1, ExactKept
  <2>2. CASE g = f
    <3>1. p \in file[f].counted
          BY <1>0, <1>5 DEF Exact, Enrolled
    <3>2. IsFiniteSet(c) /\ m = Cardinality(c)
      <4>1. /\ IsFiniteSet(file[f].counted)
            /\ proc[p].n = Cardinality(file[f].counted)
            BY <1>5 DEF Exact
      <4>2. IsFiniteSet(c) /\ Cardinality(c) = Cardinality(file[f].counted) - 1
            BY <3>1, <4>1, FS_RemoveElement DEF c
      <4>3. Cardinality(c) \in Nat /\ Cardinality(file[f].counted) \in Nat
            BY <4>1, <4>2, FS_CardinalityType
      <4> QED
            BY <4>1, <4>2, <4>3 DEF m
    <3>3. ASSUME NEW q \in Procs
          PROVE  /\ proc'[q].f = f /\ proc'[q].pc \in Enrolled => q \in c
                 /\ q \in c => \/ proc'[q].pc = "dead"
                               \/ proc'[q].f = f /\ proc'[q].pc \in Enrolled
      <4>1. CASE q = p
            BY <1>3, <1>4, <4>1 DEF c, Enrolled
      <4>2. CASE q # p
            BY <1>4, <1>5, <4>2 DEF Exact, c
      <4> QED
            BY <4>1, <4>2
    <3>4. file'[g].robust /\ file'[g].counted = c /\ file'[g].host_count = m
          BY <1>2, <1>4, <1>5, <2>2 DEF Exact
    <3> QED
          BY <2>2, <3>2, <3>3, <3>4 DEF Exact
  <2> QED
        BY <2>1, <2>2
<1> QED
    BY <1>6, <1>7, <1>8 DEF OrderInv

\* shm_open keeps order if it is called in order.
LEMMA OpenFdOrder ==
    ASSUME Orderly, OrderInv, HandlesInv', NEW p \in Procs,
           NEW creating \in BOOLEAN, NEW large \in BOOLEAN,
           NEW enforce \in SUBSET Kinds, OpenFd(p, creating, large, enforce)
    PROVE  OrderInv'
<1> DEFINE x == creating /\ large
           y == IF creating THEN {} ELSE enforce
           E(f) == [Idle EXCEPT !.pc = "size", !.f = f, !.fd = TRUE,
                                !.creating = creating, !.large = x, !.enforce = y]
<1>0. /\ HandlesInv /\ proc[p].pc = "idle" /\ proc[p].f = NONE
      BY DEF OpenFd, OrderInv, HandlesInv, Tidy
<1>1. PICK f \in Files :
         /\ \/ name = f /\ UNCHANGED <<name, file>>
            \/ /\ creating /\ f \in Unused
               /\ file' = [file EXCEPT ![f] = Zeroed(FALSE)]
         /\ proc' = [proc EXCEPT ![p] = E(f)]
      BY DEF OpenFd
<1> HIDE DEF x, y
<1>2. E(f).pc = "size" /\ E(f).f = f /\ E(f).creating = creating
      BY DEF Idle
<1> HIDE DEF E
<1>3. /\ proc'[p].pc = "size" /\ proc'[p].f = f /\ proc'[p].creating = creating
      /\ \A r \in Procs : r # p => proc'[r] = proc[r]
      BY <1>0, <1>1, <1>2 DEF HandlesInv, RegionTypeOK
<1>4. f # NONE
      BY RegionAssumption
<1>5. creating => \A q \in Procs : proc[q].f # f
  <2>1. CASE name = f
        BY <1>4, <2>1 DEF OpenFd, MayOpen
  <2>2. CASE f \in Unused
        BY <2>2 DEF Unused
  <2> QED
        BY <1>1, <2>1, <2>2
<1>6. ~creating => /\ file' = file /\ file[f].heap
                   /\ \A q \in Procs : proc[q].f = f /\ proc[q].creating =>
                                          proc[q].pc \notin Opening
      BY <1>1, <1>4 DEF OpenFd, MayOpen
<1>7. /\ \A g \in Files : g # f => file'[g] = file[g]
      /\ file'[f] = file[f] \/ (creating /\ ~file'[f].heap)
  <2>1. ~Zeroed(FALSE).heap
        BY DEF Zeroed
  <2> QED
        BY <1>0, <1>1, <2>1 DEF HandlesInv, RegionTypeOK
<1>8. InOrder(p)'
  <2>1. creating => Alone(p)'
        BY <1>3, <1>5 DEF Alone
  <2> QED
        BY <1>3, <1>6, <2>1 DEF InOrder, Ready, Critical
<1>9. ASSUME NEW q \in Procs, q # p
      PROVE  InOrder(q)'
  <2>1. proc[q].f \in Files \cup {NONE}
        BY <1>0 DEF HandlesInv, RegionTypeOK, Proc
  <2>2. proc[q].creating /\ proc[q].pc \in Opening => proc'[p].f # proc[q].f
        BY <1>3, <1>5, <1>6
  <2>3. proc[q].f = NONE \/ file'[proc[q].f] = file[proc[q].f]
        BY <1>5, <1>6, <1>7, <2>1
  <2> QED
        BY <1>3, <1>9, <2>2, <2>3, OtherInOrder
<1>10. ASSUME NEW g \in Files
       PROVE  Exact(g)'
  <2>1. proc'[p].pc \notin Enrolled /\ proc[p].pc \notin Enrolled /\ proc[p].pc # "dead"
        BY <1>0, <1>3 DEF Enrolled
  <2>2. file'[g].heap => /\ file[g].heap /\ file'[g].robust = file[g].robust
                         /\ file'[g].host_count = file[g].host_count
                         /\ file'[g].counted = file[g].counted
        BY <1>7
  <2> QED
        BY <1>3, <2>1, <2>2, ExactKept
<1> QED
    BY <1>8, <1>9, <1>10 DEF OrderInv

\* Nobody has counted itself at first.
LEMMA OrderInit == RegionInit => OrderInv
<1> SUFFICES ASSUME RegionInit  PROVE OrderInv
      OBVIOUS
<1>1. \A p \in Procs : proc[p].pc = "idle" /\ proc[p].f = NONE
      BY DEF RegionInit, Idle
<1>2. \A f \in Files : ~file[f].heap
      BY DEF RegionInit, Zeroed
<1>3. \A p \in Procs : InOrder(p)
      BY <1>1 DEF InOrder, Opening, Ready, Critical
<1> QED
    BY <1>2, <1>3, HandlesInit DEF OrderInv, Exact

\* Every step of orderly processes keeps order.
LEMMA OrderNext == Orderly /\ OrderInv /\ [RegionNext]_regionVars => OrderInv'
<1> SUFFICES ASSUME Orderly, OrderInv, [RegionNext]_regionVars  PROVE OrderInv'
      OBVIOUS
<1>0. HandlesInv'
      BY HandlesNext DEF OrderInv
<1>1. ASSUME NEW p \in Procs, Step(p)
      PROVE  OrderInv'
      BY <1>0, <1>1, SetSizeOrder, MapRegionOrder, RegionInitOrder, ValidateOrder,
         LoadCountOrder, FinishOpenOrder, FinishCountOrder, LeavingOrder DEF Step
<1>2. CASE UNCHANGED regionVars
      BY <1>0, <1>2 DEF regionVars, OrderInv, InOrder, Exact, Alone, Foreign
<1> QED
    BY <1>0, <1>1, <1>2, OpenFdOrder, LockOrder, LeavingOrder DEF RegionNext, AllDead

\* Order is kept for as long as processes create and attach in order.
THEOREM OrderInvariant == Orderly => (RegionSpec => []OrderInv)
<1> SUFFICES ASSUME Orderly  PROVE RegionSpec => []OrderInv
      OBVIOUS
<1>1. OrderInv /\ [RegionNext]_regionVars => OrderInv'
      BY OrderNext
<1> QED
    BY <1>1, OrderInit, PTL DEF RegionSpec

\* host_count is exact in every complete region, however many processes
\* attach, detach and die in the middle of counting themselves.
THEOREM HostsCounted == Orderly => (RegionSpec => []HostCountExact)
<1>1. OrderInv => HostCountExact
      BY DEF OrderInv, Exact, HostCountExact, Attached, Enrolled
<1> QED
    BY OrderInvariant, <1>1, PTL

\* A process that enforces fingerprints is never attached to a region of
\* another kind.
THEOREM StrangersKeptOut == Orderly => (RegionSpec => []OnlyKindredAttached)
<1>1. OrderInv => OnlyKindredAttached
      BY DEF OrderInv, InOrder, OnlyKindredAttached, Ready
<1> QED
    BY OrderInvariant, <1>1, PTL

\* Among orderly processes whoever has a region open finds it complete: what
\* attach_race refutes needs two processes that disagree on who creates it.
THEOREM CompleteForOrderly == Orderly => (RegionSpec => []OthersSeeCompleteState)
<1>1. OrderInv => OthersSeeCompleteState
  <2> SUFFICES ASSUME OrderInv, NEW p \in Procs, proc[p].pc = "open"
               PROVE  file[proc[p].f].heap /\ file[proc[p].f].robust
        BY DEF OthersSeeCompleteState
  <2>1. proc[p].f \in Files
        BY Working DEF OrderInv
  <2>2. file[proc[p].f].heap
        BY DEF OrderInv, InOrder, Ready
  <2> QED
        BY <2>1, <2>2 DEF OrderInv, Exact
<1> QED
    BY OrderInvariant, <1>1, PTL
=============================================================================
