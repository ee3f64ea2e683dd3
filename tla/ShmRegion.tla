----------------------------- MODULE ShmRegion -----------------------------
(***************************************************************************)
(* The life of a region: shm_region_open and shm_region_close of           *)
(* src/src/shm_alloc.c, called by several processes on one name.  None of  *)
(* it but the counting of attached processes is done under a lock, so each *)
(* system call, and each group of stores that another process can observe  *)
(* half done, is a step of its own.  A process may die between any two.    *)
(***************************************************************************)
EXTENDS Integers, FiniteSets

CONSTANTS
    Procs,      \* the processes, positive numbers
    Files,      \* memory objects that the name can stand for, positive numbers
    Backend,    \* "POSIX" or "DAX"
    Kinds,      \* fingerprints kept in the header: ns_inode, cgroup_hash
    Fingerprint(_,_), \* fingerprint of a process, by kind; 0 when unavailable
    Orderly     \* TRUE: processes agree on who creates the region, and when

NONE == 0

ASSUME RegionAssumption ==
    /\ Procs \subseteq Nat \ {NONE}
    /\ Files \subseteq Nat \ {NONE}
    /\ Backend \in {"POSIX", "DAX"}
    /\ Backend = "DAX" => Files # {}
    /\ \A p \in Procs, k \in Kinds : Fingerprint(p, k) \in Nat
    /\ Orderly \in BOOLEAN

VARIABLES
    name,   \* the memory object that the name stands for, or NONE
    file,   \* the contents of each memory object
    proc    \* what each process is doing, and its handle

regionVars == <<name, file, proc>>

-----------------------------------------------------------------------------
\* The region header, as far as this module needs it.  large: the object has
\* 4096 bytes or more.  heap: the first block has been written.  owner and
\* robust are the mutex; zeroed memory is a mutex, but not a robust one.
\* counted is not stored: the processes whose increment of host_count stands.
File == [large: BOOLEAN, magic: BOOLEAN, prints: [Kinds -> Nat],
         heap: BOOLEAN, owner: Procs \cup {NONE}, robust: BOOLEAN,
         host_count: Nat, counted: SUBSET Procs]

Zeroed(large) ==
    [large |-> large, magic |-> FALSE, prints |-> [k \in Kinds |-> 0],
     heap |-> FALSE, owner |-> NONE, robust |-> FALSE,
     host_count |-> 0, counted |-> {}]

Opening == {"size", "map", "memset", "header", "mutex", "heap", "validate",
            "lock", "count", "counted"}
Closing == {"unlock", "uncount", "uncounted", "close"}

\* A process and its handle.  n is the value of host_count it has loaded.
Proc == [pc: {"idle", "open", "dead"} \cup Opening \cup Closing,
         f: Files \cup {NONE}, creating: BOOLEAN, large: BOOLEAN,
         enforce: SUBSET Kinds, unlink: BOOLEAN, fd: BOOLEAN, mapped: BOOLEAN,
         n: Nat]

Idle == [pc |-> "idle", f |-> NONE, creating |-> FALSE, large |-> FALSE,
         enforce |-> {}, unlink |-> FALSE, fd |-> FALSE, mapped |-> FALSE,
         n |-> 0]

RegionInit ==
    /\ file = [f \in Files |-> Zeroed(Backend = "DAX")]
    /\ name \in IF Backend = "DAX" THEN Files ELSE {NONE}
    /\ proc = [p \in Procs |-> Idle]

\* Process p goes on at pc.
Goto(p, pc) == proc' = [proc EXCEPT ![p].pc = pc]

\* The call of p ends in an error after it has released what is in rel.
Return(p, rel) ==
    proc' = [proc EXCEPT ![p] =
                [Idle EXCEPT !.fd = proc[p].fd /\ "fd" \notin rel,
                             !.mapped = proc[p].mapped /\ "mapping" \notin rel]]

\* shm_unlink, which the error paths of a creating open call.
UnlinkIf(cond) == name' = IF cond /\ Backend = "POSIX" THEN NONE ELSE name

\* Objects that no name and no process stands for: shm_open may make one.
Unused == {f \in Files : f # name /\ \A p \in Procs : proc[p].f # f}

\* What orderly processes see to: a region is created when nobody uses the
\* object that the name stands for (an object whose name is gone may still be
\* in use), and opened by others when its creation is over.
MayOpen(creating) ==
    Orderly => IF creating
               THEN \A p \in Procs : proc[p].f \in {NONE} \cup (Files \ {name})
               ELSE /\ name # NONE => file[name].heap
                    /\ \A p \in Procs :
                          proc[p].f = name /\ proc[p].creating =>
                              proc[p].pc \notin Opening

-----------------------------------------------------------------------------
(***************************************************************************)
(* shm_region_open                                                         *)
(***************************************************************************)
\* shm_open or open.  A failure (there is no such name, or the system
\* refuses) ends the call with nothing changed, and is no step.  The size is
\* looked at only by a creator, the enforcement flags only by the others.
OpenFd(p, creating, large, enforce) ==
    /\ proc[p].pc = "idle"
    /\ MayOpen(creating)
    /\ \E f \in Files :
          /\ \/ name = f /\ UNCHANGED <<name, file>>
             \/ /\ name = NONE /\ creating /\ f \in Unused
                /\ name' = f
                /\ file' = [file EXCEPT ![f] = Zeroed(FALSE)]
          /\ proc' = [proc EXCEPT ![p] =
                        [Idle EXCEPT !.pc = "size", !.f = f, !.fd = TRUE,
                                     !.creating = creating,
                                     !.large = creating /\ large,
                                     !.enforce = IF creating THEN {} ELSE enforce]]

\* ftruncate when creating, fstat when attaching; a DAX device whose size
\* is not given is asked for its size, or taken to have 2 MB.
SetSize(p) ==
    /\ proc[p].pc = "size"
    /\ LET f == proc[p].f
           truncates == Backend = "POSIX" /\ proc[p].creating /\ proc[p].large
           stats == Backend = "POSIX" /\ ~proc[p].creating
       IN  \/ /\ file' = IF truncates THEN [file EXCEPT ![f].large = TRUE] ELSE file
              /\ proc' = [proc EXCEPT ![p].pc = "map",
                                      ![p].large = CASE stats -> file[f].large
                                                     [] Backend = "DAX" -> TRUE
                                                     [] OTHER -> @]
              /\ UNCHANGED name
           \/ truncates /\ Return(p, {"fd"}) /\ UnlinkIf(TRUE) /\ UNCHANGED file
           \/ stats /\ Return(p, {"fd"}) /\ UNCHANGED <<name, file>>

\* Seeded fault: the descriptor stays open when the size is refused.
MapRegion_KeepsFd(p) ==
    /\ proc[p].pc = "map"
    /\ UNCHANGED file
    /\ \/ /\ proc[p].large
          /\ proc' = [proc EXCEPT ![p].mapped = TRUE,
                                  ![p].pc = IF proc[p].creating THEN "memset"
                                            ELSE "validate"]
          /\ UNCHANGED name
       \/ Return(p, {}) /\ UnlinkIf(proc[p].creating)

\* The size check, then mmap; either may fail.
MapRegion(p) ==
    /\ proc[p].pc = "map"
    /\ UNCHANGED file
    /\ \/ /\ proc[p].large
          /\ proc' = [proc EXCEPT ![p].mapped = TRUE,
                                  ![p].pc = IF proc[p].creating THEN "memset"
                                            ELSE "validate"]
          /\ UNCHANGED name
       \/ Return(p, {"fd"}) /\ UnlinkIf(proc[p].creating)

\* region_init, in the order of its stores: zero everything and set magic.
InitMagic(p) ==
    /\ proc[p].pc = "memset"
    /\ file' = [file EXCEPT ![proc[p].f] = [Zeroed(TRUE) EXCEPT !.magic = TRUE]]
    /\ Goto(p, "header")
    /\ UNCHANGED name

\* host_count = 0 and the creator's fingerprints.
InitHeader(p) ==
    /\ proc[p].pc = "header"
    /\ file' = [file EXCEPT ![proc[p].f].host_count = 0,
                            ![proc[p].f].counted = {},
                            ![proc[p].f].prints = [k \in Kinds |-> Fingerprint(p, k)]]
    /\ Goto(p, "mutex")
    /\ UNCHANGED name

\* Seeded fault: the mutex is not made robust.
InitMutex_NotRobust(p) ==
    /\ proc[p].pc = "mutex"
    /\ file' = [file EXCEPT ![proc[p].f].owner = NONE]
    /\ Goto(p, "heap")
    /\ UNCHANGED name

InitMutex(p) ==
    /\ proc[p].pc = "mutex"
    /\ file' = [file EXCEPT ![proc[p].f].owner = NONE, ![proc[p].f].robust = TRUE]
    /\ Goto(p, "heap")
    /\ UNCHANGED name

\* The single free block and the head of the free list.
InitHeap(p) ==
    /\ proc[p].pc = "heap"
    /\ file' = [file EXCEPT ![proc[p].f].heap = TRUE]
    /\ Goto(p, "lock")
    /\ UNCHANGED name

\* A fingerprint that p asked to enforce is known on both sides and differs.
Foreign(p) ==
    \E k \in proc[p].enforce :
        /\ file[proc[p].f].prints[k] # 0
        /\ Fingerprint(p, k) # 0
        /\ Fingerprint(p, k) # file[proc[p].f].prints[k]

\* Seeded fault: the fingerprints are not compared.
Validate_AnyPrint(p) ==
    /\ proc[p].pc = "validate"
    /\ IF file[proc[p].f].magic
       THEN Goto(p, "lock")
       ELSE Return(p, {"fd", "mapping"})
    /\ UNCHANGED <<name, file>>

\* Attaching: ENOENT without a header, EPERM for a foreign process.
Validate(p) ==
    /\ proc[p].pc = "validate"
    /\ IF file[proc[p].f].magic /\ ~Foreign(p)
       THEN Goto(p, "lock")
       ELSE Return(p, {"fd", "mapping"})
    /\ UNCHANGED <<name, file>>

-----------------------------------------------------------------------------
(***************************************************************************)
(* The mutex, and host_count under it.                                     *)
(***************************************************************************)
\* A robust mutex whose owner died is handed on (EOWNERDEAD).
Obtainable(f) ==
    file[f].owner \in
        {NONE} \cup {q \in Procs : file[f].robust /\ proc[q].pc = "dead"}

\* Seeded fault: nobody waits.
region_lock_NoWait(p) ==
    /\ proc[p].pc \in {"lock", "unlock"}
    /\ file' = [file EXCEPT ![proc[p].f].owner = p]
    /\ Goto(p, IF proc[p].pc = "lock" THEN "count" ELSE "uncount")
    /\ UNCHANGED name

region_lock(p) ==
    /\ proc[p].pc \in {"lock", "unlock"}
    /\ Obtainable(proc[p].f)
    /\ file' = [file EXCEPT ![proc[p].f].owner = p]
    /\ Goto(p, IF proc[p].pc = "lock" THEN "count" ELSE "uncount")
    /\ UNCHANGED name

\* The owner of a mutex once p has unlocked it; a robust mutex refuses
\* whoever does not own it.
Unlocked(f, p) == IF file[f].robust /\ file[f].owner # p THEN file[f].owner ELSE NONE

LoadCount(p) ==
    /\ proc[p].pc \in {"count", "uncount"}
    /\ proc' = [proc EXCEPT ![p].n = file[proc[p].f].host_count,
                            ![p].pc = IF @ = "count" THEN "counted" ELSE "uncounted"]
    /\ UNCHANGED <<name, file>>

\* Seeded fault: opening counts down.
FinishOpen_CountsDown(p) ==
    /\ proc[p].pc = "counted"
    /\ file' = [file EXCEPT ![proc[p].f].host_count = proc[p].n - 1,
                            ![proc[p].f].counted = @ \cup {p},
                            ![proc[p].f].owner = Unlocked(proc[p].f, p)]
    /\ proc' = [proc EXCEPT ![p].pc = "open", ![p].n = 0]
    /\ UNCHANGED name

\* host_count++, region_unlock: the region is open.
FinishOpen(p) ==
    /\ proc[p].pc = "counted"
    /\ file' = [file EXCEPT ![proc[p].f].host_count = proc[p].n + 1,
                            ![proc[p].f].counted = @ \cup {p},
                            ![proc[p].f].owner = Unlocked(proc[p].f, p)]
    /\ proc' = [proc EXCEPT ![p].pc = "open", ![p].n = 0]
    /\ UNCHANGED name

-----------------------------------------------------------------------------
(***************************************************************************)
(* shm_region_close                                                        *)
(***************************************************************************)
StartClose(p, unlink) ==
    /\ proc[p].pc = "open"
    /\ proc' = [proc EXCEPT ![p].pc = "unlock", ![p].unlink = unlink]
    /\ UNCHANGED <<name, file>>

\* host_count-- unless it is 0, region_unlock, munmap.
FinishCount(p) ==
    /\ proc[p].pc = "uncounted"
    /\ file' = [file EXCEPT
                  ![proc[p].f].host_count = IF proc[p].n > 0 THEN proc[p].n - 1 ELSE @,
                  ![proc[p].f].counted = @ \ {p},
                  ![proc[p].f].owner = Unlocked(proc[p].f, p)]
    /\ proc' = [proc EXCEPT ![p].pc = "close", ![p].mapped = FALSE, ![p].n = 0]
    /\ UNCHANGED name

CloseFd(p) ==
    /\ proc[p].pc = "close"
    /\ Return(p, {"fd"})
    /\ UnlinkIf(proc[p].unlink)
    /\ UNCHANGED file

-----------------------------------------------------------------------------
\* A process dies: the system closes its descriptors and drops its mapping.
\* It is remembered as the owner of a mutex it held.
Die(p) ==
    /\ proc[p].pc \notin {"idle", "dead"}
    /\ proc' = [proc EXCEPT ![p] = [Idle EXCEPT !.pc = "dead"]]
    /\ UNCHANGED <<name, file>>

AllDead == (\A p \in Procs : proc[p].pc = "dead") /\ UNCHANGED regionVars

\* The steps a process takes by itself once it is inside a call.
Step(p) ==
    \/ SetSize(p) \/ MapRegion(p) \/ InitMagic(p) \/ InitHeader(p)
    \/ InitMutex(p) \/ InitHeap(p) \/ Validate(p) \/ LoadCount(p)
    \/ FinishOpen(p) \/ FinishCount(p) \/ CloseFd(p)

RegionNext ==
    \/ \E p \in Procs :
          \/ \E creating, large \in BOOLEAN, enforce \in SUBSET Kinds :
                OpenFd(p, creating, large, enforce)
          \/ Step(p)
          \/ region_lock(p)
          \/ \E unlink \in BOOLEAN : StartClose(p, unlink)
          \/ Die(p)
    \/ AllDead

RegionSpec == RegionInit /\ [][RegionNext]_regionVars

\* A process that is running and not blocked goes on with its call, and one
\* that waits for a mutex which becomes free again and again gets it in the
\* end.  Nobody has to open or close a region, and nobody has to die.
RegionFairness ==
    \A p \in Procs : WF_regionVars(Step(p)) /\ SF_regionVars(region_lock(p))

FairRegionSpec == RegionSpec /\ RegionFairness

-----------------------------------------------------------------------------
(***************************************************************************)
(* Properties.                                                             *)
(***************************************************************************)
\* The fields of every header and handle keep their types.
RegionTypeOK ==
    /\ name \in Files \cup {NONE}
    /\ file \in [Files -> File]
    /\ proc \in [Procs -> Proc]

Attached(f) == {p \in Procs : proc[p].pc = "open" /\ proc[p].f = f}

\* host_count, read and written in two steps under a mutex that survives its
\* owner, counts exactly the processes that counted themselves and have not
\* yet uncounted themselves; so it is never less than the number of attached
\* processes.
HostCountExact ==
    \A f \in Files :
        file[f].heap =>
            /\ file[f].host_count = Cardinality(file[f].counted)
            /\ Attached(f) \subseteq file[f].counted

\* Every way out of shm_region_open and shm_region_close gives back the
\* descriptor and the mapping that the call had obtained by then.
NothingLeaked ==
    \A p \in Procs : proc[p].pc = "idle" => ~proc[p].fd /\ ~proc[p].mapped

\* A process that asked for enforcement is attached only to a region whose
\* creator has the same fingerprint, unless one of them has none, although the
\* name may since have been unlinked and stand for the region of another.
OnlyKindredAttached ==
    \A p \in Procs : proc[p].pc = "open" /\ ~proc[p].creating => ~Foreign(p)

\* Every call of shm_region_open and shm_region_close returns, even if the
\* owner of the mutex died while holding it.
CallsReturn ==
    \A p \in Procs :
        proc[p].pc \in Opening \cup Closing ~> proc[p].pc \in {"idle", "open", "dead"}

\* "so other hosts see a complete initial state" (shm_alloc.c:394): whoever
\* has the region open finds its heap and its mutex initialised.
OthersSeeCompleteState ==
    \A p \in Procs :
        proc[p].pc = "open" => file[proc[p].f].heap /\ file[proc[p].f].robust
=============================================================================
