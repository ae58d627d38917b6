----------------------------- MODULE AddressSpace -----------------------------
(***************************************************************************)
(* The memory of processes: frames, page table and mapping list of each    *)
(* process from spawn to reap, under brk, mmap, munmap, mprotect and       *)
(* stack growth, with memory running out at any point.                     *)
(*                                                                         *)
(* Source: src/process.rs, src/paging.rs, the memory calls of              *)
(* src/linux_abi.rs, page_fault of src/interrupts.rs.                      *)
(*                                                                         *)
(* Addresses are page numbers, and sizes page counts, except for the       *)
(* program break.  A page-table entry is the frame ring 3 reaches through  *)
(* it, or None; the other flags are left out.  A system call runs with     *)
(* interrupts off and is one step.  spawn runs in the main task with       *)
(* interrupts on: its three phases are steps.                              *)
(***************************************************************************)
EXTENDS Pmm, Sequences, FiniteSetsExt

CONSTANTS
    Procs,
    Native,         \* those of Procs started by spawn, the others by spawn_linux
    RootFrames,     \* PML4, PDPT and page directories of a fresh space
    BlockPages,     \* pages per page table (2 MiB / 4 KiB)
    SegStart, SegPages,                 \* the span of the loaded segments
    StackLimit, StackBase, StackTop,    \* USER_STACK_LOW_LIMIT, _BASE, _TOP
    MmapBase, MmapCeiling,
    IdentityEnd,    \* IDENTITY_MAP_END
    PageSize,       \* bytes per page, for the program break
    ShmPhys,        \* the frame of a shared object somebody keeps open
    Breaks,         \* arguments of brk, in bytes
    FixedAt,        \* addresses of MAP_FIXED requests
    CallAt,         \* addresses given to the other calls, and of faults
    CallLens,       \* lengths given to all calls
    MaxCalls        \* bound on the memory calls a process makes, over all its lives

ASSUME LayoutAssumption ==
    /\ {RootFrames, BlockPages, SegStart, SegPages, StackLimit, StackBase,
        StackTop, MmapBase, MmapCeiling, IdentityEnd, PageSize} \subseteq Nat
    /\ BlockPages > 0 /\ PageSize > 0 /\ SegPages > 0
    /\ StackLimit < StackBase /\ StackBase < StackTop /\ StackTop < IdentityEnd
    /\ StackLimit \div BlockPages = (StackTop - 1) \div BlockPages
    /\ MmapCeiling <= IdentityEnd
    /\ SegStart + SegPages <= IdentityEnd
    /\ ShmPhys \in Frames /\ Native \subseteq Procs
    /\ Breaks \subseteq Nat /\ FixedAt \subseteq Nat
    /\ CallAt \subseteq 0 .. IdentityEnd - 1 /\ CallLens \subseteq Nat \ {0}

VARIABLES
    used,       \* BITMAP
    space       \* the Process record and page table of each process

vars == <<used, space>>

Pages == 0 .. IdentityEnd - 1
BlockOf(v) == v \div BlockPages
StackPages == StackTop - StackLimit
\* One page between the last segment and the heap (spawn_linux).
HeapStart == SegStart + SegPages + 1

\* A fresh Process: no frames yet, and the copied kernel map, none of which
\* ring 3 can reach.  calls counts memory calls over all lives of the
\* process, for MaxCalls.
Fresh ==
    [st |-> "none", calls |-> 0, cr2 |-> None, frames |-> {}, tables |-> {}, split |-> {},
     pt |-> [v \in Pages |-> None], mappings |-> <<>>,
     heapEnd |-> HeapStart * PageSize, mmapNext |-> MmapBase,
     stackLow |-> StackBase, stackPhys |-> None]

\* shm is the shared object (by its frame), or None for memory of the process.
Mapping(v, f, n, shm) == [vaddr |-> v, phys |-> f, len |-> n, shm |-> shm]

Init ==
    /\ used = {ShmPhys}
    /\ space = [p \in Procs |-> Fresh]

------------------------------------------------------------------------------
(* Page tables.  s is a process, u the bitmap.                              *)

\* Blocks under the n pages at v that are still one 2 MiB entry.
Unsplit(s, v, n) == {BlockOf(v + i) : i \in 0 .. n - 1} \ s.split

\* How many of the n pages at v are reached before pt_entry_ptr_in finds no
\* frame for a page table.
Reached(s, u, v, n) ==
    Max({k \in 0 .. n : Cardinality(Unsplit(s, v, k)) <= Cardinality(FreeFrames(u))})

\* map_range_in, the frame of page w being g[w]: entries are written page by
\* page, page tables made on the way; what was written stays when it fails.
MapPages(s, u, v, n, g) ==
    LET done  == IF v + n > IdentityEnd THEN 0 ELSE Reached(s, u, v, n)
        fresh == LowestFree(u, Cardinality(Unsplit(s, v, done)))
    IN  [ok    |-> done = n,
         used  |-> u \cup fresh,
         space |-> [s EXCEPT
             !.split  = @ \cup Unsplit(s, v, done),
             !.tables = @ \cup fresh,
             !.frames = @ \cup fresh,
             !.pt     = [w \in Pages |-> IF w \in v .. v + done - 1
                                         THEN g[w] ELSE @[w]]]]

\* map_range_in to the n frames from f on
MapRange(s, u, v, f, n) == MapPages(s, u, v, n, [w \in v .. v + n - 1 |-> f + (w - v)])

\* What brk, mmap_with_content and load_segments do alike: take a run of
\* frames, record them, map them, and push the Mapping if that succeeded.
MapFresh(s, u, v, n) ==
    LET f == AllocContiguous(u, n)
        m == MapRange([s EXCEPT !.frames = @ \cup Run(f, n)],
                      u \cup Run(f, n), v, f, n)
    IN  IF f = None THEN [ok |-> FALSE, used |-> u, space |-> s]
        ELSE IF ~m.ok THEN m
        ELSE [m EXCEPT !.space.mappings = Append(@, Mapping(v, f, n, None))]

\* translate and translate_local: the first mapping that covers the range
Translate(s, v, n) ==
    LET covers == {i \in DOMAIN s.mappings :
                     /\ s.mappings[i].vaddr <= v
                     /\ v + n <= s.mappings[i].vaddr + s.mappings[i].len}
        m == s.mappings[Min(covers)]
    IN  IF covers = {} THEN None ELSE m.phys + (v - m.vaddr)

------------------------------------------------------------------------------
(* spawn and spawn_linux, in the main task, one process at a time.          *)

Live(p) == space[p].st = "live"
Spawning == \E p \in Procs : space[p].st \in {"built", "loaded"}

Become(p, r) == used' = r.used /\ space' = [space EXCEPT ![p] = r.space]

\* Mutant: page tables are left out.
FreeProcess_KeepsTables(p, r) ==
    /\ used' = FrameFree(r.used, r.space.frames \ r.space.tables)
    /\ space' = [space EXCEPT ![p] = [Fresh EXCEPT !.calls = r.space.calls]]

\* free_process
FreeProcess(p, r) ==
    /\ used' = FrameFree(r.used, r.space.frames)
    /\ space' = [space EXCEPT ![p] = [Fresh EXCEPT !.calls = r.space.calls]]

\* A phase of spawn: on to the next one, or everything is given back.
Phase(p, r, next) ==
    IF r.ok THEN Become(p, [r EXCEPT !.space.st = next]) ELSE FreeProcess(p, r)

\* build_address_space; when a frame is missing, the ones taken go back.
Build(p) ==
    /\ space[p].st = "none" /\ ~Spawning
    /\ Cardinality(FreeFrames(used)) >= RootFrames
    /\ LET roots == LowestFree(used, RootFrames) IN
       Become(p, [used  |-> used \cup roots,
                  space |-> [space[p] EXCEPT !.st = "built", !.frames = roots,
                                             !.tables = roots]])

LoadSegments(p) ==
    /\ space[p].st = "built"
    /\ Phase(p, MapFresh(space[p], used, SegStart, SegPages), "loaded")

\* init_stack_backing: the whole growable region is one run of frames and
\* one Mapping from the start.
InitStackBacking(s, u) ==
    LET f == AllocContiguous(u, StackPages)
    IN  IF f = None THEN [ok |-> FALSE, used |-> u, space |-> s]
        ELSE [ok    |-> TRUE,
              used  |-> u \cup Run(f, StackPages),
              space |-> [s EXCEPT
                  !.frames    = @ \cup Run(f, StackPages),
                  !.stackPhys = f,
                  !.mappings  = Append(@, Mapping(StackLimit, f, StackPages, None))]]

StackPhysFor(s, v) == s.stackPhys + (v - StackLimit)

\* setup_user_stack and setup_linux_stack: back the region, map its top
\* part; a native process also gets the page of the exit stub above it.
SetupStack(p) ==
    LET backed == InitStackBacking(space[p], used)
        mapped == MapRange(backed.space, backed.used, StackBase,
                           StackPhysFor(backed.space, StackBase), StackTop - StackBase)
    IN  /\ space[p].st = "loaded"
        /\ Phase(p, IF ~backed.ok THEN backed
                    ELSE IF ~mapped.ok \/ p \notin Native THEN mapped
                    ELSE MapFresh(mapped.space, mapped.used, StackTop, 1), "live")

------------------------------------------------------------------------------
(* Linux system calls.  A call that fails without an effect is a stutter.    *)

Caller(p) == Live(p) /\ p \notin Native /\ space[p].calls < MaxCalls
Return(p, r) == Become(p, [r EXCEPT !.space.calls = @ + 1])

\* Process::brk: a lower break only moves the boundary.
Brk(p, requested) ==
    LET s == space[p]
        oldMapped == (s.heapEnd - HeapStart * PageSize + PageSize - 1) \div PageSize
        newMapped == (requested - HeapStart * PageSize + PageSize - 1) \div PageSize
        r == MapFresh(s, used, HeapStart + oldMapped, newMapped - oldMapped)
    IN  /\ Caller(p) /\ requested >= HeapStart * PageSize
        /\ IF newMapped <= oldMapped
           THEN Return(p, [used |-> used, space |-> [s EXCEPT !.heapEnd = requested]])
           ELSE Return(p, IF r.ok THEN [r EXCEPT !.space.heapEnd = requested] ELSE r)

\* mmap of the next free address, or at the address MAP_FIXED gives.
Place(s, at, n) ==
    IF at # None THEN at
    ELSE IF s.mmapNext + n > MmapCeiling THEN None ELSE s.mmapNext

Placed(r, at, v, n) == IF r.ok /\ at = None THEN [r EXCEPT !.space.mmapNext = v + n] ELSE r

\* mmap_anon and mmap_file: mmap_with_content
Mmap(p, at, n) ==
    LET v == Place(space[p], at, n)
    IN  /\ Caller(p) /\ v # None
        /\ Return(p, Placed(MapFresh(space[p], used, v, n), at, v, n))

\* mmap_shared of the open object: its frame is mapped, not owned.
MmapShared(p, at) ==
    LET s == space[p]
        v == Place(s, at, 1)
        r == MapRange(s, used, v, ShmPhys, 1)
        pushed == [r EXCEPT !.space.mappings = Append(@, Mapping(v, ShmPhys, 1, ShmPhys))]
    IN  /\ Caller(p) /\ v # None
        /\ Return(p, Placed(IF r.ok THEN pushed ELSE r, at, v, 1))

PagesOf(m) == m.vaddr .. m.vaddr + m.len - 1
Within(m, v, n) == m.vaddr >= v /\ m.vaddr + m.len <= v + n

\* Vec::remove of every element that is in S: the others keep their order.
Without(s, S) ==
    LET kept   == {i \in DOMAIN s : s[i] \notin S}
        nth(k) == CHOOSE i \in kept : Cardinality({j \in kept : j <= i}) = k
    IN  [k \in 1 .. Cardinality(kept) |-> s[nth(k)]]

\* Mutant: the Mapping stays in the list.
Munmap_KeepsMapping(p, v, n) ==
    LET s       == space[p]
        gone    == {m \in Range(s.mappings) : Within(m, v, n)}
        cleared == UNION {PagesOf(m) : m \in gone}
        freed   == UNION {Run(m.phys, m.len) : m \in {x \in gone : x.shm = None}}
    IN  /\ Caller(p) /\ gone # {}
        /\ Return(p, [used |-> FrameFree(used, freed), space |-> [s EXCEPT
               !.pt     = [w \in Pages |-> IF w \in cleared THEN None ELSE @[w]],
               !.frames = @ \ freed]])

\* Mutant: the entries of the removed mappings are not cleared.
Munmap_KeepsEntries(p, v, n) ==
    LET gone  == {m \in Range(space[p].mappings) : Within(m, v, n)}
        freed == UNION {Run(m.phys, m.len) : m \in {x \in gone : x.shm = None}}
    IN  /\ Caller(p) /\ gone # {}
        /\ Return(p, [used |-> FrameFree(used, freed), space |-> [space[p] EXCEPT
               !.frames   = @ \ freed,
               !.mappings = Without(@, gone)]])

\* Process::munmap: every mapping inside the range goes, entries and private
\* frames with it.  unmap_range_in would split a 2 MiB entry in its way with
\* a frame (one of strays) that it records nowhere.
Munmap(p, v, n) ==
    LET s       == space[p]
        gone    == {m \in Range(s.mappings) : Within(m, v, n)}
        cleared == UNION {PagesOf(m) : m \in gone}
        freed   == UNION {Run(m.phys, m.len) : m \in {x \in gone : x.shm = None}}
        whole   == {BlockOf(w) : w \in cleared} \ s.split
        strays  == LowestFree(used, Cardinality(whole))
    IN  /\ Caller(p) /\ gone # {}
        /\ Return(p, [used |-> FrameFree(used \cup strays, freed), space |-> [s EXCEPT
               !.split    = @ \cup whole,
               !.pt       = [w \in Pages |-> IF w \in cleared THEN None ELSE @[w]],
               !.frames   = @ \ freed,
               !.mappings = Without(@, gone)]])

\* Process::mprotect: each page is mapped again where translate_local finds
\* it, up to the first page no mapping covers.
Mprotect(p, v, n) ==
    LET s       == space[p]
        Covered(k) == \A w \in v .. v + k - 1 : Translate(s, w, 1) # None
        k       == Max({i \in 0 .. n : Covered(i)})
    IN  /\ Caller(p) /\ k > 0
        /\ Return(p, MapPages(s, used, v, k, [w \in v .. v + k - 1 |-> Translate(s, w, 1)]))

------------------------------------------------------------------------------
(* Faults, exit, reap.                                                       *)

\* Mutant: the lowest page of the region is left out.
CanGrow_OffByOne(s, v) == v < s.stackLow /\ v > StackLimit

\* The addresses try_grow_stack accepts.
CanGrow(s, v) == v < s.stackLow /\ v >= StackLimit

\* try_grow_stack: from the page of v up to the old floor
TryGrowStack(s, u, v) ==
    LET r == MapRange(s, u, v, StackPhysFor(s, v), s.stackLow - v)
    IN  IF ~CanGrow(s, v) THEN [ok |-> FALSE, used |-> u, space |-> s]
        ELSE IF r.ok THEN [r EXCEPT !.space.stackLow = v] ELSE r

\* page_fault on a page ring 3 cannot reach: grow the stack, or kill_current.
PageFault(p, v) ==
    LET r == TryGrowStack(space[p], used, v)
    IN  /\ Live(p) /\ space[p].pt[v] = None
        /\ Become(p, IF r.ok THEN r
                     ELSE [r EXCEPT !.space.st = "exited", !.space.cr2 = v])

\* resolve_syscall_ptr of a range no mapping covers
ResolveSyscallPtr(p, v, n) ==
    /\ Live(p) /\ Translate(space[p], v, n) = None
    /\ Become(p, TryGrowStack(space[p], used, v))

\* exit, exit_group, or another exception
ExitSelf(p) ==
    /\ Live(p)
    /\ space' = [space EXCEPT ![p].st = "exited"]
    /\ UNCHANGED used

\* reap, in the main task
Reap(p) ==
    /\ space[p].st = "exited" /\ ~Spawning
    /\ FreeProcess(p, [used |-> used, space |-> space[p]])

Spawn(p) == Build(p) \/ LoadSegments(p) \/ SetupStack(p)

Call(p) ==
    \/ \E b \in Breaks : Brk(p, b)
    \/ \E at \in FixedAt \cup {None} :
          MmapShared(p, at) \/ \E n \in CallLens : Mmap(p, at, n)
    \/ \E v \in CallAt, n \in CallLens :
          Munmap(p, v, n) \/ Mprotect(p, v, n) \/ ResolveSyscallPtr(p, v, n)

Next ==
    \E p \in Procs :
        \/ Spawn(p) \/ Call(p) \/ ExitSelf(p) \/ Reap(p)
        \/ \E v \in CallAt : PageFault(p, v)

Spec == Init /\ [][Next]_vars

------------------------------------------------------------------------------
(* Properties.                                                               *)

\* The bitmap is exact: a frame is in use when one process, and one only,
\* has it in Process::frames, or a shared object holds it.  Nothing leaks
\* and nothing is freed twice, however spawn, brk or mmap fail half way and
\* whatever munmap gave back before reap frees the rest.
FramesExact ==
    /\ used = {ShmPhys} \cup UNION {space[p].frames : p \in Procs}
    /\ \A p \in Procs : ShmPhys \notin space[p].frames
    /\ \A p, q \in Procs : p # q => space[p].frames \cap space[q].frames = {}

\* The mapping init_stack_backing made is still there.
StackMapped(s) == Mapping(StackLimit, s.stackPhys, StackPages, None) \in Range(s.mappings)

\* What ring 3 can reach through its page table is a frame of its own that
\* is not a page table, or the shared object, as long as the process has
\* not unmapped its whole stack (try_grow_stack maps stack_phys_base).
ReachesOwnFrames ==
    \A p \in Procs : Live(p) /\ StackMapped(space[p]) =>
        \A v \in Pages : space[p].pt[v] \in
            (space[p].frames \ space[p].tables) \cup {ShmPhys, None}

\* What the kernel writes to through translate is never freed memory or
\* another process's: the frames of two mappings of a process are distinct
\* and its own, even where the mappings overlap.
MappingsOwned ==
    \A p \in Procs : LET s == space[p] IN
        /\ \A m \in Range(s.mappings) : m.shm = None =>
              Run(m.phys, m.len) \subseteq s.frames \ s.tables
        /\ \A i, j \in DOMAIN s.mappings :
              i # j /\ s.mappings[i].shm = None /\ s.mappings[j].shm = None =>
              Run(s.mappings[i].phys, s.mappings[i].len)
                \cap Run(s.mappings[j].phys, s.mappings[j].len) = {}

\* A touch of the reserved stack region below the floor never kills the
\* process: growing into it needs no frame, so it succeeds even when memory
\* has run out.
GrowthNeverFatal ==
    \A p \in Procs : space[p].cr2 # None => ~(space[p].cr2 >= StackLimit /\ space[p].cr2 < space[p].stackLow)
==============================================================================
