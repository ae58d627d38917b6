---------------------------- MODULE MappingProofs ----------------------------
(***************************************************************************)
(* The inductive invariant IInv of AddressSpace, and what the operators    *)
(* its actions are built from do to a process that satisfies it: the frame *)
(* allocator's choice, map_range_in writing page-table entries (all of     *)
(* them, or a prefix when the frames run out), a fresh private mapping,    *)
(* and the removal of the mappings a munmap covers.                        *)
(***************************************************************************)
EXTENDS AddressSpace, FiniteSetTheorems, FunctionTheorems, WellFoundedInduction, TLAPS

\* An entry of Process::mappings
MappingType == [vaddr : Nat, phys : Frames, len : Nat \ {0}, shm : {None, ShmPhys}]

\* A slot of the process table
SpaceType ==
    [st : {"none", "built", "loaded", "live", "exited"}, calls : Nat,
     cr2 : Nat \cup {None}, frames : SUBSET Frames, tables : SUBSET Frames,
     split : SUBSET Nat, pt : [Pages -> Frames \cup {None}],
     mappings : Seq(MappingType), heapEnd : Nat, mmapNext : Nat,
     stackLow : Nat, stackPhys : Frames \cup {None}]

\* The frames behind a mapping
FramesOf(m) == Run(m.phys, m.len)

\* A mapping lies inside the identity map; a private one has frames of the
\* process behind it, a shared one the frame of the object.
MappingOK(s, m) ==
    /\ m.vaddr + m.len <= IdentityEnd
    /\ m.shm = None => FramesOf(m) \subseteq s.frames \ s.tables
    /\ m.shm # None => m.phys = ShmPhys /\ m.len = 1

\* The mappings whose frames are the process's own
Private(s) == {i \in DOMAIN s.mappings : s.mappings[i].shm = None}

\* No frame is behind two private mappings.
FramesApart(s) ==
    \A i, j \in Private(s) :
        i # j => FramesOf(s.mappings[i]) \cap FramesOf(s.mappings[j]) = {}

\* What entry x of page w may be: nothing, the shared object, what a mapping
\* of that page says, a frame no mapping has (a mapping call that failed half
\* way left it), or the frame reserved for a page of the stack.
EntryOK(s, w, x) ==
    \/ x = None \/ x = ShmPhys
    \/ \E i \in DOMAIN s.mappings :
          /\ w \in PagesOf(s.mappings[i])
          /\ x = s.mappings[i].phys + (w - s.mappings[i].vaddr)
    \/ /\ x \in s.frames \ s.tables
       /\ \A i \in Private(s) : x \notin FramesOf(s.mappings[i])
    \/ /\ s.stackPhys # None /\ w \in StackLimit .. StackTop - 1
       /\ x = StackPhysFor(s, w)

\* What holds of a process at every step, inside a call too.
Core(s) ==
    /\ s \in SpaceType
    /\ s.tables \subseteq s.frames /\ ShmPhys \notin s.frames
    /\ \A i \in DOMAIN s.mappings : MappingOK(s, s.mappings[i])
    /\ FramesApart(s)
    /\ \A w \in Pages : EntryOK(s, w, s.pt[w])

\* The blocks of the mapped pages have a page table.
SplitOK(s) ==
    \A i \in DOMAIN s.mappings : \A w \in PagesOf(s.mappings[i]) : BlockOf(w) \in s.split

\* A started process has its whole stack region reserved, in a block that
\* has a page table.
StackOK(s) ==
    /\ s.stackLow \in StackLimit .. StackBase
    /\ s.stackPhys # None => Run(s.stackPhys, StackPages) \subseteq Frames
    /\ s.st \in {"live", "exited"} =>
          /\ s.stackPhys # None
          /\ \A w \in StackLimit .. StackTop - 1 : BlockOf(w) \in s.split
    /\ s.st \in {"none", "built", "loaded"} => s.stackPhys = None
    /\ s.st = "none" => s.frames = {} /\ s.tables = {} /\ s.mappings = <<>>

\* A page fault that ended the process was not in the growth region.
FaultOK(s) ==
    s.cr2 # None => s.st = "exited" /\ ~(s.cr2 >= StackLimit /\ s.cr2 < s.stackLow)

\* The break never moves below the start of the heap.
HeapOK(s) == s.heapEnd >= HeapStart * PageSize

\* What holds of a process between two calls
ProcOK(s) == Core(s) /\ SplitOK(s) /\ StackOK(s) /\ FaultOK(s) /\ HeapOK(s)

\* The inductive invariant: the bitmap is exact and every process is sound.
IInv ==
    /\ space \in [Procs -> SpaceType]
    /\ FramesExact
    /\ \A p \in Procs : ProcOK(space[p])

------------------------------------------------------------------------------
(* Numbers, frames and lists.                                                *)

\* A set of naturals that is not empty has a least element.
LEMMA Least ==
    ASSUME NEW S, S \subseteq Nat, S # {}
    PROVE  \E x \in S : \A y \in S : x <= y
<1>1. IsWellFoundedOn(OpToRel(<, Nat), Nat)
  BY NatLessThanWellFounded, Zenon
<1>2. PICK x \in S : \A y \in S : ~(<<y, x>> \in OpToRel(<, Nat))
  BY <1>1, WFMin, Zenon
<1>3. ASSUME NEW y \in S, y < x
      PROVE  <<y, x>> \in OpToRel(<, Nat)
  <2>1. <<y, x>> \in Nat \X Nat /\ <<y, x>>[1] < <<y, x>>[2]
    BY <1>3
  <2> QED
    BY <2>1, Zenon DEF OpToRel
<1>4. \A y \in S : ~(y < x)
  BY <1>2, <1>3, Zenon
<1> QED
  BY <1>4

\* Min of a set of naturals
LEMMA MinIn ==
    ASSUME NEW S, S \subseteq Nat, S # {}
    PROVE  Min(S) \in S
BY Least, Zenon DEF Min

\* Max of a set of naturals up to n
LEMMA MaxIn ==
    ASSUME NEW n \in Nat, NEW S \in SUBSET (0 .. n), S # {}
    PROVE  Max(S) \in S /\ \A y \in S : Max(S) >= y
<1> DEFINE B == {n - y : y \in S}
<1>1. B \subseteq Nat
  OBVIOUS
<1>0. B # {}
  BY Zenon
<1>2. PICK b \in B : \A c \in B : b <= c
  BY <1>0, <1>1, Least, Zenon
<1>3. PICK x \in S : b = n - x
  BY <1>2
<1>4. \A y \in S : x >= y
  <2> TAKE y \in S
  <2>1. b <= n - y
    BY <1>2
  <2> QED
    BY <2>1, <1>3
<1> QED
  BY <1>4, Zenon DEF Max

\* A frame that is free is no frame of the process, and a natural.
LEMMA FreeIsFrame ==
    ASSUME NEW u, NEW f \in FreeFrames(u)
    PROVE  f \in Frames /\ f \in Nat /\ f \notin u
BY FramesAssumption DEF FreeFrames

\* frame_alloc takes free frames; no call of it takes none.
LEMMA LowestFreeIsFree ==
    ASSUME NEW u, NEW n
    PROVE  LowestFree(u, n) \subseteq FreeFrames(u)
BY DEF LowestFree

\* Asked for no frame, frame_alloc takes none.
LEMMA LowestFreeNone ==
    ASSUME NEW u
    PROVE  LowestFree(u, 0) = {}
<1> SUFFICES ASSUME NEW f \in LowestFree(u, 0)
             PROVE  FALSE
  OBVIOUS
<1> DEFINE B == {g \in FreeFrames(u) : g < f}
<1>1. B \subseteq Frames
  BY DEF FreeFrames
<1>2. IsFiniteSet(B)
  BY <1>1, FS_Subset, FramesAssumption
<1>3. Cardinality(B) \in Nat
  BY <1>2, FS_CardinalityType
<1>4. Cardinality(B) < 0
  BY DEF LowestFree
<1> QED
  BY <1>3, <1>4

\* alloc_contiguous takes n free frames in a row.
LEMMA AllocIsFree ==
    ASSUME NEW u, NEW n \in Nat \ {0}, NEW f, f = AllocContiguous(u, n), f # None
    PROVE  f \in Frames /\ f \in Nat /\ Run(f, n) \subseteq FreeFrames(u)
<1> DEFINE starts == {g \in Frames : Run(g, n) \subseteq FreeFrames(u)}
<1>1. starts # {}
  BY DEF AllocContiguous
<1>2. starts \in SUBSET Nat
  BY FramesAssumption, Zenon
<1>3. \E x \in starts : \A y \in starts : x <= y
  BY <1>1, <1>2, Least, Zenon
<1>4. f = CHOOSE x \in starts : \A y \in starts : x <= y
  BY <1>1 DEF AllocContiguous
<1>5. f \in starts
  BY <1>3, <1>4
<1> QED
  BY <1>5, <1>2

------------------------------------------------------------------------------
(* What a call of map_range_in does.                                         *)

\* The fields no mapping operator touches.
Kept(s, t) ==
    /\ t.st = s.st /\ t.calls = s.calls /\ t.cr2 = s.cr2 /\ t.heapEnd = s.heapEnd
    /\ t.mmapNext = s.mmapNext /\ t.stackLow = s.stackLow

\* t is s after the entries of the first done of n pages from v on were set to
\* those of g, with the page tables in fresh frames.
Wrote(s, t, v, n, g, done, fresh) ==
    /\ t \in SpaceType /\ Kept(s, t)
    /\ t.stackPhys = s.stackPhys /\ t.mappings = s.mappings
    /\ t.frames = s.frames \cup fresh
    /\ t.tables = s.tables \cup fresh
    /\ s.split \subseteq t.split
    /\ \A w \in Pages : t.pt[w] = IF w \in v .. v + done - 1 THEN g[w] ELSE s.pt[w]
    /\ done = n => v + n <= IdentityEnd /\ \A w \in v .. v + n - 1 : BlockOf(w) \in t.split

\* The loop stops after some number of the pages, and after all of them when
\* no page table has to be made.
LEMMA ReachedIn ==
    ASSUME NEW s, NEW u, NEW v \in Nat, NEW n \in Nat
    PROVE  /\ Reached(s, u, v, n) \in 0 .. n
           /\ Unsplit(s, v, n) = {} => Reached(s, u, v, n) = n
<1> DEFINE T == {k \in 0 .. n : Cardinality(Unsplit(s, v, k)) <= Cardinality(FreeFrames(u))}
<1>1. FreeFrames(u) \subseteq Frames
  BY DEF FreeFrames
<1>2. Cardinality(FreeFrames(u)) \in Nat
  BY <1>1, FS_Subset, FS_CardinalityType, FramesAssumption
<1>3. Cardinality({}) = 0
  BY FS_EmptySet
<1>4. Unsplit(s, v, 0) = {}
  BY DEF Unsplit
<1>5. T \in SUBSET (0 .. n)
  OBVIOUS
<1>6. 0 \in T
  BY <1>2, <1>3, <1>4
<1>7. Unsplit(s, v, n) = {} => n \in T
  BY <1>2, <1>3
<1>8. Reached(s, u, v, n) = Max(T)
  BY DEF Reached
<1>9. Max(T) \in T /\ \A y \in T : Max(T) >= y
  <2> HIDE DEF T
  <2> QED
    BY <1>5, <1>6, MaxIn, Zenon
<1> QED
  BY <1>5, <1>7, <1>8, <1>9

\* map_range_in
LEMMA MapPagesWrites ==
    ASSUME NEW s \in SpaceType, NEW u, NEW v \in Nat, NEW n \in Nat \ {0}, NEW g,
           \A w \in v .. v + n - 1 : g[w] \in Frames \cup {None}
    PROVE  \E done \in 0 .. n, fresh \in SUBSET FreeFrames(u) :
              /\ MapPages(s, u, v, n, g).ok <=> done = n
              /\ MapPages(s, u, v, n, g).used = u \cup fresh
              /\ Wrote(s, MapPages(s, u, v, n, g).space, v, n, g, done, fresh)
              /\ v + n <= IdentityEnd /\ Unsplit(s, v, n) = {} => done = n
<1>1. PICK done : done = IF v + n > IdentityEnd THEN 0 ELSE Reached(s, u, v, n)
  OBVIOUS
<1>2. PICK fresh : fresh = LowestFree(u, Cardinality(Unsplit(s, v, done)))
  OBVIOUS
<1>3. done \in 0 .. n
  BY <1>1, ReachedIn
<1>4. fresh \in SUBSET FreeFrames(u)
  BY <1>2, LowestFreeIsFree
<1>5. fresh \subseteq Frames
  BY <1>4, FreeIsFrame
<1> DEFINE t == [s EXCEPT
             !.split  = @ \cup Unsplit(s, v, done),
             !.tables = @ \cup fresh,
             !.frames = @ \cup fresh,
             !.pt     = [w \in Pages |-> IF w \in v .. v + done - 1
                                         THEN g[w] ELSE @[w]]]
<1>6. MapPages(s, u, v, n, g) = [ok |-> done = n, used |-> u \cup fresh, space |-> t]
  BY <1>1, <1>2 DEF MapPages
<1>7. Unsplit(s, v, done) \subseteq Nat
  BY <1>3, LayoutAssumption DEF Unsplit, BlockOf
<1>8. t \in SpaceType
  <2>1. s.pt \in [Pages -> Frames \cup {None}] /\ s.frames \cup fresh \subseteq Frames
        /\ s.tables \cup fresh \subseteq Frames /\ s.split \cup Unsplit(s, v, done) \subseteq Nat
    BY <1>5, <1>7 DEF SpaceType
  <2>2. \A w \in v .. v + done - 1 : g[w] \in Frames \cup {None}
    BY <1>3
  <2>3. [w \in Pages |-> IF w \in v .. v + done - 1 THEN g[w] ELSE s.pt[w]]
          \in [Pages -> Frames \cup {None}]
    BY <2>1, <2>2
  <2> QED
    BY <2>1, <2>3, Zenon DEF SpaceType
<1>9. /\ Kept(s, t) /\ t.stackPhys = s.stackPhys /\ t.mappings = s.mappings
      /\ t.frames = s.frames \cup fresh /\ t.tables = s.tables \cup fresh
      /\ t.split = s.split \cup Unsplit(s, v, done)
      /\ t.pt = [w \in Pages |-> IF w \in v .. v + done - 1 THEN g[w] ELSE s.pt[w]]
  BY DEF SpaceType, Kept
<1>10. done = n => v + n <= IdentityEnd
  BY <1>1, LayoutAssumption
<1>11. ASSUME done = n, NEW w \in v .. v + n - 1
       PROVE  BlockOf(w) \in t.split
  <2>1. PICK i \in 0 .. done - 1 : w = v + i
    BY <1>11
  <2>2. BlockOf(w) \in {BlockOf(v + k) : k \in 0 .. done - 1}
    BY <2>1, Zenon
  <2> QED
    BY <1>9, <2>2 DEF Unsplit
<1>12. v + n <= IdentityEnd /\ Unsplit(s, v, n) = {} => done = n
  <2> SUFFICES ASSUME v + n <= IdentityEnd, Unsplit(s, v, n) = {} PROVE done = n
    OBVIOUS
  <2>1. ~(v + n > IdentityEnd)
    BY LayoutAssumption
  <2> QED
    BY <1>1, <2>1, ReachedIn
<1> HIDE DEF t
<1>13. Wrote(s, t, v, n, g, done, fresh)
  BY <1>8, <1>9, <1>10, <1>11 DEF Wrote
<1>14. PICK r : r = MapPages(s, u, v, n, g)
  OBVIOUS
<1>15. (r.ok <=> done = n) /\ r.used = u \cup fresh /\ r.space = t
  <2>1. r = [ok |-> done = n, used |-> u \cup fresh, space |-> t]
    BY <1>6, <1>14, Zenon
  <2>2. r.ok = (done = n)
    BY <2>1, Zenon
  <2> QED
    BY <2>1, <2>2, Zenon
<1>16. Wrote(s, r.space, v, n, g, done, fresh)
  BY <1>13, <1>15
<1> QED
  BY <1>3, <1>4, <1>12, <1>14, <1>15, <1>16

------------------------------------------------------------------------------
(* Growing: every operation but munmap and free_process only adds to a       *)
(* process.                                                                  *)

\* t is s with the new frames N, page tables T of them, and at most one new
\* mapping, whose private frames are new too.
Grown(s, t, N, T) ==
    /\ t \in SpaceType
    /\ t.frames = s.frames \cup N /\ t.tables = s.tables \cup T
    /\ T \subseteq N /\ N \cap s.frames = {} /\ ShmPhys \notin N
    /\ t.stackPhys = s.stackPhys \/ s.stackPhys = None
    /\ \/ t.mappings = s.mappings
       \/ \E m \in MappingType :
             /\ t.mappings = Append(s.mappings, m)
             /\ MappingOK(t, m)
             /\ m.shm = None => FramesOf(m) \cap s.frames = {}

\* The old mappings stay where they are in the list.
LEMMA GrownMappings ==
    ASSUME NEW s \in SpaceType, NEW t, NEW N, NEW T, Grown(s, t, N, T)
    PROVE  /\ DOMAIN s.mappings \subseteq DOMAIN t.mappings
           /\ \A i \in DOMAIN s.mappings : t.mappings[i] = s.mappings[i]
           /\ \A i \in DOMAIN t.mappings \ DOMAIN s.mappings :
                 /\ MappingOK(t, t.mappings[i])
                 /\ t.mappings[i].shm = None => FramesOf(t.mappings[i]) \cap s.frames = {}
           /\ \A i, j \in DOMAIN t.mappings \ DOMAIN s.mappings : i = j
<1>1. s.mappings \in Seq(MappingType)
  BY DEF SpaceType
<1>2. CASE t.mappings = s.mappings
  BY <1>2
<1>3. CASE t.mappings # s.mappings
  <2>1. PICK m \in MappingType :
             /\ t.mappings = Append(s.mappings, m)
             /\ MappingOK(t, m)
             /\ m.shm = None => FramesOf(m) \cap s.frames = {}
    BY <1>3 DEF Grown
  <2>2. PICK L \in Nat : L = Len(s.mappings)
    BY <1>1
  <2>3. DOMAIN s.mappings = 1 .. L /\ DOMAIN t.mappings = 1 .. L + 1
        /\ t.mappings[L + 1] = m
    BY <1>1, <2>1, <2>2
  <2>4. \A i \in 1 .. L : t.mappings[i] = s.mappings[i]
    BY <1>1, <2>1, <2>2
  <2>5. \A i \in DOMAIN t.mappings \ DOMAIN s.mappings : i = L + 1
    BY <2>3
  <2> QED
    BY <2>1, <2>3, <2>4, <2>5
<1> QED
  BY <1>2, <1>3

\* What was a sound entry stays one.
LEMMA GrownEntry ==
    ASSUME NEW s, Core(s), NEW t, NEW N, NEW T, Grown(s, t, N, T),
           NEW w \in Pages, NEW x, EntryOK(s, w, x)
    PROVE  EntryOK(t, w, x)
<1>0. s \in SpaceType
  BY DEF Core
<1>1. /\ DOMAIN s.mappings \subseteq DOMAIN t.mappings
      /\ \A i \in DOMAIN s.mappings : t.mappings[i] = s.mappings[i]
  BY <1>0, GrownMappings
<1>2. \A i \in DOMAIN t.mappings \ DOMAIN s.mappings :
         t.mappings[i].shm = None => FramesOf(t.mappings[i]) \cap s.frames = {}
  BY <1>0, GrownMappings
<1>3. CASE x = None \/ x = ShmPhys
  BY <1>3 DEF EntryOK
<1>4. ASSUME NEW i \in DOMAIN s.mappings, w \in PagesOf(s.mappings[i]),
             x = s.mappings[i].phys + (w - s.mappings[i].vaddr)
      PROVE  EntryOK(t, w, x)
  <2>1. i \in DOMAIN t.mappings /\ w \in PagesOf(t.mappings[i])
        /\ x = t.mappings[i].phys + (w - t.mappings[i].vaddr)
    BY <1>1, <1>4
  <2> QED
    BY <2>1 DEF EntryOK
<1>5. CASE /\ x \in s.frames \ s.tables
           /\ \A i \in Private(s) : x \notin FramesOf(s.mappings[i])
  <2>1. x \in t.frames \ t.tables
    BY <1>5 DEF Grown
  <2>2. ASSUME NEW i \in Private(t)
        PROVE  x \notin FramesOf(t.mappings[i])
    <3>1. CASE i \in DOMAIN s.mappings
      BY <1>1, <1>5, <3>1 DEF Private
    <3>2. CASE i \notin DOMAIN s.mappings
      BY <1>2, <1>5, <3>2 DEF Private
    <3> QED
      BY <3>1, <3>2
  <2> QED
    BY <2>1, <2>2 DEF EntryOK
<1>6. CASE /\ s.stackPhys # None /\ w \in StackLimit .. StackTop - 1
           /\ x = StackPhysFor(s, w)
  BY <1>6 DEF EntryOK, Grown, StackPhysFor
<1> QED
  BY <1>3, <1>4, <1>5, <1>6 DEF EntryOK

\* Growing keeps a process sound when the entries it changes are.
LEMMA GrownCore ==
    ASSUME NEW s, Core(s), NEW t, NEW N, NEW T, Grown(s, t, N, T),
           \A w \in Pages : t.pt[w] = s.pt[w] \/ EntryOK(t, w, t.pt[w])
    PROVE  Core(t)
<1>0. s \in SpaceType /\ t \in SpaceType
  BY DEF Core, Grown
<1>1. /\ DOMAIN s.mappings \subseteq DOMAIN t.mappings
      /\ \A i \in DOMAIN s.mappings : t.mappings[i] = s.mappings[i]
  BY <1>0, GrownMappings
<1>2. \A i \in DOMAIN t.mappings \ DOMAIN s.mappings :
         /\ MappingOK(t, t.mappings[i])
         /\ t.mappings[i].shm = None => FramesOf(t.mappings[i]) \cap s.frames = {}
  BY <1>0, GrownMappings
<1>3. \A i, j \in DOMAIN t.mappings \ DOMAIN s.mappings : i = j
  BY <1>0, GrownMappings
<1>4. t.tables \subseteq t.frames /\ ShmPhys \notin t.frames
  BY DEF Core, Grown
<1>5. \A w \in Pages : EntryOK(t, w, t.pt[w])
  BY GrownEntry DEF Core
<1>6. ASSUME NEW i \in DOMAIN s.mappings
      PROVE  MappingOK(t, t.mappings[i])
  <2>1. MappingOK(s, s.mappings[i])
    BY DEF Core
  <2>2. s.frames \ s.tables \subseteq t.frames \ t.tables
    BY DEF Grown
  <2> QED
    BY <1>1, <2>1, <2>2 DEF MappingOK
<1>7. \A i \in DOMAIN t.mappings : MappingOK(t, t.mappings[i])
  BY <1>2, <1>6
<1>8. \A i \in Private(s) : FramesOf(s.mappings[i]) \subseteq s.frames
  BY DEF Core, MappingOK, Private
<1>9. ASSUME NEW i \in Private(t), NEW j \in Private(t), i # j
      PROVE  FramesOf(t.mappings[i]) \cap FramesOf(t.mappings[j]) = {}
  <2>1. CASE i \in DOMAIN s.mappings /\ j \in DOMAIN s.mappings
    <3>1. i \in Private(s) /\ j \in Private(s)
      BY <1>1, <2>1 DEF Private
    <3> QED
      BY <1>1, <1>9, <2>1, <3>1 DEF Core, FramesApart
  <2>2. CASE i \in DOMAIN s.mappings /\ j \notin DOMAIN s.mappings
    <3>1. i \in Private(s)
      BY <1>1, <2>2 DEF Private
    <3>2. FramesOf(t.mappings[i]) \subseteq s.frames
      BY <1>1, <1>8, <2>2, <3>1
    <3>3. FramesOf(t.mappings[j]) \cap s.frames = {}
      BY <1>2, <2>2 DEF Private
    <3> QED
      BY <3>2, <3>3
  <2>3. CASE i \notin DOMAIN s.mappings /\ j \in DOMAIN s.mappings
    <3>1. j \in Private(s)
      BY <1>1, <2>3 DEF Private
    <3>2. FramesOf(t.mappings[j]) \subseteq s.frames
      BY <1>1, <1>8, <2>3, <3>1
    <3>3. FramesOf(t.mappings[i]) \cap s.frames = {}
      BY <1>2, <2>3 DEF Private
    <3> QED
      BY <3>2, <3>3
  <2>4. CASE i \notin DOMAIN s.mappings /\ j \notin DOMAIN s.mappings
    BY <1>3, <1>9, <2>4 DEF Private
  <2> QED
    BY <2>1, <2>2, <2>3, <2>4
<1> QED
  BY <1>0, <1>4, <1>5, <1>7, <1>9 DEF Core, FramesApart

\* What the mapping operators return has these fields; a field set in it
\* leaves the others.
IsResult(r) == "used" \in DOMAIN r /\ "space" \in DOMAIN r

\* map_range_in returns such a record.
LEMMA MapPagesResult ==
    ASSUME NEW s, NEW u, NEW v, NEW n, NEW g
    PROVE  IsResult(MapPages(s, u, v, n, g))
BY DEF IsResult, MapPages

\* So does a fresh private mapping, whether it succeeds or not.
LEMMA MapFreshResult ==
    ASSUME NEW s, NEW u, NEW v, NEW n
    PROVE  IsResult(MapFresh(s, u, v, n))
<1>1. PICK f : f = AllocContiguous(u, n)
  OBVIOUS
<1>2. PICK m : m = MapRange([s EXCEPT !.frames = @ \cup Run(f, n)], u \cup Run(f, n), v, f, n)
  OBVIOUS
<1>3. IsResult(m)
  BY <1>2, MapPagesResult DEF MapRange
<1>4. IsResult([ok |-> FALSE, used |-> u, space |-> s])
  BY DEF IsResult
<1>5. IsResult([m EXCEPT !.space.mappings = Append(@, Mapping(v, f, n, None))])
  BY <1>3 DEF IsResult
<1> QED
  BY <1>1, <1>2, <1>3, <1>4, <1>5 DEF MapFresh

\* t takes the place of s, and bitmap u2 that of u: only free frames changed
\* hands.
Took(s, u, t, u2) ==
    \E N \in SUBSET FreeFrames(u) : u2 = u \cup N /\ t.frames = s.frames \cup N

\* What a mapping operator leaves behind, whether it succeeds or not.
Sound(s, u, t, u2) ==
    /\ Core(t) /\ Took(s, u, t, u2) /\ Kept(s, t)
    /\ t.stackPhys = s.stackPhys
    /\ s.split \subseteq t.split
    /\ SplitOK(s) => SplitOK(t)

\* The process's frames are marked in the bitmap, and the shared object's.
Marked(s, u) == s.frames \subseteq u /\ ShmPhys \in u

\* Nothing changes hands when neither the process nor the bitmap does.
LEMMA TookNothing ==
    ASSUME NEW s, NEW u
    PROVE  Took(s, u, s, u)
<1>1. {} \in SUBSET FreeFrames(u) /\ u = u \cup {} /\ s.frames = s.frames \cup {}
  OBVIOUS
<1> QED
  BY <1>1, Zenon DEF Took

\* The frames a process takes are marked as it takes them.
LEMMA TookMarked ==
    ASSUME NEW s, NEW u, NEW t, NEW u2, Marked(s, u), Took(s, u, t, u2)
    PROVE  Marked(t, u2)
BY DEF Marked, Took

\* map_range_in to frames the process may reach
LEMMA MapPagesSound ==
    ASSUME NEW s, Core(s), NEW u, Marked(s, u), NEW v \in Nat, NEW n \in Nat \ {0}, NEW g,
           \A w \in v .. v + n - 1 : g[w] \in Frames \cup {None} /\ EntryOK(s, w, g[w]),
           NEW r, r = MapPages(s, u, v, n, g)
    PROVE  /\ Sound(s, u, r.space, r.used)
           /\ r.space.mappings = s.mappings
           /\ r.ok => v + n <= IdentityEnd
           /\ r.ok => \A w \in v .. v + n - 1 : BlockOf(w) \in r.space.split
           /\ v + n <= IdentityEnd /\ Unsplit(s, v, n) = {} => r.ok
<1>1. s \in SpaceType
  BY DEF Core
<1>2. PICK done \in 0 .. n, fresh \in SUBSET FreeFrames(u) :
         /\ r.ok <=> done = n
         /\ r.used = u \cup fresh
         /\ Wrote(s, r.space, v, n, g, done, fresh)
         /\ v + n <= IdentityEnd /\ Unsplit(s, v, n) = {} => done = n
  <2>1. \A w \in v .. v + n - 1 : g[w] \in Frames \cup {None}
    OBVIOUS
  <2>2. \E done \in 0 .. n, fresh \in SUBSET FreeFrames(u) :
           /\ MapPages(s, u, v, n, g).ok <=> done = n
           /\ MapPages(s, u, v, n, g).used = u \cup fresh
           /\ Wrote(s, MapPages(s, u, v, n, g).space, v, n, g, done, fresh)
           /\ v + n <= IdentityEnd /\ Unsplit(s, v, n) = {} => done = n
    BY <1>1, <2>1, MapPagesWrites, Zenon
  <2> QED
    BY <2>2, Zenon
<1>3. PICK t : t = r.space
  OBVIOUS
<1>4. Wrote(s, t, v, n, g, done, fresh)
  BY <1>2, <1>3
<1>5. fresh \cap s.frames = {} /\ ShmPhys \notin fresh
  BY FreeIsFrame DEF Marked
<1>6. Grown(s, t, fresh, fresh)
  BY <1>4, <1>5 DEF Wrote, Grown
<1>7. ASSUME NEW w \in Pages
      PROVE  t.pt[w] = s.pt[w] \/ EntryOK(t, w, t.pt[w])
  <2>1. CASE w \in v .. v + done - 1
    <3>1. w \in v .. v + n - 1
      BY <2>1
    <3>2. EntryOK(t, w, g[w])
      BY <1>6, <3>1, GrownEntry
    <3> QED
      BY <1>4, <2>1, <3>2 DEF Wrote
  <2>2. CASE w \notin v .. v + done - 1
    BY <1>4, <2>2 DEF Wrote
  <2> QED
    BY <2>1, <2>2
<1>8. Core(t)
  BY <1>6, <1>7, GrownCore
<1>9. Took(s, u, t, r.used)
  BY <1>2, <1>4, Zenon DEF Took, Wrote
<1>10. SplitOK(s) => SplitOK(t)
  BY <1>4 DEF SplitOK, Wrote
<1>11. Sound(s, u, t, r.used)
  BY <1>4, <1>8, <1>9, <1>10 DEF Sound, Wrote
<1> QED
  BY <1>2, <1>3, <1>4, <1>11 DEF Wrote

\* What the entries of a run of frames are
LEMMA RangeEntries ==
    ASSUME NEW v \in Nat, NEW f \in Nat, NEW n \in Nat \ {0},
           NEW w \in v .. v + n - 1
    PROVE  /\ [x \in v .. v + n - 1 |-> f + (x - v)][w] = f + (w - v)
           /\ f + (w - v) \in Run(f, n)
BY DEF Run

\* brk, mmap_with_content, load_segments
LEMMA MapFreshSound ==
    ASSUME NEW s, Core(s), NEW u, Marked(s, u), NEW v \in Nat, NEW n \in Nat \ {0},
           NEW r, r = MapFresh(s, u, v, n)
    PROVE  Sound(s, u, r.space, r.used)
<1>1. PICK f : f = AllocContiguous(u, n)
  OBVIOUS
<1>0. s \in SpaceType
  BY DEF Core
<1>2. CASE f = None
  <2>1. r = [ok |-> FALSE, used |-> u, space |-> s]
    BY <1>1, <1>2 DEF MapFresh
  <2>2. r.used = u /\ r.space = s
    BY <2>1
  <2>3. Took(s, u, s, u)
    BY TookNothing
  <2> QED
    BY <2>2, <2>3 DEF Sound, Kept
<1>3. CASE f # None
  <2>1. f \in Frames /\ f \in Nat /\ Run(f, n) \subseteq FreeFrames(u)
    BY <1>1, <1>3, AllocIsFree
  <2>2. PICK R : R = Run(f, n)
    OBVIOUS
  <2>3. R \subseteq Frames /\ R \cap u = {}
    BY <2>1, <2>2, FreeIsFrame
  <2>4. PICK s1 : s1 = [s EXCEPT !.frames = @ \cup R]
    BY Zenon
  <2>5. s1 \in SpaceType
    BY <1>0, <2>3, <2>4 DEF SpaceType
  <2>6. /\ s1.frames = s.frames \cup R /\ s1.tables = s.tables
        /\ s1.mappings = s.mappings /\ s1.stackPhys = s.stackPhys /\ s1.pt = s.pt
        /\ s1.split = s.split /\ Kept(s, s1)
    BY <1>0, <2>4 DEF SpaceType, Kept
  <2>7. Grown(s, s1, R, {})
    BY <2>3, <2>5, <2>6 DEF Grown, Marked
  <2>8. Core(s1)
    BY <2>6, <2>7, GrownCore
  <2>9. PICK g : g = [w \in v .. v + n - 1 |-> f + (w - v)]
    BY Zenon
  <2>10. PICK m : m = MapPages(s1, u \cup R, v, n, g)
    OBVIOUS
  <2>11. m = MapRange([s EXCEPT !.frames = @ \cup Run(f, n)], u \cup Run(f, n), v, f, n)
    BY <2>2, <2>4, <2>9, <2>10 DEF MapRange
  <2>12. \A w \in v .. v + n - 1 : g[w] = f + (w - v) /\ g[w] \in R
    BY <2>1, <2>2, <2>9, RangeEntries, Zenon
  <2>13. Marked(s1, u \cup R)
    BY <2>6 DEF Marked
  <2>14. \A i \in Private(s) : FramesOf(s.mappings[i]) \subseteq s.frames
    BY DEF Core, MappingOK, Private
  <2>15. ASSUME NEW w \in v .. v + n - 1
         PROVE  g[w] \in Frames \cup {None} /\ EntryOK(s1, w, g[w])
    <3>1. g[w] \in R
      BY <2>12
    <3>2. g[w] \notin s.frames
      BY <2>3, <3>1 DEF Marked
    <3>3. g[w] \in s1.frames \ s1.tables
      BY <2>6, <3>1, <3>2 DEF Core
    <3>4. \A i \in Private(s1) : g[w] \notin FramesOf(s1.mappings[i])
      BY <2>6, <2>14, <3>2 DEF Private
    <3> QED
      BY <2>3, <3>1, <3>3, <3>4 DEF EntryOK
  <2>16. PICK done \in 0 .. n, fresh \in SUBSET FreeFrames(u \cup R) :
           /\ m.ok <=> done = n
           /\ m.used = u \cup R \cup fresh
           /\ Wrote(s1, m.space, v, n, g, done, fresh)
    BY <2>5, <2>10, <2>15, MapPagesWrites, Zenon
  <2>17. /\ Sound(s1, u \cup R, m.space, m.used)
         /\ m.space.mappings = s1.mappings
    BY <2>8, <2>10, <2>13, <2>15, MapPagesSound
  <2>18. fresh \cap R = {} /\ fresh \subseteq FreeFrames(u)
    BY DEF FreeFrames
  <2>19. Took(s, u, m.space, m.used)
    <3>1. m.space.frames = s.frames \cup (R \cup fresh)
      BY <2>6, <2>16 DEF Wrote
    <3>2. m.used = u \cup (R \cup fresh)
      BY <2>16
    <3> QED
      BY <2>1, <2>2, <2>18, <3>1, <3>2, Zenon DEF Took
  <2>20. CASE ~m.ok
    <3>1. r = m
      BY <1>1, <1>3, <2>11, <2>20 DEF MapFresh
    <3>2. SplitOK(s) => SplitOK(s1)
      BY <2>6 DEF SplitOK
    <3> QED
      BY <2>6, <2>17, <2>19, <3>1, <3>2 DEF Sound, Kept
  <2>21. CASE m.ok
    <3>1. PICK mp : mp = Mapping(v, f, n, None)
      OBVIOUS
    <3>2. r = [m EXCEPT !.space.mappings = Append(@, mp)]
      BY <1>1, <1>3, <2>11, <2>21, <3>1 DEF MapFresh
    <3>3. PICK t : t = m.space
      OBVIOUS
    <3>4. PICK t2 : t2 = [t EXCEPT !.mappings = Append(@, mp)]
      BY Zenon
    <3>5. IsResult(m)
      BY <2>10, MapPagesResult
    <3>6. r.used = m.used /\ r.space = t2
      BY <3>2, <3>3, <3>4, <3>5 DEF IsResult
    <3>7. done = n /\ Wrote(s1, t, v, n, g, n, fresh)
      BY <2>16, <2>21, <3>3
    <3>8. mp \in MappingType
      BY <2>1, <3>1 DEF Mapping, MappingType
    <3>9. mp.vaddr = v /\ mp.len = n /\ mp.phys = f /\ mp.shm = None
      BY <3>1 DEF Mapping
    <3>10. t \in SpaceType
      BY <3>7 DEF Wrote
    <3>11. t2 \in SpaceType
      <4>1. Append(t.mappings, mp) \in Seq(MappingType)
        BY <3>8, <3>10 DEF SpaceType
      <4> QED
        BY <3>4, <3>10, <4>1, Zenon DEF SpaceType
    <3>12. /\ t2.mappings = Append(s.mappings, mp)
           /\ t2.frames = s.frames \cup (R \cup fresh) /\ t2.tables = s.tables \cup fresh
           /\ t2.stackPhys = s.stackPhys /\ t2.split = t.split /\ t2.pt = t.pt
           /\ Kept(s, t2)
      BY <2>6, <3>4, <3>7, <3>10 DEF Wrote, SpaceType, Kept
    <3>13. MappingOK(t2, mp) /\ FramesOf(mp) \cap s.frames = {}
      <4>1. v + n <= IdentityEnd
        BY <3>7 DEF Wrote
      <4>2. FramesOf(mp) = R
        BY <2>2, <3>9 DEF FramesOf
      <4>3. R \cap s.tables = {} /\ R \cap s.frames = {}
        BY <2>3 DEF Marked, Core
      <4>4. R \subseteq t2.frames \ t2.tables
        BY <2>18, <3>12, <4>3
      <4> QED
        BY <3>9, <4>1, <4>2, <4>3, <4>4 DEF MappingOK
    <3>14. Grown(s, t2, R \cup fresh, fresh)
      <4>1. (R \cup fresh) \cap s.frames = {} /\ ShmPhys \notin R \cup fresh
        BY <2>3, <2>18, FreeIsFrame DEF Marked
      <4> QED
        BY <3>8, <3>11, <3>12, <3>13, <4>1 DEF Grown
    <3>15. DOMAIN t2.mappings = 1 .. Len(s.mappings) + 1
           /\ t2.mappings[Len(s.mappings) + 1] = mp
           /\ Len(s.mappings) \in Nat /\ DOMAIN s.mappings = 1 .. Len(s.mappings)
           /\ \A i \in DOMAIN s.mappings : t2.mappings[i] = s.mappings[i]
      <4>1. s.mappings \in Seq(MappingType)
        BY <1>0 DEF SpaceType
      <4> QED
        BY <3>12, <4>1
    <3>16. ASSUME NEW w \in Pages
           PROVE  t2.pt[w] = s.pt[w] \/ EntryOK(t2, w, t2.pt[w])
      <4>1. CASE w \in v .. v + n - 1
        <5>1. t2.pt[w] = mp.phys + (w - mp.vaddr) /\ w \in PagesOf(mp)
          BY <2>12, <3>7, <3>9, <3>12, <4>1 DEF Wrote, PagesOf
        <5>2. PICK i \in DOMAIN t2.mappings : t2.mappings[i] = mp
          BY <3>15
        <5> QED
          BY <5>1, <5>2 DEF EntryOK
      <4>2. CASE w \notin v .. v + n - 1
        BY <2>6, <3>7, <3>12, <4>2 DEF Wrote
      <4> QED
        BY <4>1, <4>2
    <3>17. Core(t2)
      BY <3>14, <3>16, GrownCore
    <3>18. SplitOK(s) => SplitOK(t2)
      <4> SUFFICES ASSUME SplitOK(s), NEW i \in DOMAIN t2.mappings,
                          NEW w \in PagesOf(t2.mappings[i])
                   PROVE  BlockOf(w) \in t2.split
        BY DEF SplitOK
      <4>1. CASE i \in DOMAIN s.mappings
        BY <2>6, <3>7, <3>12, <3>15, <4>1 DEF SplitOK, Wrote
      <4>2. CASE i \notin DOMAIN s.mappings
        <5>1. t2.mappings[i] = mp
          BY <3>15, <4>2
        <5>2. w \in v .. v + n - 1
          BY <3>9, <5>1 DEF PagesOf
        <5> QED
          BY <3>7, <3>12, <5>2 DEF Wrote
      <4> QED
        BY <4>1, <4>2
    <3>19. Took(s, u, t2, m.used)
      BY <2>19, <3>3, <3>7, <3>12, <2>6, Zenon DEF Took, Wrote
    <3> QED
      BY <2>6, <3>6, <3>7, <3>12, <3>17, <3>18, <3>19 DEF Sound, Wrote
  <2> QED
    BY <2>20, <2>21
<1> QED
  BY <1>2, <1>3


\* A function on 1 .. n is a list.
LEMMA SeqOfFun ==
    ASSUME NEW M, NEW n \in Nat, NEW r \in [1 .. n -> M]
    PROVE  r \in Seq(M)
  OBVIOUS

\* r has the elements of list q that are not in S, each as often as q does: h
\* says where each of them was.
Remains(q, S, r) ==
    \E h \in [DOMAIN r -> DOMAIN q] :
        /\ \A a, b \in DOMAIN r : h[a] = h[b] => a = b
        /\ \A a \in DOMAIN r : r[a] = q[h[a]] /\ q[h[a]] \notin S
        /\ \A i \in DOMAIN q : q[i] \notin S => \E a \in DOMAIN r : h[a] = i

\* The list without the elements of S
LEMMA WithoutIs ==
    ASSUME NEW M, NEW q \in Seq(M), NEW S
    PROVE  Without(q, S) \in Seq(M) /\ Remains(q, S, Without(q, S))
<1>0. PICK r : r = Without(q, S)
  OBVIOUS
<1> DEFINE K == {i \in DOMAIN q : q[i] \notin S}
           Upto(i) == {j \in K : j <= i}
           rank == [i \in K |-> Cardinality(Upto(i))]
           nth(k) == CHOOSE i \in K : Cardinality(Upto(i)) = k
<1>1. DOMAIN q = 1 .. Len(q) /\ Len(q) \in Nat
  OBVIOUS
<1>2. K \subseteq 1 .. Len(q) /\ K \subseteq Nat
  BY <1>1
<1>3. IsFiniteSet(K)
  <2>1. IsFiniteSet(1 .. Len(q))
    BY <1>1, FS_Interval
  <2>2. K \in SUBSET (1 .. Len(q))
    BY <1>2
  <2> QED
    BY <2>1, <2>2, FS_Subset, Zenon
<1>4. PICK n \in Nat : n = Cardinality(K)
  BY <1>3, FS_CardinalityType, Zenon
<1>5. ASSUME NEW i \in K
      PROVE  IsFiniteSet(Upto(i)) /\ Cardinality(Upto(i)) \in 1 .. n
  <2>1. Upto(i) \in SUBSET K /\ i \in Upto(i)
    BY <1>2
  <2>2. IsFiniteSet(Upto(i)) /\ Cardinality(Upto(i)) <= n /\ Cardinality(Upto(i)) \in Nat
    BY <1>3, <1>4, <2>1, FS_Subset, FS_CardinalityType
  <2>3. Cardinality(Upto(i)) # 0
    BY <2>1, <2>2, FS_EmptySet, Zenon
  <2> QED
    BY <2>2, <2>3
<1>6. ASSUME NEW i \in K, NEW j \in K, i < j
      PROVE  Cardinality(Upto(i)) # Cardinality(Upto(j))
  <2>1. Upto(i) \in SUBSET Upto(j) /\ j \in Upto(j) /\ j \notin Upto(i)
    BY <1>2, <1>6
  <2>2. IsFiniteSet(Upto(j))
    BY <1>5
  <2> QED
    BY <2>1, <2>2, FS_Subset
<1>7. \A i, j \in K : Cardinality(Upto(i)) = Cardinality(Upto(j)) => i = j
  <2> SUFFICES ASSUME NEW i \in K, NEW j \in K, i # j
               PROVE  Cardinality(Upto(i)) # Cardinality(Upto(j))
    OBVIOUS
  <2>1. i < j \/ j < i
    BY <1>2
  <2> QED
    BY <1>6, <2>1
<1>8. rank \in [K -> 1 .. n] /\ \A i, j \in K : rank[i] = rank[j] => i = j
  BY <1>5, <1>7, Zenon
<1>9. \A k \in 1 .. n : \E i \in K : rank[i] = k
  <2>1. IsFiniteSet(1 .. n) /\ Cardinality(1 .. n) = n
    BY FS_Interval
  <2>2. rank \in Injection(K, 1 .. n)
    <3> HIDE DEF rank
    <3> QED
      BY <1>8, Fun_IsInj
  <2>3. rank \in Surjection(K, 1 .. n)
    <3> HIDE DEF rank
    <3> QED
      BY <1>4, <2>1, <2>2, FS_Injection
  <2> HIDE DEF rank, K
  <2> QED
    BY <2>3, Fun_SurjectionProperties, Zenon
<1>10. \A k \in 1 .. n : nth(k) \in K /\ Cardinality(Upto(nth(k))) = k
  <2> TAKE k \in 1 .. n
  <2>1. PICK i \in K : Cardinality(Upto(i)) = k
    BY <1>9, Zenon
  <2> HIDE DEF K, Upto
  <2> QED
    BY <2>1, Zenon DEF nth
<1>11. r = [k \in 1 .. n |-> q[nth(k)]]
  BY <1>0, <1>4 DEF Without
<1>12. DOMAIN r = 1 .. n /\ \A k \in 1 .. n : r[k] = q[nth(k)]
  BY <1>11
<1>13. PICK h : h = [k \in 1 .. n |-> nth(k)]
  BY Zenon
<1>14. \A k \in 1 .. n : h[k] = nth(k)
  BY <1>13, Zenon
<1> HIDE DEF nth
<1>15. h \in [DOMAIN r -> DOMAIN q]
  BY <1>10, <1>12, <1>13, Zenon
<1>16. \A a, b \in 1 .. n : h[a] = h[b] => a = b
  BY <1>10, <1>14, Zenon
<1>17. \A a \in 1 .. n : r[a] = q[h[a]] /\ q[h[a]] \notin S
  BY <1>10, <1>12, <1>14, Zenon
<1>18. ASSUME NEW i \in K
       PROVE  \E a \in 1 .. n : h[a] = i
  <2>1. PICK a \in 1 .. n : a = Cardinality(Upto(i))
    BY <1>5, Zenon
  <2>2. h[a] = i
    BY <1>7, <1>10, <1>14, <2>1, Zenon
  <2> QED
    BY <2>2
<1>19. r \in Seq(M)
  <2>1. \A i \in K : q[i] \in M
    BY <1>1
  <2>2. \A k \in 1 .. n : q[nth(k)] \in M
    BY <1>10, <2>1, Zenon
  <2>3. r \in [1 .. n -> M]
    BY <1>11, <2>2
  <2> QED
    BY <2>3, SeqOfFun
<1>20. \A i \in DOMAIN q : q[i] \notin S => i \in K
  OBVIOUS
<1>21. \A i \in DOMAIN q : q[i] \notin S => \E a \in 1 .. n : h[a] = i
  BY <1>18, <1>20
<1> HIDE DEF K, Upto
<1>22. DOMAIN r = 1 .. n
  BY <1>12
<1>23. /\ \A a, b \in DOMAIN r : h[a] = h[b] => a = b
       /\ \A a \in DOMAIN r : r[a] = q[h[a]] /\ q[h[a]] \notin S
       /\ \A i \in DOMAIN q : q[i] \notin S => \E a \in DOMAIN r : h[a] = i
  BY <1>16, <1>17, <1>21, <1>22, Zenon
<1>24. r \in Seq(M) /\ Remains(q, S, r)
  BY <1>15, <1>19, <1>23, Zenon DEF Remains
<1> QED
  BY <1>0, <1>24


==============================================================================
