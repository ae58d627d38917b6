-------------------------- MODULE AddressSpaceProofs --------------------------
(***************************************************************************)
(* IInv through the calls of a running process (brk, mmap, munmap,         *)
(* mprotect), its page faults, its exit and its reaping, and the theorems  *)
(* about frames, mappings and page tables for any number of processes,     *)
(* frames, pages and calls.                                                *)
(***************************************************************************)
EXTENDS SpawnProofs

\* A call returns with a sound process, having changed no bit of a frame that
\* is not its own.
LEMMA ReturnStep ==
    ASSUME IInv, NEW p \in Procs, NEW r, IsResult(r), ProcOK(r.space),
           r.space.frames \subseteq r.used,
           r.used \ r.space.frames = used \ space[p].frames, Return(p, r)
    PROVE  IInv'
<1>1. PICK s : s = r.space
  OBVIOUS
<1>2. ProcOK(s) /\ s \in SpaceType /\ s.heapEnd >= HeapStart * PageSize
  BY <1>1 DEF ProcOK, Core, HeapOK
<1>3. PICK t : t = [s EXCEPT !.calls = @ + 1]
  BY Zenon
<1>4. t \in SpaceType
  <2>1. PICK c \in Nat : c = s.calls + 1
    BY <1>2 DEF SpaceType
  <2>2. t = [s EXCEPT !.calls = c]
    BY <1>3, <2>1
  <2> QED
    BY <1>2, <2>2 DEF SpaceType
<1>5. /\ t.frames = s.frames /\ t.tables = s.tables /\ t.mappings = s.mappings
      /\ t.pt = s.pt /\ t.stackPhys = s.stackPhys /\ t.split = s.split
      /\ t.st = s.st /\ t.cr2 = s.cr2 /\ t.stackLow = s.stackLow
      /\ t.heapEnd = s.heapEnd
  BY <1>2, <1>3 DEF SpaceType
<1>6. ProcOK(t)
  BY <1>2, <1>4, <1>5, ProcOfFields
<1>7. [r EXCEPT !.space.calls = @ + 1].used = r.used
      /\ [r EXCEPT !.space.calls = @ + 1].space = t
  BY <1>1, <1>3 DEF IsResult
<1>8. used' = r.used /\ space' = [space EXCEPT ![p] = t]
  BY <1>7, Zenon DEF Return, Become
<1>9. t.frames \subseteq r.used /\ r.used \ t.frames = used \ space[p].frames
  BY <1>1, <1>5
<1> QED
  BY <1>6, <1>8, <1>9, InvStep, Zenon

\* A call that took free frames at most
LEMMA ReturnInv ==
    ASSUME IInv, NEW p \in Procs, NEW r, IsResult(r), ProcOK(r.space),
           Took(space[p], used, r.space, r.used), Return(p, r)
    PROVE  IInv'
<1>1. r.space.frames \subseteq r.used /\ r.used \ r.space.frames = used \ space[p].frames
  BY InvMarked, TookApart
<1> QED
  BY <1>1, ReturnStep

\* The process that makes a call
LEMMA CallerIs ==
    ASSUME IInv, NEW p \in Procs, Caller(p)
    PROVE  ProcOK(space[p]) /\ Core(space[p]) /\ space[p] \in SpaceType
           /\ Marked(space[p], used) /\ space[p].st = "live"
BY InvMarked DEF Caller, Live

\* MapFresh in a call
LEMMA FreshInCall ==
    ASSUME IInv, NEW p \in Procs, Caller(p), NEW v \in Nat, NEW n \in Nat \ {0},
           NEW r, r = MapFresh(space[p], used, v, n)
    PROVE  IsResult(r) /\ ProcOK(r.space) /\ r.space \in SpaceType
           /\ Took(space[p], used, r.space, r.used)
<1>1. Sound(space[p], used, r.space, r.used)
  BY CallerIs, MapFreshSound
<1>2. ProcOK(r.space)
  BY <1>1, CallerIs, SoundProc
<1> QED
  BY <1>1, <1>2, MapFreshResult DEF Sound, Core

\* Process::brk
LEMMA BrkInv ==
    ASSUME IInv, NEW p \in Procs, NEW requested \in Breaks, Brk(p, requested)
    PROVE  IInv'
<1>1. PICK s : s = space[p]
  OBVIOUS
<1>2. PICK H : H = HeapStart * PageSize
  OBVIOUS
<1>3. H \in Nat /\ HeapStart \in Nat /\ PageSize \in Nat /\ PageSize > 0 /\ requested \in Nat
  BY <1>2, LayoutAssumption DEF HeapStart
<1>4. Caller(p) /\ requested >= H
  BY <1>2 DEF Brk
<1>5. ProcOK(s) /\ s \in SpaceType /\ s.heapEnd >= H /\ s.heapEnd \in Nat
  BY <1>1, <1>2, <1>4, CallerIs DEF ProcOK, HeapOK, SpaceType
<1>6. PICK a \in Nat : a = s.heapEnd - H + PageSize - 1
  BY <1>3, <1>5
<1>7. PICK b \in Nat : b = requested - H + PageSize - 1
  BY <1>3, <1>4
<1>8. PICK old \in Nat : old = a \div PageSize
  BY <1>3, <1>6
<1>9. PICK new \in Nat : new = b \div PageSize
  BY <1>3, <1>7
<1>10. old = (s.heapEnd - HeapStart * PageSize + PageSize - 1) \div PageSize
       /\ new = (requested - HeapStart * PageSize + PageSize - 1) \div PageSize
  BY <1>2, <1>6, <1>7, <1>8, <1>9
<1>11. PICK r : r = MapFresh(s, used, HeapStart + old, new - old)
  OBVIOUS
<1>12. IF new <= old
       THEN Return(p, [used |-> used, space |-> [s EXCEPT !.heapEnd = requested]])
       ELSE Return(p, IF r.ok THEN [r EXCEPT !.space.heapEnd = requested] ELSE r)
  BY <1>1, <1>10, <1>11, Zenon DEF Brk
<1>13. ASSUME NEW x, ProcOK(x), x \in SpaceType
       PROVE  ProcOK([x EXCEPT !.heapEnd = requested])
              /\ [x EXCEPT !.heapEnd = requested].frames = x.frames
  <2>1. PICK t : t = [x EXCEPT !.heapEnd = requested]
    BY Zenon
  <2>2. t \in SpaceType
    BY <1>3, <1>13, <2>1, Zenon DEF SpaceType
  <2>3. /\ t.frames = x.frames /\ t.tables = x.tables /\ t.mappings = x.mappings
        /\ t.pt = x.pt /\ t.stackPhys = x.stackPhys /\ t.split = x.split
        /\ t.st = x.st /\ t.cr2 = x.cr2 /\ t.stackLow = x.stackLow
        /\ t.heapEnd = requested
    BY <1>13, <2>1 DEF SpaceType
  <2>4. ProcOK(t)
    BY <1>2, <1>4, <1>13, <2>2, <2>3, ProcOfFields
  <2> QED
    BY <2>1, <2>3, <2>4
<1>14. CASE new <= old
  <2>1. PICK q : q = [used |-> used, space |-> [s EXCEPT !.heapEnd = requested]]
    BY Zenon
  <2>2. IsResult(q) /\ q.used = used /\ q.space = [s EXCEPT !.heapEnd = requested]
    BY <2>1 DEF IsResult
  <2>3. ProcOK(q.space) /\ q.space.frames = s.frames
    BY <1>5, <1>13, <2>2
  <2>4. Took(s, used, q.space, q.used)
    BY <2>2, <2>3, TookNothing DEF Took
  <2> QED
    BY <1>1, <1>12, <1>14, <2>1, <2>2, <2>3, <2>4, ReturnInv
<1>15. CASE ~(new <= old)
  <2>1. HeapStart + old \in Nat /\ new - old \in Nat \ {0}
    BY <1>3, <1>15
  <2>2. IsResult(r) /\ ProcOK(r.space) /\ r.space \in SpaceType
        /\ Took(s, used, r.space, r.used)
    BY <1>1, <1>4, <1>11, <2>1, FreshInCall
  <2>3. CASE r.ok
    <3>1. PICK q : q = [r EXCEPT !.space.heapEnd = requested]
      BY Zenon
    <3>2. IsResult(q) /\ q.used = r.used /\ q.space = [r.space EXCEPT !.heapEnd = requested]
      BY <2>2, <3>1 DEF IsResult
    <3>3. ProcOK(q.space) /\ q.space.frames = r.space.frames
      BY <1>13, <2>2, <3>2
    <3>4. Took(s, used, q.space, q.used)
      BY <2>2, <3>2, <3>3 DEF Took
    <3>5. Return(p, q)
      BY <1>12, <1>15, <2>3, <3>1
    <3> QED
      BY <1>1, <3>2, <3>3, <3>4, <3>5, ReturnInv
  <2>4. CASE ~r.ok
    <3>1. Return(p, r)
      BY <1>12, <1>15, <2>4
    <3> QED
      BY <1>1, <2>2, <3>1, ReturnInv
  <2> QED
    BY <2>3, <2>4
<1> QED
  BY <1>14, <1>15

\* Where a mapping call puts its pages
LEMMA PlaceIs ==
    ASSUME NEW s \in SpaceType, NEW at \in FixedAt \cup {None}, NEW n \in Nat,
           Place(s, at, n) # None
    PROVE  Place(s, at, n) \in Nat
BY LayoutAssumption, Zenon DEF Place, SpaceType

\* The next free address moves, and nothing else.
LEMMA PlacedOK ==
    ASSUME NEW r, IsResult(r), ProcOK(r.space), NEW at, NEW v \in Nat, NEW n \in Nat,
           NEW q, q = Placed(r, at, v, n)
    PROVE  IsResult(q) /\ ProcOK(q.space) /\ q.used = r.used
           /\ q.space.frames = r.space.frames
<1>1. CASE q = r
  BY <1>1
<1>2. CASE q = [r EXCEPT !.space.mmapNext = v + n]
  <2>1. PICK s : s = r.space
    OBVIOUS
  <2>2. ProcOK(s) /\ s \in SpaceType /\ s.heapEnd >= HeapStart * PageSize
    BY <2>1 DEF ProcOK, Core, HeapOK
  <2>3. PICK t : t = [s EXCEPT !.mmapNext = v + n]
    BY Zenon
  <2>4. t \in SpaceType
    <3>1. PICK c \in Nat : c = v + n
      OBVIOUS
    <3>2. t = [s EXCEPT !.mmapNext = c]
      BY <2>3, <3>1
    <3> QED
      BY <2>2, <3>2, Zenon DEF SpaceType
  <2>5. /\ t.frames = s.frames /\ t.tables = s.tables /\ t.mappings = s.mappings
        /\ t.pt = s.pt /\ t.stackPhys = s.stackPhys /\ t.split = s.split
        /\ t.st = s.st /\ t.cr2 = s.cr2 /\ t.stackLow = s.stackLow
        /\ t.heapEnd = s.heapEnd
    BY <2>2, <2>3 DEF SpaceType
  <2>6. ProcOK(t)
    BY <2>2, <2>4, <2>5, ProcOfFields
  <2>7. q.used = r.used /\ q.space = t /\ IsResult(q)
    BY <1>2, <2>1, <2>3 DEF IsResult
  <2> QED
    BY <2>1, <2>5, <2>6, <2>7
<1> QED
  BY <1>1, <1>2 DEF Placed

\* mmap_anon and mmap_file
LEMMA MmapInv ==
    ASSUME IInv, NEW p \in Procs, NEW at \in FixedAt \cup {None}, NEW n \in CallLens,
           Mmap(p, at, n)
    PROVE  IInv'
<1>1. PICK v : v = Place(space[p], at, n)
  OBVIOUS
<1>2. n \in Nat \ {0}
  BY LayoutAssumption
<1>3. PICK r : r = MapFresh(space[p], used, v, n)
  OBVIOUS
<1>4. PICK q : q = Placed(r, at, v, n)
  OBVIOUS
<1>5. Caller(p) /\ v # None /\ Return(p, q)
  BY <1>1, <1>3, <1>4 DEF Mmap
<1>6. v \in Nat
  BY <1>1, <1>2, <1>5, CallerIs, PlaceIs
<1>7. IsResult(r) /\ ProcOK(r.space) /\ Took(space[p], used, r.space, r.used)
  BY <1>2, <1>3, <1>5, <1>6, FreshInCall
<1>8. IsResult(q) /\ ProcOK(q.space) /\ q.used = r.used /\ q.space.frames = r.space.frames
  BY <1>2, <1>4, <1>6, <1>7, PlacedOK
<1>9. Took(space[p], used, q.space, q.used)
  BY <1>7, <1>8 DEF Took
<1> QED
  BY <1>5, <1>8, <1>9, ReturnInv

\* mmap_shared
LEMMA MmapSharedInv ==
    ASSUME IInv, NEW p \in Procs, NEW at \in FixedAt \cup {None}, MmapShared(p, at)
    PROVE  IInv'
<1>1. PICK s : s = space[p]
  OBVIOUS
<1>2. PICK v : v = Place(s, at, 1)
  OBVIOUS
<1>3. PICK r : r = MapRange(s, used, v, ShmPhys, 1)
  OBVIOUS
<1>4. PICK mp : mp = Mapping(v, ShmPhys, 1, ShmPhys)
  OBVIOUS
<1>5. PICK pushed : pushed = [r EXCEPT !.space.mappings = Append(@, mp)]
  BY Zenon
<1>6. PICK x : x = IF r.ok THEN pushed ELSE r
  OBVIOUS
<1>7. PICK q : q = Placed(x, at, v, 1)
  OBVIOUS
<1>8. Caller(p) /\ v # None /\ Return(p, q)
  BY <1>1, <1>2, <1>3, <1>4, <1>5, <1>6, <1>7, Zenon DEF MmapShared
<1>9. ProcOK(s) /\ Core(s) /\ s \in SpaceType /\ Marked(s, used) /\ s.st = "live"
  BY <1>1, <1>8, CallerIs
<1>10. v \in Nat /\ ShmPhys \in Nat /\ ShmPhys \in Frames /\ ShmPhys # None
  BY <1>2, <1>8, <1>9, PlaceIs, LayoutAssumption, FramesAssumption
<1>11. /\ Sound(s, used, r.space, r.used) /\ IsResult(r)
       /\ r.space.mappings = s.mappings
       /\ r.ok => v + 1 <= IdentityEnd
       /\ r.ok => \A w \in v .. v + 1 - 1 : BlockOf(w) \in r.space.split
  <2>1. PICK g : g = [w \in v .. v + 1 - 1 |-> ShmPhys + (w - v)]
    BY Zenon
  <2>2. r = MapPages(s, used, v, 1, g)
    BY <1>3, <2>1 DEF MapRange
  <2>3. ASSUME NEW w \in v .. v + 1 - 1
        PROVE  g[w] \in Frames \cup {None} /\ EntryOK(s, w, g[w])
    <3>1. g[w] = ShmPhys
      BY <1>10, <2>1
    <3> QED
      BY <1>10, <3>1 DEF EntryOK
  <2> QED
    BY <1>9, <1>10, <2>2, <2>3, MapPagesSound, MapPagesResult
<1>12. ProcOK(r.space)
  BY <1>9, <1>11, SoundProc
<1>13. PICK d : d = r.space
  OBVIOUS
<1>14. ProcOK(d) /\ Core(d) /\ d \in SpaceType /\ Took(s, used, d, r.used)
  BY <1>11, <1>12, <1>13 DEF Sound, Core
<1>15. IsResult(x) /\ ProcOK(x.space) /\ x.used = r.used /\ x.space.frames = d.frames
  <2>1. CASE ~r.ok
    BY <1>6, <1>11, <1>13, <1>14, <2>1
  <2>2. CASE r.ok
    <3>1. x = pushed
      BY <1>6, <2>2
    <3>2. PICK t : t = [d EXCEPT !.mappings = Append(@, mp)]
      BY Zenon
    <3>3. x.used = r.used /\ x.space = t /\ IsResult(x)
      BY <1>5, <1>11, <1>13, <3>1, <3>2, Zenon DEF IsResult
    <3>4. mp \in MappingType
      BY <1>4, <1>10 DEF Mapping, MappingType
    <3>5. mp.vaddr = v /\ mp.len = 1 /\ mp.phys = ShmPhys /\ mp.shm = ShmPhys
      BY <1>4 DEF Mapping
    <3>6. d.mappings \in Seq(MappingType) /\ Append(d.mappings, mp) \in Seq(MappingType)
      BY <1>14, <3>4 DEF SpaceType
    <3>7. t \in SpaceType
      BY <1>14, <3>2, <3>6, Zenon DEF SpaceType
    <3>8. /\ t.frames = d.frames /\ t.tables = d.tables /\ t.mappings = Append(d.mappings, mp)
          /\ t.pt = d.pt /\ t.stackPhys = d.stackPhys /\ t.split = d.split
          /\ t.st = d.st /\ t.cr2 = d.cr2 /\ t.stackLow = d.stackLow
          /\ t.heapEnd = d.heapEnd
      BY <1>14, <3>2 DEF SpaceType
    <3>9. MappingOK(t, mp)
      BY <1>10, <1>11, <2>2, <3>5 DEF MappingOK
    <3>10. Grown(d, t, {}, {})
      BY <1>10, <3>4, <3>5, <3>7, <3>8, <3>9 DEF Grown
    <3>11. Core(t)
      BY <1>14, <3>8, <3>10, GrownCore
    <3>12. SplitOK(t)
      <4> SUFFICES ASSUME NEW i \in DOMAIN t.mappings, NEW w \in PagesOf(t.mappings[i])
                   PROVE  BlockOf(w) \in t.split
        BY DEF SplitOK
      <4>1. CASE i \in DOMAIN d.mappings
        <5>1. t.mappings[i] = d.mappings[i]
          BY <3>6, <3>8, <4>1
        <5> QED
          BY <1>14, <3>8, <4>1, <5>1 DEF SplitOK, ProcOK
      <4>2. CASE i \notin DOMAIN d.mappings
        <5>1. t.mappings[i] = mp
          BY <3>6, <3>8, <4>2
        <5>2. w \in v .. v + 1 - 1
          BY <3>5, <5>1 DEF PagesOf
        <5> QED
          BY <1>11, <1>13, <2>2, <3>8, <5>2
      <4> QED
        BY <4>1, <4>2
    <3>13. d.st # "none"
      BY <1>9, <1>11, <1>13 DEF Sound, Kept
    <3>14. StackOK(t) /\ FaultOK(t) /\ HeapOK(t)
      BY <1>14, <3>8, <3>13 DEF ProcOK, StackOK, FaultOK, HeapOK
    <3> QED
      BY <3>3, <3>8, <3>11, <3>12, <3>14 DEF ProcOK
  <2> QED
    BY <2>1, <2>2
<1>16. IsResult(q) /\ ProcOK(q.space) /\ q.used = x.used /\ q.space.frames = x.space.frames
  BY <1>7, <1>10, <1>15, PlacedOK
<1>17. Took(space[p], used, q.space, q.used)
  BY <1>1, <1>14, <1>15, <1>16 DEF Took
<1> QED
  BY <1>8, <1>16, <1>17, ReturnInv

\* translate_local gives the frame behind a page some mapping covers.
LEMMA TranslateIs ==
    ASSUME NEW s, Core(s), NEW w \in Nat, Translate(s, w, 1) # None
    PROVE  /\ w \in Pages /\ Translate(s, w, 1) \in Frames
           /\ EntryOK(s, w, Translate(s, w, 1))
           /\ \E i \in DOMAIN s.mappings : w \in PagesOf(s.mappings[i])
<1>0. s \in SpaceType /\ s.mappings \in Seq(MappingType)
  BY DEF Core, SpaceType
<1> DEFINE covers == {i \in DOMAIN s.mappings : /\ s.mappings[i].vaddr <= w
                          /\ w + 1 <= s.mappings[i].vaddr + s.mappings[i].len}
<1>1. covers # {} /\ Translate(s, w, 1) = s.mappings[Min(covers)].phys
                                           + (w - s.mappings[Min(covers)].vaddr)
  BY Zenon DEF Translate
<1>2. covers \subseteq Nat
  BY <1>0
<1>3. PICK i \in covers : i = Min(covers)
  BY <1>1, <1>2, MinIn, Zenon
<1>4. PICK m : m = s.mappings[i]
  OBVIOUS
<1>5. i \in DOMAIN s.mappings /\ m.vaddr <= w /\ w + 1 <= m.vaddr + m.len
  BY <1>3, <1>4, Zenon
<1>6. m \in MappingType /\ MappingOK(s, m)
  BY <1>0, <1>4, <1>5 DEF Core
<1>7. m.vaddr \in Nat /\ m.len \in Nat /\ m.phys \in Nat /\ m.phys \in Frames
  BY <1>6, FramesAssumption, Zenon DEF MappingType
<1>8. w \in PagesOf(m) /\ w \in Pages
  BY <1>5, <1>6, <1>7, LayoutAssumption DEF PagesOf, Pages, MappingOK
<1>9. PICK x : x = m.phys + (w - m.vaddr)
  OBVIOUS
<1>10. Translate(s, w, 1) = x
  BY <1>1, <1>3, <1>4, <1>9, Zenon
<1>11. EntryOK(s, w, x)
  BY <1>4, <1>5, <1>8, <1>9 DEF EntryOK
<1>12. x \in Frames
  <2>1. CASE m.shm = None
    <3>1. FramesOf(m) \subseteq Frames
      BY <1>0, <1>6, <2>1 DEF MappingOK, SpaceType
    <3>2. x \in FramesOf(m)
      BY <1>5, <1>7, <1>9 DEF FramesOf, Run
    <3> QED
      BY <3>1, <3>2
  <2>2. CASE m.shm # None
    <3>1. m.phys = ShmPhys /\ m.len = 1
      BY <1>6, <2>2 DEF MappingOK
    <3>2. x = m.phys
      BY <1>5, <1>7, <1>9, <3>1
    <3> QED
      BY <1>7, <3>2
  <2> QED
    BY <2>1, <2>2
<1> QED
  BY <1>4, <1>5, <1>8, <1>10, <1>11, <1>12

\* Process::mprotect
LEMMA MprotectInv ==
    ASSUME IInv, NEW p \in Procs, NEW v \in CallAt, NEW n \in CallLens, Mprotect(p, v, n)
    PROVE  IInv'
<1>0. v \in Nat /\ n \in Nat
  BY LayoutAssumption
<1>1. PICK s : s = space[p]
  OBVIOUS
<1> DEFINE C == {i \in 0 .. n : \A w \in v .. v + i - 1 : Translate(s, w, 1) # None}
<1>2. PICK k : k = Max(C)
  OBVIOUS
<1>3. PICK g : g = [w \in v .. v + k - 1 |-> Translate(s, w, 1)]
  BY Zenon
<1>4. PICK r : r = MapPages(s, used, v, k, g)
  OBVIOUS
<1>5. Caller(p) /\ k > 0 /\ Return(p, r)
  BY <1>1, <1>2, <1>3, <1>4 DEF Mprotect
<1>6. ProcOK(s) /\ Core(s) /\ s \in SpaceType /\ Marked(s, used) /\ s.st = "live"
  BY <1>1, <1>5, CallerIs
<1>7. k \in C
  <2>1. C \in SUBSET (0 .. n)
    OBVIOUS
  <2>2. 0 \in C
    BY <1>0
  <2> HIDE DEF C
  <2> QED
    BY <1>0, <1>2, <2>1, <2>2, MaxIn, Zenon
<1>8. k \in Nat \ {0} /\ \A w \in v .. v + k - 1 : Translate(s, w, 1) # None
  BY <1>0, <1>5, <1>7
<1>9. ASSUME NEW w \in v .. v + k - 1
      PROVE  g[w] \in Frames \cup {None} /\ EntryOK(s, w, g[w])
  <2>1. g[w] = Translate(s, w, 1) /\ w \in Nat
    BY <1>0, <1>3
  <2> QED
    BY <1>6, <1>8, <2>1, TranslateIs
<1>10. Sound(s, used, r.space, r.used) /\ IsResult(r)
  BY <1>0, <1>4, <1>6, <1>8, <1>9, MapPagesSound, MapPagesResult
<1>11. ProcOK(r.space) /\ Took(s, used, r.space, r.used)
  BY <1>6, <1>10, SoundProc DEF Sound
<1> QED
  BY <1>1, <1>5, <1>10, <1>11, ReturnInv


\* try_grow_stack needs no frame and succeeds wherever it is allowed to grow.
LEMMA GrowIs ==
    ASSUME NEW s, ProcOK(s), s.st = "live", NEW u, Marked(s, u), NEW v \in Nat,
           NEW r, r = TryGrowStack(s, u, v)
    PROVE  /\ IsResult(r) /\ ProcOK(r.space) /\ Took(s, u, r.space, r.used)
           /\ CanGrow(s, v) => r.ok
           /\ ~CanGrow(s, v) => r.space = s
<1>1. CASE ~CanGrow(s, v)
  <2>1. r = [ok |-> FALSE, used |-> u, space |-> s]
    BY <1>1 DEF TryGrowStack
  <2>2. r.used = u /\ r.space = s /\ IsResult(r)
    BY <2>1 DEF IsResult
  <2> QED
    BY <1>1, <2>2, TookNothing
<1>2. CASE CanGrow(s, v)
  <2>1. /\ Core(s) /\ s \in SpaceType /\ s.stackLow \in StackLimit .. StackBase /\ s.stackPhys # None
        /\ Run(s.stackPhys, StackPages) \subseteq Frames
        /\ \A w \in StackLimit .. StackTop - 1 : BlockOf(w) \in s.split
        /\ s.cr2 = None
    BY Zenon DEF ProcOK, StackOK, FaultOK, Core
  <2>2. /\ v \in StackLimit .. StackTop - 1 /\ s.stackLow - v \in Nat \ {0}
        /\ v + (s.stackLow - v) <= StackTop /\ v \in StackLimit .. StackBase
    BY <1>2, <2>1, LayoutAssumption DEF CanGrow
  <2>3. PICK n \in Nat \ {0} : n = s.stackLow - v
    BY <2>2
  <2>4. PICK m : m = MapRange(s, u, v, StackPhysFor(s, v), n)
    OBVIOUS
  <2>5. \A w \in v .. v + n - 1 : BlockOf(w) \in s.split
    BY <2>1, <2>2, <2>3, LayoutAssumption
  <2>6. Sound(s, u, m.space, m.used) /\ IsResult(m) /\ m.ok
    BY <2>1, <2>2, <2>3, <2>4, <2>5, StackRange
  <2>7. r = [m EXCEPT !.space.stackLow = v]
    BY <1>2, <2>3, <2>4, <2>6 DEF TryGrowStack
  <2>8. PICK d : d = m.space
    OBVIOUS
  <2>9. ProcOK(d) /\ Took(s, u, d, m.used) /\ Kept(s, d)
    BY <2>6, <2>8, SoundProc, Zenon DEF Sound
  <2>10. PICK t : t = [d EXCEPT !.stackLow = v]
    BY Zenon
  <2>11. d \in SpaceType /\ Core(d)
    BY <2>9 DEF ProcOK, Core
  <2>12. t \in SpaceType
    BY <2>10, <2>11 DEF SpaceType
  <2>13. /\ t.frames = d.frames /\ t.tables = d.tables /\ t.mappings = d.mappings
         /\ t.pt = d.pt /\ t.stackPhys = d.stackPhys /\ t.split = d.split
         /\ t.st = d.st /\ t.cr2 = d.cr2 /\ t.stackLow = v
         /\ t.heapEnd = d.heapEnd
    BY <2>10, <2>11 DEF SpaceType
  <2>14. Core(t)
    BY <2>11, <2>12, <2>13, CoreOfFields
  <2>15. SplitOK(t) /\ HeapOK(t)
    BY <2>9, <2>13 DEF ProcOK, SplitOK, HeapOK
  <2>16. FaultOK(t)
    BY <2>1, <2>9, <2>13 DEF FaultOK, Kept
  <2>17. StackOK(t)
    BY <2>2, <2>9, <2>13, Zenon DEF ProcOK, StackOK
  <2>18. ProcOK(t)
    BY <2>14, <2>15, <2>16, <2>17 DEF ProcOK
  <2>19. r.used = m.used /\ r.space = t /\ IsResult(r)
    BY <2>6, <2>7, <2>8, <2>10 DEF IsResult
  <2>20. r.ok
    <3>0. "ok" \in DOMAIN m
      BY <2>4 DEF MapRange, MapPages
    <3>1. r.ok = m.ok
      BY <2>7, <3>0
    <3> QED
      BY <2>6, <3>1
  <2>21. Took(s, u, t, m.used)
    BY <2>9, <2>13 DEF Took
  <2> QED
    BY <1>2, <2>18, <2>19, <2>20, <2>21
<1> QED
  BY <1>1, <1>2

\* resolve_syscall_ptr
LEMMA ResolveInv ==
    ASSUME IInv, NEW p \in Procs, NEW v \in CallAt, NEW n, ResolveSyscallPtr(p, v, n)
    PROVE  IInv'
<1>1. PICK r : r = TryGrowStack(space[p], used, v)
  OBVIOUS
<1>2. ProcOK(space[p]) /\ space[p].st = "live" /\ Marked(space[p], used) /\ v \in Nat
  BY InvMarked, LayoutAssumption DEF ResolveSyscallPtr, Live
<1>3. ProcOK(r.space) /\ Took(space[p], used, r.space, r.used)
  BY <1>1, <1>2, GrowIs
<1>4. used' = r.used /\ space' = [space EXCEPT ![p] = r.space]
  BY <1>1 DEF ResolveSyscallPtr, Become
<1> QED
  BY <1>3, <1>4, TakeStep, Zenon

\* A process that ends stays sound until it is reaped.
LEMMA ExitedProc ==
    ASSUME NEW s, ProcOK(s), s.st = "live", NEW c \in Nat \cup {None}, NEW t \in SpaceType,
           c # None => ~(c >= StackLimit /\ c < s.stackLow),
           t.frames = s.frames, t.tables = s.tables, t.mappings = s.mappings,
           t.pt = s.pt, t.stackPhys = s.stackPhys, t.split = s.split,
           t.st = "exited", t.cr2 = c, t.stackLow = s.stackLow, t.heapEnd = s.heapEnd
    PROVE  ProcOK(t)
<1>1. Core(t)
  BY CoreOfFields DEF ProcOK
<1>2. SplitOK(t) /\ FaultOK(t) /\ HeapOK(t)
  BY DEF ProcOK, SplitOK, FaultOK, HeapOK
<1>3. StackOK(t)
  BY DEF ProcOK, StackOK
<1> QED
  BY <1>1, <1>2, <1>3 DEF ProcOK

\* page_fault
LEMMA PageFaultInv ==
    ASSUME IInv, NEW p \in Procs, NEW v \in CallAt, PageFault(p, v)
    PROVE  IInv'
<1>1. PICK r : r = TryGrowStack(space[p], used, v)
  OBVIOUS
<1>2. PICK s : s = space[p]
  OBVIOUS
<1>3. ProcOK(s) /\ s \in SpaceType /\ s.st = "live" /\ Marked(s, used) /\ v \in Nat
  BY <1>2, InvMarked, LayoutAssumption DEF PageFault, Live
<1>4. /\ IsResult(r) /\ ProcOK(r.space) /\ Took(s, used, r.space, r.used)
      /\ CanGrow(s, v) => r.ok
      /\ ~CanGrow(s, v) => r.space = s
  BY <1>1, <1>2, <1>3, GrowIs
<1>5. CASE r.ok
  <2>1. used' = r.used /\ space' = [space EXCEPT ![p] = r.space]
    BY <1>1, <1>5 DEF PageFault, Become
  <2> QED
    BY <1>2, <1>4, <2>1, TakeStep, Zenon
<1>6. CASE ~r.ok
  <2>1. PICK q : q = [r EXCEPT !.space.st = "exited", !.space.cr2 = v]
    OBVIOUS
  <2>2. used' = q.used /\ space' = [space EXCEPT ![p] = q.space]
    BY <1>1, <1>6, <2>1 DEF PageFault, Become
  <2>3. r.space = s /\ ~CanGrow(s, v)
    BY <1>4, <1>6
  <2>4. PICK t : t = [s EXCEPT !.st = "exited", !.cr2 = v]
    OBVIOUS
  <2>5. q.used = r.used /\ q.space = t
    BY <1>4, <2>1, <2>3, <2>4 DEF IsResult
  <2>6. t \in SpaceType
    BY <1>3, <2>4, Zenon DEF SpaceType
  <2>7. /\ t.frames = s.frames /\ t.tables = s.tables /\ t.mappings = s.mappings
        /\ t.pt = s.pt /\ t.stackPhys = s.stackPhys /\ t.split = s.split
        /\ t.st = "exited" /\ t.cr2 = v /\ t.stackLow = s.stackLow
        /\ t.heapEnd = s.heapEnd
    BY <1>3, <2>4 DEF SpaceType
  <2>8. ProcOK(t)
    BY <1>3, <2>3, <2>6, <2>7, ExitedProc DEF CanGrow
  <2>9. Took(s, used, t, r.used)
    BY <1>4, <2>3, <2>7 DEF Took
  <2> QED
    BY <1>2, <2>2, <2>5, <2>8, <2>9, TakeStep, Zenon
<1> QED
  BY <1>5, <1>6

\* exit_self
LEMMA ExitInv ==
    ASSUME IInv, NEW p \in Procs, ExitSelf(p)
    PROVE  IInv'
<1>1. PICK s : s = space[p]
  OBVIOUS
<1>2. ProcOK(s) /\ s \in SpaceType /\ s.st = "live"
  BY <1>1, InvMarked DEF ExitSelf, Live
<1>3. PICK t : t = [s EXCEPT !.st = "exited"]
  BY Zenon
<1>4. used' = used /\ space' = [space EXCEPT ![p] = t]
  BY <1>1, <1>3 DEF ExitSelf, IInv
<1>5. t \in SpaceType
  BY <1>2, <1>3 DEF SpaceType
<1>6. /\ t.frames = s.frames /\ t.tables = s.tables /\ t.mappings = s.mappings
      /\ t.pt = s.pt /\ t.stackPhys = s.stackPhys /\ t.split = s.split
      /\ t.st = "exited" /\ t.cr2 = s.cr2 /\ t.stackLow = s.stackLow
      /\ t.heapEnd = s.heapEnd
  BY <1>2, <1>3 DEF SpaceType
<1>7. s.cr2 = None
  BY <1>2 DEF ProcOK, FaultOK
<1>8. ProcOK(t)
  BY <1>2, <1>5, <1>6, <1>7, ExitedProc, Zenon
<1>9. Took(s, used, t, used)
  BY <1>6, TookNothing DEF Took
<1> QED
  BY <1>1, <1>4, <1>8, <1>9, TakeStep, Zenon

\* reap
LEMMA ReapInv ==
    ASSUME IInv, NEW p \in Procs, Reap(p)
    PROVE  IInv'
<1>1. PICK r : r = [used |-> used, space |-> space[p]]
  BY Zenon
<1>2. r.used = used /\ r.space = space[p]
  BY <1>1
<1>3. r.space.calls \in Nat
  BY <1>2, InvMarked DEF SpaceType
<1>4. Took(space[p], used, r.space, r.used)
  BY <1>2, TookNothing
<1>5. FreeProcess(p, r)
  BY <1>1 DEF Reap
<1> QED
  BY <1>3, <1>4, <1>5, FreeProcessInv

\* Process::munmap
LEMMA MunmapInv ==
    ASSUME IInv, NEW p \in Procs, NEW v \in CallAt, NEW n \in CallLens, Munmap(p, v, n)
    PROVE  IInv'
<1>1. PICK s : s = space[p]
  OBVIOUS
<1>2. PICK gone : gone = {m \in Range(s.mappings) : Within(m, v, n)}
  BY Zenon
<1>3. PICK cleared : cleared = UNION {PagesOf(m) : m \in gone}
  BY Zenon
<1>4. PICK freed : freed = UNION {Run(m.phys, m.len) : m \in {x \in gone : x.shm = None}}
  BY Zenon
<1>5. PICK whole : whole = {BlockOf(w) : w \in cleared} \ s.split
  BY Zenon
<1>6. PICK strays : strays = LowestFree(used, Cardinality(whole))
  OBVIOUS
<1>7. PICK pt : pt = [w \in Pages |-> IF w \in cleared THEN None ELSE s.pt[w]]
  BY Zenon
<1>8. PICK left : left = Without(s.mappings, gone)
  OBVIOUS
<1>9. PICK t : t = [s EXCEPT !.split = @ \cup whole, !.pt = pt, !.frames = @ \ freed,
                             !.mappings = left]
  OBVIOUS
<1>10. PICK r : r = [used |-> FrameFree(used \cup strays, freed), space |-> t]
  BY Zenon
<1>11. Caller(p) /\ Return(p, r)
  <2>1. t = [s EXCEPT !.split    = @ \cup whole,
               !.pt       = [w \in Pages |-> IF w \in cleared THEN None ELSE @[w]],
               !.frames   = @ \ freed,
               !.mappings = Without(@, gone)]
    BY <1>7, <1>8, <1>9, Zenon
  <2> QED
    BY <1>1, <1>2, <1>3, <1>4, <1>5, <1>6, <1>10, <2>1, Zenon DEF Munmap
<1>12. ProcOK(s) /\ Core(s) /\ s \in SpaceType /\ Marked(s, used) /\ s.st = "live"
  BY <1>1, <1>11, CallerIs
<1>13. s.mappings \in Seq(MappingType) /\ s.pt \in [Pages -> Frames \cup {None}]
       /\ s.frames \subseteq Frames
  BY <1>12 DEF SpaceType
<1>14. \A m \in gone : \E i \in DOMAIN s.mappings : m = s.mappings[i]
  BY <1>2 DEF Range
<1>15. whole = {}
  BY <1>3, <1>5, <1>12, <1>14 DEF ProcOK, SplitOK
<1>16. strays = {}
  <2>1. Cardinality(whole) = 0
    BY <1>15, FS_EmptySet
  <2> QED
    BY <1>6, <2>1, LowestFreeNone
<1>17. freed \subseteq s.frames \ s.tables
  <2> SUFFICES ASSUME NEW f \in freed PROVE f \in s.frames \ s.tables
    OBVIOUS
  <2>1. PICK m \in gone : m.shm = None /\ f \in Run(m.phys, m.len)
    BY <1>4
  <2>2. PICK i \in DOMAIN s.mappings : m = s.mappings[i]
    BY <1>14
  <2>3. MappingOK(s, s.mappings[i])
    BY <1>12 DEF Core
  <2> QED
    BY <2>1, <2>2, <2>3 DEF MappingOK, FramesOf
<1>18. left \in Seq(MappingType) /\ Remains(s.mappings, gone, left)
  BY <1>8, <1>13, WithoutIs
<1>19. PICK h \in [DOMAIN left -> DOMAIN s.mappings] :
            /\ \A a, b \in DOMAIN left : h[a] = h[b] => a = b
            /\ \A a \in DOMAIN left : left[a] = s.mappings[h[a]] /\ s.mappings[h[a]] \notin gone
            /\ \A i \in DOMAIN s.mappings :
                  s.mappings[i] \notin gone => \E a \in DOMAIN left : h[a] = i
  BY <1>18 DEF Remains
<1>20. t \in SpaceType
  <2>1. pt \in [Pages -> Frames \cup {None}]
    BY <1>7, <1>13
  <2>2. s.frames \ freed \subseteq Frames
    BY <1>13
  <2> QED
    BY <1>9, <1>12, <1>15, <1>18, <2>1, <2>2, Zenon DEF SpaceType
<1>21. /\ t.frames = s.frames \ freed /\ t.tables = s.tables /\ t.mappings = left
       /\ t.pt = pt /\ t.stackPhys = s.stackPhys /\ t.split = s.split
       /\ t.st = s.st /\ t.cr2 = s.cr2 /\ t.stackLow = s.stackLow
       /\ t.heapEnd = s.heapEnd
  BY <1>9, <1>12, <1>15 DEF SpaceType
<1>22. ASSUME NEW a \in DOMAIN left, left[a].shm = None
       PROVE  FramesOf(left[a]) \cap freed = {}
  <2> SUFFICES ASSUME NEW f \in freed, f \in FramesOf(left[a]) PROVE FALSE
    OBVIOUS
  <2>1. PICK m \in gone : m.shm = None /\ f \in Run(m.phys, m.len)
    BY <1>4
  <2>2. PICK i \in DOMAIN s.mappings : m = s.mappings[i]
    BY <1>14
  <2>3. h[a] \in DOMAIN s.mappings /\ left[a] = s.mappings[h[a]] /\ h[a] # i
    BY <1>19, <2>2
  <2>4. i \in Private(s) /\ h[a] \in Private(s)
    BY <1>22, <2>1, <2>2, <2>3 DEF Private
  <2>5. FramesOf(s.mappings[i]) \cap FramesOf(s.mappings[h[a]]) = {}
    BY <1>12, <2>3, <2>4, Zenon DEF Core, FramesApart
  <2>6. f \in FramesOf(s.mappings[i])
    BY <2>1, <2>2 DEF FramesOf
  <2> QED
    BY <2>3, <2>5, <2>6
<1>23. ASSUME NEW a \in DOMAIN left
       PROVE  MappingOK(t, left[a])
  <2>1. h[a] \in DOMAIN s.mappings /\ left[a] = s.mappings[h[a]]
    BY <1>19
  <2>2. MappingOK(s, left[a])
    BY <1>12, <2>1 DEF Core
  <2> QED
    BY <1>21, <1>22, <2>2 DEF MappingOK
<1>24. ASSUME NEW a \in Private(t), NEW b \in Private(t), a # b
       PROVE  FramesOf(left[a]) \cap FramesOf(left[b]) = {}
  <2>1. a \in DOMAIN left /\ b \in DOMAIN left /\ left[a].shm = None /\ left[b].shm = None
    BY <1>21 DEF Private
  <2>2. /\ h[a] \in DOMAIN s.mappings /\ left[a] = s.mappings[h[a]]
        /\ h[b] \in DOMAIN s.mappings /\ left[b] = s.mappings[h[b]]
        /\ h[a] # h[b]
    BY <1>19, <1>24, <2>1
  <2>3. h[a] \in Private(s) /\ h[b] \in Private(s)
    BY <2>1, <2>2 DEF Private
  <2> QED
    BY <1>12, <2>2, <2>3 DEF Core, FramesApart
<1>25. ASSUME NEW w \in Pages
       PROVE  EntryOK(t, w, t.pt[w])
  <2>1. CASE w \in cleared
    BY <1>7, <1>21, <2>1 DEF EntryOK
  <2>2. CASE w \notin cleared
    <3>1. PICK x : x = s.pt[w]
      OBVIOUS
    <3>2. t.pt[w] = x
      BY <1>7, <1>21, <2>2, <3>1
    <3>3. EntryOK(s, w, x)
      BY <1>12, <3>1 DEF Core
    <3>4. CASE x = None \/ x = ShmPhys
      BY <3>2, <3>4 DEF EntryOK
    <3>5. ASSUME NEW i \in DOMAIN s.mappings, w \in PagesOf(s.mappings[i]),
                 x = s.mappings[i].phys + (w - s.mappings[i].vaddr)
          PROVE  EntryOK(t, w, x)
      <4>1. s.mappings[i] \notin gone
        BY <1>3, <2>2, <3>5
      <4>2. PICK a \in DOMAIN left : h[a] = i
        BY <1>19, <4>1
      <4>3. left[a] = s.mappings[i]
        BY <1>19, <4>2
      <4> QED
        BY <1>21, <3>5, <4>3 DEF EntryOK
    <3>6. CASE /\ x \in s.frames \ s.tables
               /\ \A i \in Private(s) : x \notin FramesOf(s.mappings[i])
      <4>1. ASSUME x \in freed PROVE FALSE
        <5>1. PICK m \in gone : m.shm = None /\ x \in Run(m.phys, m.len)
          BY <1>4, <4>1
        <5>2. PICK i \in DOMAIN s.mappings : m = s.mappings[i]
          BY <1>14
        <5>3. i \in Private(s) /\ x \in FramesOf(s.mappings[i])
          BY <5>1, <5>2 DEF Private, FramesOf
        <5> QED
          BY <3>6, <5>3
      <4>2. x \in t.frames \ t.tables
        BY <1>21, <3>6, <4>1
      <4>3. ASSUME NEW a \in Private(t)
            PROVE  x \notin FramesOf(t.mappings[a])
        <5>1. a \in DOMAIN left /\ left[a].shm = None
          BY <1>21 DEF Private
        <5>2. h[a] \in Private(s) /\ left[a] = s.mappings[h[a]]
          BY <1>19, <5>1 DEF Private
        <5> QED
          BY <1>21, <3>6, <5>2
      <4> QED
        BY <3>2, <4>2, <4>3 DEF EntryOK
    <3>7. CASE /\ s.stackPhys # None /\ w \in StackLimit .. StackTop - 1
               /\ x = StackPhysFor(s, w)
      BY <1>21, <3>2, <3>7 DEF EntryOK, StackPhysFor
    <3> QED
      BY <3>2, <3>3, <3>4, <3>5, <3>6, <3>7, Zenon DEF EntryOK
  <2> QED
    BY <2>1, <2>2
<1>26. Core(t)
  <2>1. t.tables \subseteq t.frames /\ ShmPhys \notin t.frames
    BY <1>12, <1>17, <1>21, Zenon DEF Core
  <2>2. FramesApart(t)
    BY <1>21, <1>24 DEF FramesApart
  <2> QED
    BY <1>20, <1>21, <1>23, <1>25, <2>1, <2>2, Zenon DEF Core
<1>27. SplitOK(t)
  <2> SUFFICES ASSUME NEW a \in DOMAIN left, NEW w \in PagesOf(left[a])
               PROVE  BlockOf(w) \in s.split
    BY <1>21 DEF SplitOK
  <2>1. h[a] \in DOMAIN s.mappings /\ left[a] = s.mappings[h[a]]
    BY <1>19
  <2> QED
    BY <1>12, <2>1 DEF ProcOK, SplitOK
<1>28. StackOK(t) /\ FaultOK(t) /\ HeapOK(t)
  BY <1>12, <1>21, Zenon DEF ProcOK, StackOK, FaultOK, HeapOK
<1>29. ProcOK(t)
  BY <1>26, <1>27, <1>28 DEF ProcOK
<1>30. r.used = used \ freed /\ r.space = t /\ IsResult(r)
  BY <1>10, <1>16, Zenon DEF FrameFree, IsResult
<1>31. t.frames \subseteq r.used /\ r.used \ t.frames = used \ s.frames
  BY <1>12, <1>17, <1>21, <1>30 DEF Marked
<1> QED
  BY <1>1, <1>11, <1>29, <1>30, <1>31, ReturnStep

\* The invariant holds at boot.
LEMMA InitInv == Init => IInv
<1> SUFFICES ASSUME Init PROVE IInv
  OBVIOUS
<1>1. PICK t : t = [Fresh EXCEPT !.calls = 0]
  BY Zenon
<1>2. t = Fresh
  BY <1>1, Zenon DEF Fresh
<1>3. ProcOK(t) /\ t.frames = {}
  BY <1>1, FreshOK
<1>4. t \in SpaceType
  BY <1>3 DEF ProcOK, Core
<1>5. \A p \in Procs : space[p] = t
  BY <1>2 DEF Init
<1>6. space \in [Procs -> SpaceType]
  BY <1>2, <1>4 DEF Init
<1>7. FramesExact
  BY <1>3, <1>5 DEF Init, FramesExact
<1> QED
  BY <1>3, <1>5, <1>6, <1>7 DEF IInv

\* Every step keeps the invariant.
LEMMA NextInv == IInv /\ [Next]_vars => IInv'
<1> SUFFICES ASSUME IInv, [Next]_vars PROVE IInv'
  OBVIOUS
<1>1. CASE UNCHANGED vars
  BY <1>1 DEF vars, IInv, FramesExact
<1>2. ASSUME NEW p \in Procs, Spawn(p) PROVE IInv'
  BY <1>2, BuildInv, LoadSegmentsInv, SetupStackInv DEF Spawn
<1>3. ASSUME NEW p \in Procs, Call(p) PROVE IInv'
  <2>1. ASSUME NEW b \in Breaks, Brk(p, b) PROVE IInv'
    BY <2>1, BrkInv
  <2>2. ASSUME NEW at \in FixedAt \cup {None}, MmapShared(p, at) PROVE IInv'
    BY <2>2, MmapSharedInv
  <2>3. ASSUME NEW at \in FixedAt \cup {None}, NEW n \in CallLens, Mmap(p, at, n) PROVE IInv'
    BY <2>3, MmapInv
  <2>4. ASSUME NEW v \in CallAt, NEW n \in CallLens,
               Munmap(p, v, n) \/ Mprotect(p, v, n) \/ ResolveSyscallPtr(p, v, n)
        PROVE  IInv'
    BY <2>4, MunmapInv, MprotectInv, ResolveInv
  <2> QED
    BY <1>3, <2>1, <2>2, <2>3, <2>4 DEF Call
<1>4. ASSUME NEW p \in Procs, ExitSelf(p) \/ Reap(p) PROVE IInv'
  BY <1>4, ExitInv, ReapInv
<1>5. ASSUME NEW p \in Procs, NEW v \in CallAt, PageFault(p, v) PROVE IInv'
  BY <1>5, PageFaultInv
<1> QED
  BY <1>1, <1>2, <1>3, <1>4, <1>5 DEF Next

\* IInv is an invariant of the specification.
THEOREM Invariance == Spec => []IInv
BY InitInv, NextInv, PTL DEF Spec

\* The bitmap of the frame allocator is exact for any number of processes,
\* frames and calls: no frame is lost, shared or freed twice.
THEOREM FramesExactThm == Spec => []FramesExact
<1>1. IInv => FramesExact
  BY DEF IInv
<1> QED
  BY <1>1, Invariance, PTL

\* The frames behind a process's private mappings are its own, and no two of
\* its mappings share one, after any sequence of brk, mmap, munmap, mprotect
\* and stack growth, successful or failed half way.
THEOREM MappingsOwnedThm == Spec => []MappingsOwned
<1>1. IInv => MappingsOwned
  <2> SUFFICES ASSUME IInv, NEW p \in Procs
               PROVE  LET s == space[p] IN
        /\ \A m \in Range(s.mappings) : m.shm = None =>
              Run(m.phys, m.len) \subseteq s.frames \ s.tables
        /\ \A i, j \in DOMAIN s.mappings :
              i # j /\ s.mappings[i].shm = None /\ s.mappings[j].shm = None =>
              Run(s.mappings[i].phys, s.mappings[i].len)
                \cap Run(s.mappings[j].phys, s.mappings[j].len) = {}
    BY Zenon DEF MappingsOwned
  <2>1. PICK s : s = space[p]
    OBVIOUS
  <2>2. Core(s)
    BY <2>1, InvMarked
  <2>3. \A m \in Range(s.mappings) : m.shm = None =>
              Run(m.phys, m.len) \subseteq s.frames \ s.tables
    BY <2>2, Zenon DEF Core, MappingOK, FramesOf, Range
  <2>4. \A i, j \in DOMAIN s.mappings :
              i # j /\ s.mappings[i].shm = None /\ s.mappings[j].shm = None =>
              Run(s.mappings[i].phys, s.mappings[i].len)
                \cap Run(s.mappings[j].phys, s.mappings[j].len) = {}
    BY <2>2 DEF Core, FramesApart, Private, FramesOf
  <2> QED
    BY <2>1, <2>3, <2>4, Zenon
<1> QED
  BY <1>1, Invariance, PTL

\* What the page tables of a process let ring 3 reach is its own frames and
\* the shared object, also after mappings were removed and frames reused, as
\* long as its stack mapping is in place.
THEOREM ReachesOwnFramesThm == Spec => []ReachesOwnFrames
<1>1. IInv => ReachesOwnFrames
  <2> SUFFICES ASSUME IInv, NEW p \in Procs, Live(p), StackMapped(space[p]), NEW w \in Pages
               PROVE  space[p].pt[w] \in
                        (space[p].frames \ space[p].tables) \cup {ShmPhys, None}
    BY DEF ReachesOwnFrames
  <2>1. PICK s : s = space[p]
    OBVIOUS
  <2>2. Core(s) /\ s \in SpaceType
    BY <2>1, InvMarked
  <2>3. PICK x : x = s.pt[w]
    OBVIOUS
  <2>4. EntryOK(s, w, x)
    BY <2>2, <2>3 DEF Core
  <2>5. ASSUME NEW i \in DOMAIN s.mappings, w \in PagesOf(s.mappings[i]),
               x = s.mappings[i].phys + (w - s.mappings[i].vaddr)
        PROVE  x \in (s.frames \ s.tables) \cup {ShmPhys}
    <3>1. PICK m : m = s.mappings[i]
      OBVIOUS
    <3>2. m \in MappingType /\ MappingOK(s, m)
      BY <2>2, <3>1 DEF Core, SpaceType
    <3>3. m.vaddr \in Nat /\ m.len \in Nat /\ m.phys \in Nat
      BY <3>2, FramesAssumption, Zenon DEF MappingType
    <3>4. w \in m.vaddr .. m.vaddr + m.len - 1 /\ x = m.phys + (w - m.vaddr)
      BY <2>5, <3>1 DEF PagesOf
    <3>5. CASE m.shm = None
      <4>1. x \in FramesOf(m)
        BY <3>3, <3>4 DEF FramesOf, Run
      <4> QED
        BY <3>2, <3>5, <4>1 DEF MappingOK
    <3>6. CASE m.shm # None
      <4>1. m.phys = ShmPhys /\ m.len = 1
        BY <3>2, <3>6 DEF MappingOK
      <4>2. x = m.phys
        BY <3>3, <3>4, <4>1
      <4> QED
        BY <4>1, <4>2
    <3> QED
      BY <3>5, <3>6
  <2>6. ASSUME s.stackPhys # None, w \in StackLimit .. StackTop - 1, x = StackPhysFor(s, w)
        PROVE  x \in s.frames \ s.tables
    <3>1. PICK i \in DOMAIN s.mappings :
             s.mappings[i] = Mapping(StackLimit, s.stackPhys, StackPages, None)
      BY <2>1 DEF StackMapped, Range
    <3>2. PICK m : m = s.mappings[i]
      OBVIOUS
    <3>3. m.vaddr = StackLimit /\ m.phys = s.stackPhys /\ m.len = StackPages /\ m.shm = None
      BY <3>1, <3>2 DEF Mapping
    <3>4. FramesOf(m) \subseteq s.frames \ s.tables
      BY <2>2, <3>2, <3>3 DEF Core, MappingOK
    <3>5. s.stackPhys \in Nat
      BY <2>2, <2>6, FramesAssumption, Zenon DEF SpaceType
    <3>6. x \in FramesOf(m)
      BY <2>6, <3>3, <3>5, LayoutAssumption DEF FramesOf, Run, StackPhysFor, StackPages
    <3> QED
      BY <3>4, <3>6
  <2>7. x \in (s.frames \ s.tables) \cup {ShmPhys, None}
    BY <2>4, <2>5, <2>6 DEF EntryOK
  <2> QED
    BY <2>1, <2>3, <2>7
<1> QED
  BY <1>1, Invariance, PTL

\* A fault in the growth region of the stack is always resolved: the frames
\* were reserved by init_stack_backing, and the block has its page table.
THEOREM GrowthNeverFatalThm == Spec => []GrowthNeverFatal
<1>1. IInv => GrowthNeverFatal
  BY DEF IInv, ProcOK, FaultOK, GrowthNeverFatal
<1> QED
  BY <1>1, Invariance, PTL
==============================================================================

