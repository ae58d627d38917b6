----------------------------- MODULE SpawnProofs -----------------------------
(***************************************************************************)
(* IInv through the phases of spawn (build_address_space, load_segments,   *)
(* the stack set-up, free_process on failure), with the lemmas that reduce *)
(* a step of one process to what it does to that process and the bitmap.   *)
(***************************************************************************)
EXTENDS MappingProofs

------------------------------------------------------------------------------
(* Steps.                                                                    *)

\* Fields that have no part in it can be set freely.
LEMMA CoreOfFields ==
    ASSUME NEW s, Core(s), NEW t \in SpaceType,
           t.frames = s.frames, t.tables = s.tables, t.mappings = s.mappings,
           t.pt = s.pt, t.stackPhys = s.stackPhys
    PROVE  Core(t)
<1>1. Grown(s, t, {}, {})
  BY DEF Grown
<1> QED
  BY <1>1, GrownCore

\* A process changes and takes part of the free frames, or gives back part of
\* its own: the others are not concerned.
LEMMA InvStep ==
    ASSUME IInv, NEW p \in Procs, NEW t, NEW u2, ProcOK(t),
           t.frames \subseteq u2, u2 \ t.frames = used \ space[p].frames,
           used' = u2, space' = [space EXCEPT ![p] = t]
    PROVE  IInv'
<1>1. t \in SpaceType /\ ShmPhys \notin t.frames
  BY DEF ProcOK, Core
<1>2. space' \in [Procs -> SpaceType] /\ space'[p] = t
      /\ \A q \in Procs : q # p => space'[q] = space[q]
  BY <1>1 DEF IInv
<1>3. \A q \in Procs : ProcOK(space'[q])
  BY <1>2 DEF IInv
<1>4. FramesExact'
  <2>1. FramesExact
    BY DEF IInv
  <2>2. \A q \in Procs : space[q].frames \subseteq used
    BY <2>1 DEF FramesExact
  <2>3. ASSUME NEW q \in Procs, q # p
        PROVE  space[q].frames \cap t.frames = {} /\ space[q].frames \subseteq u2
    <3>1. space[q].frames \cap space[p].frames = {}
      BY <2>1, <2>3 DEF FramesExact
    <3> QED
      BY <2>2, <3>1
  <2>4. \A a, b \in Procs : a # b => space'[a].frames \cap space'[b].frames = {}
    <3> SUFFICES ASSUME NEW a \in Procs, NEW b \in Procs, a # b
                 PROVE  space'[a].frames \cap space'[b].frames = {}
      OBVIOUS
    <3>1. CASE a = p
      BY <1>2, <2>3, <3>1
    <3>2. CASE b = p
      BY <1>2, <2>3, <3>2
    <3>3. CASE a # p /\ b # p
      BY <1>2, <2>1, <3>3 DEF FramesExact
    <3> QED
      BY <3>1, <3>2, <3>3
  <2>5. ShmPhys \in used /\ ShmPhys \notin space[p].frames
    BY <2>1 DEF FramesExact
  <2>6. u2 \subseteq {ShmPhys} \cup UNION {space'[q].frames : q \in Procs}
    <3> SUFFICES ASSUME NEW f \in u2, f # ShmPhys
                 PROVE  \E q \in Procs : f \in space'[q].frames
      OBVIOUS
    <3>1. CASE f \in t.frames
      BY <1>2, <3>1
    <3>2. CASE f \notin t.frames
      <4>1. f \in used \ space[p].frames
        BY <3>2
      <4>2. PICK q \in Procs : f \in space[q].frames
        BY <2>1, <4>1 DEF FramesExact
      <4>3. q # p
        BY <4>1, <4>2
      <4> QED
        BY <1>2, <4>2, <4>3
    <3> QED
      BY <3>1, <3>2
  <2>7. {ShmPhys} \cup UNION {space'[q].frames : q \in Procs} \subseteq u2
    <3>1. \A q \in Procs : space'[q].frames \subseteq u2
      BY <1>2, <2>3
    <3>2. ShmPhys \in u2
      BY <2>5
    <3> QED
      BY <3>1, <3>2
  <2>8. \A q \in Procs : ShmPhys \notin space'[q].frames
    BY <1>1, <1>2, <2>1 DEF FramesExact
  <2> QED
    BY <2>4, <2>6, <2>7, <2>8 DEF FramesExact
<1> QED
  BY <1>2, <1>3, <1>4 DEF IInv

\* What the bitmap holds for a process.
LEMMA InvMarked ==
    ASSUME IInv, NEW p \in Procs
    PROVE  ProcOK(space[p]) /\ Core(space[p]) /\ space[p] \in SpaceType
           /\ Marked(space[p], used)
BY DEF IInv, ProcOK, Core, Marked, FramesExact

\* Taking free frames leaves the rest of the bitmap alone.
LEMMA TookApart ==
    ASSUME NEW s, NEW u, NEW t, NEW u2, Marked(s, u), Took(s, u, t, u2)
    PROVE  t.frames \subseteq u2 /\ u2 \ t.frames = u \ s.frames
BY DEF Took, Marked, FreeFrames

\* A step that takes free frames
LEMMA TakeStep ==
    ASSUME IInv, NEW p \in Procs, NEW t, NEW u2, ProcOK(t), Took(space[p], used, t, u2),
           used' = u2, space' = [space EXCEPT ![p] = t]
    PROVE  IInv'
<1>1. t.frames \subseteq u2 /\ u2 \ t.frames = used \ space[p].frames
  BY InvMarked, TookApart
<1> QED
  BY <1>1, InvStep, Zenon

\* A process that has just been made is sound.
LEMMA FreshOK ==
    ASSUME NEW c \in Nat
    PROVE  ProcOK([Fresh EXCEPT !.calls = c]) /\ [Fresh EXCEPT !.calls = c].frames = {}
<1> PICK t : t = [Fresh EXCEPT !.calls = c]
  BY Zenon
<1>0. HeapStart * PageSize \in Nat /\ MmapBase \in Nat /\ StackBase \in Nat
  BY LayoutAssumption DEF HeapStart
<1>1. t.st = "none" /\ t.calls = c /\ t.cr2 = None /\ t.frames = {} /\ t.tables = {}
      /\ t.split = {} /\ t.pt = [v \in Pages |-> None] /\ t.mappings = <<>>
      /\ t.heapEnd = HeapStart * PageSize /\ t.mmapNext = MmapBase
      /\ t.stackLow = StackBase /\ t.stackPhys = None
  BY DEF Fresh
<1>2. t \in SpaceType
  <2>1. [v \in Pages |-> None] \in [Pages -> Frames \cup {None}] /\ <<>> \in Seq(MappingType)
    OBVIOUS
  <2> QED
    BY <1>0, <2>1, Zenon DEF Fresh, SpaceType
<1>3. DOMAIN t.mappings = {}
  BY <1>1
<1>4. Core(t)
  <2>1. ShmPhys \notin t.frames /\ t.tables \subseteq t.frames
    BY <1>1
  <2>2. \A w \in Pages : EntryOK(t, w, t.pt[w])
    BY <1>1 DEF EntryOK
  <2>3. FramesApart(t)
    BY <1>3 DEF FramesApart, Private
  <2> QED
    BY <1>2, <1>3, <2>1, <2>2, <2>3 DEF Core
<1>5. StackOK(t)
  BY <1>1, LayoutAssumption DEF StackOK
<1>6. SplitOK(t) /\ FaultOK(t) /\ HeapOK(t)
  BY <1>0, <1>1, <1>3 DEF SplitOK, FaultOK, HeapOK
<1> QED
  BY <1>1, <1>4, <1>5, <1>6 DEF ProcOK

\* free_process
LEMMA FreeProcessInv ==
    ASSUME IInv, NEW p \in Procs, NEW r, r.space.calls \in Nat,
           Took(space[p], used, r.space, r.used), FreeProcess(p, r)
    PROVE  IInv'
<1>1. r.space.frames \subseteq r.used /\ r.used \ r.space.frames = used \ space[p].frames
  BY InvMarked, TookApart
<1>2. PICK t : t = [Fresh EXCEPT !.calls = r.space.calls]
  BY Zenon
<1>3. ProcOK(t) /\ t.frames = {}
  BY <1>2, FreshOK
<1>4. used' = r.used \ r.space.frames /\ space' = [space EXCEPT ![p] = t]
  BY <1>2 DEF FreeProcess, FrameFree
<1>5. t.frames \subseteq used' /\ used' \ t.frames = used \ space[p].frames
  BY <1>1, <1>3, <1>4
<1> QED
  BY <1>3, <1>4, <1>5, InvStep, Zenon

\* A mapping operator keeps a started process sound.
LEMMA SoundProc ==
    ASSUME NEW s, ProcOK(s), s.st # "none", NEW u, NEW t, NEW u2, Sound(s, u, t, u2)
    PROVE  ProcOK(t)
<1>1. Core(t) /\ SplitOK(t)
  BY DEF Sound, ProcOK
<1>2. StackOK(t)
  BY DEF Sound, ProcOK, Kept, StackOK
<1>3. FaultOK(t) /\ HeapOK(t)
  BY DEF Sound, ProcOK, Kept, FaultOK, HeapOK
<1> QED
  BY <1>1, <1>2, <1>3 DEF ProcOK

\* Setting the fields that count or place calls keeps a process sound.
LEMMA ProcOfFields ==
    ASSUME NEW s, ProcOK(s), NEW t \in SpaceType,
           t.frames = s.frames, t.tables = s.tables, t.mappings = s.mappings,
           t.pt = s.pt, t.stackPhys = s.stackPhys, t.split = s.split,
           t.st = s.st, t.cr2 = s.cr2, t.stackLow = s.stackLow,
           t.heapEnd >= HeapStart * PageSize
    PROVE  ProcOK(t)
<1>1. Core(t)
  BY CoreOfFields DEF ProcOK
<1>2. SplitOK(t) /\ FaultOK(t) /\ HeapOK(t)
  BY DEF ProcOK, SplitOK, FaultOK, HeapOK
<1>3. StackOK(t)
  BY DEF ProcOK, StackOK
<1> QED
  BY <1>1, <1>2, <1>3 DEF ProcOK

\* build_address_space
LEMMA BuildInv ==
    ASSUME IInv, NEW p \in Procs, Build(p)
    PROVE  IInv'
<1>1. PICK s : s = space[p]
  OBVIOUS
<1>2. ProcOK(s) /\ Core(s) /\ s \in SpaceType /\ Marked(s, used)
  BY <1>1, InvMarked
<1>3. PICK roots : roots = LowestFree(used, RootFrames)
  OBVIOUS
<1>4. roots \subseteq FreeFrames(used) /\ roots \subseteq Frames /\ ShmPhys \notin roots
  BY <1>2, <1>3, LowestFreeIsFree, FreeIsFrame DEF Marked
<1>5. PICK t : t = [s EXCEPT !.st = "built", !.frames = roots, !.tables = roots]
  OBVIOUS
<1>6. s.st = "none" /\ used' = used \cup roots /\ space' = [space EXCEPT ![p] = t]
  BY <1>1, <1>3, <1>5 DEF Build, Become
<1>7. s.frames = {} /\ s.tables = {} /\ s.mappings = <<>> /\ s.stackPhys = None /\ s.cr2 = None
  BY <1>2, <1>6 DEF ProcOK, StackOK, FaultOK
<1>8. t \in SpaceType
  BY <1>2, <1>4, <1>5, Zenon DEF SpaceType
<1>9. /\ t.st = "built" /\ t.frames = roots /\ t.tables = roots /\ t.mappings = <<>>
      /\ t.pt = s.pt /\ t.stackPhys = None /\ t.stackLow = s.stackLow
      /\ t.cr2 = None /\ t.heapEnd = s.heapEnd
  BY <1>2, <1>5, <1>7 DEF SpaceType
<1>10. Grown(s, t, roots, roots)
  BY <1>4, <1>7, <1>8, <1>9 DEF Grown
<1>11. Core(t)
  BY <1>2, <1>9, <1>10, GrownCore
<1>12. SplitOK(t) /\ FaultOK(t) /\ HeapOK(t)
  BY <1>2, <1>9 DEF SplitOK, FaultOK, HeapOK, ProcOK
<1>13. StackOK(t)
  BY <1>2, <1>9 DEF StackOK, ProcOK
<1>14. ProcOK(t)
  BY <1>11, <1>12, <1>13 DEF ProcOK
<1>15. Took(s, used, t, used \cup roots)
  BY <1>4, <1>7, <1>9 DEF Took
<1> QED
  BY <1>1, <1>6, <1>14, <1>15, TakeStep, Zenon

\* A phase of spawn goes on with a sound process, or gives everything back.
LEMMA PhaseInv ==
    ASSUME IInv, NEW p \in Procs, NEW r, NEW next, Phase(p, r, next),
           IsResult(r), r.space.calls \in Nat, Took(space[p], used, r.space, r.used),
           r.ok => ProcOK([r.space EXCEPT !.st = next]),
           [r.space EXCEPT !.st = next].frames = r.space.frames
    PROVE  IInv'
<1>1. CASE ~r.ok
  BY <1>1, FreeProcessInv DEF Phase
<1>2. CASE r.ok
  <2>1. PICK t : t = [r.space EXCEPT !.st = next]
    OBVIOUS
  <2>2. [r EXCEPT !.space.st = next].used = r.used /\ [r EXCEPT !.space.st = next].space = t
    BY <2>1 DEF IsResult
  <2>3. used' = r.used /\ space' = [space EXCEPT ![p] = t]
    BY <1>2, <2>2 DEF Phase, Become
  <2>4. ProcOK(t) /\ t.frames = r.space.frames
    BY <1>2, <2>1
  <2>5. Took(space[p], used, t, r.used)
    BY <2>4 DEF Took
  <2> QED
    BY <2>3, <2>4, <2>5, TakeStep, Zenon
<1> QED
  BY <1>1, <1>2

\* load_segments
LEMMA LoadSegmentsInv ==
    ASSUME IInv, NEW p \in Procs, LoadSegments(p)
    PROVE  IInv'
<1>1. PICK s : s = space[p]
  OBVIOUS
<1>2. ProcOK(s) /\ Core(s) /\ s \in SpaceType /\ Marked(s, used) /\ s.st = "built"
  BY <1>1, InvMarked DEF LoadSegments
<1>3. PICK r : r = MapFresh(s, used, SegStart, SegPages)
  OBVIOUS
<1>4. Phase(p, r, "loaded")
  BY <1>1, <1>3 DEF LoadSegments
<1>5. Sound(s, used, r.space, r.used)
  <2>1. SegStart \in Nat /\ SegPages \in Nat \ {0}
    BY LayoutAssumption
  <2> QED
    BY <1>2, <1>3, <2>1, MapFreshSound
<1>6. IsResult(r)
  BY <1>3, MapFreshResult
<1>7. PICK m : m = r.space
  OBVIOUS
<1>8. ProcOK(m) /\ m \in SpaceType /\ m.st = "built" /\ Took(s, used, m, r.used)
  BY <1>2, <1>5, <1>7, SoundProc DEF Sound, Kept, Core
<1>9. PICK t : t = [m EXCEPT !.st = "loaded"]
  BY Zenon
<1>10. t \in SpaceType
  BY <1>8, <1>9 DEF SpaceType
<1>11. /\ t.frames = m.frames /\ t.tables = m.tables /\ t.mappings = m.mappings
       /\ t.pt = m.pt /\ t.stackPhys = m.stackPhys /\ t.split = m.split
       /\ t.st = "loaded" /\ t.cr2 = m.cr2 /\ t.stackLow = m.stackLow
       /\ t.heapEnd = m.heapEnd
  BY <1>8, <1>9 DEF SpaceType
<1>12. Core(t)
  BY <1>8, <1>10, <1>11, CoreOfFields DEF ProcOK
<1>13. SplitOK(t) /\ FaultOK(t) /\ HeapOK(t)
  BY <1>8, <1>11 DEF ProcOK, SplitOK, FaultOK, HeapOK
<1>14. StackOK(t)
  BY <1>8, <1>11 DEF ProcOK, StackOK
<1>15. ProcOK([r.space EXCEPT !.st = "loaded"])
  BY <1>7, <1>9, <1>12, <1>13, <1>14 DEF ProcOK
<1>16. r.space.calls \in Nat /\ [r.space EXCEPT !.st = "loaded"].frames = r.space.frames
  BY <1>7, <1>8, <1>9, <1>11 DEF SpaceType
<1> QED
  BY <1>1, <1>4, <1>6, <1>7, <1>8, <1>15, <1>16, PhaseInv

\* The whole stack region is in one 2 MiB block.
LEMMA StackBlock ==
    ASSUME NEW w \in StackLimit .. StackTop - 1
    PROVE  BlockOf(w) = BlockOf(StackTop - 1)
<1>1. StackLimit \in Nat /\ StackTop - 1 \in Nat /\ BlockPages \in Nat /\ BlockPages > 0
  BY LayoutAssumption
<1>2. StackLimit \div BlockPages = (StackTop - 1) \div BlockPages
  BY LayoutAssumption
<1>3. ASSUME NEW a \in Nat, NEW b \in Nat, a <= b
      PROVE  a \div BlockPages <= b \div BlockPages /\ a \div BlockPages \in Nat
  BY <1>1, <1>3
<1>4. w \in Nat /\ StackLimit <= w /\ w <= StackTop - 1
  BY <1>1
<1>5. StackLimit \div BlockPages <= w \div BlockPages
      /\ w \div BlockPages <= (StackTop - 1) \div BlockPages
      /\ w \div BlockPages \in Nat /\ StackLimit \div BlockPages \in Nat
  BY <1>1, <1>3, <1>4
<1> QED
  BY <1>2, <1>5 DEF BlockOf

\* map_range_in inside the reserved stack region
LEMMA StackRange ==
    ASSUME NEW s, Core(s), NEW u, Marked(s, u), s.stackPhys # None,
           Run(s.stackPhys, StackPages) \subseteq Frames,
           NEW v \in StackLimit .. StackTop - 1, NEW n \in Nat \ {0}, v + n <= StackTop,
           NEW r, r = MapRange(s, u, v, StackPhysFor(s, v), n)
    PROVE  /\ Sound(s, u, r.space, r.used) /\ IsResult(r)
           /\ r.space.mappings = s.mappings
           /\ r.ok => \A w \in v .. v + n - 1 : BlockOf(w) \in r.space.split
           /\ (\A w \in v .. v + n - 1 : BlockOf(w) \in s.split) => r.ok
<1>1. s \in SpaceType /\ s.stackPhys \in Nat
  BY FramesAssumption, Zenon DEF Core, SpaceType
<1>2. /\ StackLimit \in Nat /\ StackTop \in Nat /\ IdentityEnd \in Nat /\ v \in Nat
      /\ StackTop <= IdentityEnd
  BY LayoutAssumption
<1>3. PICK f : f = StackPhysFor(s, v)
  OBVIOUS
<1>4. f = s.stackPhys + (v - StackLimit) /\ f \in Nat
  BY <1>1, <1>2, <1>3 DEF StackPhysFor
<1>5. PICK g : g = [w \in v .. v + n - 1 |-> f + (w - v)]
  BY Zenon
<1>6. r = MapPages(s, u, v, n, g)
  BY <1>3, <1>5 DEF MapRange
<1>7. ASSUME NEW w \in v .. v + n - 1
      PROVE  g[w] \in Frames \cup {None} /\ EntryOK(s, w, g[w])
  <2>1. g[w] = f + (w - v)
    BY <1>5
  <2>2. w \in StackLimit .. StackTop - 1
    BY <1>2
  <2>3. g[w] = StackPhysFor(s, w)
    BY <1>1, <1>2, <1>4, <2>1, <2>2 DEF StackPhysFor
  <2>4. StackPhysFor(s, w) \in Run(s.stackPhys, StackPages)
    BY <1>1, <1>2, <2>2 DEF StackPhysFor, Run, StackPages
  <2> QED
    BY <2>2, <2>3, <2>4 DEF EntryOK
<1>8. /\ Sound(s, u, r.space, r.used)
      /\ r.space.mappings = s.mappings
      /\ r.ok => \A w \in v .. v + n - 1 : BlockOf(w) \in r.space.split
      /\ v + n <= IdentityEnd /\ Unsplit(s, v, n) = {} => r.ok
  BY <1>2, <1>6, <1>7, MapPagesSound
<1>9. ASSUME \A w \in v .. v + n - 1 : BlockOf(w) \in s.split
      PROVE  r.ok
  <2>1. \A i \in 0 .. n - 1 : v + i \in v .. v + n - 1
    BY <1>2
  <2>2. Unsplit(s, v, n) = {}
    BY <1>9, <2>1 DEF Unsplit
  <2>3. v + n <= IdentityEnd
    BY <1>2
  <2> QED
    BY <1>8, <2>2, <2>3
<1> QED
  BY <1>6, <1>8, <1>9, MapPagesResult

\* init_stack_backing: the stack's frames and its mapping, still without
\* page-table entries
LEMMA InitStackSound ==
    ASSUME NEW s, Core(s), s.stackPhys = None, NEW u, Marked(s, u),
           NEW r, r = InitStackBacking(s, u)
    PROVE  /\ IsResult(r) /\ Core(r.space) /\ Took(s, u, r.space, r.used)
           /\ Kept(s, r.space) /\ r.space.split = s.split
           /\ r.ok => /\ r.space.stackPhys # None
                      /\ Run(r.space.stackPhys, StackPages) \subseteq Frames
                      /\ r.space.mappings = Append(s.mappings,
                            Mapping(StackLimit, r.space.stackPhys, StackPages, None))
<1>0. s \in SpaceType
  BY DEF Core
<1>1. PICK f : f = AllocContiguous(u, StackPages)
  OBVIOUS
<1>2. CASE f = None
  <2>1. r = [ok |-> FALSE, used |-> u, space |-> s]
    BY <1>1, <1>2 DEF InitStackBacking
  <2>2. r.used = u /\ r.space = s /\ IsResult(r) /\ ~r.ok
    BY <2>1 DEF IsResult
  <2> QED
    BY <2>2, TookNothing DEF Kept
<1>3. CASE f # None
  <2>0. StackPages \in Nat \ {0} /\ StackLimit \in Nat
        /\ StackLimit + StackPages <= IdentityEnd
    BY LayoutAssumption DEF StackPages
  <2>1. f \in Frames /\ f \in Nat /\ Run(f, StackPages) \subseteq FreeFrames(u)
    BY <1>1, <1>3, <2>0, AllocIsFree
  <2>2. PICK R : R = Run(f, StackPages)
    OBVIOUS
  <2>3. R \subseteq Frames /\ R \cap u = {}
    BY <2>1, <2>2, FreeIsFrame
  <2>4. PICK mp : mp = Mapping(StackLimit, f, StackPages, None)
    OBVIOUS
  <2>5. mp \in MappingType
    BY <2>0, <2>1, <2>4 DEF Mapping, MappingType
  <2>6. PICK t : t = [s EXCEPT !.frames = @ \cup R, !.stackPhys = f,
                               !.mappings = Append(@, mp)]
    OBVIOUS
  <2>7. r = [ok |-> TRUE, used |-> u \cup R, space |-> t]
    BY <1>1, <1>3, <2>2, <2>4, <2>6 DEF InitStackBacking
  <2>8. r.used = u \cup R /\ r.space = t /\ IsResult(r)
    BY <2>7 DEF IsResult
  <2>9. t \in SpaceType
    <3>1. Append(s.mappings, mp) \in Seq(MappingType)
      BY <1>0, <2>5 DEF SpaceType
    <3> QED
      BY <1>0, <2>1, <2>3, <2>6, <3>1, Zenon DEF SpaceType
  <2>10. /\ t.frames = s.frames \cup R /\ t.tables = s.tables \cup {} /\ t.pt = s.pt
         /\ t.split = s.split /\ t.stackPhys = f /\ t.mappings = Append(s.mappings, mp)
         /\ Kept(s, t)
    BY <1>0, <2>6 DEF SpaceType, Kept
  <2>11. MappingOK(t, mp) /\ FramesOf(mp) \cap s.frames = {}
    <3>1. mp.vaddr = StackLimit /\ mp.len = StackPages /\ mp.phys = f /\ mp.shm = None
      BY <2>4 DEF Mapping
    <3>2. FramesOf(mp) = R
      BY <2>2, <3>1 DEF FramesOf
    <3>3. R \cap s.tables = {} /\ R \cap s.frames = {}
      BY <2>3 DEF Marked, Core
    <3> QED
      BY <2>0, <2>10, <3>1, <3>2, <3>3 DEF MappingOK
  <2>12. Grown(s, t, R, {})
    BY <2>3, <2>5, <2>9, <2>10, <2>11 DEF Grown, Marked
  <2>13. Core(t)
    BY <2>10, <2>12, GrownCore
  <2>14. Took(s, u, t, u \cup R)
    BY <2>1, <2>2, <2>10, Zenon DEF Took
  <2>15. t.stackPhys # None /\ Run(t.stackPhys, StackPages) \subseteq Frames
    BY <1>3, <2>2, <2>3, <2>10
  <2> QED
    BY <2>4, <2>8, <2>10, <2>13, <2>14, <2>15
<1> QED
  BY <1>2, <1>3

\* Two takings in a row are one.
LEMMA TookTwice ==
    ASSUME NEW s, NEW u, NEW t, NEW u2, NEW t3, NEW u3,
           Took(s, u, t, u2), Took(t, u2, t3, u3)
    PROVE  Took(s, u, t3, u3)
<1>1. PICK N \in SUBSET FreeFrames(u) : u2 = u \cup N /\ t.frames = s.frames \cup N
  BY DEF Took
<1>2. PICK M \in SUBSET FreeFrames(u2) : u3 = u2 \cup M /\ t3.frames = t.frames \cup M
  BY DEF Took
<1>3. N \cup M \in SUBSET FreeFrames(u)
  BY <1>1, <1>2 DEF FreeFrames
<1>4. u3 = u \cup (N \cup M) /\ t3.frames = s.frames \cup (N \cup M)
  BY <1>1, <1>2
<1> QED
  BY <1>3, <1>4, Zenon DEF Took

\* A process whose stack has been set up is ready to run.
Ready(t) ==
    /\ Core(t) /\ SplitOK(t) /\ HeapOK(t)
    /\ t.stackLow \in StackLimit .. StackBase /\ t.cr2 = None /\ t.stackPhys # None
    /\ Run(t.stackPhys, StackPages) \subseteq Frames
    /\ \A w \in StackLimit .. StackTop - 1 : BlockOf(w) \in t.split

\* Marking it live is all that is left to do.
LEMMA ReadyProc ==
    ASSUME NEW s, Ready(s), NEW t, t = [s EXCEPT !.st = "live"]
    PROVE  ProcOK(t) /\ t.frames = s.frames
<1>1. s \in SpaceType
  BY DEF Ready, Core
<1>2. t \in SpaceType
  BY <1>1 DEF SpaceType
<1>3. /\ t.frames = s.frames /\ t.tables = s.tables /\ t.mappings = s.mappings
      /\ t.pt = s.pt /\ t.stackPhys = s.stackPhys /\ t.split = s.split
      /\ t.st = "live" /\ t.cr2 = s.cr2 /\ t.stackLow = s.stackLow
      /\ t.heapEnd = s.heapEnd
  BY <1>1 DEF SpaceType
<1>4. Core(t)
  BY <1>2, <1>3, CoreOfFields, Zenon DEF Ready
<1>5. SplitOK(t) /\ FaultOK(t) /\ HeapOK(t)
  BY <1>3 DEF Ready, SplitOK, FaultOK, HeapOK
<1>6. StackOK(t)
  BY <1>3 DEF Ready, StackOK
<1> QED
  BY <1>3, <1>4, <1>5, <1>6 DEF ProcOK

\* setup_user_stack and setup_linux_stack
LEMMA SetupStackInv ==
    ASSUME IInv, NEW p \in Procs, SetupStack(p)
    PROVE  IInv'
<1>1. PICK s : s = space[p]
  OBVIOUS
<1>2. ProcOK(s) /\ Core(s) /\ s \in SpaceType /\ Marked(s, used) /\ s.st = "loaded"
  BY <1>1, InvMarked DEF SetupStack
<1>3. s.stackPhys = None /\ s.cr2 = None /\ s.stackLow \in StackLimit .. StackBase
      /\ SplitOK(s) /\ HeapOK(s)
  BY <1>2 DEF ProcOK, StackOK, FaultOK
<1>4. PICK b : b = InitStackBacking(s, used)
  OBVIOUS
<1>5. PICK m : m = MapRange(b.space, b.used, StackBase, StackPhysFor(b.space, StackBase),
                            StackTop - StackBase)
  OBVIOUS
<1>6. PICK x : x = MapFresh(m.space, m.used, StackTop, 1)
  OBVIOUS
<1>7. PICK r : r = IF ~b.ok THEN b ELSE IF ~m.ok \/ p \notin Native THEN m ELSE x
  OBVIOUS
<1>8. Phase(p, r, "live")
  BY <1>1, <1>4, <1>5, <1>6, <1>7 DEF SetupStack
<1>9. /\ IsResult(b) /\ Core(b.space) /\ Took(s, used, b.space, b.used)
      /\ Kept(s, b.space) /\ b.space.split = s.split
      /\ b.ok => /\ b.space.stackPhys # None
                 /\ Run(b.space.stackPhys, StackPages) \subseteq Frames
                 /\ b.space.mappings = Append(s.mappings,
                       Mapping(StackLimit, b.space.stackPhys, StackPages, None))
  BY <1>2, <1>3, <1>4, InitStackSound
<1>10. PICK c : c = b.space
  OBVIOUS
<1>11. c.calls \in Nat
  BY <1>9, <1>10 DEF Core, SpaceType
<1>12. CASE ~b.ok
  <2>1. r = b
    BY <1>7, <1>12
  <2>2. [c EXCEPT !.st = "live"].frames = c.frames
    BY <1>9, <1>10 DEF Core, SpaceType
  <2> QED
    BY <1>1, <1>8, <1>9, <1>10, <1>11, <1>12, <2>1, <2>2, PhaseInv, Zenon
<1>13. CASE b.ok
  <2>1. /\ Core(c) /\ Took(s, used, c, b.used) /\ Kept(s, c) /\ c.split = s.split
        /\ c.stackPhys # None /\ Run(c.stackPhys, StackPages) \subseteq Frames
        /\ c.mappings = Append(s.mappings, Mapping(StackLimit, c.stackPhys, StackPages, None))
    BY <1>9, <1>10, <1>13
  <2>2. Marked(c, b.used)
    BY <1>2, <2>1, TookMarked
  <2>3. /\ StackLimit \in Nat /\ StackBase \in Nat /\ StackTop \in Nat
        /\ StackBase \in StackLimit .. StackTop - 1
        /\ StackTop - StackBase \in Nat \ {0} /\ StackBase + (StackTop - StackBase) = StackTop
    BY LayoutAssumption
  <2>4. PICK n \in Nat \ {0} : n = StackTop - StackBase
    BY <2>3
  <2>5. StackBase + n <= StackTop /\ StackBase + n - 1 = StackTop - 1
    BY <2>3, <2>4
  <2>6. m = MapRange(c, b.used, StackBase, StackPhysFor(c, StackBase), n)
    BY <1>5, <1>10, <2>4
  <2>7. /\ Sound(c, b.used, m.space, m.used) /\ IsResult(m)
        /\ m.space.mappings = c.mappings
        /\ m.ok => \A w \in StackBase .. StackBase + n - 1 : BlockOf(w) \in m.space.split
    BY <2>1, <2>2, <2>3, <2>5, <2>6, StackRange
  <2>8. PICK d : d = m.space
    OBVIOUS
  <2>9. Core(d) /\ Took(c, b.used, d, m.used) /\ Kept(c, d) /\ d.stackPhys = c.stackPhys
        /\ c.split \subseteq d.split /\ d.mappings = c.mappings
    BY <2>7, <2>8 DEF Sound
  <2>10. Took(s, used, d, m.used) /\ Kept(s, d)
    <3>1. Took(s, used, d, m.used)
      BY <2>1, <2>9, TookTwice
    <3> QED
      BY <2>1, <2>9, <3>1 DEF Kept
  <2>11. ASSUME m.ok PROVE Ready(d)
    <3>1. BlockOf(StackTop - 1) \in d.split
      BY <2>3, <2>5, <2>7, <2>8, <2>11
    <3>2. \A w \in StackLimit .. StackTop - 1 : BlockOf(w) \in d.split
      BY <3>1, StackBlock
    <3>3. SplitOK(d)
      <4> SUFFICES ASSUME NEW i \in DOMAIN d.mappings, NEW w \in PagesOf(d.mappings[i])
                   PROVE  BlockOf(w) \in d.split
        BY DEF SplitOK
      <4>1. PICK mp : mp = Mapping(StackLimit, c.stackPhys, StackPages, None)
        OBVIOUS
      <4>2. d.mappings = Append(s.mappings, mp)
        BY <2>1, <2>9, <4>1
      <4>3. s.mappings \in Seq(MappingType)
        BY <1>2 DEF SpaceType
      <4>4. CASE i \in DOMAIN s.mappings
        <5>1. d.mappings[i] = s.mappings[i]
          BY <4>2, <4>3, <4>4
        <5> QED
          BY <1>3, <2>1, <2>9, <4>4, <5>1 DEF SplitOK
      <4>5. CASE i \notin DOMAIN s.mappings
        <5>1. d.mappings[i] = mp
          BY <4>2, <4>3, <4>5
        <5>2. PagesOf(mp) = StackLimit .. StackTop - 1
          BY <2>3, <4>1 DEF PagesOf, Mapping, StackPages
        <5> QED
          BY <3>2, <5>1, <5>2
      <4> QED
        BY <4>4, <4>5
    <3> QED
      BY <1>3, <2>1, <2>9, <2>10, <3>2, <3>3 DEF Ready, Kept, HeapOK
  <2>12. CASE r = m
    <3>1. d.calls \in Nat /\ [d EXCEPT !.st = "live"].frames = d.frames
      BY <2>9 DEF Core, SpaceType
    <3>2. m.ok => ProcOK([d EXCEPT !.st = "live"])
      BY <2>11, ReadyProc
    <3> QED
      BY <1>1, <1>8, <2>7, <2>8, <2>10, <2>12, <3>1, <3>2, PhaseInv
  <2>13. CASE m.ok /\ r = x
    <3>1. Marked(d, m.used)
      BY <2>2, <2>9, TookMarked
    <3>2. Sound(d, m.used, x.space, x.used)
      BY <1>6, <2>3, <2>8, <2>9, <3>1, MapFreshSound
    <3>3. IsResult(x)
      BY <1>6, MapFreshResult
    <3>4. PICK e : e = x.space
      OBVIOUS
    <3>5. Core(e) /\ Took(d, m.used, e, x.used) /\ Kept(d, e) /\ e.stackPhys = d.stackPhys
          /\ d.split \subseteq e.split /\ SplitOK(e)
      BY <2>11, <2>13, <3>2, <3>4 DEF Sound, Ready
    <3>6. Ready(e)
      BY <2>11, <2>13, <3>5 DEF Ready, Kept, HeapOK
    <3>7. ProcOK([e EXCEPT !.st = "live"]) /\ [e EXCEPT !.st = "live"].frames = e.frames
      BY <3>6, ReadyProc
    <3>8. e.calls \in Nat
      BY <3>5 DEF Core, SpaceType
    <3>9. Took(s, used, e, x.used)
      BY <2>10, <3>5, TookTwice
    <3> QED
      BY <1>1, <1>8, <2>13, <3>3, <3>4, <3>7, <3>8, <3>9, PhaseInv
  <2> QED
    BY <1>7, <1>13, <2>12, <2>13
<1> QED
  BY <1>12, <1>13

==============================================================================
