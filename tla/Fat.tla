--------------------------------- MODULE Fat ---------------------------------
(***************************************************************************)
(* The FAT32 driver (fat.rs) on the polled ATA disk (ata.rs).               *)
(*                                                                         *)
(* An operation holds MOUNTED from beginning to end, so operations never    *)
(* overlap; it is a sequence of steps that each write one sector, because   *)
(* the power can fail between two sector writes, or a write can return an   *)
(* error.  The file allocation table is cached in memory (`mem`), changed   *)
(* there at once, and written back sector by sector at the end.            *)
(***************************************************************************)
EXTENDS Integers, FiniteSets, FiniteSetsExt, SequencesExt

CONSTANTS
    Names,          \* file names, up to letter case
    SlotsOf,        \* name -> directory slots its LFN + SFN entries take
    Contents,       \* contents to write: sequences with one token per sector
    Clusters,       \* cluster numbers, the root directory's first
    Slots,          \* directory slots per sector (16 in the code)
    Spc,            \* sectors per cluster
    FatGroup,       \* FAT entries per FAT sector (128 in the code)
    MaxOps, MaxCrashes, MaxFaults,      \* bounds of the instance
    Dir, Corrupt, None

VARIABLES
    disk,       \* [fat, sec]: the FAT and the sectors on the platter
    mem,        \* [fat, dirty, free]: struct Fat32's cache
    op,         \* the operation in progress, or None
    seen,       \* what every path reads as when MOUNTED is free
    dubious,    \* paths whose last operation failed or was cut short
    torn,       \* a crash left an entry without its chain, or a directory
                \* cluster unzeroed; nothing more is asked of the volume
    leaky,      \* some operation failed or was cut short since the format
    count       \* [ops, crashes, faults] so far

vars == <<disk, mem, op, seen, dubious, torn, leaky, count>>

Eof == 268435455                            \* EOF_MARK, 0x0FFFFFFF
Root == Min(Clusters)
Paths == {<<n>> : n \in Names} \cup {<<d, n>> : d, n \in Names}

(***************************************************************************)
(* Sectors                                                                 *)
(***************************************************************************)
End == [t |-> "end"]                        \* first byte 0x00
Deleted == [t |-> "deleted"]                \* 0xE5
Dot == [t |-> "dot"]                        \* "." and "..", never listed
Lfn(n) == [t |-> "lfn", n |-> n]
Sfn(n, d, c, z) == [t |-> "sfn", n |-> n, dir |-> d, first |-> c, size |-> z]

Junk == [t |-> "junk"]                      \* data read as a directory
AllSlots(x) == [i \in 1..Slots |-> x]
DirSector(s) == [slots |-> s, data |-> None]
DataSector(x) == [slots |-> AllSlots(Junk), data |-> x]
ZeroSector == DirSector(AllSlots(End))
DotSector == DirSector([i \in 1..Slots |-> IF i <= 2 THEN Dot ELSE End])

CeilDiv(a, b) == (a + b - 1) \div b

(***************************************************************************)
(* Reading.  Every operator takes the FAT to walk and the sectors to read.  *)
(***************************************************************************)
\* next_cluster until the chain leaves the clusters; the guard cuts a cycle.
Chain(fat, c) ==
    LET walk[k \in 0..Cardinality(Clusters)] ==
            IF k = 0 THEN <<c>>
            ELSE LET sofar == walk[k - 1]
                     next == fat[Last(sofar)]
                 IN  IF next \in Clusters THEN Append(sofar, next) ELSE sofar
    IN  walk[Cardinality(Clusters)]

\* Where the k-th slot of a directory is: cluster, sector, slot.
SlotAt(chain, k) ==
    <<chain[(k - 1) \div (Spc * Slots) + 1], ((k - 1) \div Slots) % Spc, ((k - 1) % Slots) + 1>>

\* The slots of a directory in the order they are scanned.
Listing(sec, chain) ==
    [k \in 1..(Len(chain) * Spc * Slots) |->
        LET loc == SlotAt(chain, k)
        IN  [loc |-> loc, slot |-> sec[<<loc[1], loc[2]>>].slots[loc[3]]]]

\* The slots before the first 0x00.
UpToEnd(all) == {i \in DOMAIN all : \A j \in 1..i : all[j].slot # End}

\* An SFN takes the name the LFN parts right before it spell.
NameAt(all, i) ==
    IF \A j \in 1..(i - 1) :
          (\A k \in j..(i - 1) : all[k].slot.t = "lfn") => all[j].slot.n = all[i].slot.n
    THEN all[i].slot.n ELSE Corrupt

\* read_dir's scan; eof tells whether the chain ends where it should.
Scan(all, eof) ==
    IF ~eof /\ UpToEnd(all) = DOMAIN all THEN {}
    ELSE {[name |-> NameAt(all, i), dir |-> all[i].slot.dir, first |-> all[i].slot.first,
           size |-> all[i].slot.size, loc |-> all[i].loc, at |-> i] :
             i \in {j \in UpToEnd(all) : all[j].slot.t = "sfn"}}

ScanChain(fat, sec, chain) == Scan(Listing(sec, chain), fat[Last(chain)] = Eof)
ReadDir(fat, sec, c) == ScanChain(fat, sec, Chain(fat, c))

\* find_dir_entry: the first entry of that name, or None.
FirstOf(hits) == IF hits = {} THEN None ELSE CHOOSE e \in hits : \A f \in hits : e.at <= f.at
FindDirEntry(fat, sec, c, n) == FirstOf({e \in ReadDir(fat, sec, c) : e.name = n})

\* resolve_parent: the first cluster of the directory that holds p, or None.
DirCluster(e) == IF e = None THEN None ELSE IF e.dir THEN e.first ELSE None
ResolveParent(fat, sec, p) ==
    IF Len(p) = 1 THEN Root ELSE DirCluster(FindDirEntry(fat, sec, Root, p[1]))
FindIn(fat, sec, c, n) == IF c = None THEN None ELSE FindDirEntry(fat, sec, c, n)

ReadChain(sec, chain, size) ==
    IF Len(chain) < CeilDiv(size, Spc) THEN Corrupt
    ELSE [i \in 1..size |-> sec[<<chain[(i - 1) \div Spc + 1], (i - 1) % Spc>>].data]

ReadFileData(fat, sec, e) ==
    IF e.size = 0 THEN <<>>
    ELSE IF e.first \in Clusters THEN ReadChain(sec, Chain(fat, e.first), e.size) ELSE Corrupt

ReadEntry(fat, sec, e) ==
    IF e = None THEN None ELSE IF e.dir THEN Dir ELSE ReadFileData(fat, sec, e)

\* What read_file, is_dir and list_dir answer for every path.
View(fat, sec) ==
    [p \in Paths |->
        ReadEntry(fat, sec, FindIn(fat, sec, ResolveParent(fat, sec, p), Last(p)))]

(***************************************************************************)
(* The cached FAT                                                          *)
(***************************************************************************)
Free(m) == {c \in Clusters : m.fat[c] = 0}

\* set_cluster on every cluster of f; the FAT sectors it changes get dirty.
SetClusters(m, f) ==
    [m EXCEPT !.fat = [c \in Clusters |-> IF c \in DOMAIN f THEN f[c] ELSE @[c]],
              !.dirty = @ \cup {c \div FatGroup : c \in DOMAIN f}]

\* alloc_cluster for each of the clusters cs, then their links.
Allocate(m, cs) ==
    LET f == [c \in Range(cs) |-> LET i == CHOOSE i \in DOMAIN cs : cs[i] = c
                                  IN  IF i < Len(cs) THEN cs[i + 1] ELSE Eof]
    IN  [SetClusters(m, f) EXCEPT !.free = @ - Len(cs)]

\* Mutant: only the first cluster of the chain is freed.
FreeChain_FirstOnly(m, c) == [SetClusters(m, c :> 0) EXCEPT !.free = @ + 1]

\* free_chain walks the cached FAT.
FreeChain(m, c) ==
    LET chain == Range(Chain(m.fat, c))
    IN  [SetClusters(m, [d \in chain |-> 0]) EXCEPT !.free = @ + Cardinality(chain)]

\* The clusters alloc_cluster hands out, lowest first.
NextFree(m) == SetToSortSeq(Free(m), <)

\* Fat32::open caches the FAT as it is on disk; scan_free_clusters counts.
Mounted(d) ==
    [fat |-> d.fat, dirty |-> {}, free |-> Cardinality({c \in Clusters : d.fat[c] = 0})]

(***************************************************************************)
(* Directory writes                                                        *)
(***************************************************************************)
\* delete_entry_at: the SFN and the LFN parts before it in the same sector.
Erased(sec, loc) ==
    LET at == <<loc[1], loc[2]>>
        s == sec[at].slots
        gone == {i \in 1..loc[3] : \A k \in i..(loc[3] - 1) : s[k].t = "lfn"}
    IN  [sec EXCEPT ![at] = DirSector([i \in DOMAIN s |-> IF i \in gone THEN Deleted ELSE s[i]])]

\* find_free_run: the first run of k free slots inside one sector.  The
\* offset it returns does not say in which sector of the cluster.
Fits(all, j, k) ==
    \A i \in j..(j + k - 1) :
        /\ i \in DOMAIN all
        /\ all[i].slot \in {End, Deleted}
        /\ SubSeq(all[i].loc, 1, 2) = SubSeq(all[j].loc, 1, 2)
FirstRun(all, hits) ==
    IF hits = {} THEN None ELSE [all[Min(hits)].loc EXCEPT ![2] = 0]
RunOf(all, k) == FirstRun(all, {j \in DOMAIN all : Fits(all, j, k)})
FreeRun(c, k) == RunOf(Listing(disk.sec, Chain(mem.fat, c)), k)

\* The one sector write of write_dir_entries, for the name the entry gets.
EntryWritten(sec, loc) ==
    LET n == Last(op.to)
        at == <<loc[1], loc[2]>>
        k == SlotsOf[n]
        new(i) == IF i = k THEN Sfn(n, op.isDir, op.first, op.size) ELSE Lfn(n)
    IN  [sec EXCEPT ![at] = DirSector(
            [i \in DOMAIN sec[at].slots |->
                IF i \in loc[3]..(loc[3] + k - 1) THEN new(i - loc[3] + 1) ELSE sec[at].slots[i]])]

(***************************************************************************)
(* Soundness of the volume, as the FAT `fat` and the sectors tell it        *)
(***************************************************************************)
WithSubdirs(fat, sec, top) ==
    top \cup UNION {ReadDir(fat, sec, e.first) : e \in {d \in top : d.dir}}
Entries(fat, sec) == WithSubdirs(fat, sec, ReadDir(fat, sec, Root))

Chains(fat, entries) ==
    {[chain |-> Chain(fat, Root), need |-> 0, loc |-> <<>>]}
        \cup {[chain |-> Chain(fat, e.first), need |-> CeilDiv(e.size, Spc), loc |-> e.loc] :
                 e \in {f \in entries : f.first # 0}}

\* Every chain ends, is as long as its file, and no cluster has two owners.
SoundChains(fat, chains) ==
    \A x \in chains :
        /\ IsInjective(x.chain)
        /\ fat[Last(x.chain)] = Eof
        /\ x.need > 0 => Len(x.chain) = x.need
        /\ \A y \in chains \ {x} : Range(x.chain) \cap Range(y.chain) = {}
Sound(fat, sec) == SoundChains(fat, Chains(fat, Entries(fat, sec)))

InUse(fat, sec) == UNION {Range(x.chain) : x \in Chains(fat, Entries(fat, sec))}

(***************************************************************************)
(* Operations                                                              *)
(***************************************************************************)
Init ==
    /\ disk = [fat |-> [c \in Clusters |-> IF c = Root THEN Eof ELSE 0],
               sec |-> [a \in Clusters \X (0..(Spc - 1)) |->
                           IF a[1] = Root THEN ZeroSector ELSE DataSector(None)]]
    /\ mem = Mounted(disk)
    /\ op = None
    /\ seen = [p \in Paths |-> None]
    /\ dubious = {}
    /\ torn = FALSE
    /\ leaky = FALSE
    /\ count = [ops |-> 0, crashes |-> 0, faults |-> 0]

Parent(p) == ResolveParent(mem.fat, disk.sec, p)
Find(p, n) == FindIn(mem.fat, disk.sec, Parent(p), n)

Under(p) == {q \in Paths : Len(q) >= Len(p) /\ SubSeq(q, 1, Len(p)) = p}
Touched == IF op = None THEN {} ELSE Under(op.path) \cup Under(op.to)

\* Takes MOUNTED; a call that fails before its first write changes nothing.
\* old is what find_dir_entry returned for the path.
Start(kind, p, to, data, isDir, old, pc) ==
    /\ op = None
    /\ ~torn
    /\ count.ops < MaxOps
    /\ Parent(p) # None
    /\ op' = [kind |-> kind, path |-> p, to |-> to, data |-> data,
              parent |-> Parent(p), old |-> old, isDir |-> isDir,
              first |-> IF old = None THEN 0 ELSE old.first,
              size |-> IF kind = "rename" THEN old.size ELSE IF data = None THEN 0 ELSE Len(data),
              todo |-> <<>>, pc |-> pc]
    /\ count' = [count EXCEPT !.ops = @ + 1]
    /\ UNCHANGED <<disk, mem, seen, dubious, torn, leaky>>

WriteFile(p, old, data) ==
    /\ old # None => ~old.dir
    /\ Start("write", p, p, data, FALSE, old, IF old = None THEN "alloc" ELSE "delete")

MakeDir(p, old) ==
    /\ old = None
    /\ Len(p) = 1                           \* the depth the instance allows
    /\ Start("mkdir", p, p, None, TRUE, None, "alloc")

RemoveEntry(p, old) ==
    /\ old # None
    /\ old.dir => ReadDir(mem.fat, disk.sec, old.first) = {}
    /\ Start("remove", p, p, None, old.dir, old, "delete")

\* Mutant: a rename to a name that is taken goes through.
Rename_OverExisting(p, old, n) ==
    /\ old # None
    /\ Start("rename", p, Append(Front(p), n), None, old.dir, old, "delete")

Rename(p, old, n) ==
    /\ old # None
    /\ Find(p, n) = None
    /\ Start("rename", p, Append(Front(p), n), None, old.dir, old, "delete")

(***************************************************************************)
(* Steps of the operation in progress                                      *)
(***************************************************************************)
At(pc) == op # None /\ op.pc = pc
Place == FreeRun(op.parent, SlotsOf[Last(op.to)])

\* The step is about to write a sector, and the disk once it has.
Writing ==
    \/ At("delete") \/ At("data") \/ At("zero")
    \/ At("entry") /\ Place # None
    \/ At("flush") /\ mem.dirty # {}

AfterWrite ==
    CASE At("delete") -> [disk EXCEPT !.sec = Erased(@, op.old.loc)]
      [] At("data") \/ At("zero") -> [disk EXCEPT !.sec[Head(op.todo).at] = Head(op.todo).val]
      [] At("entry") -> [disk EXCEPT !.sec = EntryWritten(@, Place)]
      [] At("flush") -> [disk EXCEPT !.fat = [c \in Clusters |->
                            IF c \div FatGroup = Min(mem.dirty) THEN mem.fat[c] ELSE @[c]]]

Look == seen' = View(mem'.fat, disk'.sec)

Succeeded ==
    /\ op' = None
    /\ dubious' = dubious \ Touched
    /\ UNCHANGED <<torn, leaky, count>>

Failed ==
    /\ op' = None
    /\ dubious' = dubious \cup Touched
    /\ leaky' = TRUE

Going(pc) ==
    /\ op' = [op EXCEPT !.pc = pc]
    /\ UNCHANGED <<seen, dubious, torn, leaky, count>>

\* Mutant: a rename frees the clusters of the file.
DeleteEntry_FreesRenamed ==
    /\ At("delete")
    /\ disk' = AfterWrite
    /\ mem' = IF op.old.first # 0 THEN FreeChain(mem, op.old.first) ELSE mem
    /\ Going(CASE op.kind = "write" -> "alloc"
               [] op.kind = "remove" -> "flush"
               [] op.kind = "rename" -> "entry")

\* The entry goes first; its clusters are freed in the cache only.
DeleteEntry ==
    /\ At("delete")
    /\ disk' = AfterWrite
    /\ mem' = IF op.kind # "rename" /\ op.old.first # 0 THEN FreeChain(mem, op.old.first) ELSE mem
    /\ Going(CASE op.kind = "write" -> "alloc"
               [] op.kind = "remove" -> "flush"
               [] op.kind = "rename" -> "entry")

Needed == IF op.kind = "mkdir" THEN 1 ELSE CeilDiv(op.size, Spc)

AllocClusters ==
    /\ At("alloc")
    /\ Needed <= Cardinality(Free(mem))
    /\ LET cs == SubSeq(NextFree(mem), 1, Needed)
           dataAt(i) == [at |-> <<cs[(i - 1) \div Spc + 1], (i - 1) % Spc>>,
                         val |-> DataSector(op.data[i])]
       IN  /\ mem' = Allocate(mem, cs)
           /\ op' = [op EXCEPT !.first = IF cs = <<>> THEN 0 ELSE cs[1],
                               !.todo = IF op.kind = "mkdir"
                                        THEN <<[at |-> <<cs[1], 0>>, val |-> DotSector]>>
                                        ELSE [i \in 1..op.size |-> dataAt(i)],
                               !.pc = IF cs = <<>> THEN "entry" ELSE "data"]
    /\ UNCHANGED <<disk, seen, dubious, torn, leaky, count>>

\* OutOfSpace: the clusters taken so far stay taken, the FAT unflushed, and
\* the file that was to be replaced is already gone.
OutOfSpace ==
    /\ \/ At("alloc") /\ Needed > Cardinality(Free(mem))
       \/ At("entry") /\ Place = None /\ Free(mem) = {}
    /\ mem' = [SetClusters(mem, [c \in Free(mem) |-> Eof]) EXCEPT !.free = 0]
    /\ Failed
    /\ UNCHANGED <<disk, torn, count>>
    /\ Look

WriteData ==
    /\ At("data") \/ At("zero")
    /\ disk' = AfterWrite
    /\ op' = [op EXCEPT !.todo = Tail(@), !.pc = IF Len(op.todo) = 1 THEN "entry" ELSE @]
    /\ UNCHANGED <<mem, seen, dubious, torn, leaky, count>>

WriteDirEntries ==
    /\ At("entry")
    /\ Place # None
    /\ disk' = AfterWrite
    /\ Going("flush")
    /\ UNCHANGED mem

\* The new cluster is linked before it is zeroed; the entry then goes to its
\* first slots.
ExtendDir ==
    /\ At("entry")
    /\ Place = None
    /\ Free(mem) # {}
    /\ LET new == NextFree(mem)[1]
           tail == Last(Chain(mem.fat, op.parent))
       IN  /\ mem' = SetClusters(Allocate(mem, <<new>>), tail :> new)
           /\ op' = [op EXCEPT !.pc = "zero",
                               !.todo = [i \in 1..Spc |-> [at |-> <<new, i - 1>>, val |-> ZeroSector]]]
    /\ UNCHANGED <<disk, seen, dubious, torn, leaky, count>>

\* Mutant: the dirty sectors are dropped without being written.
FlushFat_NotWritten ==
    /\ At("flush")
    /\ mem.dirty # {}
    /\ mem' = [mem EXCEPT !.dirty = @ \ {Min(@)}]
    /\ UNCHANGED <<disk, op, seen, dubious, torn, leaky, count>>

\* flush_fat writes the dirty FAT sectors, lowest first.
FlushFat ==
    /\ At("flush")
    /\ mem.dirty # {}
    /\ disk' = AfterWrite
    /\ mem' = [mem EXCEPT !.dirty = @ \ {Min(@)}]
    /\ UNCHANGED <<op, seen, dubious, torn, leaky, count>>

Return ==
    /\ At("flush")
    /\ mem.dirty = {}
    /\ Succeeded
    /\ UNCHANGED <<disk, mem>>
    /\ Look

(***************************************************************************)
(* Faults                                                                  *)
(***************************************************************************)
\* write_sectors returns an error, with the sector written or not: the
\* operation returns at once, the cache as it is.
IoError ==
    /\ Writing
    /\ count.faults < MaxFaults
    /\ disk' \in {disk, AfterWrite}
    /\ Failed
    /\ torn' = (At("zero") /\ disk' = disk)
    /\ count' = [count EXCEPT !.faults = @ + 1]
    /\ UNCHANGED mem
    /\ Look

\* The machine loses power and mounts the volume again.
Crash ==
    /\ ~torn
    /\ count.crashes < MaxCrashes
    /\ mem' = Mounted(disk)
    /\ seen' = View(mem'.fat, disk.sec)
    /\ op' = None
    /\ dubious' = dubious \cup Touched
    /\ torn' = ~Sound(disk.fat, disk.sec)
    /\ leaky' = (leaky \/ op # None)
    /\ count' = [count EXCEPT !.crashes = @ + 1]
    /\ UNCHANGED disk

CallOn(p, old) ==
    \/ \E c \in Contents : WriteFile(p, old, c)
    \/ MakeDir(p, old)
    \/ RemoveEntry(p, old)
    \/ \E n \in Names : Rename(p, old, n)
Call == \E p \in Paths : CallOn(p, Find(p, Last(p)))

Next ==
    \/ Call
    \/ DeleteEntry \/ AllocClusters \/ OutOfSpace \/ WriteData
    \/ WriteDirEntries \/ ExtendDir \/ FlushFat \/ Return
    \/ IoError \/ Crash

Spec == Init /\ [][Next]_vars

(***************************************************************************)
(* Properties                                                              *)
(***************************************************************************)
Store == INSTANCE FileStore WITH
    files <- seen,
    broken <- torn,
    busy <- IF op = None THEN None
            ELSE [kind |-> op.kind, path |-> op.path, to |-> op.to, data |-> op.data]

\* The driver implements FileStore: an operation that returns Ok has made its
\* effect readable, no operation changes what another path reads as, and a
\* crash between any two sector writes changes only paths whose operation was
\* under way or had failed.
Implements == Store!StoreSpec

\* Through failed writes, a full volume and crashes that lose nothing, every
\* chain the cached FAT describes ends, is as long as its file, and shares no
\* cluster with another.
ChainsSound == ~torn => Sound(mem.fat, disk.sec)

\* free_clusters, kept up by increments, is the number of free clusters; and
\* while no operation failed every cluster in use belongs to a file or a
\* directory that can be reached.
SpaceExact ==
    /\ mem.free = Cardinality(Free(mem))
    /\ op = None /\ ~leaky => Clusters \ Free(mem) = InUse(mem.fat, disk.sec)

\* A crash can leave an entry without its chain only after the entry is
\* written and before the FAT is flushed, or while the FAT changes of an
\* operation that failed are still unflushed.
TornWindow ==
    [][~torn /\ torn' => At("flush") \/ At("zero") \/ leaky]_vars

\* "Writes (or overwrites) a file, creating an LFN + SFN entry" (fat.rs:825):
\* when write_file returns Ok the file is there to be read.
WrittenIsFound ==
    [][At("flush") /\ op' = None /\ ~leaky' /\ op.kind = "write" => seen'[op.path] = op.data]_vars
==============================================================================
