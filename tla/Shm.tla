--------------------------------- MODULE Shm ---------------------------------
(***************************************************************************)
(* Shared-memory objects (src/shm.rs): a table of refcounted objects, each *)
(* backed by one contiguous physical block.  Every operation runs under    *)
(* TABLE's lock and is a function of the table's value                     *)
(*     t = [tab |-> ShmIds -> object or None, free |-> free blocks]        *)
(* A block stands for one alloc_contiguous result, whatever its length.    *)
(***************************************************************************)
EXTENDS Naturals, FiniteSets, SequencesExt

CONSTANTS
    ShmIds,     \* slots of TABLE, 0..n-1 (bound: the Vec grows for ever)
    Blocks,     \* physical blocks the PMM can hand out, by address (bound)
    None        \* Option::None


ShmEmpty == [tab |-> [i \in ShmIds |-> None], free |-> Blocks]

ShmLive(t, id) == id \in ShmIds /\ t.tab[id] # None

\* The first free slot; the bound is hit when there is none.
ShmFreeIds(t) == {i \in ShmIds : t.tab[i] = None}
ShmNext(t) == CHOOSE i \in ShmFreeIds(t) : \A j \in ShmFreeIds(t) : i <= j

\* create: into slot ShmNext(t)
ShmCreate(t) ==
    [t EXCEPT !.tab[ShmNext(t)] =
        [block |-> None, pages |-> 0, size |-> 0, refs |-> 1]]

\* truncate(id, size), sizes in pages: shrinking and growing inside the block
\* only set the size; past it alloc_contiguous' first fit replaces the block
\* and the old one's frames go back to the PMM at once.
FirstFit(t) == CHOOSE b \in t.free : \A c \in t.free : b <= c

\* Mutant: the new block is handed out but never marked used.
ShmTruncate_NotTaken(t, id, size) ==
    CASE size <= t.tab[id].size \/ size <= t.tab[id].pages ->
            [t EXCEPT !.tab[id].size = size]
      [] OTHER -> IF t.free = {} THEN t ELSE
            [t EXCEPT !.tab[id] = [@ EXCEPT !.block = FirstFit(t),
                                   !.pages = size, !.size = size]]

ShmTruncate(t, id, size) ==
    CASE size <= t.tab[id].size \/ size <= t.tab[id].pages ->
            [t EXCEPT !.tab[id].size = size]
      [] OTHER -> IF t.free = {} THEN t ELSE
            [tab  |-> [t.tab EXCEPT ![id] = [@ EXCEPT !.block = FirstFit(t),
                                             !.pages = size, !.size = size]],
             free |-> (t.free \ {FirstFit(t)}) \cup ({t.tab[id].block} \ {None})]

\* dup
ShmDup(t, id) == IF ShmLive(t, id) THEN [t EXCEPT !.tab[id].refs = @ + 1] ELSE t

\* close: the last reference frees the block and the slot.
ShmClose(t, id) ==
    IF ~ShmLive(t, id) THEN t
    ELSE IF t.tab[id].refs > 1 THEN [t EXCEPT !.tab[id].refs = @ - 1]
    ELSE [tab  |-> [t.tab EXCEPT ![id] = None],
          free |-> t.free \cup ({t.tab[id].block} \ {None})]

ShmDupAll(t, ids)   == FoldLeft(ShmDup, t, ids)
ShmCloseAll(t, ids) == FoldLeft(ShmClose, t, ids)
==============================================================================
