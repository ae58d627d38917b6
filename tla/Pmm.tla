--------------------------------- MODULE Pmm ---------------------------------
(***************************************************************************)
(* The physical frame allocator of src/pmm.rs, as functions of the set u   *)
(* of frames whose bit is set in BITMAP.  Every call holds LOCK, so each   *)
(* is one step.  Frames are numbered upwards from 0 to LAST_USABLE_FRAME.  *)
(***************************************************************************)
EXTENDS Naturals, FiniteSets

CONSTANTS
    Frames,     \* 0 .. LAST_USABLE_FRAME
    None        \* Option::None

ASSUME FramesAssumption == Frames \subseteq Nat /\ IsFiniteSet(Frames) /\ None \notin Nat

FreeFrames(u) == Frames \ u

\* n frames from f on
Run(f, n) == f .. f + n - 1

\* The n lowest free frames: n calls of frame_alloc in a row.
LowestFree(u, n) ==
    {f \in FreeFrames(u) : Cardinality({g \in FreeFrames(u) : g < f}) < n}

\* alloc_contiguous: the start of the first run of n free frames
AllocContiguous(u, n) ==
    LET starts == {f \in Frames : Run(f, n) \subseteq FreeFrames(u)}
    IN  IF n = 0 \/ starts = {} THEN None
        ELSE CHOOSE f \in starts : \A g \in starts : f <= g

\* frame_free of every frame of S: the bits are cleared, whoever held them.
FrameFree(u, S) == u \ S
==============================================================================
