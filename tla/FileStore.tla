------------------------------ MODULE FileStore ------------------------------
(***************************************************************************)
(* What a mounted volume promises its callers (the public functions of     *)
(* fat.rs): one operation at a time, which touches its own path only, whose *)
(* success means its effect is there to be read, and a power cut that       *)
(* spares every path no unfinished or failed operation was about, unless    *)
(* it breaks the volume.                                                   *)
(* Fat.tla is shown to implement this module.                              *)
(***************************************************************************)
EXTENDS Naturals, Sequences

CONSTANTS
    Paths,      \* paths: sequences of names
    Dir,        \* what a directory reads as
    None        \* nothing there, no operation

VARIABLES
    files,      \* path -> content, Dir or None
    busy,       \* the operation that holds the volume, or None
    dubious,    \* paths whose last operation failed or was cut short
    broken      \* a fault left the volume in a state it no longer vouches for

storeVars == <<files, busy, dubious, broken>>

Under(p) == {q \in Paths : Len(q) >= Len(p) /\ SubSeq(q, 1, Len(p)) = p}

\* An operation o has a kind, a path (and for rename the path it becomes)
\* and the data it writes.
Touched(o) == IF o = None THEN {} ELSE Under(o.path) \cup Under(o.to)

\* What o leaves at one of its own paths.
Outcome(o, q) ==
    CASE o.kind = "rename" /\ q \in Under(o.to) ->
            files[o.path \o SubSeq(q, Len(o.to) + 1, Len(q))]
      [] o.kind = "write" /\ q = o.path -> o.data
      [] o.kind = "mkdir" /\ q = o.path -> Dir
      [] OTHER -> None

SameOutside(s) == \A q \in Paths \ s : files'[q] = files[q]

StoreInit ==
    /\ files = [q \in Paths |-> None]
    /\ busy = None
    /\ dubious = {}
    /\ broken = FALSE

Begin ==
    /\ busy = None
    /\ ~broken
    /\ busy' # None
    /\ UNCHANGED <<files, dubious, broken>>

Succeed ==
    /\ busy # None
    /\ SameOutside(Touched(busy))
    /\ \A q \in Touched(busy) : files'[q] = Outcome(busy, q)
    /\ busy' = None
    /\ dubious' = dubious \ Touched(busy)
    /\ UNCHANGED broken

\* An error may come after the old version is gone.
Fail ==
    /\ busy # None
    /\ \/ broken'
       \/ /\ SameOutside(Touched(busy))
          /\ \A q \in Touched(busy) : files'[q] \in {files[q], None, Outcome(busy, q)}
    /\ busy' = None
    /\ dubious' = dubious \cup Touched(busy)

PowerCut ==
    /\ broken' \/ SameOutside(dubious \cup Touched(busy))
    /\ busy' = None
    /\ dubious' = dubious \cup Touched(busy)

StoreNext == Begin \/ Succeed \/ Fail \/ PowerCut

StoreSpec == StoreInit /\ [][StoreNext]_storeVars
==============================================================================
