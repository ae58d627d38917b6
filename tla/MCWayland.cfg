\* Two clients, one of which may be killed and may leave the script.
CONSTANTS
    Procs = {p, q}
    Mortal = {q}
    Rogue = {q}
    Blocks <- MCBlocks
    ShmIds <- MCShmIds
    Endpoints <- MCEndpoints
    StrayPoints <- MCStrayPoints
    MaxPages = 2
    MaxStrays = 1
    MaxSpawns = 2
    None = None
\* Behaviours end when the last program started has finished.
CHECK_DEADLOCK FALSE
SPECIFICATION Spec
INVARIANTS
    NoDanglingShm
    BlocksDisjoint
    RefsExact
    NoCrossTalk
    RenderReadsLive
