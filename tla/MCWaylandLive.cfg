\* Two clients that follow the script.
CONSTANTS
    Procs = {p, q}
    Mortal = {}
    Rogue = {}
    Blocks <- MCBlocks
    ShmIds <- MCShmIds
    Endpoints <- MCEndpoints
    StrayPoints <- MCStrayPoints
    MaxPages = 2
    MaxStrays = 0
    MaxSpawns = 2
    None = None
\* Behaviours end when the last program started has finished.
CHECK_DEADLOCK FALSE
SPECIFICATION FairSpec
PROPERTY
    CommitRendered
