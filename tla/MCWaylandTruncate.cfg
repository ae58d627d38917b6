\* One client that calls ftruncate again.
CONSTANTS
    Procs = {q}
    Mortal = {}
    Rogue = {q}
    Blocks <- MCBlocks
    ShmIds <- MCShmIds
    Endpoints <- MCEndpoints
    StrayPoints <- MCStrayPoints
    MaxPages = 2
    MaxStrays = 1
    MaxSpawns = 1
    None = None
\* Behaviours end when the last program started has finished.
CHECK_DEADLOCK FALSE
SPECIFICATION Spec
INVARIANT
    MappingSurvivesTruncate
