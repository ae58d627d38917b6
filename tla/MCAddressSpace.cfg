\* A Linux process and a native one, with room for exactly both.
CONSTANTS
    Procs = {p, q}
    Native = {q}
    None = None
    Frames <- MCFrames
    RootFrames = 1
    BlockPages = 4
    SegStart = 1
    SegPages = 1
    StackLimit = 5
    StackBase = 7
    StackTop = 8
    MmapBase = 8
    MmapCeiling = 12
    IdentityEnd = 13
    PageSize = 2
    ShmPhys = 0
    Breaks <- MCBreaks
    FixedAt <- MCFixedAt
    CallAt <- MCCallAt
    CallLens <- MCCallLens
    MaxCalls = 3
SPECIFICATION Spec
INVARIANTS
    FramesExact
    ReachesOwnFrames
    MappingsOwned
    GrowthNeverFatal
