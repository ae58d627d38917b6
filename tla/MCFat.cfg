\* Two names one level deep, one entry to a directory sector, four clusters
\* besides the root's, two FAT sectors.
CONSTANTS
    Names = {a, b}
    SlotsOf <- MCTwoSlots
    Contents <- MCContents
    Clusters <- MCClusters
    Slots = 2
    Spc = 1
    FatGroup = 4
    MaxOps = 3
    MaxCrashes = 1
    MaxFaults = 1
    Dir = Dir
    Corrupt = Corrupt
    None = None
\* Behaviours end when the calls are used up.
CHECK_DEADLOCK FALSE
SPECIFICATION Spec
INVARIANTS
    ChainsSound
    
PROPERTIES
    
    TornWindow
