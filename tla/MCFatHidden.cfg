\* Names of three slots in directory sectors of four, and no faults.
CONSTANTS
    Names = {a, b}
    SlotsOf <- MCThreeSlots
    Contents <- MCContents
    Clusters <- MCClusters
    Slots = 4
    Spc = 1
    FatGroup = 4
    MaxOps = 3
    MaxCrashes = 0
    MaxFaults = 0
    Dir = Dir
    Corrupt = Corrupt
    None = None
\* Behaviours end when the calls are used up.
CHECK_DEADLOCK FALSE
SPECIFICATION Spec
PROPERTIES
    WrittenIsFound
