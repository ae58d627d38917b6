\* A folder and a file to begin with, one row of details or two icons in view,
\* files of two bytes.
CONSTANTS
    NameOrder <- MCNameOrder
    NewFiles <- MCNewFiles
    NewFolders <- MCNewFolders
    FirstFs <- MCFirstFs
    Named <- MCNamed
    Bytes = {"y"}
    Zero = "0"
    MaxLen = 2
    DetailsRows = 1
    GridRows = 1
    GridCols = 2
    MaxFds = 1
    MaxOps = 5
    None = None
SPECIFICATION Spec
\* Behaviours end when the kernel panics.
CHECK_DEADLOCK FALSE
PROPERTIES
    ActsAsShown
    MoveKeepsData
    
