\* A ring of two keys and one of one mouse event, a history of two lines of
\* two characters; five keys or packets in all.
CONSTANTS
    Letters = {"s", "o"}
    Commands <- MCCommands
    KeyRing = 3
    MouseRing = 2
    LineMax = 2
    HistoryCapacity = 2
    MaxInputs = 5
    None = None
SPECIFICATION Spec
\* Behaviours end when no key is pressed any more.
CHECK_DEADLOCK FALSE
INVARIANTS
    
    
    ReadsBackSaved
