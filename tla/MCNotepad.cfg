\* The Notepad is in focus and a document of one empty line is saved and reopened.
CONSTANTS
    Letters = {"s", "o"}
    Commands <- MCCommands
    KeyRing = 3
    MouseRing = 2
    LineMax = 2
    HistoryCapacity = 2
    MaxInputs = 5
    None = None
SPECIFICATION Spec
\* Behaviours end when no key is pressed any more.
CHECK_DEADLOCK FALSE
INVARIANT LineToTypeInto
