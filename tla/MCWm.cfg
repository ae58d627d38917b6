\* Three apps, two resolutions and two font scales; seven inputs and one
\* restart, enough to open, arrange, close and reopen two windows.
CONSTANTS
    Apps = {"terminal", "files", "settings"}
    Screens <- MCScreens
    Fonts <- MCFonts
    MinCells = 1
    MaxCells = 2
    MaxInputs = 7
    MaxBoots = 1
    None = None
SPECIFICATION Spec
\* Behaviours end when the inputs are used up.
CHECK_DEADLOCK FALSE
INVARIANTS
    GrabbedIsHeld
    SessionCurrent
    SettingsInEffect
PROPERTIES
    FocusKept
    ReopensAsLeft
    
