SPECIFICATION Spec
CONSTANTS
    s1 = s1  s2 = s2
    Slots <- TwoSlots
    Menu = {"tenants"}
    MaxPairs = 2
    MaxStarts = 3
    MaxFaults = 2
SYMMETRY Symmetry
INVARIANTS ConsoleInv SignedOut
PROPERTIES ClicksActOnce SessionsSurvive
CHECK_DEADLOCK FALSE
