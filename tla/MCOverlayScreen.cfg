SPECIFICATION Spec
CONSTANTS
    t1 = t1
    Toggler = {t1}
    Rows = {3, 6}
    height = 2
    MaxHeld = 6
    Byte <- MCByte
    ChildSequences <- MCChildSequences
INVARIANTS RegionAgrees 
PROPERTIES RegionConfined
