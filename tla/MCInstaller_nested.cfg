CONSTANTS
    Installers = {i1, i2}
    Dirs = {d1}
    Broken = {}
    Writable = TRUE
    Overlap = TRUE
    MaxFails = 0
    MaxKills = 0
SPECIFICATION Spec
INVARIANTS NeverInside
CHECK_DEADLOCK FALSE
