CONSTANTS
    Installers = {i1, i2, i3}
    Dirs = {d1}
    Broken = {i3}
    Writable = TRUE
    Overlap = FALSE
    MaxFails = 1
    MaxKills = 2
SPECIFICATION Spec
SYMMETRY Alike
INVARIANTS OnlyWhole StillWorks NoLitter
CHECK_DEADLOCK FALSE
