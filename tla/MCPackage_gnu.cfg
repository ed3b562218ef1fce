CONSTANTS
    NVersions = 2
    NFormats = 3
    NLocations = 2
    Usable = {1, 3}
    LocalMirror = TRUE
    Gnu = TRUE
    MaxTorn = 1
    MaxFails = 2
    MaxKills = 2
SPECIFICATION FairSpec
INVARIANT BuildsFresh
PROPERTIES KeepsWhole ResumeHeals
CHECK_DEADLOCK FALSE
