CONSTANTS
    NTools = 4
    HostTools = {4}
    OptionalTools = {2}
    EarlyTools = {1, 2}
    TolerantTools = {3}
    SingleTools = {3}
    Size <- MCSize
    Rap = TRUE
    HostGcc = TRUE
    Targets = {"noninteractive"}
    MaxKills = 1
    MaxFails = 0
SPECIFICATION Spec
INVARIANTS Stage2HasItsProfile
