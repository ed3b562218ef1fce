CONSTANTS
    NTools = 4
    HostTools = {4}
    OptionalTools = {2}
    EarlyTools = {1, 2}
    TolerantTools = {3}
    SingleTools = {3}
    Size <- MCSize
    Rap = FALSE
    HostGcc = TRUE
    Targets = {"noninteractive", "stage1_log", "stage2_log", "stage3_log"}
    MaxKills = 1
    MaxFails = 1
SPECIFICATION FairSpec
INVARIANTS TreeSound BuildEnvironment
PROPERTY EventuallyReady
