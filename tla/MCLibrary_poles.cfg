SPECIFICATION Spec
CONSTANTS
    MathCalls <- MCMathCalls
    Sizes <- MCSizes
    Alignments <- MCAlignments
    GlobCalls <- MCGlobCalls
    Dot = 0
    Offsets = {0, 1}
    Errnos = {"none", "ERANGE"}
    Shortages = 1
    FdCalls <- MCFdCalls
    Tables <- MCTables
    MaxFd = 3
    MaxOpens = 2
    Searches <- MCSearches
    Callers = {"caller1", "caller2"}
    Templates <- MCTemplates
    TempNames = {"a", "b"}
    Retries = 3
    EntropySizes = {0, 1, 12, 256, 257}
    MaxInterrupts = 2
    ActionCalls <- MCActionCalls
    Blocks = {1, 2, 3, 4}
    MaxAdds = 4
    SpawnCalls = {c1, c2}
    MaxKills = 2
INVARIANT LgammaPoles
