CONSTANTS
    t1 = t1
    t2 = t2
    Main = t1
    Threads <- MCThreads
    Secure = Secure
    Ignore = Ignore
    Ehdr = Ehdr
    Types <- MCTypes
    Vector <- MCVector
    Procfs = "sometimes"
    Realtime = Realtime
    Monotonic = Monotonic
    Boottime = Boottime
    Cpu = Cpu
    Clocks <- MCClocks
    Exported = {"clock_gettime"}
    VdsoSays <- MCVdsoSays
    KernelSays <- MCKernelSays
SPECIFICATION VdsoSpec
INVARIANTS RightAnswer AsTheKernel
PROPERTIES StaysFinal Settles Returns
