CONSTANTS
    t1 = t1
    t2 = t2
    Ehdr = Ehdr
    Hwcap = Hwcap
    Secure = Secure
    Ignore = Ignore
    Main = t1
    Threads <- MCThreads
    Types <- MCTypes
    Vector <- MCVector
    Procfs = "always"
SPECIFICATION Spec
INVARIANT SecureTold
