\* A Lock and a semaphore shared by three processes, with notes and timeouts.
CONSTANTS
    p1 = p1
    p2 = p2
    p3 = p3
    Proc <- MCProc
    Rid <- MCRid
    Qlk = {}
    NoProc = NoProc
    NoRid = NoRid
    Addr = {"lk", "s"}
    LockSem = "lk"
    Delta = {1, 2}
    MaxWord = 2
SPECIFICATION FairSpec
INVARIANTS
    ExclusiveUntilCanlock
    WakeupsCover
PROPERTIES
    LockProgress
