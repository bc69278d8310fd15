\* The same with programs that use canlock: two of them hold the lock.
CONSTANTS
    p1 = p1
    p2 = p2
    p3 = p3
    Proc <- MCProc
    Rid <- MCRid
    Qlk = {}
    NoProc = NoProc
    NoRid = NoRid
    Addr = {"lk", "s"}
    LockSem = "lk"
    Delta = {1, 2}
    MaxWord = 2
SYMMETRY MCSymmetry
SPECIFICATION Spec
INVARIANT
    MutualExclusion
