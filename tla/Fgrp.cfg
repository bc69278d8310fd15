\* Shared tables, kills, ctl closes, short writes.
CONSTANTS
    p1 = p1
    p2 = p2
    t1 = t1
    t2 = t2
    t3 = t3
    c1 = c1
    c2 = c2
    k1 = k1
    k2 = k2
    Proc <- MCProc
    First = p1
    Table <- MCTable
    Nfd = 2
    Chan <- MCChan
    File <- MCFile
    NoChan = NoChan
    NoTable = NoTable
    Kproc <- MCKproc
    NoKproc = NoKproc
    MaxWrite = 1
    MaxOffset = 2
SYMMETRY MCSymmetry
\* Every process may have exited.
CHECK_DEADLOCK FALSE
SPECIFICATION Spec
INVARIANTS
    ClosesKept
    WholeWritesApart
PROPERTIES
    LastIsTold
    TendedUnlessCtl
