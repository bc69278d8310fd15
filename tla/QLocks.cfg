\* A QLock with its Rendez, or an RWLock, shared by three processes.
CONSTANTS
    p1 = p1
    p2 = p2
    p3 = p3
    z1 = z1
    z2 = z2
    z3 = z3
    Proc <- MCProc
    Tag <- MCTag
    Rid = {}
    Qlk = {}
    NoProc = NoProc
    NoRid = NoRid
    NoTag = NoTag
    None = NoTag
    Broken0 = Broken0
    Val = {"waiter", "waker"}
    MaxNotes = 1
\* All the processes may be asleep on the Rendez.
CHECK_DEADLOCK FALSE
SPECIFICATION FairSpec
INVARIANTS
    Exclusion
    NoAbort
    HandOvers
PROPERTIES
    Served
