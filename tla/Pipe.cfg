\* A writer, a reader and a process that has both ends; one queue in use.
\* A write is of two blocks, a full one and a last one.
CONSTANTS
    p1 = p1
    p2 = p2
    p3 = p3
    Proc <- MCProc3
    Rid <- MCRid
    Qlk <- MCQlk
    NoProc = NoProc
    NoRid = NoRid
    Limit = 144
    Maxatomic = 2
    ReadSizes = {1}
    WriteSizes = {3}
    ReadEnds = {1}
    WriteEnds = {0}
    OpenEnds = {}
    Inherited <- MCInherited3
    MaxQueued = 2
\* All of them may wait for each other.
CHECK_DEADLOCK FALSE
SPECIFICATION Spec
INVARIANTS
    FlowKept
    LockOfOneCall
    WritesInOrder
