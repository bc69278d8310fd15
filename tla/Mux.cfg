\* Three processes, a server and the wire between them.
CONSTANTS
    p1 = p1
    p2 = p2
    p3 = p3
    Proc <- MCProc
    Rid <- MCRid
    Qlk = {"Rlock", "Wlock"}
    NoProc = NoProc
    NoRid = NoRid
    NTag = 16
    Limit = 2
    Plans <- MCPlans
\* The calls are made once.
CHECK_DEADLOCK FALSE
SYMMETRY MCSymmetry
SPECIFICATION Spec
INVARIANTS
    AnswerComingPut
    OwnAnswer
    SentOnce
    WireRead
    QueueKept
    NoneStuck
