\* The run queues, the clock and the hand-over with three processes.
CONSTANTS
    p1 = p1
    p2 = p2
    p3 = p3
    own = own
    shared = shared
    lk = lk
    Proc <- MCProc
    Rid <- MCRid
    Qlk <- MCQlk
    Guard <- MCGuard
    NoProc = NoProc
    NoRid = NoRid
    Npriq = 2
    PriNormal = 0
    PriKproc = 1
    AlarmRid = own
SYMMETRY MCSymmetry
VIEW MCView
SPECIFICATION Spec
INVARIANTS
    RendezPaired
    NoDoubleSleep
    NoteEndsSleep
    LockQueues
    QueuesAgree
PROPERTIES
    HandsOver
    HighestFirst
    Cooperates
