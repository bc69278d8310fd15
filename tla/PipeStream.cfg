\* Two processes, the ends opened and closed again and again, with fair
\* scheduling.
CONSTANTS
    p1 = p1
    p2 = p2
    p3 = p3
    Proc <- MCProc2
    Rid <- MCRid
    Qlk <- MCQlk
    NoProc = NoProc
    NoRid = NoRid
    Limit = 144
    Maxatomic = 2
    ReadSizes = {1}
    WriteSizes = {0, 3}
    ReadEnds = {1}
    WriteEnds = {0}
    OpenEnds = {0, 1}
    Inherited <- MCInherited2
    MaxQueued = 1
\* All of them may wait for each other.
CHECK_DEADLOCK FALSE
SPECIFICATION FairSpec
INVARIANTS
    ClosedTogether
PROPERTIES
    ImplementsStreams
    HangupHeard
