\* A child that ended with an alarm set is waited for before the next tick.
CONSTANTS
    ak = ak
    p1 = p1
    p2 = p2
    p3 = p3
    Proc <- MCProc
    Rid <- MCRid
    Qlk = {}
    NoProc = NoProc
    NoRid = NoRid
    Alarmkproc = ak
    Parent = p1
    Readers = {p2}
    MaxTicks = 2
CHECK_DEADLOCK FALSE
SPECIFICATION Spec
INVARIANTS
    DueWakes
