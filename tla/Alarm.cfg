\* Alarms, sleeps, exits and waits.
CONSTANTS
    ak = ak
    p1 = p1
    p2 = p2
    p3 = p3
    Proc <- MCProc
    Rid <- MCRid
    Qlk = {}
    NoProc = NoProc
    NoRid = NoRid
    Alarmkproc = ak
    Parent = p1
    Readers = {p2}
    MaxTicks = 2
\* The system may be over.
CHECK_DEADLOCK FALSE
SPECIFICATION FairSpec
INVARIANTS
    AlarmsInOrder
    DueUnlessOrphaned
PROPERTIES
    ClearedIsPosted
    AlarmEndsSleep
