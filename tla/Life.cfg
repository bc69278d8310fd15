\* Three processes, of which the first is there at the start.
CONSTANTS
    p1 = p1
    p2 = p2
    p3 = p3
    Proc <- MCProc
    First = p1
    Rid <- MCRid
    Qlk = {}
    NoProc = NoProc
    NoRid = NoRid
    NNOTE = 1
    NBROKEN = 1
    Budgets <- MCBudgets
    Leads <- MCLeads
\* All may have ended, or sleep.
CHECK_DEADLOCK FALSE
SYMMETRY MCSymmetry
VIEW MCView
SPECIFICATION Spec
INVARIANTS
    NoLostChild
    EndedKept
    StopwaitKnown
    SleepersHear
PROPERTIES
    AwaitTruthWaited
