CONSTANTS
    member = member
    parent = parent
    NoUser = NoUser
    a1 = a1
    r1 = r1
    Users = {member, parent}
    Sponsor <- MCSponsor
    Levels <- MCLevels
    Anchor <- MCAnchor
    Creator = NoUser
    Cap <- MCCap
    Activation <- MCActivation
    Resale <- MCResale
    Split <- MCSplit
    MaxLevels = 2
    DayTicks = 2
    PeriodTicks = 3
    LockTicks = 2
    Callers = {c1, c2}
    Runner = runner
    Unlockers = {t1}
    Burners = {b1}
    Take = 1
    MaxTime = 4
    MaxVerdicts = 1
    MaxCrashes = 1
    MaxRuns = 0
SPECIFICATION LedgerSpec
SYMMETRY Symmetry
CONSTRAINT RestartFocus
INVARIANTS
    CapKept
    SettledOnce
    DistributedOnce
    BurnsNeedAlignedPeriod
PROPERTY KeepsBooks
CHECK_DEADLOCK FALSE
