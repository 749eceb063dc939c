CONSTANTS
    first = first
    second = second
    prime = prime
    elite = elite
    royal = royal
    NoUser = NoUser
    Users = {first, second}
    Sponsor <- MCSponsor
    Levels <- MCLevels
    Anchor <- MCAnchor
    Creator = NoUser
    Cap <- MCCap
    Activation <- Nothing
    Resale <- Nothing
    Split <- MCSplit
    MaxLevels = 2
    DayTicks = 1
    PeriodTicks = 1
    LockTicks = 1
    Callers = {}
    Runner = runner
    Unlockers = {t1}
    Burners = {b1}
    Take = 1
    MaxTime = 3
    MaxVerdicts = 1
    MaxCrashes = 1
    MaxRuns = 2
    Ranks <- MCRanks
    RankPct <- MCRankPct
    RankOf <- MCRankOf
    CreditOf = 20
    MaxCredits = 1
SPECIFICATION FairPool
INVARIANTS
    PaidIsDistributed
    RevivedOnlyByRace
    OneRunADay
PROPERTIES
    PoolKeepsBooks
    LockedIsSettled
CHECK_DEADLOCK FALSE
