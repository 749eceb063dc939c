SPECIFICATION Spec
CONSTANTS
    u1 = u1
    u2 = u2
    t1 = t1
    t2 = t2
    nobody = nobody
    none = none
    Users = {u1}
    NoUser = nobody
    Tokens = {t1, t2}
    NoToken = none
    Tiers = {1, 2}
    Required <- TwoTiers
    TxMenu <- TradeMenu
    MaxLogs = 2
    MaxBlock = 3
    MaxPeriod = 1
    Chunk = 2
    Lookback = 0
    HeadChunk = 1
    w1 = w1
    w2 = w2
    r1 = r1
    Workers = {w1, w2}
    Requests = {r1}
    SubmitVolumes = {3}
    MaxSubmits = 1
    MaxRows = 1
    MaxFaults = 0
SYMMETRY TwoWorkers
CONSTRAINT TradeFocus
ACTION_CONSTRAINT IncomeAtOnce
INVARIANTS
    
    CompliantEarned
