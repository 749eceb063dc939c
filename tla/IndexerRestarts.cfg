SPECIFICATION Spec
CONSTANTS
    u1 = u1
    u2 = u2
    t1 = t1
    t2 = t2
    nobody = nobody
    none = none
    Users = {u1, u2}
    NoUser = nobody
    Tokens = {t1}
    NoToken = none
    Tiers = {1, 2}
    Required <- TwoTiers
    TxMenu <- PackageMenu
    MaxLogs = 2
    MaxBlock = 3
    MaxPeriod = 0
    Chunk = 2
    Lookback = 1
    HeadChunk = 1
    w1 = w1
    w2 = w2
    r1 = r1
    Workers = {w1}
    Requests = {}
    SubmitVolumes = {}
    MaxSubmits = 0
    MaxRows = 3
    MaxFaults = 2
INVARIANTS
    SaleIncomeOnce
