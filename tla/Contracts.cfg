SPECIFICATION ContractsSpec
CONSTANTS
    m1 = m1
    root = root
    Root = root
    NoOne = NoOne
    Accounts = {root, m1}
    Packages = {1, 2}
    NoPackage = 0
    BPS = 20
    MaxLevels = 2
    PerLevelBps = 4
    MidDirects = 2
    TopDirects = 2
    TokensPerUsdt = 2
    MaxSupply = 1000
    InitTerms <- TwoPackages
    TermsOnOffer <- NewTerms
    InitSplit <- DefaultSplit
    Splits <- OtherSplits
    InitUnlock <- DefaultUnlock
    UnlockLevels = {0}
    InitRules <- DefaultRules
    RulesOnOffer <- OtherRules
    Volumes = {5}
    MaxVolume = 5
    MaxDay = 3
    Ranks = {1, 2}
    RankDirects <- NeededDirects
    RankTeam <- NeededTeam
    InitRankBps <- DefaultRankBps
    RankBpsOnOffer <- OtherRankBps
    SaleGlobals = {4}
    MaxCredits = 7
    MaxCandidates = 2
    Credits = {3}
    MaxPending = 6
CONSTRAINT Focus
INVARIANTS
    NothingHeld
    PoolCoversDays
    EscrowSolvent
PROPERTIES
    SettledAsEnded
    RecentTradeProtects
