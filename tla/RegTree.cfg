SPECIFICATION Spec
CONSTANTS
    m1 = m1
    m2 = m2
    m3 = m3
    root = root
    Root = root
    NoOne = NoOne
    Accounts = {root, m1, m2, m3}
    Packages = {1, 2}
    NoPackage = 0
    BPS = 20
    MaxLevels = 2
    PerLevelBps = 4
    MidDirects = 2
    TopDirects = 2
    TokensPerUsdt = 2
    MaxSupply = 54
    InitTerms <- PackageTerms
    TermsOnOffer = {}
    InitSplit <- DefaultSplit
    Splits = {}
    InitUnlock <- DefaultUnlock
    UnlockLevels = {}
    InitRules <- DefaultRules
    RulesOnOffer = {}
    Volumes = {}
    MaxVolume = 0
    MaxDay = 2
SYMMETRY Symmetry
CONSTRAINT TreeFocus
INVARIANTS
    SponsorTree
    DirectsCounted
