CONSTANTS
    Users = {u1, u2}
    Market = Market
    NoOne = NoOne
    MaxToken = 5
    BPS = 100
    MaxLevels = 2
    Packages <- MCPackages
    PackagePrice <- MCPackagePrice
    TradingLimit <- OneSaleADay
    NoHoldMax = 10
    Pricings <- OnePricing
    InitPricing <- Base
    Splits <- OneSplit
    InitSplit <- Default
    Recipients <- OnlyUsers
    MintQuantities = {2}
SPECIFICATION Spec
SYMMETRY Symmetry
CONSTRAINT QueueFocus
INVARIANTS
    QueueSound
    HoldSound
    StockIsQueued
    AsksBelowThreshold
PROPERTY Fifo
