CONSTANTS
    Users = {u1}
    Market = Market
    NoOne = NoOne
    MaxToken = 2
    BPS = 100
    MaxLevels = 2
    Packages <- MCPackages
    PackagePrice <- MCPackagePrice
    TradingLimit <- MCTradingLimit
    NoHoldMax = 10
    Pricings <- MCPricings
    InitPricing <- Base
    Splits <- MCSplits
    InitSplit <- Default
    Recipients <- UsersAndMarket
    MintQuantities = {1}
SPECIFICATION Spec
INVARIANTS
    VolumeWithinLimit
    NoVault
