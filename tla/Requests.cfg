CONSTANTS
    p = p
    q = q
    root = root
    b = b
    c = c
    d = d
    Parts = {"activations", "tree", "sessions", "custody", "browser", "checkout"}
    Packages = {1, 2}
    Requests = {p, q}
    MaxDisturbed = 1
    MaxRows = 3
    Members = {root, b, c, d}
    Founder = root
    NoMember = NoMember
    Attaching = {p, q}
    Depth = 2
    MaxRare = 2
    Doors = {p, q}
    SessionTicks = 1
    NonceTicks = 1
    MaxHours = 1
    MaxNonces = 2
    MaxTokens = 3
    MaxLogouts = 1
    MaxStatus = 1
    MaxCharges = 3
    Tiers <- MCTiers
    Requires <- MCRequires
    NoTier = NoTier
    Credit = 400
    Tabs = {p, q}
    HourTicks = 2
    IdleTicks = 1
    MaxTicks = 4
    MaxPairs = 4
    Windows = {p, q}
    Asks = {3, 4}
    Fees = {2, 3}
    Cap = 5
    InitFunds = 1
    Minted = 8
    TopPackage = 2
    MaxMoves = 3
SPECIFICATION RequestsSpec
SYMMETRY Symmetry
CONSTRAINTS
    TreeFocus
    SessionsFocus
INVARIANTS
    CurrentFollowsChain
    OneRowPerPurchase
    TreeRowsFollowSponsors
    LoopsNeedTwoRewires
    CredentialsUsedOnce
    LogoutEndsSessions
    NeverOverdrawn
PROPERTIES
    SessionGoesOn
    PaidAsShown
CHECK_DEADLOCK FALSE
