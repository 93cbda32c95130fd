SPECIFICATION PaymentsSpec
CONSTANTS
    a1 = a1
    a2 = a2
    t1 = t1
    c1 = c1
    c2 = c2
    f1 = f1
    f2 = f2
    basin = basin
    s1 = s1
    s2 = s2
    n1 = n1
    NoRate = NoRate
    NoKey = NoKey
    NoWhitelist = NoWhitelist
    RateUndefined = RateUndefined
    NativeToken = NativeToken
    Account = {a1, a2, t1}
    Community = {c1}
    DefaultRate = 0
    Rates = {0}
    ExistentialDeposit = 1
    Granularity = 1
    MaxBalance = 8
    MaxFungible = 8
    Income = 1
    KiloKsm = 1
    Factors = {1}
    NativeFees = {}
    Rewards = {}
    Amounts = {}
    MaxBlock = 0
    MaxEvents = 0
    Holder <- MCHolder
    MinimumBalance = 2
    Person = {a1, a2}
    FaucetName = {f1, f2}
    CatchBasin = basin
    CommunityIdentifiers = {c1, c2}
    Reputation <- MCReputation
    Whitelists <- MCWhitelists
    DripAmounts = {1, 3}
    Fundings = {5}
    ReserveAmounts = {0, 1}
    MaxPurposes = 2
    SwapHolder = {a1}
    TreasuryAccount <- MCTreasury
    Kinds = {"native", "asset"}
    Allowances = {2}
    SwapRates = {2}
    SwapAmounts = {1, 2}
    Payer = {a1, a2}
    Secret = {s1, s2}
    Nonce = {n1}
    Asset = {c1, NativeToken}
    PayAmounts = {1}
    Quotients = {0, 1}
    Order = 5
    InitialDeltas = {2}
    Scalars = {3}
    MaxContributions = 2
    InitialFree <- MCInitialFree
    InitialCc = 5
    MaxSteps = 5
SYMMETRY MCSymmetry
INVARIANTS
    DripsBacked
    FaucetServesOrCloses
    SwapsWithinGrants
    SettledPerEncoding
    SetupUsable
CHECK_DEADLOCK FALSE
