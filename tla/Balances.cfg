SPECIFICATION BalancesSpec
CONSTANTS
    a1 = a1
    a2 = a2
    c1 = c1
    NoRate = NoRate
    Account = {a1, a2}
    Community = {c1}
    DefaultRate = 1
    Rates = {0, 1}
    ExistentialDeposit = 2
    Granularity = 2
    MaxBalance = 6
    MaxFungible = 6
    Income = 2
    KiloKsm = 3
    Factors = {2}
    NativeFees = {2}
    Rewards = {3}
    Amounts = {0, 3}
    MaxBlock = 2
    MaxEvents = 2
SYMMETRY MCSymmetry
INVARIANTS
    SupplyCoversBalances
    SufficientsCountAccounts
PROPERTIES
    ImplementsLedger
CHECK_DEADLOCK FALSE
