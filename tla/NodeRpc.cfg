SPECIFICATION NodeSpec
CONSTANTS
    f1 = f1
    n1 = n1
    n2 = n2
    i1 = i1
    d1 = d1
    a1 = a1
    r1 = r1
    None = None
    NoName = NoName
    NoIncome = NoIncome
    NoDemurrage = NoDemurrage
    Points <- MCPoints
    Founders = {f1}
    Names = {n1, n2}
    Incomes = {i1}
    Demurrages = {d1}
    BucketSize = 12
    SunStep = 11
    MaxAbsLatitude = 78
    DatelineLon = 180
    DatelineDistance = 5
    TripTimes = {1, 2}
    Speeds = {2}
    MaxCommunityIdentifiers = 2
    MaxCommunityIdentifiersPerGeohash = 2
    MaxLocationsPerGeohash = 2
    MaxCalls = 4
    Client = {r1}
    Controller = {a1}
    MaxOid = 2
SYMMETRY MCSymmetry
INVARIANTS
    IndexSound
    OfferingsBelong
    CleanCacheCurrent
PROPERTIES
    NewLocationApart
CHECK_DEADLOCK FALSE
