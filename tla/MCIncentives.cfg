SPECIFICATION GenesisSpec
CHECK_DEADLOCK FALSE
CONSTANTS
    gov = gov
    user = user
    BasisPointDenominator = 10
    MaxUint64 = 31
    DefaultParams <- MCDefaultParams
    Params <- MCParams
    Account = {gov, user}
    Admin = gov
    NoAuthority = NoAuthority
    NoPeriod = NoPeriod
    LegacyPeriod = LegacyPeriod
    Deposit = {0, 3, 8}
    Bonded = {0, 5}
    MaxHeight = 7
    MaxFunded = 16
INVARIANTS
    ReleasedOnSchedule
    HaltsOnlyOnOverflow
    LifetimeAccounting
PROPERTIES
    PeriodsRunToTheirEnd
