SPECIFICATION Spec
CONSTANTS
    v1 = v1
    v2 = v2
    v3 = v3
    admin = admin
    user = user
    Validator = {v1, v2, v3}
    Account = {admin, user}
    Admin = admin
    NoAuthority = NoAuthority
    Coin <- MCCoin
    Capacity = {0, 1, 2}
    DefaultMinimum <- MCDefaultMinimum
    Message <- MCMessage
    Transaction <- MCTransaction
    AllowGovernance = TRUE
    NoTx = NoTx
PROPERTIES
    UnjailedOnlyWhenApproved
