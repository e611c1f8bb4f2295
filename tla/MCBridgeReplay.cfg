SPECIFICATION E2EGenesisSpec
CONSTANTS
    s1 = s1
    s2 = s2
    s3 = s3
    s4 = s4
    g1 = g1
    alice = alice
    bob = bob
    vault = vault
    Address = {s1, s2, s3, s4, g1}
    Account = {alice, bob, vault}
    Blocked = {vault}
    Authority = alice
    RouteConfig <- E2ERouteConfig
    Attestation <- E2EAttestation
    ControlAction <- E2EControlAction
    PauseAction <- E2EPauseAction
    Signatures <- E2ESignatures
    Amount = {1, 2}
    NoConfig = NoConfig
    MaxSupply = 5
    InitialBalance <- E2EInitialBalance
    InitialSupply = 1
    DayLength = 2
    MaxTime = 3
    MaxNonce = 2
    Honest = {s2, s3}
    DepositAmount <- E2EDepositAmount
INVARIANTS
    EventMintedOnce
