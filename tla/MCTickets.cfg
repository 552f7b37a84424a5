SPECIFICATION Spec
CONSTANTS
    v1 = v1
    v2 = v2
    usd = usd
    eur = eur
    Vaults = {v1, v2}
    Owners = {alice, bob}
    Indexes = {0}
    TokenAccounts = {r1, r2}
    BaseMint <- MCBaseMint
    Mints = {usd, eur}
    Closed = Closed
    LookAlikes <- MCLookAlikes
    Rent = 2
    Funds = 4
    MaxClaims = 3
    MaxBatch = 2
    MaxGifts = 1
INVARIANTS
    TicketsTypeOK
    ClaimsAreHonouredOnce
    RentComesBack
    NobodyIsLockedOut
