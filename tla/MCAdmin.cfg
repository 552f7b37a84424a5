SPECIFICATION FairSpec
CONSTANTS
    ShareScale = 4
    VirtualShares = 1
    MaxU64 = 200
    SubAccounts <- TwoSubAccounts
    Users = {u1}
    TicketIndexes = {0}
    Custodies <- TwoCustodies
    Destinations = {d1}
    Configs <- AdminConfigs
    PauseSettings <- Pauses
    AccessSettings <- Accesses
    DepositAmounts = {3}
    AssetValues = {2}
    ShareAmounts = {2}
    AtomicAmounts = {}
    ExternalValues = {0, 3, 6}
    MoveAmounts = {3}
    ClockSteps <- SecondAndSlot
    GenesisTs = 3
    RedeemCancelDelaySlots = 1
    MaxBatch = 2
    MaxEpoch = 3
    MaxTs = 7
    MaxSlot = 4
    MaxRequestSlot = 2
INVARIANTS
    TypeOK
    BooksBalance
PROPERTIES
    GainsBounded
    NoRedeemerTrapped
