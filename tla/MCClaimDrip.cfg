SPECIFICATION Spec
CONSTANTS
    ShareScale = 4
    VirtualShares = 1
    MaxU64 = 200
    SubAccounts <- OneSubAccount
    Users = {u1}
    TicketIndexes = {0}
    Custodies <- OneCustody
    Destinations = {}
    Configs <- DripConfigs
    PauseSettings <- OnlyUnpaused
    AccessSettings <- OnlyOpenAccess
    DepositAmounts = {3}
    AssetValues = {}
    ShareAmounts = {}
    AtomicAmounts = {}
    ExternalValues = {0, 3}
    MoveAmounts = {}
    ClockSteps <- SecondAndSlot
    GenesisTs = 3
    RedeemCancelDelaySlots = 1
    MaxBatch = 2
    MaxEpoch = 2
    MaxTs = 6
    MaxSlot = 3
    MaxRequestSlot = 2
PROPERTY
    RolledDripKeepsItsSpan
