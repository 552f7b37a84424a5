SPECIFICATION Spec
CONSTANTS
    ShareScale = 4
    VirtualShares = 1
    MaxU64 = 200
    SubAccounts <- OneSubAccount
    Users = {u1, u2}
    TicketIndexes = {0, 1}
    Custodies <- OneCustody
    Destinations = {}
    Configs <- QueueConfigs
    PauseSettings <- OnlyUnpaused
    AccessSettings <- OnlyOpenAccess
    DepositAmounts = {3}
    AssetValues = {}
    ShareAmounts = {1, 3}
    AtomicAmounts = {}
    ExternalValues = {0, 2}
    MoveAmounts = {}
    ClockSteps <- SecondAndSlot
    GenesisTs = 3
    RedeemCancelDelaySlots = 1
    MaxBatch = 2
    MaxEpoch = 2
    MaxTs = 6
    MaxSlot = 2
    MaxRequestSlot = 2
SYMMETRY UserSymmetry
INVARIANTS
    SharesAccounted
    NothingStruckAtRest
    EligibleIsStrikable
PROPERTIES
    OnlyReportsLowerPrice
    ImplementsQueue
