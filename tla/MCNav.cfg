SPECIFICATION Spec
CONSTANTS
    ShareScale = 4
    VirtualShares = 1
    MaxU64 = 200
    SubAccounts <- OneSubAccount
    Users = {u1}
    TicketIndexes = {0}
    Custodies <- OneCustody
    Destinations = {}
    Configs <- NavConfigs
    PauseSettings <- OnlyUnpaused
    AccessSettings <- OnlyOpenAccess
    DepositAmounts = {3}
    AssetValues = {}
    ShareAmounts = {2}
    AtomicAmounts = {2}
    ExternalValues = {0, 2, 5}
    MoveAmounts = {2}
    ClockSteps <- SecondAndSlot
    GenesisTs = 3
    RedeemCancelDelaySlots = 1
    MaxBatch = 2
    MaxEpoch = 3
    MaxTs = 6
    MaxSlot = 3
    MaxRequestSlot = 3
INVARIANTS
    VaultStaysLoadable
PROPERTIES
    ReportNeverLiftsPrice
    PayoutKeepsUnlockLine
    FeesOnlyAboveWatermark
