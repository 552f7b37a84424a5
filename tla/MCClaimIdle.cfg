SPECIFICATION Spec
CONSTANTS
    ShareScale = 4
    VirtualShares = 1
    MaxU64 = 200
    SubAccounts <- OneSubAccount
    Users = {u1}
    TicketIndexes = {0}
    Custodies <- AtaAndAux
    Destinations = {d1}
    Configs <- ExternalConfigs
    PauseSettings <- OnlyUnpaused
    AccessSettings <- OnlyOpenAccess
    DepositAmounts = {3}
    AssetValues = {}
    ShareAmounts = {}
    AtomicAmounts = {}
    ExternalValues = {0, 2}
    MoveAmounts = {1}
    ClockSteps <- SecondAndSlot
    GenesisTs = 3
    RedeemCancelDelaySlots = 1
    MaxBatch = 2
    MaxEpoch = 2
    MaxTs = 6
    MaxSlot = 2
    MaxRequestSlot = 2
INVARIANT
    IdleReadCoversCustody
