SPECIFICATION Spec
CONSTANTS
    ShareScale = 4
    VirtualShares = 1
    MaxU64 = 200
    SubAccounts <- OneSubAccount
    Users = {u1}
    TicketIndexes = {0}
    Custodies <- OneCustody
    Destinations = {}
    Configs <- ShortGraceConfigs
    PauseSettings <- OnlyUnpaused
    AccessSettings <- OnlyOpenAccess
    DepositAmounts = {3}
    AssetValues = {}
    ShareAmounts = {1, 3}
    AtomicAmounts = {}
    ExternalValues = {0, 2}
    MoveAmounts = {}
    ClockSteps <- SecondAndSlot
    GenesisTs = 3
    RedeemCancelDelaySlots = 2
    MaxBatch = 2
    MaxEpoch = 2
    MaxTs = 6
    MaxSlot = 2
    MaxRequestSlot = 2
INVARIANT
    EscapeOpensAtGrace
