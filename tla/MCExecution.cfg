SPECIFICATION Spec
CONSTANTS
    NoKey = NoKey
    ROSHI <- Roshi
    Programs <- MCPrograms
    SubAccounts = {10}
    BaseCustody <- BaseAta
    PlantedKey <- Planted
    Price <- MCPrice
    Deployments <- MCDeployments
INVARIANTS
    ExecutionTypeOK
    CustodyIsCleanAtRest
    FlashCostsAtMostItsFee
    RelaysAreWhatTheAdminMeant
    StrategistNeverRaisesTheCap
PROPERTIES
    SwapKeepsVaultValue
    DeployMovesOnlyTheDeposit
CHECK_DEADLOCK FALSE
