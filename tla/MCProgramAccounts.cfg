SPECIFICATION LiveSpec
CONSTANTS
    NoKey = NoKey
    ops = ops
    alice = alice
    bob = bob
    program = program
    Keys <- MCKeys
    ProgramKeypair = program
    MAX_TAG_LEN = 2
    TagArgs <- TwoTags
    BaseMints <- MCBaseMints
    Treasuries <- MCTreasuries
    BaseDecimals = 6
    Circle <- MCCircle
    RoleChoices <- MCRoleChoices
    Loose <- MCLoose
    Names = {"one", "two"}
    Rent = 2
    PrefundAmounts = {1, 2, 3}
    MaxPrefunds = 1
INVARIANTS
    AccountsTypeOK
    OutsidersPassNoGate
    VaultsAnswerAtTheirAddress
PROPERTY
    CreationIsNeverBlocked
CHECK_DEADLOCK FALSE
