SPECIFICATION Spec
CONSTANTS
    NoKey = NoKey
    MaxU128 = 1000
    MaxOracleU64 = 4
    ScopeMaxEntries = 1
    BaseMint <- Base
    BaseDecimals = 1
    MintAccounts <- MCMints
    MaxSwapSlippageBps = 2500
    MaxTime = 2
    Markets <- MCMarkets
INVARIANTS
    AssetsTypeOK
    DepositCreditsTheFloor
    OnePricePerFeed
    PricesAreGenuineAndFresh
    DepositsNeverOverfill
    SwapLosesToleranceAndAnAtom
CHECK_DEADLOCK FALSE
