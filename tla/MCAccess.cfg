SPECIFICATION Spec
CONSTANTS
    NoWallet = NoWallet
    Wallets <- MCWallets
    Lists <- MCLists
    MAX_ACCESS_PROOF_LEN = 3
    ForgedLen = 2
INVARIANT ListedWalletsGetIn
PROPERTY ImplementsList
CHECK_DEADLOCK FALSE
