SPECIFICATION Spec
CONSTANTS
    FIELD_MODULUS <- Modulus
    GROUP_ORDER <- Order
    GROUP_COEFF_B <- CoeffB
    AFFINE_ONE <- Generator
    SCALAR_BITS <- Bits
    round_keys <- RoundKeys
    mds_matrix <- Mds
    mds_inverse <- MdsInverse
    TESTNET_IV <- TestnetIV
    MAINNET_IV <- MainnetIV
    Transactions <- SomeTransactions
    Junk <- SomeJunk
INVARIANTS
    ScalarsInRange
    LoopInvariant
    SpongeRewinds
    SignatureVerifies
CHECK_DEADLOCK FALSE
