CONSTANTS
    Samples <- SignedSamples
SPECIFICATION Spec
CHECK_DEADLOCK FALSE
INVARIANTS
    NothingDropped
    HashDeterminesTx
    DeriveDeterminesTx
    FitsOutput
