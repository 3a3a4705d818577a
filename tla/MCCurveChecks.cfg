SPECIFICATION ChecksSpec
CONSTANTS
    FIELD_MODULUS <- Modulus
    GROUP_ORDER <- Order
    GROUP_COEFF_B <- CoeffB
    AFFINE_ONE <- Generator
    SCALAR_BITS <- Bits
INVARIANTS
    ChecksPass
    FormsAdd
CHECK_DEADLOCK FALSE
