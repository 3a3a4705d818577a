SPECIFICATION Spec
CONSTANTS
    BASE = 3
    BYTE = 4
    LimbBytes = 2
    FIELD_BYTES = 2
    CHECKSUM_BYTES = 1
    VERSION = 3
    MINA_ADDRESS_LEN = 10
    Checksum <- SomeChecksum
    PubKeys <- AllKeys
    Texts <- AllTexts
    Stack <- SomeStack
INVARIANTS
    KeyComesBack
    DecodeIsValue
    StandsFor
    EncodeFits
CHECK_DEADLOCK FALSE
