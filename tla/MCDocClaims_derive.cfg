CONSTANTS
    PubKeys = {"k1", "k2"}
    NoKey = "none"
    CurrencyModulus = 4
    HardenedOffset = 2
    Derive <- MCDerive
    Memos = {"", "hi", "ho"}
    NoMemo = ""
    NoText = ""
    AmountText <- MCAmountText
    ValueText <- MCValueText
    Apdus <- FewApdus
    PatientHost = TRUE
    CryptoMayFail = TRUE
    IoMayFail = FALSE
    CryptoTestBuild = FALSE
    MaxReplies = 2
SPECIFICATION Spec
INVARIANT
    ReturnsAnAddress
