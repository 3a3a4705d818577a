CONSTANTS
    PubKeys = {"k1", "k2"}
    NoKey = "none"
    CurrencyModulus = 4
    HardenedOffset = 2
    Derive <- MCDerive
    Memos = {"", "hi", "wide", "wider"}
    NoMemo = ""
    NoText = ""
    AmountText <- MCAmountText
    ValueText <- MCValueText
    Commands <- MCCommands
    Networks = {"debug", "devnet", "mainnet"}
    MainnetNames = {"mainnet"}
    Debug = "debug"
    Mainnet = "mainnet"
    Fees = {0, 1, 2}
    Balances = {0, 2, 5}
    MemoBytes <- MCMemoBytes
    Absent = Absent
SPECIFICATION Spec
CHECK_DEADLOCK FALSE
PROPERTY NodeExpiryIsUsable
