SPECIFICATION Spec
CONSTANTS
    MaxMoney = 3
    Handlers = {h1, h2}
    Resolvers = {}
    Wallets = {"w1", "w2", "w3", "w4"}
    Accounts <- SlotRace
    Seeded = {"w1", "w2"}
    Commands <- DoorCommands
    Messages = {"m1"}
    TxIds = {"t1", "t2", "t3"}
    MaxAttempts = 2
    BatchSize = 2
    MaxSends = 3
    MaxFaults = 1
SYMMETRY HandlerSymmetry
INVARIANTS
    TypeOK
    AnswerStands
    AnswersTheRequest
    NoFalseConflict
    HandledMessagesAreRecorded
    OneWalletPerSlot
    RefinementInv
