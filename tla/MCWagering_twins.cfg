SPECIFICATION Spec
CONSTANTS
    MaxMoney = 3
    Handlers = {h1, h2}
    Resolvers = {}
    Wallets = {"w1", "w2"}
    Accounts <- AliceAndBob
    Seeded = {"w1", "w2"}
    Commands <- TwinCommands
    Messages = {}
    TxIds = {"t1", "t2", "t3"}
    MaxAttempts = 2
    BatchSize = 2
    MaxSends = 3
    MaxFaults = 0
INVARIANTS
    AnswersTheRequest
