SPECIFICATION FairSpec
CONSTANTS
    MaxMoney = 3
    Handlers = {h1}
    Resolvers = {r1}
    Wallets = {"w1"}
    Accounts <- AliceOnly
    Seeded = {"w1"}
    Commands <- PoisonCommands
    Messages = {}
    TxIds = {"t1", "t2", "t3"}
    MaxAttempts = 3
    BatchSize = 2
    MaxSends = 3
    MaxFaults = 0
PROPERTIES
    ParkedEventuallySettle
