SPECIFICATION FairSpec
CONSTANTS
    MaxMoney = 6
    Handlers = {h1}
    Resolvers = {r1, r2}
    Wallets = {"w1"}
    Accounts <- AliceOnly
    Seeded = {"w1"}
    Commands <- ParkCommands
    Messages = {}
    TxIds = {"t1", "t2", "t3"}
    MaxAttempts = 2
    BatchSize = 2
    MaxSends = 2
    MaxFaults = 1
INVARIANTS
    MoneyMovedOnce
    JournalMirrorsLedger
    EventsTellState
    RefinementInv
PROPERTIES
    TerminalFrozen
    ParkedEventuallySettle
