SPECIFICATION FairSpec
CONSTANTS
    MaxMoney = 3
    Wallets = {"w1"}
    Accounts <- Alice
    Seeded = {"w1"}
    Commands <- HttpCommands
    Messages = {"m1", "m2"}
    TxIds = {"t1", "t2", "t3"}
    Consumers = {c1, c2}
    Post <- Letters
    MaxMessages = 2
    MaxReceive = 2
    Stopping = {c1}
    MaxStops = 1
    MaxFaults = 1
INVARIANTS
    TypeOK
    DeletedWereSettled
    OvertakesOnlyFailed
    StoppedHoldsNothing
    ConsumerInv
PROPERTIES
    EventuallyDisposed
