SPECIFICATION QuerySpec
CONSTANTS
    MaxMoney = 3
    Handlers = {h1}
    Resolvers = {r1}
    Wallets = {"w1", "w2"}
    Accounts <- AuditAccounts
    Seeded = {"w1"}
    Commands <- AuditCommands
    Messages = {}
    TxIds = {"t1", "t2", "t3"}
    MaxAttempts = 2
    BatchSize = 2
    MaxSends = 4
    MaxFaults = 0
    Instants = {0, 1}
    EntryId <- EntryIds
    PageDefault = 1
    PageMax = 2
    MaxAsked = 3
INVARIANTS
    VerdictExplained
    PagesComplete
    QueryInv
