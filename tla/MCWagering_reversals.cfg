SPECIFICATION Spec
CONSTANTS
    MaxMoney = 3
    Handlers = {h1, h2}
    Resolvers = {r1}
    Wallets = {"w1"}
    Accounts <- AliceOnly
    Seeded = {"w1"}
    Commands <- ReversalCommands
    Messages = {}
    TxIds = {"t1", "t2", "t3"}
    MaxAttempts = 2
    BatchSize = 2
    MaxSends = 3
    MaxFaults = 0
SYMMETRY HandlerSymmetry
INVARIANTS
    LedgerChain
    CASNeverFails
    AtMostOneReversal
    ReversalUndoes
PROPERTIES
    ImplementsAtomic
