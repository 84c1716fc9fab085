SPECIFICATION FairSpec
CONSTANTS
    Publishers = {p1, p2}
    Events = {e1, e2}
    Group <- OneWallet
    BatchSize = 2
    LockFor = 1
    BaseBackoff = 2
    MaxBackoff = 1
    DedupFor = 1
    MaxLag = 1
    Horizon = 2
    MaxFaults = 1
INVARIANTS
    TypeOK
    PublishedIsDelivered
    LiveClaimsDisjointWithoutFaults
    OutboxInv
PROPERTIES
    PendingEventuallyPublished
