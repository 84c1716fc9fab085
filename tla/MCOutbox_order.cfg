SPECIFICATION Spec
CONSTANTS
    Publishers = {p1}
    Events = {e1, e2}
    Group <- OneWallet
    BatchSize = 2
    LockFor = 2
    BaseBackoff = 1
    MaxBackoff = 3
    DedupFor = 3
    MaxLag = 0
    Horizon = 2
    MaxFaults = 1
INVARIANTS
    OrderedPerGroup
