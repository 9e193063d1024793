\* Two processes, one with more threads than connections; statements raise.
\* All of their checks together are those of one ledger.
CONSTANTS
    Small = small
    Large = large
    Users = {u1}
    Workers <- BothWorkers
    Slots <- UnevenThreads
    WorkerOf <- ProcessOf
    PoolSize = 2
    Limit = 2
    MaxDay = 1
    MaxCalls = 4
    MaxFaults = 1
SPECIFICATION Spec
INVARIANTS QuotaHolds RefusedForCause
PROPERTY ImplementsLedger
