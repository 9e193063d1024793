\* One thread; one statement raises.
CONSTANTS
    Small = small
    Large = large
    Users = {u1}
    Workers <- BothWorkers
    Slots <- OneThread
    WorkerOf <- ProcessOf
    PoolSize = 2
    Limit = 2
    MaxDay = 0
    MaxCalls = 2
    MaxFaults = 1
SPECIFICATION Spec
INVARIANT ConnectionsReturned
