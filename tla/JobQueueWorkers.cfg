\* Two workers and two clients: selections race updates, inserts race
\* each other, a statement raises or a worker dies, the clock moves once.
CONSTANTS
    JobIds = {1, 2}
    Hashes = {h1}
    Clients = {c1, c2}
    Workers = {w1, w2}
    MaxRetries = 1
    MaxDelay = 0
    MaxTime = 1
    MaxFaults = 1
    MaxCrashes = 1
    MaxTroubles = 1
SPECIFICATION HFairSpec
INVARIANTS NoOrphan AttemptsBounded TwinsCrossed
PROPERTIES ImplementsLife JobsFinish
