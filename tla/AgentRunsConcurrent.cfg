\* Two processes, two users: requests interleave, one round trip may fail,
\* one process may die.
CONSTANTS
    Users = {u1, u2}
    ActionIds = {a1}
    Names = {"create_task", "delete_task"}
    Slots = {w1, w2}
    Workers = {w1, w2}
    WorkerOf <- OwnProcess
    MaxRequests = 3
    MaxFaults = 1
    MaxCrashes = 1
SPECIFICATION HFairSpec
INVARIANTS CompletedHasEffect EffectIsRecorded ExecutorMatchesRun
PROPERTIES CompletedIsFinal ImplementsActionOnce ExecutingEnds
