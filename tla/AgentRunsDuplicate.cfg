\* Two requests with one action_id, no failure of any kind.
CONSTANTS
    Users = {u1}
    ActionIds = {a1}
    Names = {"create_task"}
    Slots = {s1, s2}
    Workers = {w1}
    WorkerOf <- OneProcess
    MaxRequests = 2
    MaxFaults = 0
    MaxCrashes = 0
SPECIFICATION HSpec
INVARIANT AtMostOnce
