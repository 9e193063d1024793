\* Two processes, two requests at a time, of two users whose quota is one; both
\* processes may die.
CONSTANTS
    Users = {u1, u2}
    Slots = {s1, s2}
    Workers = {s1, s2}
    WorkerOf <- Apart
    Limit = 1
    MaxAttempts = 2
    MaxRequests = 2
    MaxCrashes = 2
SPECIFICATION FairSpec
INVARIANTS CallsArePaid RecordingsRemoved AnswersTellTasks
PROPERTY EveryoneAnswered
