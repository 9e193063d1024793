SPECIFICATION HSpec
CONSTANTS
    Users = {"u1", "u2"}
    Slots = {"s1", "s2"}
    Workers = {"w1", "w2"}
    WorkerOf <- Apart
    MaxRequests = 4
    MaxFaults = 2
    MaxCrashes = 1
INVARIANTS
    CreatorStaysMember GrantedWasPaid
PROPERTIES
    ChangesHaveAuthors
