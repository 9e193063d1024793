\* Two webhooks at a time for three events, one with a status the code does
\* not list; a call raises, a check fails, a process dies, one of these at most.
CONSTANTS
    Events = {"upgrade", "downgrade", "trial"}
    Result <- NamedResult
    Slots = {s1, s2}
    Plans = {"free"}
    MaxFaults = 1
    MaxFallbacks = 1
    MaxCrashes = 1
    MaxTroubles = 1
SPECIFICATION HFairSpec
INVARIANT Unmixed
PROPERTIES ImplementsEventOnce EveryEventRecorded
