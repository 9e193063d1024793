\* Three requests at a time; a helper raises, a process dies.
CONSTANTS
    Callers = {s1, s2, s3}
    MaxDaily = 1
    MaxRuns = 4
    MaxDays = 1
    MaxRaises = 1
    MaxCrashes = 1
SPECIFICATION AutomationSpec
INVARIANTS Overshoot CountMatchesHistory OneOutcomeEach
