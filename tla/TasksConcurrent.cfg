\* Two requests at a time, three in all, of two users; the clock moves once.
CONSTANTS
    Users = {u1, u2}
    Slots = {s1, s2}
    Window = 0
    Wanted <- SomeChanges
    LastHour = 1
    MaxRequests = 3
SPECIFICATION TracedSpec
INVARIANTS RowsSound TitlesKept RemindersTrue
PROPERTY GoneStaysGone
