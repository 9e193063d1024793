\* Three devices whose logins overlap; tokens expire.
CONSTANTS
    Devices = {d1, d2, d3}
    Lifetime = 2
    MaxTokens = 4
    MaxTime = 3
SPECIFICATION HSpec
INVARIANTS RevokedStaysOut LatestLoginWorks
PROPERTIES PrimaryUndisturbed
