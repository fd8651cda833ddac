\* One object with two predictive triggers; edits, outages, restarts and failing calls between any two steps.
SPECIFICATION FairSpec
CONSTANTS
    a = a
    b = b
    m1 = m1
    m2 = m2
    Names = {a}
    Metrics = {m1, m2}
    Policies <- OneOrTwo
    NoName = NoName
    MaxDelay = 2
    MaxAttempts = 3
    MaxEdits = 2
    MaxFaults = 1
INVARIANTS
    SeriesHaveStates
PROPERTIES
    PatchesWhatItRead
    Recovers
    RequestsEnd
