\* Rounds and repairs fall between any two steps of each other; calls fail, the sampler restarts and the query is edited.
SPECIFICATION Spec
CHECK_DEADLOCK FALSE
CONSTANTS
    p1 = p1
    p2 = p2
    q1 = q1
    q2 = q2
    Policies = {p1, p2}
    SourceOf <- NewQuery
    Inactive = Inactive
    NoRow = NoRow
    Interval = 2
    Jitter = 1
    Window = 8
    RecoveryWindow = 4
    MaxGap = 4
    Lookback = 4
    Level <- DemandGrows
    MaxEstimated <- Half
    Recent = 3
    MinSegment = 2
    Season = 2
    Seasons = 1
    MinimumSamples = 3
    Holdout = 1
    HoldoutPart = 2
    Confirmation = 2
    Baseline = 2
    SlopeMultiplier <- Threefold
    BaselineMultiplier <- HalfAgain
    MaxMultiplier <- HalfAgain
    LeadTime = 2
    MinWindows = 2
    MaxWindows = 3
    MinDuration = 6
    MaxSpan = 2
    MaxPlan = 1
    Holes <- OneSlotLost
    MaxTime = 12
    MaxFaults = 1
    MaxEdits = 1
INVARIANTS
    TypeOK
    TrainsOnCompleteHistory
    RowsMatchSource
    FailedSlotsAreRecovered
    BridgesAreSound
    SurgeIsConfirmed
    EvidenceIsFair
PROPERTIES
    ObservationsAreKept
SYMMETRY Renaming
