\* Two schedulers, crashes and killed Jobs, an edit with reset; both trainer images.
SPECIFICATION Spec
CONSTANTS
    a = a
    b = b
    now1 = now1
    now2 = now2
    daily = daily
    s1 = s1
    s2 = s2
    Order <- OneWorkload
    Policies = {now1, now2}
    Inactive = Inactive
    Immediate = {now1, now2}
    Clearing = {now1, now2}
    PyTorch = {now2}
    Rejected = {}
    Schedulers = {s1, s2}
    Faults = {"crash", "kill"}
    Removal = FALSE
    Offset <- AtOnce
    Interval = 1
    Poll = 0
    MaxTime = 1
    MaxFaults = 2
    MaxEdits = 1
INVARIANTS
    TruthfulRuns
PROPERTIES
    ScheduledRunsAreSpaced
    ResetIsFinal
SYMMETRY SchedulerSymmetry
