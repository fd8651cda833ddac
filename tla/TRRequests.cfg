\* Two workloads; a reset at any step; a scheduler that stops, Jobs that are refused, killed and removed, failing calls.
SPECIFICATION FairSpec
CONSTANTS
    a = a
    b = b
    now1 = now1
    now2 = now2
    daily = daily
    s1 = s1
    s2 = s2
    Order <- TwoWorkloads
    Policies = {now1, now2}
    Inactive = Inactive
    Immediate = {now1}
    Clearing = {now2}
    PyTorch = {now1}
    Rejected = {a}
    Schedulers = {s1}
    Faults = {"crash", "kill", "api"}
    Removal = TRUE
    Offset <- AtOnce
    Interval = 2
    Poll = 0
    MaxTime = 0
    MaxFaults = 1
    MaxEdits = 1
PROPERTIES
    RequestIsAnswered
    ResetIsApplied
