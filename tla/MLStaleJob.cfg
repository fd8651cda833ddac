\* A Job that outlives its revision publishes after the reset.
SPECIFICATION Spec
CONSTANTS
    r1 = r1
    r2 = r2
    gru = gru
    xgb = xgb
    NoOne = NoOne
    Policies = {r1, r2}
    Engine <- SameEngine
    Fingerprint <- SameSource
    Semantics <- SameTarget
    Clearing = {r2}
    Legacy = {}
    Evaluators = {e1}
    e1 = e1
    e2 = e2
    Trainers = {t1}
    t1 = t1
    t2 = t2
    Transactional = {}
    Modes = {"automatic"}
    Rollback = TRUE
    SessionsDrop = FALSE
    Window = 2
    MinDuration = 1
    EvidenceAge = 0
    ExpireAfter = 5
    Deadline = 0
    CommitAge = 0
    FitLags = {1}
    MaxTime = 3
    MaxModels = 3
    MaxFaults = 1
PROPERTIES
    PublishesCurrentPolicy
