\* Two forecasters and two one-transaction Jobs; one edit, reset, deletion, restart or lost session.
SPECIFICATION Spec
CONSTANTS
    r1 = r1
    r2 = r2
    gru = gru
    xgb = xgb
    NoOne = NoOne
    Policies = {r1, r2}
    Engine <- TwoEngines
    Fingerprint <- SameSource
    Semantics <- SameTarget
    Clearing = {r2}
    Legacy = {r1}
    Evaluators = {e1, e2}
    e1 = e1
    e2 = e2
    Trainers = {t1, t2}
    t1 = t1
    t2 = t2
    Transactional = {t1, t2}
    Modes = {"automatic"}
    Rollback = TRUE
    SessionsDrop = TRUE
    Window = 2
    MinDuration = 1
    EvidenceAge = 0
    ExpireAfter = 5
    Deadline = 0
    CommitAge = 0
    FitLags = {1}
    MaxTime = 2
    MaxModels = 2
    MaxFaults = 1
INVARIANTS
    OneActive
PROPERTIES
    ActivatedUnderCurrentPolicy
    LinkIsFaithful
    TakesTurns
    OlderReplacesOnlyByRollback
SYMMETRY Symmetry
