\* One forecaster, automatic or shadow, and three native Jobs in turn: promotions, rejections, rollbacks, expiry.
SPECIFICATION FairSpec
CONSTANTS
    r1 = r1
    r2 = r2
    gru = gru
    xgb = xgb
    NoOne = NoOne
    Policies = {r1}
    Engine <- SameEngine
    Fingerprint <- SameSource
    Semantics <- SameTarget
    Clearing = {}
    Legacy = {}
    Evaluators = {e1}
    e1 = e1
    e2 = e2
    Trainers = {t1}
    t1 = t1
    t2 = t2
    Transactional = {}
    Modes = {"automatic", "shadow"}
    Rollback = TRUE
    SessionsDrop = FALSE
    Window = 2
    MinDuration = 1
    EvidenceAge = 0
    ExpireAfter = 1
    Deadline = 0
    CommitAge = 0
    FitLags = {0}
    MaxTime = 3
    MaxModels = 3
    MaxFaults = 0
INVARIANTS
    TypeOK
    SeasonedCertificates
PROPERTIES
    RollbackWaits
    HandsOver
    QueueDrains
