\* Two forecasters of a rollout, one with its clock ahead; edits and deletions between any two steps; a scaler that restarts and misses refreshes. Observations outlive snapshots, so that the date of the snapshot decides.
SPECIFICATION Spec
CONSTANTS
    p = p
    q = q
    f1 = f1
    f2 = f2
    s1 = s1
    Forecasters = {f1, f2}
    Scalers = {s1}
    Sources = {p, q}
    Demands = {2}
    NoSource = NoSource
    NoSnapshot = NoSnapshot
    Skew <- SecondAhead
    SourceGap = 2
    SnapshotMaxAge = 0
    SourceMaxAge = 2
    MaxTime = 2
    MaxRows = 2
    MaxEdits = 1
INVARIANTS
    TypeOK
    FormerSourceFades
PROPERTIES
    KeepsPromise
    NeverGoesBack
SYMMETRY SourceSymmetry
