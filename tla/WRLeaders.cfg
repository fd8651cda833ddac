\* Two controllers, one edit; a crash, a lost lease or an error between any two statements.
SPECIFICATION FairSpec
\* Nothing is left to do when the object is gone and its rows are inactive.
CHECK_DEADLOCK FALSE
CONSTANTS
    c1 = c1
    c2 = c2
    a = a
    b = b
    q1 = q1
    q2 = q2
    r1 = r1
    r2 = r2
    Controllers = {c1, c2}
    NoOne = NoOne
    Specs <- FiveSpecs
    Absent = Absent
    NoRow = NoRow
    Clearing = {r2}
    MaxEdits = 1
    MaxFaults = 1
INVARIANTS
    TypeOK
    WholeVersions
PROPERTIES
    ResetOncePerChange
    Converges
    DeletionIsApplied
