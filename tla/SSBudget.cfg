\* Two forecasters of a rollout, two workloads that share the budget; forecasts, guards and calls may answer anything.
SPECIFICATION Spec
CONSTANTS
    a = a
    b = b
    f = f
    g = g
    Forecasters <- Rollout
    Order <- TwoWorkloads
    MinReplicas <- ZeroAndOne
    MaxReplicas <- FourAndTwo
    Levels = {1, 4}
    Predictions <- Untrusted
    Gaps = FALSE
    Outages = TRUE
    ApiErrors = TRUE
    Budget = 4
    Capacity = 40
    Permille = 250
    MaxUnschedulable = 0
    MaxAge = 0
    FirstSnapshots <- EmptyTable
    MaxShifts = 0
SYMMETRY Interchangeable
INVARIANTS
    TypeOK
PROPERTIES
    RaisesWithinBudget
