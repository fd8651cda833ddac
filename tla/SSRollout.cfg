\* Two forecasters of a rollout compare the budget with the same table, then both insert.
SPECIFICATION Spec
CONSTANTS
    a = a
    b = b
    f = f
    g = g
    Forecasters <- Rollout
    Order <- TwoWorkloads
    MinReplicas <- One
    MaxReplicas <- Four
    Levels = {1, 3}
    Predictions <- Untrusted
    Gaps = FALSE
    Outages = FALSE
    ApiErrors = FALSE
    Budget = 2
    Capacity = 20
    Permille = 250
    MaxUnschedulable = 0
    MaxAge = 1
    FirstSnapshots <- OldSnapshots
    MaxShifts = 0
PROPERTIES
    EveryRaiseWithinBudget
