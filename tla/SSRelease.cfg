\* An accurate forecast and ample budget; failing calls, missing forecasts and gaps; two forecasters.
SPECIFICATION FairSpec
CONSTANTS
    a = a
    b = b
    f = f
    g = g
    Forecasters <- Rollout
    Order <- OneWorkload
    MinReplicas <- Zero
    MaxReplicas <- Four
    Levels = {1, 4}
    Predictions <- Accurate
    Gaps = TRUE
    Outages = TRUE
    ApiErrors = TRUE
    Budget = 6
    Capacity = 20
    Permille = 250
    MaxUnschedulable = 0
    MaxAge = 1
    FirstSnapshots <- EmptyTable
    MaxShifts = 1
PROPERTIES
    SurgeIsReleased
    RaisesAreGradual
