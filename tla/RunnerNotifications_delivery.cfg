SPECIFICATION DeliveryFairSpec
CONSTANTS
    Reports = {start, vod}
    RetryBudget = 2
INVARIANTS NoSilentLoss
PROPERTY ReportsArrive
CHECK_DEADLOCK FALSE
