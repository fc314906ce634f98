SPECIFICATION FairSpec
CONSTANTS
    NumRecords = 2
    MaxGen = 0
    MaxRebalances = 1
    MaxDeliveries = 4
PROPERTIES EventuallyCommitted
CHECK_DEADLOCK FALSE
