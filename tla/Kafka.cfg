SPECIFICATION FairSpec
CONSTANTS
    NumRecords = 2
    MaxGen = 1
    MaxRebalances = 1
    MaxDeliveries = 4
INVARIANTS TypeOK AtLeastOnce
PROPERTIES CommittedWithoutRebalance
CHECK_DEADLOCK FALSE
