\* One slave, whose first download fails.
SPECIFICATION FairSpec
CONSTANTS
    Slaves = {1}
    Tasks = {1}
    Fragments <- MCFragments
    Capacity = 1
    Timeout = 1
    TickMod = 3
    Unclean = {}
    Faulty = {}
    MaxFaults = 0
PROPERTY FailedIsAssignedAgain
CHECK_DEADLOCK FALSE
