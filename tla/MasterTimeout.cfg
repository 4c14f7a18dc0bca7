\* One slave; it times out after two ticks, and the tick count wraps after three.
SPECIFICATION FairSpec
CONSTANTS
    Slaves = {1}
    Tasks = {1, 2}
    Fragments <- MCFragments
    Length <- MCLength
    SegmentSize = 3
    Capacity = 1
    Timeout = 1
    TickMod = 3
    Kinds = {"LOGIN", "HEARTBEAT", "Sucess"}
PROPERTY DeadOnlyAfterTimeout
CHECK_DEADLOCK FALSE
