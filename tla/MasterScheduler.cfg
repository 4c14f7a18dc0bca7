\* Two slaves, two little tasks and an empty task; a slave times out after one
\* tick, and the tick count wraps after two.
SPECIFICATION Spec
CONSTANTS
    Slaves = {1, 2}
    Tasks = {1, 2}
    Fragments <- MCFragments
    Length <- MCLength
    SegmentSize = 3
    Capacity = 1
    Timeout = 0
    TickMod = 2
    Kinds = {"LOGIN", "HEARTBEAT", "Sucess", "Fail", "EXIT"}
INVARIANTS TypeOK AssignedHasOwner CombinedOnlyIfReported CombinedIsCovered
CHECK_DEADLOCK FALSE
