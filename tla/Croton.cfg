\* Two slaves and two little tasks; a slave times out after one tick.  Slave 1 may
\* crash or lose its connection, and its memory say SUBMITED too early.
SPECIFICATION FairSpec
CONSTANTS
    Slaves = {1, 2}
    Tasks = {1}
    Fragments <- MCFragments
    Capacity = 1
    Timeout = 0
    TickMod = 2
    Unclean <- MCUnclean
    Faulty = {1}
    MaxFaults = 1
INVARIANTS TypeOK ReportedWasUploaded ListedOnce PlaceHasReason OnlyEmptyCombined
PROPERTIES ImplementsMaster SubmitedIsReported IdleSlaveGetsWork SilentSlaveRemoved
CHECK_DEADLOCK FALSE
