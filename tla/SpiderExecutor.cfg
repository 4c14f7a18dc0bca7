\* Two workers, of which one or both may turn for ever in a receive loop; one
\* URL and one job at a time, so that the thresholds of line 103 bite.
SPECIFICATION FairSpec
CONSTANTS
    Pages = {p1, p2}
    Workers = {w1, w2}
    MaxPermits = 2
    NoPage = NoPage
    KMinSet = 1
    KProcessCountPer = 1
    QueueLimit = 1
    IdleLimit = 1
INVARIANTS TypeOK PagesAccounted FdSetBounded PoolQueueBounded
PROPERTIES EveryPageRequested ShutdownCompletes
CHECK_DEADLOCK FALSE
