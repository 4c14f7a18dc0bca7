\* One worker and one permit, so that a batch of two sockets can overrun the
\* semaphore.
SPECIFICATION Spec
CONSTANTS
    Pages = {p1, p2, p3}
    Workers = {w1}
    MaxPermits = 1
    NoPage = NoPage
    KMinSet = 1
    KProcessCountPer = 2
    QueueLimit = 1
    IdleLimit = 1
INVARIANT FailedIsDownloadedAgain
CHECK_DEADLOCK FALSE
