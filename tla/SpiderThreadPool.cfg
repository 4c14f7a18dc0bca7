\* Two threads, so MaxPermits = 2, and three jobs: one more than the
\* semaphore can count, so that a post can fail.
SPECIFICATION FairSpec
CONSTANTS
    Workers = {w1, w2}
    Jobs = {j1, j2, j3}
    MaxPermits = 2
    NoJob = NoJob
INVARIANTS TypeOK PermitsMatchQueue NoJobTwice
PROPERTIES ImplementsJobPool EveryJobExecuted DestructorTerminates
CHECK_DEADLOCK FALSE
