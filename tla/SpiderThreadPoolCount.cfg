\* Two workers and two jobs: the least that can lose an update of the count.
SPECIFICATION Spec
CONSTANTS
    Workers = {w1, w2}
    Jobs = {j1, j2}
    MaxPermits = 2
    NoJob = NoJob
INVARIANT WorkerCountIsRunning
CHECK_DEADLOCK FALSE
