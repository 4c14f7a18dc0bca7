\* Two workers, three URLs of which two share a code, two runs of the program,
\* one crash.
SPECIFICATION FairSpec
CONSTANTS
    Urls = {1, 2, 3}
    Pictures = {1, 2}
    Fitting = {1}
    Code <- MCCode
    Domain <- MCDomain
    DomainCode <- MCDomainCode
    Immediate = {"numeric"}
    Workers = {w1, w2}
    w1 = w1
    w2 = w2
    NoUrl = NoUrl
    Nobody = Nobody
    MaxRuns = 2
    MaxCrashes = 1
INVARIANTS TypeOK SkippedForReason HandedParsed RecordHasFile
PROPERTIES HandedOnce LockReleased RecordReachesDatabase
CHECK_DEADLOCK FALSE
