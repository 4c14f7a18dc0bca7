\* As SpiderUrlRinse.cfg, but the first run of the program ends in good order.
SPECIFICATION Spec
CONSTANTS
    Urls = {1, 2, 3}
    Pictures = {1, 2}
    Fitting = {1}
    Code <- MCCode
    Domain <- MCDomain
    DomainCode <- MCDomainCode
    Immediate = {"numeric"}
    Workers = {w1, w2}
    w1 = w1
    w2 = w2
    NoUrl = NoUrl
    Nobody = Nobody
    MaxRuns = 2
    MaxCrashes = 0
PROPERTIES NotVisitedAgain
CHECK_DEADLOCK FALSE
