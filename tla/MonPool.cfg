SPECIFICATION FairSpec
CONSTANTS
    w1 = w1  w2 = w2  t1 = t1  t2 = t2  p1 = p1  p2 = p2
    orgA = orgA  orgB = orgB  NoOne = NoOne
    Workers = {w1}
    Targets = {t1}
    OrgOf <- OneOrg
    Prices = {p1}
    Cadences = {1}
    PoolMax = 1
    BatchLimit = 2
    DayLength = 2
    OrgWindow = 2
    StaleAfter = 1
    MaxLife = 1
    Schedule = {0}
    Ops = {"cron"}
    Edited = {t1}
    MaxTime = 0
CHECK_DEADLOCK FALSE
PROPERTIES LockReleased
