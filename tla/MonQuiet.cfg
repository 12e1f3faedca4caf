SPECIFICATION FairSpec
CONSTANTS
    w1 = w1  w2 = w2  t1 = t1  t2 = t2  p1 = p1  p2 = p2
    orgA = orgA  orgB = orgB  NoOne = NoOne
    Workers = {w1}
    Targets = {t1, t2}
    OrgOf <- TwoOrgs
    Prices = {p1}
    Cadences = {1, 2}
    PoolMax = 2
    BatchLimit = 2
    DayLength = 2
    OrgWindow = 1
    StaleAfter = 1
    MaxLife = 1
    Schedule = {1}
    Ops = {"cron", "org", "cadence", "pause"}
    Edited = {t1}
    MaxTime = 2
CHECK_DEADLOCK FALSE
INVARIANTS ListedAreChecked FailuresCounted
PROPERTIES LockReleased
