SPECIFICATION Spec
CONSTANTS
    w1 = w1  w2 = w2  t1 = t1  t2 = t2  p1 = p1  p2 = p2
    orgA = orgA  orgB = orgB  NoOne = NoOne
    Workers = {w1, w2}
    Targets = {t1}
    OrgOf <- OneOrg
    Prices = {p1, p2}
    Cadences = {1}
    PoolMax = 2
    BatchLimit = 2
    DayLength = 2
    OrgWindow = 2
    StaleAfter = 1
    MaxLife = 1
    Schedule = {0, 1}
    Ops = {"cron", "die", "error", "review", "pause"}
    Edited = {t1}
    MaxTime = 3
CHECK_DEADLOCK FALSE
SYMMETRY Symmetry
INVARIANTS NoDuplicatePending DueWhenChecked
