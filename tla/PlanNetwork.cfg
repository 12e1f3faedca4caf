SPECIFICATION CpmSpec
CONSTANTS
    t1 = t1  t2 = t2  t3 = t3
    Tasks = {t1, t2, t3}
    Lags <- SmallLags
    Durations = {0, 2}
    Starts = {0, 1}
    MaxDeps = 3
SYMMETRY Symmetry
INVARIANTS DependenciesRespected NothingPushedTooFar CycleReportedExactly
    CycleChecksExact EarlyAndLateDatesAreSchedules CriticalTasksFormPaths
    FreeFloatExact RecalculatedDatesAreEarly
CHECK_DEADLOCK FALSE
