SPECIFICATION Spec
CONSTANTS
    s1 = s1  s2 = s2  a1 = a1  a2 = a2  m1 = m1  c1 = c1
    NoTask = NoTask
    Sessions = {s1, s2}
    Activities = {a1, a2}
    Tasks = {a1, a2, m1}
    Chapters = {c1}
    ChapterOf <- OneChapter
    Boqs <- SmallBoqs
    Choices <- SmallChoices
    MaxActivityDays = 9
    Durations = {3}
    Lags <- SmallLags
    Offered <- SomeKinds
    MaxEdits = 2
SYMMETRY Symmetry
INVARIANTS UndisturbedRecalcRepairs FreshIsConsistent
PROPERTIES CycleNeedsOverlap
CHECK_DEADLOCK FALSE
