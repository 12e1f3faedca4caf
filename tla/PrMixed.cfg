SPECIFICATION Spec
CONSTANTS
    s1 = s1  s2 = s2
    o1 = o1  o2 = o2  o3 = o3
    k1 = k1  k2 = k2
    NoOne = NoOne
    Sessions = {s1, s2}
    Observations = {o1, o2, o3}
    Keys = {k1, k2}
    Chunk = 2
    Ops = {"reject", "bulk"}
    OneByOne = {o1}
SYMMETRY Symmetry
INVARIANTS KeyRunsOnce AuditTruth RepliesTruthful
PROPERTIES BulkKeepsReviewed DecisionsSpec
