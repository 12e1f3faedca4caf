SPECIFICATION Spec
CONSTANTS
    s1 = s1  s2 = s2  v1 = v1  v2 = v2  l1 = l1  l2 = l2  a1 = a1
    Sessions = {s1, s2}
    Versions = {v1, v2}
    Issuable = {v1}
    Apus = {a1}
    LineOrder <- TwoLines
    ApuOf <- SameApu
    NetOf <- SameNet
    Quantities = {0}
    MaxFaults = 1
SYMMETRY Symmetry
INVARIANTS OneItemPerLine LinksOwnItem
PROPERTIES ArchivedStaysUnused LockedStays FreshConfirmIsDone RetryAdopts
