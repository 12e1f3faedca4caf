SPECIFICATION Spec
CONSTANTS
    s1 = s1  s2 = s2  v1 = v1  v2 = v2  l1 = l1  l2 = l2  a1 = a1
    Sessions = {s1}
    Versions = {v1}
    Issuable = {}
    Apus = {a1}
    LineOrder <- TwoLines
    ApuOf <- SameApu
    NetOf <- SameNet
    Quantities = {0}
    MaxFaults = 0
PROPERTIES EveryConfirmIsDone
