SPECIFICATION FairSpec
CONSTANTS
    s1 = s1  s2 = s2  s3 = s3  c1 = c1  c2 = c2  i1 = i1
    NoOne = NoOne
    Sessions = {s1, s2}
    Chapters = {c1}
    Items = {i1}
    Amounts = {0}
    MaxVersion = 3
    Ops <- AiuOps
INVARIANTS ClonesSerialised Lineage CloneNeverUnmapped
PROPERTIES IssuerKept LifecycleSpec RequestsEnd
