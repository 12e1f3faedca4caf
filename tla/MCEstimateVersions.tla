-------------------------- MODULE MCEstimateVersions --------------------------
(* Small instances of EstimateVersions for TLC: the workloads of the runs.   *)
EXTENDS EstimateVersions, TLC

CONSTANTS s1, s2, s3, c1, c2, i1

\* sessions are only compared for equality, and so are the keys of rows
Symmetry == Permutations(Sessions) \cup Permutations(Chapters) \cup Permutations(Items)

\* editors, an importer and an issuer of one estimate
EditOps  == {"createEstimateChapter", "updateEstimateChapter", "archiveEstimateChapter",
             "restoreEstimateChapter", "createBoqItem", "updateBoqItem", "archiveBoqItem", "restoreBoqItem",
             "importBoq", "issue", "clone"}

\* issues and clones in a row, with rows inserted late
CloneOps == {"createEstimateChapter", "createBoqItem", "issue", "clone"}
AiuOps   == CloneOps \cup {"updateEstimateVersionAiu"}
=============================================================================
