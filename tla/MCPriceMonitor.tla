---------------------------- MODULE MCPriceMonitor ----------------------------
(* Small instances of PriceMonitor for TLC. *)
EXTENDS PriceMonitor, TLC

CONSTANTS w1, w2, t1, t2, p1, p2, orgA, orgB

OneOrg  == [t \in Targets |-> orgA]
TwoOrgs == t1 :> orgA @@ t2 :> orgB

Symmetry == Permutations(Workers)
=============================================================================
