---------------------------- MODULE MCPriceReview ----------------------------
(* Small instances of PriceReview for TLC. *)
EXTENDS PriceReview, TLC

CONSTANTS s1, s2, o1, o2, o3, k1, k2

Symmetry == UNION {Permutations(S) : S \in {Sessions, Keys, Observations \ OneByOne}}
=============================================================================
