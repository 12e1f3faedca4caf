---------------------------- MODULE MCQuantitySync ----------------------------
(* A group of two lines with the same quantity, sent from two pages.         *)
EXTENDS QuantitySync, TLC

CONSTANTS s1, s2, v1, v2, l1, l2, a1

TwoLines == <<l1, l2>>
SameApu  == (l1 :> a1) @@ (l2 :> a1)
SameNet  == (l1 :> 1) @@ (l2 :> 1)

\* pages are only compared for equality
Symmetry == Permutations(Sessions)
=============================================================================
