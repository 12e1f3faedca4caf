-------------------------- MODULE MCAccessInvitations --------------------------
(* Small instances of AccessInvitations for TLC.                              *)
EXTENDS AccessInvitations, TLC

CONSTANTS s1, s2, a, b, u

Symmetry == Permutations(Sessions)
=============================================================================
