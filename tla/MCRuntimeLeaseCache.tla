------------------------ MODULE MCRuntimeLeaseCache ------------------------
(* Small instances of RuntimeLeaseCache: the keys of two employees. *)
EXTENDS RuntimeLeaseCache, TLC

CONSTANTS k1, k2, c1, c2

TwoKeys == {k1, k2}
TwoCalls == {c1, c2}
BothForces == BOOLEAN
Granting == {1, None}
Symmetry == Permutations(TwoKeys) \union Permutations(TwoCalls)
=============================================================================
