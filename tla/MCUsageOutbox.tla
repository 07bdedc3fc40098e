---------------------------- MODULE MCUsageOutbox ----------------------------
(* Small instances of UsageOutbox. *)
EXTENDS UsageOutbox, TLC

CONSTANTS u1, u2, o1, f1, f2, k1

FlushSymmetry == Permutations(Flushes)
=============================================================================
