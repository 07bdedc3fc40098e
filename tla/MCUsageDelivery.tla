--------------------------- MODULE MCUsageDelivery ---------------------------
(* Small instances of UsageDelivery: the poller and the hint of an upload. *)
EXTENDS UsageDelivery

CONSTANTS s1, s2, poller, hint, k1
=============================================================================
