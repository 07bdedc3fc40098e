--------------------------- MODULE MCApprovalGate ---------------------------
(* The records r1 and r2 of one batch; in the larger instance two calls look for r1.
   Under the binding full the policy approves r2, a local tool. *)
EXTENDS ApprovalGate, TLC

CONSTANTS c1, c2, c3, r1, r2, full

BatchRecOf == c1 :> r1 @@ c2 :> r1 @@ c3 :> r2
PairRecOf == c1 :> r1 @@ c3 :> r2
OneRun == r1 :> "g1" @@ r2 :> "g1"
MCAuto == {<<r2, full>>}
=============================================================================
