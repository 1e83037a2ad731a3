----------------------------- MODULE MCHoldOrder -----------------------------
(* Small instances of HoldOrder: one order, or two rework rounds of a lot. *)
EXTENDS HoldOrderClaims, HoldOrderInv, TLC

CONSTANTS o1, o2, l1, w1, w2

OneOrder == {o1}
TwoOrders == {o1, o2}
OneLot == {l1}
LotOfOne == o1 :> l1
SameLot == o1 :> l1 @@ o2 :> l1
OneWorker == {w1}
TwoWorkers == {w1, w2}
Interchangeable == Permutations(TwoWorkers)
=============================================================================
