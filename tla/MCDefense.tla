------------------------------ MODULE MCDefense ------------------------------
(* Small instances of Defense: one order, or two lots with an order each. *)
EXTENDS DefenseLive, DefenseInv, TLC

CONSTANTS o1, o2, l1, l2, w1, d1, d2

OneOrder == {o1}
OneLot == {l1}
LotOfOne == o1 :> l1
TwoOrders == {o1, o2}
TwoLots == {l1, l2}
LotOfTwo == o1 :> l1 @@ o2 :> l2
OneWorker == {w1}
OneSweeper == {d1}
TwoSweepers == {d1, d2}
=============================================================================
