---------------------------- MODULE MCOrderStore ----------------------------
(* Small instances of OrderStore: one or two orders, a host that sets and    *)
(* confirms holds and a host that checks scans.                              *)
EXTENDS OrderStoreInv, TLC

CONSTANTS set1, check1, confirm1, hostA, hostB

OneOrder == {1}
TwoOrders == 1..2
SetJobs == {set1}
CheckJobs == {check1}
ConfirmJobs == {confirm1}
TwoHosts == set1 :> hostA @@ confirm1 :> hostA @@ check1 :> hostB
OneHost == [j \in {set1, confirm1, check1} |-> hostA]
FirstOrder == {1}
SecondOrder == {2}

OnePassEach == [j \in {set1, check1, confirm1} |-> 1]
TwoPassesEach == [j \in {set1, check1, confirm1} |-> 2]
CheckTwice == set1 :> 1 @@ check1 :> 2 @@ confirm1 :> 1

\* an order that was just found is listed before one MES refused once
NewBeforeRefused == Init /\ db[1] = NewRow /\ db[2] = RefusedRow
FromNewBeforeRefused == NewBeforeRefused /\ [][Next]_vars
=============================================================================
