---------------------------- MODULE MCTwinStores ----------------------------
(* A small instance of TwinStores: two orders that may collide in their key or *)
(* in their id, two generations of holds, one incident, one event.             *)
EXTENDS TwinStoresInv, TLC

CONSTANTS o1, o2, k1, k2, w1, w2, lotWafer, alarm, event

TwoIds == {o1, o2}
TwoKeys == {k1, k2}
TwoWorkers == {w1, w2}
OneWafer == {lotWafer}
OneAlarm == {alarm}
OneEvent == {event}

\* orders, keys and workers are told apart by name only
Names == Permutations({o1, o2}) \cup Permutations({k1, k2})
            \cup Permutations({w1, w2})
=============================================================================
