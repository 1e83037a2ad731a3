----------------------------- MODULE MCDiscovery -----------------------------
\* Two lots in scope, one whose list changes or is late, one whose round may be
\* unknown; a third lot out of scope.
EXTENDS Discovery

ThreeLots == {1, 2, 3}
TwoLots == {1, 2}
Start(lot, round, roster) == [lot |-> lot, round |-> round, roster |-> roster]
SomeStarts == {Start(1, "first", {1}), Start(1, "first", {1, 2}),
               Start(2, "first", {}), Start(2, NoRound, {}), Start(3, "first", {})}
TwoTails == {0, 1}
=============================================================================
