----------------------------- MODULE MCLotOnLine -----------------------------
\* Flows of three steps: two stations on the priority list in either order, one
\* that the lot may have passed, none; with and without a tool ahead.
EXTENDS LotOnLine

At(name, config, tool) == [ope |-> name, config |-> config, tool |-> tool]
SomeFlows ==
    {<<At(1, {}, TRUE), At(2, {2}, FALSE), At(3, {1}, FALSE)>>,
     <<At(1, {1}, FALSE), At(2, {}, TRUE), At(3, {1, 2}, FALSE)>>,
     <<At(1, {1}, FALSE), At(2, {}, FALSE), At(3, {}, TRUE)>>,
     <<At(1, {}, FALSE), At(2, {}, TRUE), At(3, {}, TRUE)>>,
     <<At(2, {}, FALSE), At(1, {}, FALSE), At(3, {}, FALSE)>>}
OneWafer == {1}
TwoWafers == {1, 2}
ThreeWafers == {1, 2, 3}
NineAndTen == {9, 10}
=============================================================================
