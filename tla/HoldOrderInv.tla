---------------------------- MODULE HoldOrderInv ----------------------------
(***************************************************************************)
(* The inductive invariant behind the promises of HoldOrder: what ties an  *)
(* order's commands, its binding, the jobs that are sending for it and the *)
(* hold in MES together, for lots in one rework round.  HoldPromiseProofs  *)
(* proves it; the run Order checks it on a small instance.                 *)
(***************************************************************************)
EXTENDS HoldOrder

Own(o) == mesOwn[LotOf[o]]
SetCalls(w, o) == worker[w].order = o /\ worker[w].pc = "set_call"
Releasing(w, o) ==
    worker[w].order = o /\ worker[w].pc \in {"release_call", "release_done"}

\* statuses a binding has while its hold may stand in MES
Holding == {"PENDING", "CONFIRMED", "RELEASE_PENDING"}

-----------------------------------------------------------------------------
\* A job that is under way has an order; one that sets a hold has a code, and
\* an answer once it was called.
JobsHaveOrders ==
    \A w \in Workers :
        /\ worker[w].pc # "idle" => worker[w].order \in Orders
        /\ worker[w].pc \in {"set_call", "set_done"} => worker[w].code \in Codes
        /\ worker[w].pc = "set_done" => worker[w].receipt \in Receipts

\* Only the last code tried can be anything but refused for a conflict.
Ladder(o) ==
    \A c, d \in Codes : d < c /\ cmd[o][c].state # "NONE" =>
        cmd[o][d].state = "REJECTED" /\ cmd[o][d].why = "CODE_CONFLICT"

\* What the binding and the release say of a command that was not refused.
Matched(o) ==
    \A c \in Codes :
        /\ cmd[o][c].state \notin {"NONE", "REJECTED"} =>
             /\ bind[o].code = c
             /\ \/ bind[o].status \in Holding
                \/ bind[o].status = "RELEASED" /\ life[o] \in Closed
        /\ cmd[o][c].state = "CONFIRMED" => bind[o].status # "PENDING"
        /\ cmd[o][c].state = "PREPARED" =>
             /\ bind[o].status = "PENDING"
             /\ rel[o].state \in {"NONE", "REJECTED"} \/ life[o] \in Closed
        /\ cmd[o][c].state = "RETRY_WAIT" =>
             /\ c \notin Own(o)
             /\ cmd[o][c].attempts < MaxAttempts
        /\ cmd[o][c].state = "REJECTED" => cmd[o][c].why # ""

\* A hold stands in MES under a code whose command is out or was confirmed.
Present(o) ==
    \A c \in Own(o) : cmd[o][c].state \in InFlightStates \cup {"CONFIRMED"}

\* A job between the intent and the receipt of a set_hold.
Sender(o) ==
    \A w \in Workers : Sending(w, o) =>
        /\ cmd[o][worker[w].code].state \in {"PREPARED", "CONFIRMED"}
        /\ cmd[o][worker[w].code].attempts < MaxAttempts
        /\ worker[w].pc = "set_call" \/ worker[w].receipt \in Rejects =>
             /\ cmd[o][worker[w].code].state = "PREPARED"
             /\ worker[w].code \notin Own(o)

SetAlone(o) == \A v, w \in Workers : Sending(v, o) /\ Sending(w, o) => v = w

\* A job between the intent and the receipt of a release_hold.
Releaser(o) ==
    /\ \A w \in Workers : Releasing(w, o) =>
         /\ rel[o].state # "NONE"
         /\ rel[o].state = "PREPARED" \/ life[o] \in Closed
    /\ \A v, w \in Workers : Releasing(v, o) /\ Releasing(w, o) => v = w
    /\ rel[o].state = "CONFIRMED" => life[o] \in Closed

Apart(o) ==
    \A v, w \in Workers : SetCalls(v, o) =>
        ~(worker[w].order = o /\ worker[w].pc = "release_call")

ClosedIsFinal(o) ==
    life[o] = "CLOSED" => Own(o) = {} /\ \A w \in Workers : ~SetCalls(w, o)

\* An order that waits for its hold has sent for one.
Tried(o) == work[o] = "HOLD_VERIFY_PENDING" => cmd[o][1].state # "NONE"

TypeInv == TypeOK /\ JobsHaveOrders

OrderInv(o) ==
    /\ Ladder(o)
    /\ Matched(o)
    /\ Present(o)
    /\ Sender(o)
    /\ SetAlone(o)
    /\ Releaser(o)
    /\ Apart(o)
    /\ ClosedIsFinal(o)
    /\ Tried(o)

\* What the promises about the hold rest on.
OwnershipInv == TypeInv /\ \A o \in Orders : OrderInv(o)
=============================================================================
