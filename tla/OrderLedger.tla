----------------------------- MODULE OrderLedger -----------------------------
(***************************************************************************)
(* What the jobs may take the database for: a row per hold order that      *)
(* changes in whole steps, each decided on the row as it stands.  Nothing  *)
(* is said of transactions, snapshots, leases, row versions or how the     *)
(* attempts of a command are kept.                                         *)
(*                                                                         *)
(* HoldOrder makes its database steps of this kind.  OrderStore implements *)
(* this specification with the unit of work of SQLite.                     *)
(***************************************************************************)
EXTENDS HoldDecision

CONSTANT Orders

VARIABLE row    \* what an order's row says: life, work, bind, cmd

Commands == {"SET_HOLD", "SET_RELEASE"}

Discovered ==
    [life |-> "OPEN", work |-> "NEED_HOLD", bind |-> "NONE",
     cmd |-> [k \in Commands |-> [state |-> "NONE", attempts |-> 0]]]

Refused ==
    [Discovered EXCEPT !.work = "HOLD_VERIFY_PENDING", !.bind = "PENDING",
                       !.cmd["SET_HOLD"] = [state |-> "RETRY_WAIT", attempts |-> 1]]

Protected ==
    [Discovered EXCEPT !.work = "WAIT_AI", !.bind = "CONFIRMED",
                       !.cmd["SET_HOLD"] = [state |-> "CONFIRMED", attempts |-> 1]]

Found == {Discovered, Protected} \cup (IF 1 < MaxAttempts THEN {Refused} ELSE {})

Init == row \in [Orders -> Found]

\* a command is prepared before MES is called: for the first time, or again
\* while an attempt is left
Intent(r, s, k) ==
    /\ r.life = "OPEN"
    /\ \/ r.cmd[k].state = "NONE" /\ r.cmd[k].attempts = 0
       \/ r.cmd[k].state = "RETRY_WAIT" /\ r.cmd[k].attempts < MaxAttempts
    /\ k = "SET_RELEASE" => r.bind \in {"CONFIRMED", "RELEASE_PENDING"}
    /\ s = [r EXCEPT !.cmd[k].state = "PREPARED",
                     !.bind = IF k = "SET_HOLD" THEN "PENDING"
                              ELSE "RELEASE_PENDING",
                     !.work = IF k = "SET_HOLD" THEN "HOLD_VERIFY_PENDING"
                              ELSE "RELEASE_SENT"]

\* a release waits for its retry, and the hold it is for is not on record any
\* more: it is prepared, and never sent
Strand(r, s) ==
    /\ r.life = "OPEN"
    /\ r.cmd["SET_RELEASE"].state = "RETRY_WAIT"
    /\ r.bind \notin {"CONFIRMED", "RELEASE_PENDING"}
    /\ s = [r EXCEPT !.cmd["SET_RELEASE"].state = "PREPARED"]

\* what MES answered is added to the command, whatever became of the order
Receipt(r, s, k) ==
    LET n == r.cmd[k].attempts + 1 IN
    \E receipt \in Receipts :
        /\ n <= MaxAttempts
        /\ s = [r EXCEPT !.cmd[k] = [state |-> state_after_receipt(receipt, n),
                                     attempts |-> n],
                         !.bind = IF /\ k = "SET_HOLD"
                                     /\ state_after_receipt(receipt, n) = "REJECTED"
                                  THEN "FAILED" ELSE @]

\* the hold shows in MES
Confirm(r, s) ==
    /\ r.life = "OPEN"
    /\ s.work = "WAIT_AI"
    /\ s.bind = IF r.bind = "PENDING" THEN "CONFIRMED" ELSE r.bind
    /\ s.cmd["SET_HOLD"].state \in {r.cmd["SET_HOLD"].state, "CONFIRMED"}
    /\ s = [r EXCEPT !.work = s.work, !.bind = s.bind,
                     !.cmd["SET_HOLD"].state = s.cmd["SET_HOLD"].state]

\* it does not, after a call that timed out
GiveUp(r, s) ==
    LET again == r.cmd["SET_HOLD"].attempts < MaxAttempts IN
    /\ r.life = "OPEN"
    /\ r.cmd["SET_HOLD"].state = "UNKNOWN"
    /\ s = [r EXCEPT !.work = IF again THEN "NEED_HOLD" ELSE "HOLD_FAILED",
                     !.cmd["SET_HOLD"].state = IF again THEN "RETRY_WAIT"
                                               ELSE "REJECTED"]

\* the hold is gone after it was released
Finish(r, s) ==
    /\ r.life = "OPEN"
    /\ r.cmd["SET_RELEASE"].state \in InFlightStates
    /\ s = [r EXCEPT !.life = "CLOSED", !.work = "CLOSED", !.bind = "RELEASED",
                     !.cmd["SET_RELEASE"].state = "CONFIRMED"]

\* a job writes the state it derived; a hold the line released ends the order
Derive(r, s) ==
    /\ r.life = "OPEN"
    /\ \/ s = [r EXCEPT !.work = s.work] /\ s.work \in Works \ Closed
       \/ r.bind = "CONFIRMED"
          /\ s = [r EXCEPT !.life = "MANUAL_CLOSED", !.work = "MANUAL_CLOSED",
                           !.bind = "RELEASED"]

\* the operator closes the order
Close(r, s) == s = [r EXCEPT !.life = "MANUAL_CLOSED", !.work = "MANUAL_CLOSED"]

Step(r, s) ==
    \/ \E k \in Commands : Intent(r, s, k) \/ Receipt(r, s, k)
    \/ Strand(r, s)
    \/ Confirm(r, s)
    \/ GiveUp(r, s)
    \/ Finish(r, s)
    \/ Derive(r, s)
    \/ Close(r, s)

\* A transaction may take several orders one step further, and none two.
Next ==
    \A o \in Orders : \E r \in {row[o]}, s \in {row'[o]} : s = r \/ Step(r, s)

Spec == Init /\ [][Next]_row
=============================================================================
