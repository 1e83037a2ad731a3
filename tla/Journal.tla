------------------------------- MODULE Journal -------------------------------
(***************************************************************************)
(* The actions_json column of an order's row: the commands of the order    *)
(* with their attempts, one list entry per attempt.  A command has no      *)
(* entry of its own, so its state is that of its attempt with the highest  *)
(* number, and the number of its attempts is the number of entries that    *)
(* have an answer.                                                         *)
(*                                                                         *)
(* K is the set of names the modules that use the list give the commands   *)
(* of an order.                                                            *)
(***************************************************************************)
EXTENDS HoldDecision, FiniteSets, Sequences

\* the outcome of an attempt nobody has answered
NoReceipt == ""

Attempts(K) == [command : K, no : Nat \ {0},
                state : ActionStates, outcome : Receipts \cup {NoReceipt}]

Rows(log, k) == {i \in DOMAIN log : log[i].command = k}

\* _latest_row
Latest(log, k) ==
    CHOOSE i \in Rows(log, k) : \A j \in Rows(log, k) : log[j].no <= log[i].no

\* list_history, of one command
History(log, k) == {i \in Rows(log, k) : log[i].outcome # NoReceipt}

attempts_for(log, k) == Cardinality(History(log, k))

next_attempt_no(log, k) == 1 + attempts_for(log, k)

\* list_by_order: the command as the jobs see it
CommandOf(log, k) ==
    IF Rows(log, k) = {} THEN [state |-> "NONE", outcome |-> NoReceipt, attempts |-> 0]
    ELSE LET last == log[Latest(log, k)] IN
         [state |-> last.state, outcome |-> last.outcome,
          attempts |-> attempts_for(log, k)]

insert_prepared(log, k) ==
    Append(log, [command |-> k, no |-> 1, state |-> "PREPARED", outcome |-> NoReceipt])

\* the latest attempt is rewritten, from the copy of the command its caller has
save_command(log, k, state, outcome) ==
    [log EXCEPT ![Latest(log, k)] = [@ EXCEPT !.state = state, !.outcome = outcome]]

\* slip: an answer always makes an entry of its own
append_attempt(log, k, no, outcome) ==
    Append(log, [log[Latest(log, k)] EXCEPT !.no = no, !.outcome = outcome])

\* an attempt of that number is completed; otherwise the latest one is copied
add_attempt(log, k, no, outcome) ==
    LET same == {i \in Rows(log, k) : log[i].no = no} IN
    IF same # {}
    THEN [log EXCEPT ![CHOOSE i \in same : \A j \in same : i <= j].outcome = outcome]
    ELSE Append(log, [log[Latest(log, k)] EXCEPT !.no = no, !.outcome = outcome])

record_receipt(log, k, receipt) ==
    LET n == next_attempt_no(log, k) IN
    save_command(add_attempt(log, k, n, receipt), k,
                 state_after_receipt(receipt, n), receipt)
-----------------------------------------------------------------------------
(* What the list looks like *)

\* The attempts of command k are the numbers 1 to n, in this order; all but the
\* last have an answer.
Numbered(log, k, n) ==
    /\ \A i \in Rows(log, k) : /\ log[i].no \in 1..n
                               /\ log[i].state # "NONE"
                               /\ log[i].outcome = NoReceipt => log[i].no = n
    /\ \A i, j \in Rows(log, k) : i < j => log[i].no < log[j].no
    /\ \A m \in 1..n : \E i \in Rows(log, k) : log[i].no = m

LogOK(log, K) ==
    /\ log \in Seq(Attempts(K))
    /\ \A k \in K : \E n \in 0..MaxAttempts : Numbered(log, k, n)
=============================================================================
