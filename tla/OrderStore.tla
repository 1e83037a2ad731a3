----------------------------- MODULE OrderStore -----------------------------
(***************************************************************************)
(* The unit of work of the SQLite store, and how the jobs use it.          *)
(*                                                                         *)
(* A pass of a job works in one connection.  A transaction is begun        *)
(* deferred: its first read fixes the snapshot it sees, its first write    *)
(* takes the store's only write lock until the commit.  A transaction that *)
(* wants to write after somebody else committed, or while somebody else    *)
(* holds the lock, ends with an error, and the pass with it.               *)
(*                                                                         *)
(* SET_DEFAULT_HOLD and CHECK_AI commit in the middle of a pass: the       *)
(* intent before MES is called, the receipt after.  What they read at the  *)
(* start of the pass, the page, is older than the transaction they go on   *)
(* with.  Rows carry a version and a lease against that (try_claim).       *)
(* CONFIRM_HOLD and CONFIRM_RELEASE commit once, at the end.               *)
(*                                                                         *)
(* MES and the scan service are not modelled: what they say is any of the  *)
(* answers the jobs tell apart.  What is decided on them is the subject of *)
(* HoldOrder; this module is about the rows they are decided on.           *)
(***************************************************************************)
EXTENDS Journal

CONSTANTS Orders,       \* numbered in the order they are listed (created_at)
          Setters,      \* SET_DEFAULT_HOLD jobs
          Checkers,     \* CHECK_AI jobs
          Confirmers,   \* CONFIRM_HOLD and CONFIRM_RELEASE jobs
          WorkerId,     \* the worker_id of each job's process
          NoJob,
          Lease,        \* the two minutes of a claim, in ticks
          MaxClock,     \* bounds of the checked instances
          MaxPasses,    \* passes of each job
          Closable      \* orders an operator may close

Jobs == Setters \cup Checkers \cup Confirmers
Ids == {WorkerId[j] : j \in Jobs}

ASSUME StoreAssumption ==
    /\ Orders \subseteq Nat
    /\ WorkerId \in [Jobs -> Ids]
    /\ NoJob \notin Jobs \cup Ids
    /\ Lease \in Nat \ {0}
    /\ MaxClock \in Nat
    /\ MaxPasses \in [Jobs -> Nat]
    /\ Closable \subseteq Orders

\* an order has one SET_HOLD command for the code looked at here
Commands == {"SET_HOLD", "SET_RELEASE"}

VARIABLES
    db,     \* the committed rows
    lock,   \* the job whose transaction has written
    draft,  \* the rows as that transaction sees them
    job,    \* what each job has listed and is doing
    calls,  \* how often MES was asked for each command
    passes, \* passes each job began so far
    clock

vars == <<db, lock, draft, job, calls, passes, clock>>

Row == [ver : Nat \ {0}, owner : Ids \cup {NoJob}, until : Nat,
        life : Lives, work : Works, bind : BindingStates,
        log : Seq(Attempts(Commands))]

NewRow == [ver |-> 1, owner |-> NoJob, until |-> 0, life |-> "OPEN",
           work |-> "NEED_HOLD", bind |-> "NONE", log |-> <<>>]

\* what SET and CONFIRM_HOLD leave of an order whose hold was confirmed at once
HeldRow == [NewRow EXCEPT
              !.ver = 5, !.work = "WAIT_AI", !.bind = "CONFIRMED",
              !.log = <<[command |-> "SET_HOLD", no |-> 1,
                         state |-> "CONFIRMED", outcome |-> "ACCEPTED"]>>]

\* what SET leaves of an order whose hold MES could not place yet
RefusedRow == [NewRow EXCEPT
                 !.ver = 3, !.work = "HOLD_VERIFY_PENDING", !.bind = "PENDING",
                 !.log = <<[command |-> "SET_HOLD", no |-> 1,
                            state |-> "RETRY_WAIT", outcome |-> "TRANSIENT"]>>]

Found == {NewRow, HeldRow} \cup (IF 1 < MaxAttempts THEN {RefusedRow} ELSE {})

Phases == {"idle", "found", "pass", "call", "receipt", "sent", "back"}

\* phases in which a transaction has read, and is over once others commit
Reading == {"pass", "receipt", "back"}

\* page: version and work_state of the orders as they were listed
Idle == [pc |-> "idle", page |-> <<>>, todo |-> {}, at |-> 0, answer |-> NoReceipt]

Init ==
    /\ db \in [Orders -> Found]
    /\ lock = NoJob
    /\ draft = <<>>
    /\ job = [j \in Jobs |-> Idle]
    /\ calls = [o \in Orders |-> [k \in Commands |-> attempts_for(db[o].log, k)]]
    /\ passes = [j \in Jobs |-> 0]
    /\ clock = 0

-----------------------------------------------------------------------------
(* Transactions *)

\* A transaction that has not been overtaken sees the rows as committed, and
\* what it wrote itself.
Sees(j) == IF lock = j THEN draft ELSE db

MayWrite(j) == lock \in {j, NoJob}

\* A commit ends the passes of the others that have read: whatever they would
\* write fails from now on, and they have nothing else to tell.
Overtaken(j, mine) ==
    [k \in Jobs |-> IF k = j THEN mine
                    ELSE IF job[k].pc \in Reading THEN Idle
                    ELSE job[k]]

Commit(j, rows, mine) ==
    /\ MayWrite(j)
    /\ db' = rows
    /\ lock' = NoJob
    /\ draft' = <<>>
    /\ job' = Overtaken(j, mine)
    /\ UNCHANGED <<calls, clock>>

\* a write that stays in the transaction for now
Write(j, rows, mine) ==
    /\ MayWrite(j)
    /\ lock' = j
    /\ draft' = rows
    /\ job' = [job EXCEPT ![j] = mine]
    /\ UNCHANGED <<db, calls, clock>>

Starts(j) ==
    /\ passes[j] < MaxPasses[j]
    /\ passes' = [passes EXCEPT ![j] = @ + 1]

Stay(j, mine) ==
    /\ job' = [job EXCEPT ![j] = mine]
    /\ UNCHANGED <<db, lock, draft, calls, clock>>

-----------------------------------------------------------------------------
(* Rows *)

SetCommand(r) == CommandOf(r.log, "SET_HOLD")
Release(r) == CommandOf(r.log, "SET_RELEASE")

LeaseFree(j, r) == r.owner \in {NoJob, WorkerId[j]} \/ r.until <= clock

\* slip: the version of the listed row is not compared
ClaimableAsSeen(j, o) == LeaseFree(j, Sees(j)[o])

\* slip: the lease of another process is not looked at
ClaimableByAnyone(j, o) == Sees(j)[o].ver = job[j].page[o].ver

\* try_claim, on the row the transaction sees: it must be the one listed, and
\* no other process may have it on lease
Claimable(j, o) ==
    Sees(j)[o].ver = job[j].page[o].ver /\ LeaseFree(j, Sees(j)[o])

\* orders.update: every write of the order's own columns counts its version up
Updated(r) == [r EXCEPT !.ver = @ + 1]

Claimed(j, r) ==
    [Updated(r) EXCEPT !.owner = WorkerId[j], !.until = clock + Lease]

\* persist_projection, and mark_preventive_released when the line released
Projected(r, d) ==
    IF d = r.work THEN r
    ELSE [Updated(r) EXCEPT
            !.work = d,
            !.life = IF d \in Closed THEN d ELSE @,
            !.bind = IF d = "MANUAL_CLOSED" THEN "RELEASED" ELSE @]

\* request_hold, request_release: the intent
Prepared(r, k) ==
    [Updated(r) EXCEPT
        !.log = IF Rows(@, k) = {} THEN insert_prepared(@, k)
                ELSE save_command(@, k, "PREPARED", CommandOf(@, k).outcome),
        !.bind = IF k = "SET_HOLD" THEN "PENDING" ELSE "RELEASE_PENDING",
        !.work = IF k = "SET_HOLD" THEN "HOLD_VERIFY_PENDING"
                 ELSE "RELEASE_SENT"]

\* A release that waits for its retry is prepared before its binding is looked
\* for; where none is left, MES is not called, and the pass goes on.
Releasable(r) == r.bind \in {"CONFIRMED", "RELEASE_PENDING"}

Stranded(r) ==
    [r EXCEPT !.log = save_command(@, "SET_RELEASE", "PREPARED",
                                   CommandOf(@, "SET_RELEASE").outcome)]

\* the receipt is written into the row as it is by then, whatever its version
Answered(r, k, receipt) ==
    LET log == record_receipt(r.log, k, receipt) IN
    [r EXCEPT !.log = log,
              !.bind = IF k = "SET_HOLD"
                          /\ CommandOf(log, k).state = "REJECTED"
                       THEN "FAILED" ELSE @]

-----------------------------------------------------------------------------
(* Decisions, as far as they depend on the order's row *)

SetDecision(r) ==
    IF r.life # "OPEN" THEN r.work
    ELSE IF InFlight(SetCommand(r)) THEN "HOLD_VERIFY_PENDING"
    ELSE IF SetCommand(r).state \in {"NONE", "RETRY_WAIT"} THEN "SET_HOLD"
    ELSE IF SetCommand(r).state = "REJECTED" THEN "HOLD_FAILED"
    ELSE "WAIT_AI"

\* slip: a release that was prepared counts as one to be retried
RetriesUnanswered(r) ==
    IF Release(r).state \in {"RETRY_WAIT", "PREPARED"} THEN {"SET_RELEASE"}
    ELSE IF r.bind = "CONFIRMED" /\ Release(r).state = "NONE"
    THEN {"SET_RELEASE", "WAIT_AI", "MANUAL_CLOSED"}
    ELSE IF SetCommand(r).state = "REJECTED" THEN {"HOLD_FAILED"}
    ELSE {}

\* CHECK_AI decides on the listed columns and on the commands of now; what MES
\* and the scan service say makes the rest of the difference
CheckDecisions(r) ==
    IF Release(r).state = "RETRY_WAIT" THEN {"SET_RELEASE"}
    ELSE IF r.bind = "CONFIRMED" /\ Release(r).state = "NONE"
    THEN {"SET_RELEASE", "WAIT_AI", "MANUAL_CLOSED"}
    ELSE IF SetCommand(r).state = "REJECTED" THEN {"HOLD_FAILED"}
    ELSE {}

\* the row CHECK_AI decides on
Mixed(j, o) == [Sees(j)[o] EXCEPT !.life = "OPEN", !.work = job[j].page[o].work]

\* CONFIRM_HOLD: the hold shows; or not, and the call timed out; or not
HoldVerified(r) ==
    LET again == SetCommand(r).attempts < MaxAttempts
        save(state) == save_command(r.log, "SET_HOLD", state, SetCommand(r).outcome)
    IN
    (IF SetCommand(r).state \in InFlightStates \cup {"CONFIRMED"}
     THEN {[Updated(r) EXCEPT
              !.work = "WAIT_AI",
              !.bind = IF @ = "PENDING" THEN "CONFIRMED" ELSE @,
              !.log = save("CONFIRMED")]}
     ELSE {})
    \cup
    {IF SetCommand(r).state = "UNKNOWN"
     THEN [Updated(r) EXCEPT
             !.work = IF again THEN "NEED_HOLD" ELSE "HOLD_FAILED",
             !.log = save(IF again THEN "RETRY_WAIT" ELSE "REJECTED")]
     ELSE Projected(r, IF SetDecision(r) = "SET_HOLD" THEN "NEED_HOLD"
                       ELSE SetDecision(r))}

\* CONFIRM_RELEASE: the hold is gone; or it still shows
ReleaseVerified(r) ==
    (IF InFlight(Release(r))
     THEN {[Updated(r) EXCEPT
              !.life = "CLOSED", !.work = "CLOSED", !.bind = "RELEASED",
              !.log = save_command(@, "SET_RELEASE", "CONFIRMED",
                                   Release(r).outcome)]}
     ELSE {})
    \cup
    {Projected(r, IF Release(r).outcome \in Rejects THEN "RELEASE_FAILED"
                  ELSE IF InFlight(Release(r)) THEN "RELEASE_VERIFY_PENDING"
                  ELSE r.work)}

-----------------------------------------------------------------------------
(* A pass *)

Command(j) == IF j \in Setters THEN "SET_HOLD" ELSE "SET_RELEASE"

\* the first transaction of SET_DEFAULT_HOLD: heartbeat and discovery
Discover(j) ==
    /\ j \in Setters
    /\ job[j].pc = "idle"
    /\ Starts(j)
    /\ lock = NoJob
    /\ Commit(j, db, [job[j] EXCEPT !.pc = "found"])

\* The open orders are listed.  CHECK_AI writes its heartbeat first, so it has
\* the lock from the start; SET begins with a read.
Begin(j) ==
    LET listing == [job[j] EXCEPT
                      !.pc = "pass",
                      !.page = [o \in Orders |-> [ver |-> db[o].ver,
                                                  work |-> db[o].work]],
                      !.todo = {o \in Orders : db[o].life = "OPEN"}] IN
    \/ /\ j \in Setters
       /\ job[j].pc = "found"
       /\ Stay(j, listing)
       /\ UNCHANGED passes
    \/ /\ j \in Checkers
       /\ job[j].pc = "idle"
       /\ Starts(j)
       /\ lock = NoJob
       /\ Write(j, db, listing)

Visits(j, o) ==
    /\ job[j].pc = "pass"
    /\ o \in job[j].todo
    /\ \A p \in job[j].todo : o <= p

Visited(j, o) == [job[j] EXCEPT !.pc = "pass", !.todo = @ \ {o}, !.at = 0]

\* SET takes up an order that waits for a hold, or for one no longer under way
SetWants(j, o) ==
    \/ job[j].page[o].work = "NEED_HOLD"
    \/ /\ job[j].page[o].work = "HOLD_VERIFY_PENDING"
       /\ SetDecision(Mixed(j, o)) # "HOLD_VERIFY_PENDING"

CheckWants(j, o) ==
    \E d \in CheckDecisions(Mixed(j, o)) :
        d = "SET_RELEASE" \/ d # job[j].page[o].work

Wants(j, o) == IF j \in Setters THEN SetWants(j, o) ELSE CheckWants(j, o)

\* not for this job, or somebody else has it
Skip(j, o) ==
    /\ Visits(j, o)
    /\ ~Wants(j, o) \/ ~Claimable(j, o) \/ j \in Checkers
    /\ Stay(j, Visited(j, o))

\* the order is claimed, looked at again, and the intent committed
Send(j, o) ==
    LET r == Sees(j)[o] IN
    /\ Visits(j, o)
    /\ Wants(j, o)
    /\ Claimable(j, o)
    /\ IF j \in Setters THEN SetDecision(r) = "SET_HOLD"
       ELSE j \in Checkers /\ "SET_RELEASE" \in CheckDecisions(r) /\ Releasable(r)
    /\ Commit(j, [Sees(j) EXCEPT ![o] = Prepared(Claimed(j, r), Command(j))],
              [job[j] EXCEPT !.pc = "call", !.at = o])

\* SET derives again on the row it claimed; CHECK_AI writes what it derived
\* from the listed row
Derive(j, o) ==
    LET r == Sees(j)[o]
        write(d) == Write(j, [Sees(j) EXCEPT ![o] =
                                Projected(Claimed(j, r), d)], Visited(j, o)) IN
    /\ Visits(j, o)
    /\ Wants(j, o)
    /\ Claimable(j, o)
    /\ \/ /\ j \in Setters
          /\ SetDecision(r) # "SET_HOLD"
          /\ write(SetDecision(r))
       \/ /\ j \in Checkers
          /\ \/ \E d \in CheckDecisions(Mixed(j, o)) \ {"SET_RELEASE"} : write(d)
             \/ /\ "SET_RELEASE" \in CheckDecisions(Mixed(j, o))
                /\ write(r.work)
             \/ /\ Release(r).state = "RETRY_WAIT"
                /\ ~Releasable(r)
                /\ Write(j, [Sees(j) EXCEPT ![o] = Stranded(Claimed(j, r))],
                         Visited(j, o))

\* MES answers, and the transaction of the receipt begins with a read
Call(j) ==
    /\ job[j].pc = "call"
    /\ \E receipt \in {"ACCEPTED", "UNKNOWN", "TRANSIENT"} :
         job' = [job EXCEPT ![j] = [@ EXCEPT !.pc = "receipt", !.answer = receipt]]
    /\ calls' = [calls EXCEPT ![job[j].at][Command(j)] = @ + 1]
    /\ UNCHANGED <<db, lock, draft, clock>>

Receipt(j) ==
    /\ job[j].pc = "receipt"
    /\ Commit(j, [db EXCEPT ![job[j].at] =
                    Answered(@, Command(j), job[j].answer)],
              [job[j] EXCEPT !.pc = "sent", !.answer = NoReceipt])

\* the rest of the pass runs in a new transaction, over the old page
Reread(j) ==
    /\ job[j].pc = "sent"
    /\ Stay(j, [job[j] EXCEPT !.pc = "back"])

\* SET writes a hold that was refused for good; CHECK_AI may write what the
\* scan service reports of the wafers
Finish(j) ==
    LET o == job[j].at
        r == Sees(j)[o] IN
    /\ job[j].pc = "back"
    /\ IF j \in Setters /\ SetDecision(r) = "HOLD_FAILED"
       THEN Write(j, [Sees(j) EXCEPT ![o] = Projected(r, "HOLD_FAILED")],
                  Visited(j, o))
       ELSE \/ Stay(j, Visited(j, o))
            \/ j \in Checkers /\ Write(j, Sees(j), Visited(j, o))

End(j) ==
    /\ job[j].pc = "pass"
    /\ job[j].todo = {}
    /\ IF lock = j THEN Commit(j, draft, Idle)
       ELSE Stay(j, Idle)

\* the database is locked, an adapter raises, the process dies: what was not
\* committed is rolled back, and the answer of MES is lost.  (Where a pass has
\* neither it has nothing to lose, and simply takes no further step.)
Fail(j) ==
    /\ lock = j \/ job[j].pc \in {"call", "receipt"}
    /\ lock' = IF lock = j THEN NoJob ELSE lock
    /\ draft' = IF lock = j THEN <<>> ELSE draft
    /\ job' = [job EXCEPT ![j] = Idle]
    /\ UNCHANGED <<db, calls, clock>>

-----------------------------------------------------------------------------
(* CONFIRM_HOLD, CONFIRM_RELEASE *)

ConfirmWants(r) ==
    /\ r.life = "OPEN"
    /\ \/ r.work = "HOLD_VERIFY_PENDING"
       \/ InFlight(SetCommand(r)) /\ ~InFlight(Release(r))
       \/ Release(r).state # "NONE"

\* The heartbeat takes the lock before the orders are listed, and the only
\* commit is the last thing the pass does: to everybody else it is one step.
Confirm(j) ==
    LET verified(r) ==
            IF ~ConfirmWants(r) \/ ~LeaseFree(j, r) THEN {r}
            ELSE IF Release(r).state = "NONE" THEN HoldVerified(Claimed(j, r))
            ELSE ReleaseVerified(Claimed(j, r))
    IN
    /\ j \in Confirmers
    /\ Starts(j)
    /\ lock = NoJob
    /\ \E rows \in [Orders -> UNION {verified(db[o]) : o \in Orders}] :
         /\ \A o \in Orders : rows[o] \in verified(db[o])
         /\ Commit(j, rows, Idle)

-----------------------------------------------------------------------------
\* The operator closes an order in one transaction, without a claim.  (Closing
\* it again would only count its version up.)
ManualClose(o) ==
    /\ lock = NoJob
    /\ o \in Closable
    /\ db[o].life # "MANUAL_CLOSED"
    /\ db' = [db EXCEPT ![o] = [Updated(@) EXCEPT !.life = "MANUAL_CLOSED",
                                                  !.work = "MANUAL_CLOSED"]]
    /\ job' = Overtaken(NoJob, Idle)
    /\ UNCHANGED <<lock, draft, calls, passes, clock>>

Tick ==
    /\ clock < MaxClock
    /\ clock' = clock + 1
    /\ UNCHANGED <<db, lock, draft, job, calls, passes>>

Goes(j) ==
    \/ \E o \in Orders : Skip(j, o) \/ Send(j, o) \/ Derive(j, o)
    \/ Call(j)
    \/ Receipt(j)
    \/ Reread(j)
    \/ Finish(j)
    \/ End(j)
    \/ Fail(j)

Pass(j) == Discover(j) \/ Begin(j) \/ (Goes(j) /\ UNCHANGED passes)

Next ==
    \/ \E j \in Setters \cup Checkers : Pass(j)
    \/ \E j \in Confirmers : Confirm(j)
    \/ \E o \in Orders : ManualClose(o)
    \/ Tick

Spec == Init /\ [][Next]_vars

-----------------------------------------------------------------------------
(* Properties *)

\* Every variable keeps its shape, and the lock is held only by a running
\* transaction.
TypeOK ==
    /\ db \in [Orders -> Row]
    /\ lock \in Jobs \cup {NoJob}
    /\ lock # NoJob => job[lock].pc = "pass" /\ draft \in [Orders -> Row]
    /\ \A j \in Jobs : /\ job[j].pc \in Phases
                       /\ job[j].pc \in {"call", "receipt", "sent", "back"} =>
                            job[j].at \in Orders
                       /\ job[j].todo \subseteq Orders
    /\ clock \in 0..MaxClock

\* The rows are what OrderLedger says they are: whatever snapshot or page a job
\* worked from, what it commits is a step decided on the row as it stood.
Summary(r) ==
    [life |-> r.life, work |-> r.work, bind |-> r.bind,
     cmd |-> [k \in Commands |->
                LET c == CommandOf(r.log, k) IN
                [state |-> c.state, attempts |-> c.attempts]]]

Ledger == INSTANCE OrderLedger WITH row <- [o \in Orders |-> Summary(db[o])]
Implements == Ledger!Spec

\* A command's attempts are numbered 1, 2, ... in the order they were made, all
\* but the last have an answer, and there are never more than MaxAttempts
\* (insert_prepared, add_attempt, save_command rewrite a shared list).
JournalOK ==
    \A o \in Orders, k \in Commands :
        LET rows == Rows(db[o].log, k) IN
        /\ Cardinality(rows) <= MaxAttempts
        /\ \A i \in rows :
             /\ db[o].log[i].no = Cardinality({h \in rows : h <= i})
             /\ db[o].log[i].outcome = NoReceipt => i = Latest(db[o].log, k)

\* MES is never asked more often for a command than MaxAttempts allows, and
\* never for one the database does not know, even when receipts are lost with
\* the pass that had them: a command that was not answered is not sent again
\* (get_in_flight counts PREPARED), however stale the page that lists its order.
CallsAreBounded ==
    \A o \in Orders, k \in Commands :
        /\ calls[o][k] <= MaxAttempts
        /\ attempts_for(db[o].log, k) <= calls[o][k]
        /\ calls[o][k] <= attempts_for(db[o].log, k) + 1
        /\ calls[o][k] > 0 => Rows(db[o].log, k) # {}

\* While the lease of a process on an order runs, no other process takes the
\* order, whatever page or snapshot it works from; once it has run out, at the
\* very tick it ends, another may.
LeaseIsKept ==
    [][\A o \in Orders :
         db[o].owner # NoJob /\ clock < db[o].until =>
             db'[o].owner = db[o].owner]_vars

\* services.py, claim_order: "when several run at once, whoever did not get the
\* lease does not change this order".  All processes are started with the same
\* worker_id, worker-1, and a lease is always free to its own owner.
ClaimKeepsOthersOut ==
    [][\A o \in Orders, j \in Jobs :
         (/\ job[j].pc = "call" /\ job[j].at = o /\ job'[j] = job[j]
          /\ clock < db[o].until)
         => db'[o].ver = db[o].ver]_vars
=============================================================================
