------------------------------ MODULE HoldOrder ------------------------------
(***************************************************************************)
(* The life of the hold orders, from discovery to closing, as the cron     *)
(* jobs of the agent drive it: SET_DEFAULT_HOLD, CONFIRM_HOLD, CHECK_AI,    *)
(* CONFIRM_RELEASE and MANUAL_CLOSE, with MES on the other side.           *)
(*                                                                         *)
(* A database transaction is one step.  A job that sends a MES command     *)
(* takes four: the intent is committed, MES is called, the receipt is      *)
(* committed, and (SET only) the order is derived again.  A job at any of  *)
(* these points is a worker; the jobs that only read MES and write the     *)
(* database need none.                                                     *)
(*                                                                         *)
(* Hazards names the faults of the environment a configuration allows.     *)
(***************************************************************************)
EXTENDS HoldDecision

CONSTANTS Orders,       \* hold orders: one per lot, step and rework round
          Lots,
          LotOf,        \* [Orders -> Lots]
          Workers,      \* concurrently running jobs that may send to MES
          NoOrder,
          Hazards

AllHazards == {"crash", "line", "smm", "roster", "manual", "control", "query",
               "flow", "reject", "timeout", "lost", "releaseTimeout"}

ASSUME OrdersAssumption ==
    /\ LotOf \in [Orders -> Lots]
    /\ NoOrder \notin Orders
    /\ Hazards \subseteq AllHazards

VARIABLES
    life,       \* lifecycle of the order's row; ABSENT before discovery
    work,       \* work_state
    target,     \* target_hold_ope_no is set
    skip,       \* last_rule_id and state_reason say A2-20, SMM present
    cmd,        \* the SET_HOLD commands of an order, one per code
    rel,        \* its SET_RELEASE command
    bind,       \* the dh_* columns of its row: the hold it believes it has
    alarms,     \* incidents named like a work state, ever opened for it
    worker,     \* what each job that is sending a command is doing
    mesOwn,     \* MES: the codes under which the agent's holds stand on a lot
    mesSmm,     \* MES: the lot has the SMM hold at the target step
    scan,       \* the scan service's progress on the order's wafers
    control     \* agent_control.mode

order == <<life, work, target, skip>>
ledger == <<cmd, rel, bind>>
mes == <<mesOwn, mesSmm>>
world == <<mesOwn, mesSmm, scan, control>>
vars == <<life, work, target, skip, cmd, rel, bind, alarms, worker,
          mesOwn, mesSmm, scan, control>>

Job(phase, o, c, receipt) ==
    [pc |-> phase, order |-> o, code |-> c, receipt |-> receipt]

Idle == Job("idle", NoOrder, 0, "")

Jobs == [pc : {"idle", "set_call", "set_done", "set_again",
               "release_call", "release_done"},
         order : Orders \cup {NoOrder}, code : 0..NCodes,
         receipt : Receipts \cup {""}]

NoCommand == [state |-> "NONE", why |-> "", attempts |-> 0]

Init ==
    /\ life = [o \in Orders |-> "ABSENT"]
    /\ work = [o \in Orders |-> "NONE"]
    /\ target = [o \in Orders |-> FALSE]
    /\ skip = [o \in Orders |-> FALSE]
    /\ cmd = [o \in Orders |-> [c \in Codes |-> NoCommand]]
    /\ rel = [o \in Orders |-> [state |-> "NONE", code |-> 0, attempts |-> 0]]
    /\ bind = [o \in Orders |-> [code |-> 0, status |-> "NONE"]]
    /\ alarms = [o \in Orders |-> {}]
    /\ worker = [w \in Workers |-> Idle]
    /\ mesOwn = [l \in Lots |-> {}]
    /\ mesSmm = [l \in Lots |-> FALSE]
    /\ scan = [o \in Orders |-> "WAITING"]
    /\ control = "ENABLED"

-----------------------------------------------------------------------------
(* Observation and projection *)

\* What the three services may answer in one pass: the truth, or, where the
\* configuration allows it, that they do not know (UNKNOWN and STALE).
Views(o) ==
    [seen : {TRUE} \cup (IF "query" \in Hazards THEN {FALSE} ELSE {}),
     scan : {scan[o]} \cup (IF "query" \in Hazards THEN {"UNKNOWN"} ELSE {}),
     flow : {"TARGET"} \cup (IF "flow" \in Hazards
                              THEN {"UNKNOWN", "NO_TARGET"} ELSE {})]

Observed(o, view, chosen) ==
    [life |-> life[o], work |-> work[o], target |-> chosen,
     skip |-> skip[o], cmd |-> cmd[o], rel |-> rel[o], bind |-> bind[o],
     control |-> control, mes |-> mesOwn[LotOf[o]], smm |-> mesSmm[LotOf[o]],
     seen |-> view.seen, scan |-> view.scan, flow |-> view.flow]

snapshot(o, view) == Observed(o, view, target[o])

Decision(o, view) == derive_state(snapshot(o, view))

\* persist_projection, with the alarms named
Project(o, d) ==
    /\ work' = [work EXCEPT ![o] = d.work]
    /\ skip' = [skip EXCEPT ![o] = d.rule = "A2-20"]
    /\ life' = [life EXCEPT ![o] = IF d.work \in Closed THEN d.work ELSE @]

\* slip: only a failed hold is thought of
RaiseHoldOnly(o, d) ==
    alarms' = [alarms EXCEPT ![o] =
                 IF d.work = "HOLD_FAILED" THEN @ \cup {d.work} ELSE @]

\* the incidents of a decision to OPEN_INCIDENT are named like its work state
Raise(o, d) ==
    alarms' = [alarms EXCEPT ![o] =
                 IF d.act = "OPEN_INCIDENT" THEN @ \cup {d.work} ELSE @]

\* mark_preventive_released, when the line released a confirmed hold
ReleaseBinding(o, d) ==
    bind' = [bind EXCEPT ![o].status =
               IF d.rule = "A2-04"
                  /\ @ \in {"PENDING", "CONFIRMED", "RELEASE_PENDING"}
               THEN "RELEASED" ELSE @]

-----------------------------------------------------------------------------
(* SET_DEFAULT_HOLD: discovery *)

\* a start event of a new (lot, step, rework round)
CreateOrder(o) ==
    /\ life[o] = "ABSENT"
    /\ life' = [life EXCEPT ![o] = "OPEN"]
    /\ work' = [work EXCEPT ![o] = "NEED_HOLD"]
    /\ UNCHANGED <<target, skip, ledger, alarms, worker, world>>

\* a later event of the same key names other wafers; the order may be closed
RosterChanges(o) ==
    /\ "roster" \in Hazards
    /\ life[o] # "ABSENT"
    /\ work' = [work EXCEPT ![o] = "MANUAL_REVIEW"]
    /\ alarms' = [alarms EXCEPT ![o] = @ \cup {"MANUAL_REVIEW"}]
    /\ UNCHANGED <<life, target, skip, ledger, worker, world>>

-----------------------------------------------------------------------------
(* SET_DEFAULT_HOLD: sending *)

SetWork == {"NEED_HOLD", "NEED_TARGET", "NEED_BACKUP_HOLD",
            "HOLD_VERIFY_PENDING"}

\* SET's pass over one order: when the first snapshot asks for a target, it is
\* chosen and the order is looked at again.
Targeted(o, first, second) ==
    Observed(o, second,
             target[o] \/ Decision(o, first).act = "SELECT_TARGET")

Again(o, first) ==
    IF Decision(o, first).act = "SELECT_TARGET" THEN Views(o) ELSE {first}

SetDecision(o, first, second) ==
    IF Decision(o, first).act = "SELECT_TARGET"
    THEN derive_state(Targeted(o, first, second))
    ELSE Decision(o, first)

\* request_hold up to its first commit: a fresh command and binding, or the
\* command that waits for its retry
Intent(w, o, c) ==
    LET retry == cmd[o][c].state = "RETRY_WAIT" IN
    /\ retry => cmd[o][c].attempts < MaxAttempts
    /\ cmd' = [cmd EXCEPT ![o][c] =
                 [state |-> "PREPARED", why |-> "",
                  attempts |-> IF retry THEN @.attempts ELSE 0]]
    /\ bind' = [bind EXCEPT ![o] =
                  IF retry /\ @.code # c THEN @
                  ELSE [code |-> c, status |-> "PENDING"]]
    /\ work' = [work EXCEPT ![o] = "HOLD_VERIFY_PENDING"]
    /\ target' = [target EXCEPT ![o] = TRUE]
    /\ skip' = [skip EXCEPT ![o] = retry /\ @]
    /\ worker' = [worker EXCEPT ![w] = Job("set_call", o, c, "")]
    /\ UNCHANGED <<life, rel, alarms, world>>

SetSend(w, o, first, second, c) ==
    LET d == SetDecision(o, first, second)
        s == Targeted(o, first, second) IN
    /\ worker[w].pc = "idle"
    /\ life[o] = "OPEN"
    /\ work[o] \in SetWork
    /\ d.act = "SET_HOLD"
    /\ DecidedCode(s, d.rule, c)
    /\ Intent(w, o, c)

\* nothing to send: SET writes what it derived, whatever that is
SetProject(o, first, second) ==
    LET d == SetDecision(o, first, second) IN
    /\ life[o] = "OPEN"
    /\ work[o] \in SetWork
    /\ d.act # "SET_HOLD"
    /\ Project(o, d)
    /\ Raise(o, d)
    /\ target' = [target EXCEPT ![o] = Targeted(o, first, second).target]
    /\ UNCHANGED <<ledger, worker, world>>

\* MES answers set_hold.  It rejects a hold that stands already, never makes a
\* second one, and may accept a command it then loses.
SetHoldCall(w, receipt, effect) ==
    LET o == worker[w].order
        c == worker[w].code
        l == LotOf[o] IN
    /\ worker[w].pc = "set_call"
    /\ receipt \in Rejects => ~effect
    /\ receipt \in Rejects =>
         \/ "reject" \in Hazards
         \/ receipt = "CODE_CONFLICT" /\ c \in mesOwn[l]
    /\ receipt = "UNKNOWN" => "timeout" \in Hazards
    /\ receipt = "ACCEPTED" =>
         /\ c \notin mesOwn[l]
         /\ effect \/ "lost" \in Hazards
    /\ mesOwn' = [mesOwn EXCEPT ![l] = IF effect THEN @ \cup {c} ELSE @]
    /\ worker' = [worker EXCEPT ![w] = Job("set_done", o, c, receipt)]
    /\ UNCHANGED <<order, ledger, alarms, mesSmm, scan, control>>

\* record_receipt and the rejected binding.  The command is written from the
\* copy this job has held since its intent, over whatever stands there now.
SetReceipt(w) ==
    LET o == worker[w].order
        c == worker[w].code
        receipt == worker[w].receipt
        n == cmd[o][c].attempts + 1
        next == state_after_receipt(receipt, n) IN
    /\ worker[w].pc = "set_done"
    /\ cmd' = [cmd EXCEPT ![o][c] =
                 [state |-> next, attempts |-> n,
                  why |-> IF next = "REJECTED" THEN receipt ELSE ""]]
    /\ bind' = [bind EXCEPT ![o] =
                  IF next = "REJECTED" THEN [code |-> c, status |-> "FAILED"]
                  ELSE @]
    /\ worker' = [worker EXCEPT ![w] = Job("set_again", o, c, "")]
    /\ UNCHANGED <<order, rel, alarms, world>>

\* after a conflict the same job goes on to the next code in the same round
SetBackup(w, view, c) ==
    LET o == worker[w].order IN
    /\ worker[w].pc = "set_again"
    /\ Decision(o, view).rule = "A1-04"
    /\ DecidedCode(snapshot(o, view), "A1-04", c)
    /\ Intent(w, o, c)

\* otherwise the round ends for this order; only an alarm is written
SetFinish(w, view) ==
    LET o == worker[w].order
        d == Decision(o, view) IN
    /\ worker[w].pc = "set_again"
    /\ d.rule # "A1-04"
    /\ IF d.act = "OPEN_INCIDENT" THEN Project(o, d)
       ELSE UNCHANGED <<life, work, skip>>
    /\ Raise(o, d)
    /\ worker' = [worker EXCEPT ![w] = Idle]
    /\ UNCHANGED <<target, ledger, world>>

-----------------------------------------------------------------------------
(* CONFIRM_HOLD *)

\* slip: a command on its way is verified whatever the order waits for
AwaitsAnswer(o) ==
    /\ life[o] = "OPEN"
    /\ \/ work[o] = "HOLD_VERIFY_PENDING"
       \/ ~InFlight(rel[o]) /\ \E c \in Codes : InFlight(cmd[o][c])

AwaitsVerify(o) ==
    /\ life[o] = "OPEN"
    /\ \/ work[o] = "HOLD_VERIFY_PENDING"
       \/ /\ work[o] # "MANUAL_REVIEW"
          /\ ~InFlight(rel[o])
          /\ \E c \in Codes : InFlight(cmd[o][c])

\* get_in_flight: the SET command created last among those in flight
LastInFlight(o, c) ==
    /\ InFlight(cmd[o][c])
    /\ ~InFlight(rel[o])
    /\ \A d \in Codes : d > c => ~InFlight(cmd[o][d])

\* MES shows the tuple of the binding, whatever the binding's status
VerifyFound(o, view) ==
    /\ AwaitsVerify(o)
    /\ view.seen
    /\ bind[o].code \in mesOwn[LotOf[o]]
    /\ bind' = [bind EXCEPT ![o].status = IF @ = "PENDING" THEN "CONFIRMED"
                                           ELSE @]
    /\ cmd' = [cmd EXCEPT ![o] = [c \in Codes |->
                 IF LastInFlight(o, c)
                 THEN [@[c] EXCEPT !.state = "CONFIRMED"] ELSE @[c]]]
    /\ work' = [work EXCEPT ![o] = "WAIT_AI"]
    /\ skip' = [skip EXCEPT ![o] = FALSE]
    /\ UNCHANGED <<life, target, rel, alarms, worker, world>>

NotFound(o, view) == AwaitsVerify(o) /\ view.seen
                       /\ bind[o].code \notin mesOwn[LotOf[o]]

\* a timed-out command whose hold does not show is retried, or given up
VerifyRetry(o, view, c) ==
    LET again == cmd[o][c].attempts < MaxAttempts IN
    /\ NotFound(o, view)
    /\ LastInFlight(o, c)
    /\ cmd[o][c].state = "UNKNOWN"
    /\ cmd' = [cmd EXCEPT ![o][c] =
                 [state |-> IF again THEN "RETRY_WAIT" ELSE "REJECTED",
                  why |-> IF again THEN "" ELSE "RETRY_EXHAUSTED",
                  attempts |-> @.attempts]]
    /\ work' = [work EXCEPT ![o] = IF again THEN "NEED_HOLD" ELSE "HOLD_FAILED"]
    /\ alarms' = [alarms EXCEPT ![o] = IF again THEN @
                                       ELSE @ \cup {"HOLD_FAILED"}]
    /\ skip' = [skip EXCEPT ![o] = FALSE]
    /\ UNCHANGED <<life, target, rel, bind, worker, world>>

\* an accepted command whose hold does not show yet is waited for
VerifyWait(o, view) ==
    /\ NotFound(o, view)
    /\ \E c \in Codes : LastInFlight(o, c) /\ cmd[o][c].state = "ACKNOWLEDGED"
    /\ work' = [work EXCEPT ![o] = "HOLD_VERIFY_PENDING"]
    /\ UNCHANGED <<life, target, skip, ledger, alarms, worker, world>>

\* no answer, or nothing to wait for: write what a new snapshot derives
VerifyProject(o, view) ==
    LET d == Decision(o, view) IN
    /\ AwaitsVerify(o)
    /\ \/ ~view.seen
       \/ /\ bind[o].code \notin mesOwn[LotOf[o]]
          /\ \A c \in Codes :
               LastInFlight(o, c) => cmd[o][c].state = "PREPARED"
    /\ Project(o, d)
    /\ alarms' = [alarms EXCEPT ![o] = IF d.work = "HOLD_FAILED"
                                       THEN @ \cup {d.work} ELSE @]
    /\ UNCHANGED <<target, ledger, worker, world>>

ConfirmProject(o, view) ==
    LET d == Decision(o, view) IN
    /\ life[o] = "OPEN"
    /\ ~AwaitsVerify(o)
    /\ d.work \in {"HOLD_FAILED", "OBSERVATION_UNKNOWN", "NEED_BACKUP_HOLD",
                   "CLOSED", "MANUAL_CLOSED"}
    /\ Project(o, d)
    /\ Raise(o, d)
    /\ ReleaseBinding(o, d)
    /\ UNCHANGED <<target, cmd, rel, worker, world>>

-----------------------------------------------------------------------------
(* CHECK_AI *)

\* request_release, fresh: a release is asked of the hold the binding names,
\* which the same snapshot has to show
ReleaseIntent(w, o) ==
    /\ rel[o].state # "RETRY_WAIT"
    /\ bind[o].status = "CONFIRMED"
    /\ bind[o].code \in mesOwn[LotOf[o]]
    /\ rel' = [rel EXCEPT ![o] =
                 [state |-> "PREPARED", code |-> bind[o].code, attempts |-> 0]]
    /\ bind' = [bind EXCEPT ![o].status = "RELEASE_PENDING"]
    /\ work' = [work EXCEPT ![o] = "RELEASE_SENT"]
    /\ skip' = [skip EXCEPT ![o] = FALSE]
    /\ worker' = [worker EXCEPT ![w] = Job("release_call", o, bind[o].code, "")]

\* request_release, retry: MES is not asked again.  Without a binding to
\* release the command is left PREPARED and no call follows.
ReleaseRetry(w, o) ==
    LET releasable == bind[o].status \in {"CONFIRMED", "RELEASE_PENDING"} IN
    /\ rel[o].state = "RETRY_WAIT"
    /\ rel[o].attempts < MaxAttempts
    /\ rel' = [rel EXCEPT ![o].state = "PREPARED"]
    /\ bind' = [bind EXCEPT ![o].status =
                  IF releasable THEN "RELEASE_PENDING" ELSE @]
    /\ work' = [work EXCEPT ![o] = IF releasable THEN "RELEASE_SENT" ELSE @]
    /\ worker' = [worker EXCEPT ![w] =
                    IF releasable THEN Job("release_call", o, rel[o].code, "")
                    ELSE @]
    /\ UNCHANGED skip

CheckAiSend(w, o, view) ==
    /\ worker[w].pc = "idle"
    /\ life[o] = "OPEN"
    /\ Decision(o, view).act = "SET_RELEASE"
    /\ ReleaseIntent(w, o) \/ ReleaseRetry(w, o)
    /\ UNCHANGED <<life, target, cmd, alarms, world>>

\* the work states CHECK_AI writes; an alarm is raised whatever the state
CheckAiProject(o, view) ==
    LET d == Decision(o, view) IN
    /\ life[o] = "OPEN"
    /\ d.act # "SET_RELEASE"
    /\ IF d.work \in {"WAIT_AI", "HOLD_FAILED", "CLOSED", "MANUAL_CLOSED"}
       THEN Project(o, d) /\ ReleaseBinding(o, d)
       ELSE UNCHANGED <<life, work, skip, bind>>
    /\ Raise(o, d)
    /\ UNCHANGED <<target, cmd, rel, worker, world>>

\* MES answers release_hold: an absent hold is released as well.  A hold that
\* shows although its release was accepted may go later, as the line's would.
ReleaseCall(w, receipt, effect) ==
    LET o == worker[w].order
        c == worker[w].code
        l == LotOf[o] IN
    /\ worker[w].pc = "release_call"
    /\ receipt # "CODE_CONFLICT"
    /\ receipt \in Rejects => "reject" \in Hazards /\ ~effect
    /\ receipt = "UNKNOWN" => "releaseTimeout" \in Hazards
    /\ receipt = "ACCEPTED" => effect \/ "lost" \in Hazards
    /\ mesOwn' = [mesOwn EXCEPT ![l] = IF effect THEN @ \ {c} ELSE @]
    /\ worker' = [worker EXCEPT ![w] = Job("release_done", o, c, receipt)]
    /\ UNCHANGED <<order, ledger, alarms, mesSmm, scan, control>>

ReleaseReceipt(w) ==
    LET o == worker[w].order
        n == rel[o].attempts + 1 IN
    /\ worker[w].pc = "release_done"
    /\ rel' = [rel EXCEPT ![o] =
                 [state |-> state_after_receipt(worker[w].receipt, n),
                  code |-> @.code, attempts |-> n]]
    /\ worker' = [worker EXCEPT ![w] = Idle]
    /\ UNCHANGED <<order, cmd, bind, alarms, world>>

-----------------------------------------------------------------------------
(* CONFIRM_RELEASE *)

AwaitsRelease(o) == life[o] = "OPEN" /\ rel[o].state # "NONE"

Gone(o, view) == ~OwnHold(snapshot(o, view))

\* slip: a hold that was not seen is taken for gone
UnseenIsGone(o, view) ==
    Gone(o, view) /\ rel[o].state \in InFlightStates \cup {"CONFIRMED"}

\* a release that timed out counts only when the lot has no hold of anybody
ReleaseVerified(o, view) ==
    /\ view.seen
    /\ Gone(o, view)
    /\ rel[o].state \in InFlightStates \cup {"CONFIRMED"}

VerifyRelease(o, view) ==
    /\ AwaitsRelease(o)
    /\ ReleaseVerified(o, view)
    /\ rel[o].state = "UNKNOWN" => LotIsFree(snapshot(o, view))
    /\ rel' = [rel EXCEPT ![o].state = "CONFIRMED"]
    /\ bind' = [bind EXCEPT ![o].status = "RELEASED"]
    /\ life' = [life EXCEPT ![o] = "CLOSED"]
    /\ work' = [work EXCEPT ![o] = "CLOSED"]
    /\ skip' = [skip EXCEPT ![o] = FALSE]
    /\ UNCHANGED <<target, cmd, alarms, worker, world>>

\* receipt_outcome REJECTED: refused for good, or refused and now sent again
ReleaseRefused(o) ==
    \/ rel[o].state = "REJECTED"
    \/ rel[o].state = "PREPARED" /\ rel[o].attempts > 0

ReleaseFails(o, view) ==
    /\ AwaitsRelease(o)
    /\ view.seen
    /\ ~ReleaseVerified(o, view)
    /\ ReleaseRefused(o)
    /\ work' = [work EXCEPT ![o] = "RELEASE_FAILED"]
    /\ alarms' = [alarms EXCEPT ![o] = @ \cup {"RELEASE_FAILED"}]
    /\ UNCHANGED <<life, target, skip, ledger, worker, world>>

\* the hold still shows although MES took the release, or MES does not answer
ReleasePending(o, view) ==
    /\ AwaitsRelease(o)
    /\ \/ ~view.seen
       \/ ~Gone(o, view) /\ rel[o].state \in {"UNKNOWN", "ACKNOWLEDGED"}
    /\ work' = [work EXCEPT ![o] = IF view.seen THEN "RELEASE_VERIFY_PENDING"
                                   ELSE "OBSERVATION_UNKNOWN"]
    /\ UNCHANGED <<life, target, skip, ledger, alarms, worker, world>>

-----------------------------------------------------------------------------
(* MANUAL_CLOSE and RESUME, the operator's commands *)

ManualClose(o) ==
    /\ "manual" \in Hazards
    /\ life[o] # "ABSENT"
    /\ life' = [life EXCEPT ![o] = "MANUAL_CLOSED"]
    /\ work' = [work EXCEPT ![o] = "MANUAL_CLOSED"]
    /\ skip' = [skip EXCEPT ![o] = FALSE]
    /\ UNCHANGED <<target, ledger, alarms, worker, world>>

Resume ==
    /\ control' = "ENABLED"
    /\ UNCHANGED <<order, ledger, alarms, worker, mes, scan>>

\* DEFENSE found too many lots with an overdue hold
ControlTrips ==
    /\ "control" \in Hazards
    /\ control' = "DISABLED_NEW_HOLD"
    /\ UNCHANGED <<order, ledger, alarms, worker, mes, scan>>

-----------------------------------------------------------------------------
(* The rest of the fab *)

\* the process dies, or the adapter raises: the job forgets what it was doing
Crash(w) ==
    /\ "crash" \in Hazards
    /\ worker[w].pc # "idle"
    /\ worker' = [worker EXCEPT ![w] = Idle]
    /\ UNCHANGED <<order, ledger, alarms, world>>

LineReleases(l, c) ==
    /\ "line" \in Hazards
    /\ c \in mesOwn[l]
    /\ mesOwn' = [mesOwn EXCEPT ![l] = @ \ {c}]
    /\ UNCHANGED <<order, ledger, alarms, worker, mesSmm, scan, control>>

SmmChanges(l) ==
    /\ "smm" \in Hazards
    /\ mesSmm' = [mesSmm EXCEPT ![l] = ~@]
    /\ UNCHANGED <<order, ledger, alarms, worker, mesOwn, scan, control>>

ScanAdvances(o) ==
    /\ life[o] # "ABSENT"
    /\ scan[o] # "READY"
    /\ scan' = [scan EXCEPT ![o] = IF @ = "WAITING" THEN "DWELL" ELSE "READY"]
    /\ UNCHANGED <<order, ledger, alarms, worker, mes, control>>

-----------------------------------------------------------------------------
SetRound(w) ==
    \/ \E o \in Orders, c \in Codes : \E first \in Views(o) :
         \E second \in Again(o, first) : SetSend(w, o, first, second, c)
    \/ \E receipt \in Receipts, effect \in BOOLEAN :
         SetHoldCall(w, receipt, effect)
    \/ SetReceipt(w)
    \/ worker[w].pc = "set_again" /\ \E view \in Views(worker[w].order) :
         \/ \E c \in Codes : SetBackup(w, view, c)
         \/ SetFinish(w, view)

ReleaseRound(w) ==
    \/ \E o \in Orders : \E view \in Views(o) : CheckAiSend(w, o, view)
    \/ \E receipt \in Receipts, effect \in BOOLEAN :
         ReleaseCall(w, receipt, effect)
    \/ ReleaseReceipt(w)

Database(o) ==
    \/ \E first \in Views(o) : \E second \in Again(o, first) :
         SetProject(o, first, second)
    \/ \E view \in Views(o) :
         \/ VerifyFound(o, view)
         \/ \E c \in Codes : VerifyRetry(o, view, c)
         \/ VerifyWait(o, view)
         \/ VerifyProject(o, view)
         \/ ConfirmProject(o, view)
         \/ CheckAiProject(o, view)
         \/ VerifyRelease(o, view)
         \/ ReleaseFails(o, view)
         \/ ReleasePending(o, view)

Environment ==
    \/ \E w \in Workers : Crash(w)
    \/ \E l \in Lots : SmmChanges(l) \/ \E c \in Codes : LineReleases(l, c)
    \/ \E o \in Orders : \/ CreateOrder(o)
                         \/ RosterChanges(o)
                         \/ ManualClose(o)
                         \/ ScanAdvances(o)
    \/ ControlTrips
    \/ Resume

Next ==
    \/ \E w \in Workers : SetRound(w) \/ ReleaseRound(w)
    \/ \E o \in Orders : Database(o)
    \/ Environment

Spec == Init /\ [][Next]_vars

-----------------------------------------------------------------------------
(* Properties *)

\* Every variable keeps its shape.
TypeOK ==
    /\ life \in [Orders -> Lives]
    /\ work \in [Orders -> Works]
    /\ target \in [Orders -> BOOLEAN]
    /\ skip \in [Orders -> BOOLEAN]
    /\ cmd \in [Orders -> [Codes -> SetCommands]]
    /\ rel \in [Orders -> ReleaseCommands]
    /\ bind \in [Orders -> Bindings]
    /\ alarms \in [Orders -> SUBSET Works]
    /\ worker \in [Workers -> Jobs]
    /\ mesOwn \in [Lots -> SUBSET Codes]
    /\ mesSmm \in [Lots -> BOOLEAN]
    /\ scan \in [Orders -> Scans]
    /\ control \in {"ENABLED", "DISABLED_NEW_HOLD"}

\* Two rework rounds of one lot share their MES tuple; the agent cannot tell
\* their holds apart.  The promises below are made for lots in one round.
OneRoundPerLot == \A o, p \in Orders : LotOf[o] = LotOf[p] => o = p

\* The lot of an order never carries the agent's hold under two codes at once,
\* whatever was retried, timed out, rejected or released by the line on the
\* way (request_hold, verify_hold: a backup only after a definite rejection).
NoDoubleHold == \A o \in Orders : \A c, d \in mesOwn[LotOf[o]] : c = d

\* Every hold of the agent is the one the order's binding names, with a status
\* the matcher accepts: it will be recognised, verified and released, never
\* left behind as nobody's (ownership.match_our_holds).
HoldIsOwned ==
    \A o \in Orders : \A c \in mesOwn[LotOf[o]] :
        bind[o].code = c /\ bind[o].status \notin {"NONE", "FAILED"}

\* An order is CLOSED only when its hold is gone, and no command still under
\* way can put it back (verify_release, the skip path of derive_state).
ClosedHasNoHold == \A o \in Orders : life[o] = "CLOSED" => mesOwn[LotOf[o]] = {}

\* At most one job has a set_hold of an order under way, and none while a
\* release of that order is about to be sent (get_in_flight, derive_state).
Sending(w, o) == worker[w].order = o /\ worker[w].pc \in {"set_call", "set_done"}
CallsExclude ==
    \A o \in Orders : \A v, w \in Workers :
        /\ Sending(v, o) /\ Sending(w, o) => v = w
        /\ worker[v].pc = "set_call" /\ worker[v].order = o =>
             ~(worker[w].pc = "release_call" /\ worker[w].order = o)

\* Nothing is released before every wafer was scanned and the dwell is over,
\* and no order is CLOSED before every wafer was scanned, whatever the scan
\* service failed to answer (derive_state A2-05, A2-09, A2-20, A2-21).
ReleaseAfterScan ==
    \A o \in Orders :
        /\ rel[o].state # "NONE" => scan[o] = "READY"
        /\ life[o] = "CLOSED" => scan[o] # "WAITING"

\* An order that gave up on its hold or on its release has raised the alarm of
\* that name, on every path that writes the state.
FailureIsAlarmed ==
    \A o \in Orders : work[o] \in {"HOLD_FAILED", "RELEASE_FAILED",
                                   "MANUAL_REVIEW"} => work[o] \in alarms[o]

\* A code is tried by one command, in the configured order: a command is
\* prepared when none was written for its code and every earlier code was
\* refused for a conflict, or when it waits for its retry with an attempt left
\* (request_hold; the idempotency key stays that of the command).
OneCommandPerCode ==
    [][\A o \in Orders, c \in Codes :
         cmd'[o][c].state = "PREPARED" /\ cmd[o][c].state # "PREPARED" =>
           \/ /\ cmd[o][c].state = "NONE"
              /\ \A d \in Codes : d < c => /\ cmd[o][d].state = "REJECTED"
                                            /\ cmd[o][d].why = "CODE_CONFLICT"
           \/ /\ cmd[o][c].state = "RETRY_WAIT"
              /\ cmd'[o][c].attempts < MaxAttempts]_vars

\* An order that came under review before its release was asked for stays there
\* until an operator closes it: no release is asked for, and no job, receipt or
\* retry that was under way takes it up again (derive_state A1-07).  Once the
\* release is asked for, CONFIRM_RELEASE does not look at the review.
ReviewIsKept ==
    [][\A o \in Orders :
         life[o] = "OPEN" /\ work[o] = "MANUAL_REVIEW" /\ rel[o].state = "NONE" =>
           \/ work'[o] = "MANUAL_REVIEW" /\ rel'[o].state = "NONE"
           \/ life'[o] = "MANUAL_CLOSED"]_vars
=============================================================================
