---------------------------- MODULE HoldDecision ----------------------------
(***************************************************************************)
(* The rule engine of the hold agent: domain/derive.py as a function of a  *)
(* snapshot.  A snapshot is what one cron pass knows about one order: the  *)
(* order's row (life, work, target, skip), its commands (cmd, rel), its    *)
(* binding (bind), the control switch, and what MES, the flow service and  *)
(* the scan service answered (seen, mes, smm, scan, flow).                 *)
(*                                                                         *)
(* A Hold code is its position in the configured list hold_codes, so the   *)
(* order in which backups are tried is the order of the numbers.  A MES    *)
(* hold of the order's lot is identified by its code alone: route, step,   *)
(* user and memo are the same for every hold the agent writes at the       *)
(* order's target step.                                                    *)
(***************************************************************************)
EXTENDS Naturals

CONSTANTS NCodes,       \* length of hold_codes in the settings
          MaxAttempts   \* settings.max_action_attempts

ASSUME CodesAssumption == NCodes \in Nat \ {0}
ASSUME AttemptsAssumption == MaxAttempts \in Nat \ {0}

Codes == 1..NCodes

-----------------------------------------------------------------------------
(* Vocabulary *)

Lives == {"ABSENT", "OPEN", "CLOSED", "MANUAL_CLOSED"}
Closed == {"CLOSED", "MANUAL_CLOSED"}

Works == {"NONE", "NEED_HOLD", "NEED_BACKUP_HOLD", "NEED_TARGET",
          "HOLD_VERIFY_PENDING", "HOLD_FAILED", "WAIT_AI",
          "READY_RELEASE_OK", "RELEASE_SENT", "RELEASE_VERIFY_PENDING",
          "RELEASE_FAILED", "OBSERVATION_UNKNOWN", "BLOCKED_BY_CONTROL",
          "MANUAL_REVIEW", "STATE_CONFLICT", "CLOSED", "MANUAL_CLOSED"}

\* ActionState; NONE is a command that was never written, and DISPATCHED and
\* CANCELLED are left out because no code path assigns them.
ActionStates == {"NONE", "PREPARED", "ACKNOWLEDGED", "UNKNOWN", "RETRY_WAIT",
                 "CONFIRMED", "REJECTED"}
InFlightStates == {"PREPARED", "ACKNOWLEDGED", "UNKNOWN"}

\* expected_postcondition of a rejected SET command
Causes == {"", "TRANSIENT", "CODE_CONFLICT", "PERMISSION", "RETRY_EXHAUSTED"}

BindingStates == {"NONE", "PENDING", "CONFIRMED", "RELEASE_PENDING",
                  "RELEASED", "FAILED"}

\* What the transport can report.  RATE_LIMIT is treated like TRANSIENT.  These
\* are the errors the fake world gives; of another one (it would be stored as it
\* came) nothing is said here.
Rejects == {"CODE_CONFLICT", "TRANSIENT", "PERMISSION"}
Receipts == {"ACCEPTED", "UNKNOWN"} \cup Rejects

SetCommands == [state : ActionStates, why : Causes, attempts : Nat]
ReleaseCommands == [state : ActionStates, code : 0..NCodes, attempts : Nat]
Bindings == [code : 0..NCodes, status : BindingStates]
Scans == {"WAITING", "DWELL", "READY"}

-----------------------------------------------------------------------------
(* What a snapshot says *)

InFlight(command) == command.state \in InFlightStates

\* slip: a command counts as in flight only once it was sent
SetAnswered(s) == \E c \in Codes : s.cmd[c].state \in {"ACKNOWLEDGED", "UNKNOWN"}

SetInFlight(s) == \E c \in Codes : InFlight(s.cmd[c])

ReleaseInFlight(s) == InFlight(s.rel)

\* The commands are listed in the order they were created: the SET commands
\* by code, then the release.  The last command waiting for a retry wins.
RetryCode(s, c) ==
    /\ s.cmd[c].state = "RETRY_WAIT"
    /\ \A d \in Codes : d > c => s.cmd[d].state # "RETRY_WAIT"

Attempted(s, c) == s.cmd[c].state # "NONE"

LastSet(s, c) ==
    /\ Attempted(s, c)
    /\ \A d \in Codes : d > c => ~Attempted(s, d)

\* remaining[0]: the first configured code no command was written for
NextCode(s, c) ==
    /\ ~Attempted(s, c)
    /\ \A d \in Codes : d < c => Attempted(s, d)

\* match_our_holds: a MES hold equal to the tuple frozen in the binding, unless
\* that binding FAILED.
OwnHold(s) ==
    /\ s.seen
    /\ s.bind.code \in s.mes
    /\ s.bind.status \in BindingStates \ {"NONE", "FAILED"}

\* slip: the mark of an order that was skipped is not read
SmmNow(s) == s.target /\ s.smm

\* is_smm_hold needs the order's target step, so nothing is an SMM hold before
\* a target was chosen; once the order was marked A2-20 the mark is enough.
SmmSkip(s) == (s.target /\ s.smm) \/ s.skip

\* hold_query.status = NOT_FOUND: the lot has no hold of anybody
LotIsFree(s) == s.seen /\ s.mes = {} /\ ~s.smm

RejectedByMes(s, c) ==
    s.cmd[c].state = "REJECTED" /\ s.cmd[c].why # "RETRY_EXHAUSTED"

AnyRejected(s) == \E c \in Codes : RejectedByMes(s, c)

PermissionFailed(s) ==
    \E c \in Codes : RejectedByMes(s, c) /\ s.cmd[c].why = "PERMISSION"

OnlyConflicts(s) ==
    \A c \in Codes : RejectedByMes(s, c) => s.cmd[c].why = "CODE_CONFLICT"

CodesRemain(s) == (\E c \in Codes : ~Attempted(s, c)) /\ ~PermissionFailed(s)

RetriesExhausted(s) ==
    \E c \in Codes : /\ LastSet(s, c)
                     /\ s.cmd[c].state = "REJECTED"
                     /\ s.cmd[c].why \in {"TRANSIENT", "RETRY_EXHAUSTED"}

\* a hold that was once confirmed and is gone without a release of ours
LineReleased(s) ==
    /\ s.bind.status \in {"CONFIRMED", "RELEASE_PENDING"}
    /\ s.rel.state \notin InFlightStates \cup {"CONFIRMED"}

-----------------------------------------------------------------------------
(* derive_state: the first rule that applies, in the order of the code *)

Rule(id, next, action) == [rule |-> id, work |-> next, act |-> action]

\* slip: progress that is not known is taken for complete
UnknownIsScanned(s) ==
    IF s.scan \notin {"WAITING", "DWELL"}
    THEN Rule("A2-21", "READY_RELEASE_OK", "SET_RELEASE")
    ELSE IF s.scan = "DWELL" THEN Rule("A2-09", "WAIT_AI", "CHECK_AI")
    ELSE Rule("A2-05", "WAIT_AI", "CHECK_AI")

\* after the own-hold question: scan progress decides, then the scan's dwell
ScanRule(s) ==
    IF s.scan = "READY" THEN Rule("A2-21", "READY_RELEASE_OK", "SET_RELEASE")
    ELSE IF s.scan = "DWELL" THEN Rule("A2-09", "WAIT_AI", "CHECK_AI")
    ELSE Rule("A2-05", "WAIT_AI", "CHECK_AI")

\* the order skips the Default Hold because SMM holds the lot already; the
\* dwell after the last scan is not waited for here
SkipRule(s) ==
    IF s.scan \in {"DWELL", "READY"} THEN Rule("A2-20", "CLOSED", "NONE")
    ELSE Rule("A2-20", "WAIT_AI", "CHECK_AI")

\* no own hold, none confirmed before: is another code or a first hold due?
NewHoldRule(s) ==
    IF RetriesExhausted(s) THEN Rule("A2-18", "HOLD_FAILED", "OPEN_INCIDENT")
    ELSE IF AnyRejected(s) /\ CodesRemain(s) /\ OnlyConflicts(s)
      THEN Rule("A1-04", "NEED_BACKUP_HOLD", "SET_HOLD")
    ELSE IF AnyRejected(s) /\ ~CodesRemain(s)
      THEN Rule("A2-03", "HOLD_FAILED", "OPEN_INCIDENT")
    ELSE IF s.control # "ENABLED"
      THEN Rule("A1-08", "BLOCKED_BY_CONTROL", "NONE")
    ELSE IF s.flow = "UNKNOWN" THEN Rule("A1-07", "OBSERVATION_UNKNOWN", "NONE")
    ELSE IF s.flow = "NO_TARGET"
      THEN Rule("A1-07", "MANUAL_REVIEW", "OPEN_INCIDENT")
    ELSE IF ~s.target THEN Rule("A1-02", "NEED_TARGET", "SELECT_TARGET")
    ELSE Rule("A1-03", "NEED_HOLD", "SET_HOLD")

\* the hold query was answered and no command is in flight or waiting
ObservedRule(s) ==
    IF s.rel.state = "CONFIRMED" /\ ~OwnHold(s)
      THEN Rule("A2-11", "CLOSED", "NONE")
    ELSE IF s.rel.state = "REJECTED" /\ OwnHold(s)
      THEN Rule("A2-12", "RELEASE_FAILED", "OPEN_INCIDENT")
    ELSE IF SmmSkip(s) /\ ~OwnHold(s) THEN SkipRule(s)
    ELSE IF OwnHold(s) THEN ScanRule(s)
    ELSE IF LineReleased(s) THEN Rule("A2-04", "MANUAL_CLOSED", "NONE")
    ELSE NewHoldRule(s)

OpenRule(s) ==
    IF ReleaseInFlight(s)
      THEN Rule("A2-10", IF s.rel.state = "ACKNOWLEDGED"
                         THEN "RELEASE_VERIFY_PENDING" ELSE "RELEASE_SENT",
                "VERIFY_RELEASE")
    ELSE IF SetInFlight(s)
      THEN Rule("A2-01", "HOLD_VERIFY_PENDING", "VERIFY_HOLD")
    ELSE IF ~s.seen THEN Rule("A2-14", "OBSERVATION_UNKNOWN", "NONE")
    ELSE IF s.rel.state = "RETRY_WAIT"
      THEN Rule("A1-09", "READY_RELEASE_OK", "SET_RELEASE")
    ELSE IF \E c \in Codes : s.cmd[c].state = "RETRY_WAIT"
      THEN Rule("A1-09", "NEED_HOLD", "SET_HOLD")
    ELSE ObservedRule(s)

derive_state(s) ==
    IF s.work = "MANUAL_REVIEW" THEN Rule("A1-07", "MANUAL_REVIEW", "NONE")
    ELSE IF s.life \in Closed
      THEN IF OwnHold(s) THEN Rule("D-05", "STATE_CONFLICT", "OPEN_INCIDENT")
           ELSE Rule("A1-06", s.life, "NONE")
    ELSE OpenRule(s)

\* slip: the backup command is written for the code that was just refused
SameCodeAgain(s, rule, c) ==
    \/ rule = "A1-09" /\ RetryCode(s, c)
    \/ rule = "A1-04" /\ LastSet(s, c)
    \/ rule = "A1-03" /\ c = 1

\* the code a SET_HOLD decision is about
DecidedCode(s, rule, c) ==
    \/ rule = "A1-09" /\ RetryCode(s, c)
    \/ rule = "A1-04" /\ NextCode(s, c)
    \/ rule = "A1-03" /\ c = 1

-----------------------------------------------------------------------------
(* retry.py: the state of a command after its n-th receipt *)

\* slip: the outcome is stored as it came
OutcomeAsState(receipt, n) ==
    IF receipt = "ACCEPTED" THEN "ACKNOWLEDGED" ELSE receipt

\* slip: a time-out is taken for a refusal
TimeoutIsRefusal(receipt, n) ==
    IF receipt = "ACCEPTED" THEN "ACKNOWLEDGED"
    ELSE IF receipt = "TRANSIENT" /\ n < MaxAttempts THEN "RETRY_WAIT"
    ELSE "REJECTED"

\* slip: one retry too many
OneTooMany(receipt, n) ==
    IF receipt = "ACCEPTED" THEN "ACKNOWLEDGED"
    ELSE IF receipt = "UNKNOWN" THEN "UNKNOWN"
    ELSE IF receipt = "TRANSIENT" /\ n <= MaxAttempts THEN "RETRY_WAIT"
    ELSE "REJECTED"

state_after_receipt(receipt, n) ==
    IF receipt = "ACCEPTED" THEN "ACKNOWLEDGED"
    ELSE IF receipt = "UNKNOWN" THEN "UNKNOWN"
    ELSE IF receipt = "TRANSIENT" /\ n < MaxAttempts THEN "RETRY_WAIT"
    ELSE "REJECTED"
=============================================================================
