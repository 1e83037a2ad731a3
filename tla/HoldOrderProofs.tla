--------------------------- MODULE HoldOrderProofs ---------------------------
(***************************************************************************)
(* Theorems about HoldOrder, for any number of orders, lots, jobs, codes   *)
(* and attempts, and every set of hazards: what a decision says, the types *)
(* of the variables, and the steps that set a hold and verify it.          *)
(***************************************************************************)
EXTENDS HoldOrderInv, TLAPS

-----------------------------------------------------------------------------
(* What a decision of derive_state says of the snapshot it was taken from, *)
(* for every snapshot.  The proofs rest on these facts instead of on the   *)
(* rules themselves.                                                       *)

\* no SET command of the order is under way or waits for a retry
Quiet(s) == \A c \in Codes : s.cmd[c].state \notin InFlightStates \cup {"RETRY_WAIT"}

\* A decision is a rule, a work state and an action; whatever the rule, the
\* work state is one of WorkState's (derive_state).
LEMMA DecisionType ==
    ASSUME NEW s, s.life \in Lives
    PROVE  derive_state(s).work \in Works
  BY DEF derive_state, OpenRule, ObservedRule, NewHoldRule, SkipRule, ScanRule,
         Rule, Works, Lives, Closed

\* A hold is sent only for an order that is not closed, has nothing in flight
\* and no release to retry, on an answered query; and either a command waits
\* for its retry, or the lot carries no hold of the order and none was
\* confirmed before (derive_state A1-03, A1-04, A1-09).
LEMMA SetHoldDecision ==
    ASSUME NEW s, derive_state(s).act = "SET_HOLD"
    PROVE  /\ s.life \notin Closed
           /\ s.seen
           /\ ~ReleaseInFlight(s)
           /\ ~SetInFlight(s)
           /\ s.rel.state # "RETRY_WAIT"
           /\ \/ derive_state(s).rule = "A1-09"
              \/ /\ derive_state(s).rule \in {"A1-03", "A1-04"}
                 /\ Quiet(s)
                 /\ ~OwnHold(s)
                 /\ s.rel.state # "CONFIRMED"
                 /\ ~LineReleased(s)
                 /\ ~RetriesExhausted(s)
  BY DEF derive_state, OpenRule, ObservedRule, NewHoldRule, SkipRule, ScanRule,
         Rule, Quiet, SetInFlight, InFlight

\* A first hold is sent when no backup is due and nothing was refused for good
\* (the order of the rules A2-18, A1-04, A2-03 before A1-03).
LEMMA FirstHoldDecision ==
    ASSUME NEW s, derive_state(s).rule = "A1-03"
    PROVE  AnyRejected(s) => CodesRemain(s) /\ ~OnlyConflicts(s)
  BY DEF derive_state, OpenRule, ObservedRule, NewHoldRule, SkipRule, ScanRule, Rule

\* A backup is sent after conflicts only, with codes left (A1-04).
LEMMA BackupDecision ==
    ASSUME NEW s, derive_state(s).rule = "A1-04"
    PROVE  /\ derive_state(s).act = "SET_HOLD"
           /\ AnyRejected(s)
           /\ CodesRemain(s)
           /\ OnlyConflicts(s)
  BY DEF derive_state, OpenRule, ObservedRule, NewHoldRule, SkipRule, ScanRule, Rule

\* A release is sent only when nothing is in flight and the query was answered;
\* a first one when the scan is over and the order's hold shows (A2-21).
LEMMA ReleaseDecision ==
    ASSUME NEW s, derive_state(s).act = "SET_RELEASE"
    PROVE  /\ s.life \notin Closed
           /\ s.seen
           /\ ~ReleaseInFlight(s)
           /\ ~SetInFlight(s)
           /\ \/ s.rel.state = "RETRY_WAIT"
              \/ Quiet(s) /\ OwnHold(s) /\ s.scan = "READY" /\ s.rel.state # "REJECTED"
  BY DEF derive_state, OpenRule, ObservedRule, NewHoldRule, SkipRule, ScanRule,
         Rule, Quiet, SetInFlight, InFlight

\* An order is closed by a decision only with nothing in flight, and only when
\* its hold does not show; after A2-20 the wafers were all seen by the scan.
LEMMA ClosingDecision ==
    ASSUME NEW s, s.life \notin Closed, derive_state(s).work \in Closed
    PROVE  /\ s.work # "MANUAL_REVIEW"
           /\ s.seen
           /\ ~ReleaseInFlight(s)
           /\ ~SetInFlight(s)
           /\ ~OwnHold(s)
           /\ derive_state(s).work = "CLOSED" =>
                s.rel.state = "CONFIRMED" \/ s.scan \in {"DWELL", "READY"}
  BY DEF derive_state, OpenRule, ObservedRule, NewHoldRule, SkipRule, ScanRule,
         Rule, Closed, SetInFlight, InFlight

\* A2-04 marks the binding released only with no command under way.
LEMMA LineReleaseDecision ==
    ASSUME NEW s, derive_state(s).rule = "A2-04"
    PROVE  /\ derive_state(s).work = "MANUAL_CLOSED"
           /\ ~SetInFlight(s)
           /\ Quiet(s)
  BY DEF derive_state, OpenRule, ObservedRule, NewHoldRule, SkipRule, ScanRule,
         Rule, Quiet, SetInFlight, InFlight

\* A decision to open an incident never closes the order.
LEMMA AlarmDecision ==
    ASSUME NEW s, derive_state(s).act = "OPEN_INCIDENT"
    PROVE  derive_state(s).work \in {"HOLD_FAILED", "RELEASE_FAILED",
                                     "MANUAL_REVIEW", "STATE_CONFLICT"}
  BY DEF derive_state, OpenRule, ObservedRule, NewHoldRule, SkipRule, ScanRule, Rule

\* An order waits for its hold because a command is in flight (A2-01).
LEMMA WaitingDecision ==
    ASSUME NEW s, s.life \in Lives, derive_state(s).work = "HOLD_VERIFY_PENDING"
    PROVE  SetInFlight(s)
  BY DEF derive_state, OpenRule, ObservedRule, NewHoldRule, SkipRule, ScanRule,
         Rule, Lives, Closed

\* A decision that gives up opens an incident, but for an order that is with
\* somebody for review already (A1-07 at the head of derive_state).
LEMMA FailureDecision ==
    ASSUME NEW s, s.life \in Lives,
           derive_state(s).work \in {"HOLD_FAILED", "RELEASE_FAILED", "MANUAL_REVIEW"}
    PROVE  \/ derive_state(s).act = "OPEN_INCIDENT"
           \/ s.work = "MANUAL_REVIEW" /\ derive_state(s).work = "MANUAL_REVIEW"
  BY DEF derive_state, OpenRule, ObservedRule, NewHoldRule, SkipRule, ScanRule,
         Rule, Lives, Closed

\* An order goes to review when a first hold is due and finds no step (A1-07).
LEMMA ReviewDecision ==
    ASSUME NEW s, s.life \in Lives, s.work # "MANUAL_REVIEW",
           derive_state(s).work = "MANUAL_REVIEW"
    PROVE  /\ s.rel.state \notin InFlightStates \cup {"CONFIRMED"}
           /\ Quiet(s)
           /\ ~LineReleased(s)
           /\ ~RetriesExhausted(s)
           /\ AnyRejected(s) => CodesRemain(s) /\ ~OnlyConflicts(s)
  BY DEF derive_state, OpenRule, ObservedRule, NewHoldRule, SkipRule, ScanRule,
         Rule, Lives, Closed, Quiet, SetInFlight, ReleaseInFlight, InFlight

\* A release has failed only while the order's hold shows (A2-12).
LEMMA ReleaseFailureDecision ==
    ASSUME NEW s, s.life \in Lives, derive_state(s).work = "RELEASE_FAILED"
    PROVE  s.seen /\ OwnHold(s)
  BY DEF derive_state, OpenRule, ObservedRule, NewHoldRule, SkipRule, ScanRule,
         Rule, Lives, Closed

-----------------------------------------------------------------------------
(* Types *)

\* A decision about an order is one of the work states (derive_state).
LEMMA DecidedWork ==
    ASSUME TypeOK, NEW o \in Orders, NEW view
    PROVE  Decision(o, view).work \in Works
  BY DecisionType DEF Decision, snapshot, Observed, TypeOK

\* So is SET's, with or without the second look after a target was chosen.
LEMMA SetDecidedWork ==
    ASSUME TypeOK, NEW o \in Orders, NEW first, NEW second
    PROVE  SetDecision(o, first, second).work \in Works
  BY DecidedWork, DecisionType DEF SetDecision, Targeted, Decision, snapshot, Observed, TypeOK

\* persist_projection writes a lifecycle, a work state and the skip mark.
LEMMA ProjectType ==
    ASSUME TypeOK, NEW o, NEW d, d.work \in Works \/ o \notin Orders, Project(o, d)
    PROVE  life' \in [Orders -> Lives] /\ work' \in [Orders -> Works]
             /\ skip' \in [Orders -> BOOLEAN]
  BY DEF Project, TypeOK, Lives, Closed

\* An incident is named by a work state.
LEMMA RaiseType ==
    ASSUME TypeOK, NEW o, NEW d, d.work \in Works \/ o \notin Orders, Raise(o, d)
    PROVE  alarms' \in [Orders -> SUBSET Works]
  BY DEF Raise, TypeOK

\* A receipt leads to an action state (state_after_receipt).
LEMMA ReceiptType ==
    ASSUME NEW receipt, NEW n
    PROVE  state_after_receipt(receipt, n) \in ActionStates
  BY DEF state_after_receipt, ActionStates

\* mark_preventive_released writes a binding status.
LEMMA ReleaseBindingType ==
    ASSUME TypeOK, NEW o, NEW d, ReleaseBinding(o, d)
    PROVE  bind' \in [Orders -> Bindings]
  BY ZenonT(30) DEF ReleaseBinding, TypeOK, Bindings, BindingStates

\* A configured code is one a command or a binding may carry.
LEMMA CodeRange == \A c \in Codes : c \in 0..NCodes
  BY CodesAssumption DEF Codes

\* A job that does nothing is a job.
LEMMA IdleType == Idle \in Jobs
  BY CodesAssumption DEF Idle, Job, Jobs

\* One worker takes a new job, the others keep theirs.
LEMMA JobsStep ==
    ASSUME TypeInv, NEW w, NEW job \in Jobs,
           job.pc # "idle" => job.order \in Orders,
           job.pc \in {"set_call", "set_done"} => job.code \in Codes,
           job.pc = "set_done" => job.receipt \in Receipts,
           worker' = [worker EXCEPT ![w] = job]
    PROVE  worker' \in [Workers -> Jobs] /\ JobsHaveOrders'
  BY DEF TypeInv, TypeOK, JobsHaveOrders

\* A command of an order is overwritten by a command.
LEMMA CommandStep ==
    ASSUME TypeOK, NEW o, NEW c, NEW command \in SetCommands,
           cmd' = [cmd EXCEPT ![o][c] = command]
    PROVE  cmd' \in [Orders -> [Codes -> SetCommands]]
  BY DEF TypeOK

\* request_hold's intent keeps the shapes.
LEMMA IntentType ==
    ASSUME TypeInv, NEW w \in Workers, NEW o \in Orders, NEW c \in Codes,
           Intent(w, o, c)
    PROVE  TypeInv'
<1> USE DEF order, ledger, mes, world
<1> DEFINE retry == cmd[o][c].state = "RETRY_WAIT"
           command == [state |-> "PREPARED", why |-> "",
                       attempts |-> IF retry THEN cmd[o][c].attempts ELSE 0]
<1>1. command \in SetCommands
  <2>1. cmd[o][c].attempts \in Nat
    BY DEF TypeInv, TypeOK, SetCommands
  <2>2. "PREPARED" \in ActionStates /\ "" \in Causes
    BY DEF ActionStates, Causes
  <2> QED
    BY <2>1, <2>2 DEF SetCommands
<1>2. cmd' = [cmd EXCEPT ![o][c] = command]
  BY DEF Intent, TypeInv, TypeOK
<1>3. cmd' \in [Orders -> [Codes -> SetCommands]]
  <2> HIDE DEF command
  <2> QED  BY <1>1, <1>2, CommandStep DEF TypeInv
<1>4. bind' \in [Orders -> Bindings]
  <2>1. [code |-> c, status |-> "PENDING"] \in Bindings
    BY CodesAssumption DEF Bindings, BindingStates, Codes
  <2> QED  BY <2>1 DEF Intent, TypeInv, TypeOK
<1>5. worker' \in [Workers -> Jobs] /\ JobsHaveOrders'
  <2> DEFINE job == Job("set_call", o, c, "")
  <2>1. job \in Jobs
    BY CodesAssumption DEF Job, Jobs, Codes
  <2>2. job.order \in Orders /\ job.code \in Codes /\ job.pc = "set_call"
    BY DEF Job
  <2>3. worker' = [worker EXCEPT ![w] = job]
    BY DEF Intent
  <2> HIDE DEF job
  <2> QED  BY <2>1, <2>2, <2>3, JobsStep
<1> QED
  BY <1>3, <1>4, <1>5 DEF Intent, TypeInv, TypeOK, Works

\* The end of a SET round keeps the shapes.
LEMMA SetFinishType ==
    ASSUME TypeInv, NEW w \in Workers, NEW view, SetFinish(w, view)
    PROVE  TypeInv'
<1> USE DEF order, ledger, mes, world
<1>1. worker[w].order \in Orders
  BY DEF SetFinish, TypeInv, JobsHaveOrders
<1>2. worker' \in [Workers -> Jobs] /\ JobsHaveOrders'
  BY IdleType, JobsStep DEF SetFinish, Idle, Job
<1>3. /\ life' \in [Orders -> Lives] /\ work' \in [Orders -> Works]
      /\ skip' \in [Orders -> BOOLEAN]
  BY <1>1, DecidedWork, ProjectType DEF SetFinish, TypeInv, TypeOK
<1>4. alarms' \in [Orders -> SUBSET Works]
  BY <1>1, DecidedWork, RaiseType DEF SetFinish, TypeInv
<1> QED
  BY <1>2, <1>3, <1>4 DEF SetFinish, TypeInv, TypeOK

\* Every step of SET_DEFAULT_HOLD that takes a job keeps the shapes.
LEMMA SetRoundType ==
    ASSUME TypeInv, NEW w \in Workers, SetRound(w)
    PROVE  TypeInv'
<1> USE DEF order, ledger, mes, world
<1>1. ASSUME NEW o \in Orders, NEW c \in Codes, NEW first, NEW second,
             SetSend(w, o, first, second, c)
      PROVE  TypeInv'
  BY <1>1, IntentType DEF SetSend
<1>2. ASSUME NEW receipt \in Receipts, NEW effect \in BOOLEAN,
             SetHoldCall(w, receipt, effect)
      PROVE  TypeInv'
  <2> DEFINE job == Job("set_done", worker[w].order, worker[w].code, receipt)
  <2>1. /\ job \in Jobs /\ job.order \in Orders /\ job.code \in Codes
        /\ job.receipt \in Receipts
        /\ worker' = [worker EXCEPT ![w] = job]
    BY <1>2 DEF SetHoldCall, TypeInv, TypeOK, JobsHaveOrders, Jobs, Job
  <2>2. worker' \in [Workers -> Jobs] /\ JobsHaveOrders'
    <3> HIDE DEF job
    <3> QED  BY <2>1, JobsStep
  <2>3. mesOwn' \in [Lots -> SUBSET Codes]
    BY <1>2 DEF SetHoldCall, TypeInv, TypeOK, JobsHaveOrders
  <2> QED
    BY <1>2, <2>2, <2>3 DEF SetHoldCall, TypeInv, TypeOK
<1>3. CASE SetReceipt(w)
  <2> DEFINE o == worker[w].order
             c == worker[w].code
             n == cmd[o][c].attempts + 1
             next == state_after_receipt(worker[w].receipt, n)
             command == [state |-> next, attempts |-> n,
                         why |-> IF next = "REJECTED" THEN worker[w].receipt
                                 ELSE ""]
             job == Job("set_again", o, c, "")
  <2>0. o \in Orders /\ c \in Codes /\ worker[w].receipt \in Receipts \cup {""}
    BY <1>3 DEF SetReceipt, TypeInv, TypeOK, JobsHaveOrders, Jobs
  <2>1. command \in SetCommands
    <3>1. n \in Nat
      <4> HIDE DEF o, c
      <4>1. cmd[o][c] \in SetCommands
        BY <2>0 DEF TypeInv, TypeOK
      <4> QED  BY <4>1 DEF SetCommands
    <3>2. next \in ActionStates
      BY ReceiptType
    <3>3. next = "REJECTED" => worker[w].receipt \in Causes
      BY <2>0 DEF state_after_receipt, Receipts, Rejects, Causes
    <3> HIDE DEF n, next, o
    <3> QED  BY <3>1, <3>2, <3>3 DEF SetCommands, Causes
  <2>2. cmd' = [cmd EXCEPT ![o][c] = command]
    BY <1>3 DEF SetReceipt
  <2>3. cmd' \in [Orders -> [Codes -> SetCommands]]
    <3> HIDE DEF command, o, c
    <3> QED  BY <2>1, <2>2, CommandStep DEF TypeInv
  <2>4. bind' \in [Orders -> Bindings]
    <3>1. [code |-> c, status |-> "FAILED"] \in Bindings
      <4> HIDE DEF o, c
      <4> QED  BY <2>0, CodeRange DEF Bindings, BindingStates
    <3> QED  BY <1>3, <3>1 DEF SetReceipt, TypeInv, TypeOK
  <2>5. /\ job \in Jobs /\ job.order \in Orders /\ job.pc = "set_again"
        /\ worker' = [worker EXCEPT ![w] = job]
    <3>1. worker' = [worker EXCEPT ![w] = job]
      BY <1>3 DEF SetReceipt
    <3> HIDE DEF o, c
    <3> QED  BY <2>0, <3>1, CodeRange DEF Job, Jobs
  <2>6. worker' \in [Workers -> Jobs] /\ JobsHaveOrders'
    <3> HIDE DEF job
    <3> QED  BY <2>5, JobsStep
  <2> QED
    BY <1>3, <2>3, <2>4, <2>6 DEF SetReceipt, TypeInv, TypeOK
<1>4. ASSUME NEW view, NEW c \in Codes, SetBackup(w, view, c)
      PROVE  TypeInv'
  BY <1>4, IntentType DEF SetBackup, TypeInv, JobsHaveOrders
<1>5. ASSUME NEW view, SetFinish(w, view)
      PROVE  TypeInv'
  BY <1>5, SetFinishType
<1> QED
  BY <1>1, <1>2, <1>3, <1>4, <1>5 DEF SetRound

\* Every step of CHECK_AI that takes a job keeps the shapes.
LEMMA ReleaseRoundType ==
    ASSUME TypeInv, NEW w \in Workers, ReleaseRound(w)
    PROVE  TypeInv'
<1> USE DEF order, ledger, mes, world
<1>1. ASSUME NEW o \in Orders, NEW view, CheckAiSend(w, o, view)
      PROVE  TypeInv'
  <2>1. rel[o] \in ReleaseCommands /\ bind[o] \in Bindings
    BY DEF TypeInv, TypeOK
  <2>2. ASSUME NEW c \in 0..NCodes,
               worker' = [worker EXCEPT ![w] = Job("release_call", o, c, "")]
        PROVE  worker' \in [Workers -> Jobs] /\ JobsHaveOrders'
    <3> DEFINE job == Job("release_call", o, c, "")
    <3>1. /\ job \in Jobs /\ job.order \in Orders
          /\ job.pc \notin {"set_call", "set_done"}
      BY DEF Job, Jobs
    <3> HIDE DEF job
    <3> QED  BY <2>2, <3>1, JobsStep DEF job
  <2>3. CASE ReleaseIntent(w, o)
    <3>1. worker' \in [Workers -> Jobs] /\ JobsHaveOrders'
      BY <2>1, <2>2, <2>3 DEF ReleaseIntent, Bindings
    <3>2. rel' \in [Orders -> ReleaseCommands]
      BY <2>1, <2>3 DEF ReleaseIntent, Bindings, TypeInv, TypeOK,
                        ReleaseCommands, ActionStates
    <3>3. bind' \in [Orders -> Bindings]
      BY <2>1, <2>3 DEF ReleaseIntent, Bindings, BindingStates, TypeInv, TypeOK
    <3> QED
      BY <1>1, <2>3, <3>1, <3>2, <3>3
         DEF CheckAiSend, ReleaseIntent, TypeInv, TypeOK, Works
  <2>4. CASE ReleaseRetry(w, o)
    <3>1. worker' \in [Workers -> Jobs] /\ JobsHaveOrders'
      <4>1. CASE bind[o].status \in {"CONFIRMED", "RELEASE_PENDING"}
        BY <2>1, <2>2, <2>4, <4>1 DEF ReleaseRetry, ReleaseCommands
      <4>2. CASE bind[o].status \notin {"CONFIRMED", "RELEASE_PENDING"}
        BY <2>4, <4>2 DEF ReleaseRetry, TypeInv, TypeOK, JobsHaveOrders
      <4> QED  BY <4>1, <4>2
    <3>2. rel' \in [Orders -> ReleaseCommands]
      BY <2>1, <2>4 DEF ReleaseRetry, TypeInv, TypeOK, ReleaseCommands, ActionStates
    <3>3. bind' \in [Orders -> Bindings]
      BY <2>1, <2>4 DEF ReleaseRetry, Bindings, BindingStates, TypeInv, TypeOK
    <3> QED
      BY <1>1, <2>4, <3>1, <3>2, <3>3
         DEF CheckAiSend, ReleaseRetry, TypeInv, TypeOK, Works
  <2> QED
    BY <1>1, <2>3, <2>4 DEF CheckAiSend
<1>2. ASSUME NEW receipt \in Receipts, NEW effect \in BOOLEAN,
             ReleaseCall(w, receipt, effect)
      PROVE  TypeInv'
  <2> DEFINE job == Job("release_done", worker[w].order, worker[w].code, receipt)
  <2>1. /\ job \in Jobs /\ job.order \in Orders
        /\ job.pc \notin {"set_call", "set_done"}
        /\ worker' = [worker EXCEPT ![w] = job]
    BY <1>2 DEF ReleaseCall, TypeInv, TypeOK, JobsHaveOrders, Jobs, Job
  <2>2. worker' \in [Workers -> Jobs] /\ JobsHaveOrders'
    <3> HIDE DEF job
    <3> QED  BY <2>1, JobsStep
  <2> QED
    BY <1>2, <2>2 DEF ReleaseCall, TypeInv, TypeOK
<1>3. CASE ReleaseReceipt(w)
  <2> DEFINE o == worker[w].order
  <2>1. o \in Orders
    BY <1>3 DEF ReleaseReceipt, TypeInv, JobsHaveOrders
  <2>2. worker' \in [Workers -> Jobs] /\ JobsHaveOrders'
    BY <1>3, IdleType, JobsStep DEF ReleaseReceipt, Idle, Job
  <2>3. rel' \in [Orders -> ReleaseCommands]
    <3> DEFINE n == rel[o].attempts + 1
               next == state_after_receipt(worker[w].receipt, n)
               command == [state |-> next, code |-> rel[o].code, attempts |-> n]
    <3>1. rel' = [rel EXCEPT ![o] = command]
      BY <1>3 DEF ReleaseReceipt
    <3>2. command \in ReleaseCommands
      <4>1. next \in ActionStates
        BY ReceiptType
      <4> HIDE DEF o, next
      <4>2. rel[o] \in ReleaseCommands
        BY <2>1 DEF TypeInv, TypeOK
      <4> QED  BY <4>1, <4>2 DEF ReleaseCommands
    <3> HIDE DEF command, o
    <3> QED  BY <3>1, <3>2 DEF TypeInv, TypeOK
  <2> QED
    BY <1>3, <2>2, <2>3 DEF ReleaseReceipt, TypeInv, TypeOK
<1> QED
  BY <1>1, <1>2, <1>3 DEF ReleaseRound

\* SET's projection keeps the shapes.
LEMMA SetProjectType ==
    ASSUME TypeInv, NEW o \in Orders, NEW first, NEW second,
           SetProject(o, first, second)
    PROVE  TypeInv'
  BY SetDecidedWork, ProjectType, RaiseType
     DEF SetProject, Targeted, Observed, TypeInv, TypeOK, JobsHaveOrders,
         order, ledger, mes, world

\* CONFIRM_HOLD finding the hold keeps the shapes.
LEMMA VerifyFoundType ==
    ASSUME TypeInv, NEW o \in Orders, NEW view, VerifyFound(o, view)
    PROVE  TypeInv'
<1> USE DEF order, ledger, mes, world
  <1>1. cmd' \in [Orders -> [Codes -> SetCommands]]
    <2> DEFINE found == [c \in Codes |->
                 IF LastInFlight(o, c)
                 THEN [cmd[o][c] EXCEPT !.state = "CONFIRMED"] ELSE cmd[o][c]]
    <2>1. ASSUME NEW c \in Codes
          PROVE  found[c] \in SetCommands
      <3> DEFINE command == cmd[o][c]
                 confirmed == [command EXCEPT !.state = "CONFIRMED"]
      <3>1. command \in SetCommands
        BY DEF TypeInv, TypeOK
      <3>2. confirmed \in SetCommands
        <4> HIDE DEF command
        <4> QED  BY <3>1 DEF SetCommands, ActionStates
      <3>3. found[c] = command \/ found[c] = confirmed
        OBVIOUS
      <3> HIDE DEF found, command, confirmed
      <3> QED  BY <3>1, <3>2, <3>3
    <2>2. cmd' = [cmd EXCEPT ![o] = found]
      BY DEF VerifyFound, TypeInv, TypeOK
    <2>3. found \in [Codes -> SetCommands]
      BY <2>1
    <2> HIDE DEF found
    <2> QED  BY <2>2, <2>3 DEF TypeInv, TypeOK
  <1>2. bind' \in [Orders -> Bindings]
    BY SMTT(30) DEF VerifyFound, TypeInv, TypeOK, Bindings, BindingStates
  <1> QED
    BY <1>1, <1>2 DEF VerifyFound, TypeInv, TypeOK, JobsHaveOrders, Works

\* CONFIRM_HOLD retrying or giving up a timed-out command keeps the shapes.
LEMMA VerifyRetryType ==
    ASSUME TypeInv, NEW o \in Orders, NEW view, NEW c \in Codes,
           VerifyRetry(o, view, c)
    PROVE  TypeInv'
<1> USE DEF order, ledger, mes, world
  <1> DEFINE again == cmd[o][c].attempts < MaxAttempts
             command == [state |-> IF again THEN "RETRY_WAIT" ELSE "REJECTED",
                         why |-> IF again THEN "" ELSE "RETRY_EXHAUSTED",
                         attempts |-> cmd[o][c].attempts]
  <1>1. command \in SetCommands
    BY ZenonT(30) DEF TypeInv, TypeOK, SetCommands, ActionStates, Causes
  <1>2. cmd' = [cmd EXCEPT ![o][c] = command]
    BY DEF VerifyRetry, TypeInv, TypeOK
  <1>3. cmd' \in [Orders -> [Codes -> SetCommands]]
    <2> HIDE DEF command
    <2> QED  BY <1>1, <1>2, CommandStep DEF TypeInv
  <1> QED
    BY <1>3 DEF VerifyRetry, TypeInv, TypeOK, JobsHaveOrders, Works

\* Every step that only writes the database keeps the shapes.
LEMMA DatabaseType ==
    ASSUME TypeInv, NEW o \in Orders, Database(o)
    PROVE  TypeInv'
<1> USE DEF order, ledger, mes, world
<1>1. ASSUME NEW first, NEW second, SetProject(o, first, second)
      PROVE  TypeInv'
  BY <1>1, SetProjectType
<1>2. ASSUME NEW view, VerifyFound(o, view)
      PROVE  TypeInv'
  BY <1>2, VerifyFoundType
<1>3. ASSUME NEW view, NEW c \in Codes, VerifyRetry(o, view, c)
      PROVE  TypeInv'
  BY <1>3, VerifyRetryType
<1>4. ASSUME NEW view, VerifyWait(o, view)
      PROVE  TypeInv'
  BY <1>4 DEF VerifyWait, TypeInv, TypeOK, JobsHaveOrders, Works
<1>5. ASSUME NEW view, VerifyProject(o, view)
      PROVE  TypeInv'
  BY <1>5, DecidedWork, ProjectType
     DEF VerifyProject, TypeInv, TypeOK, JobsHaveOrders
<1>6. ASSUME NEW view, ConfirmProject(o, view)
      PROVE  TypeInv'
  BY <1>6, DecidedWork, ProjectType, RaiseType, ReleaseBindingType
     DEF ConfirmProject, TypeInv, TypeOK, JobsHaveOrders
<1>7. ASSUME NEW view, CheckAiProject(o, view)
      PROVE  TypeInv'
  BY <1>7, DecidedWork, ProjectType, RaiseType, ReleaseBindingType
     DEF CheckAiProject, TypeInv, TypeOK, JobsHaveOrders
<1>8. ASSUME NEW view, VerifyRelease(o, view)
      PROVE  TypeInv'
  <2>1. rel' \in [Orders -> ReleaseCommands]
    <3>1. rel \in [Orders -> ReleaseCommands] /\ rel' = [rel EXCEPT ![o].state = "CONFIRMED"]
      BY <1>8 DEF VerifyRelease, TypeInv, TypeOK
    <3>2. [rel[o] EXCEPT !.state = "CONFIRMED"] \in ReleaseCommands
      BY <3>1 DEF ReleaseCommands, ActionStates
    <3> QED
      BY <3>1, <3>2
  <2>2. bind' \in [Orders -> Bindings]
    BY <1>8 DEF VerifyRelease, TypeInv, TypeOK, Bindings, BindingStates
  <2> QED
    BY <1>8, <2>1, <2>2
       DEF VerifyRelease, TypeInv, TypeOK, JobsHaveOrders, Works, Lives
<1>9. ASSUME NEW view, ReleaseFails(o, view)
      PROVE  TypeInv'
  BY <1>9 DEF ReleaseFails, TypeInv, TypeOK, JobsHaveOrders, Works
<1>10. ASSUME NEW view, ReleasePending(o, view)
       PROVE  TypeInv'
  BY <1>10 DEF ReleasePending, TypeInv, TypeOK, JobsHaveOrders, Works
<1> QED
  BY <1>1, <1>2, <1>3, <1>4, <1>5, <1>6, <1>7, <1>8, <1>9, <1>10 DEF Database

\* Every step of the fab and of a dying process keeps the shapes.
LEMMA EnvironmentType ==
    ASSUME TypeInv, Environment
    PROVE  TypeInv'
<1> USE DEF order, ledger, mes, world
<1>1. ASSUME NEW w \in Workers, Crash(w)
      PROVE  TypeInv'
  BY <1>1, IdleType, JobsStep DEF Crash, TypeInv, TypeOK, Idle, Job
<1>2. ASSUME NEW l \in Lots, SmmChanges(l)
      PROVE  TypeInv'
  BY <1>2 DEF SmmChanges, TypeInv, TypeOK, JobsHaveOrders
<1>3. ASSUME NEW l \in Lots, NEW c \in Codes, LineReleases(l, c)
      PROVE  TypeInv'
  BY <1>3 DEF LineReleases, TypeInv, TypeOK, JobsHaveOrders
<1>4. ASSUME NEW o \in Orders, CreateOrder(o)
      PROVE  TypeInv'
  BY <1>4 DEF CreateOrder, TypeInv, TypeOK, JobsHaveOrders, Lives, Works
<1>5. ASSUME NEW o \in Orders, RosterChanges(o)
      PROVE  TypeInv'
  BY <1>5 DEF RosterChanges, TypeInv, TypeOK, JobsHaveOrders, Works
<1>6. ASSUME NEW o \in Orders, ManualClose(o)
      PROVE  TypeInv'
  BY <1>6 DEF ManualClose, TypeInv, TypeOK, JobsHaveOrders, Lives, Works
<1>7. ASSUME NEW o \in Orders, ScanAdvances(o)
      PROVE  TypeInv'
  BY <1>7 DEF ScanAdvances, TypeInv, TypeOK, JobsHaveOrders, Scans
<1>8. CASE ControlTrips \/ Resume
  BY <1>8 DEF ControlTrips, Resume, TypeInv, TypeOK, JobsHaveOrders
<1> QED
  BY <1>1, <1>2, <1>3, <1>4, <1>5, <1>6, <1>7, <1>8 DEF Environment

\* The empty database has the right shape.
LEMMA TypeInit == Init => TypeInv
<1>1. NoCommand \in SetCommands
  BY DEF NoCommand, SetCommands, ActionStates, Causes
<1>2. [state |-> "NONE", code |-> 0, attempts |-> 0] \in ReleaseCommands
  BY CodesAssumption DEF ReleaseCommands, ActionStates
<1>3. [code |-> 0, status |-> "NONE"] \in Bindings
  BY CodesAssumption DEF Bindings, BindingStates
<1>4. Idle.pc = "idle"
  BY DEF Idle, Job
<1> QED
  BY <1>1, <1>2, <1>3, <1>4, IdleType
     DEF Init, TypeInv, TypeOK, JobsHaveOrders, Lives, Works, Scans

\* Every step keeps it.
LEMMA TypeStep == TypeInv /\ [Next]_vars => TypeInv'
<1> SUFFICES ASSUME TypeInv, [Next]_vars
             PROVE  TypeInv'
  OBVIOUS
<1>1. CASE UNCHANGED vars
  BY <1>1 DEF vars, TypeInv, TypeOK, JobsHaveOrders
<1> QED
  BY <1>1, SetRoundType, ReleaseRoundType, DatabaseType, EnvironmentType DEF Next

\* Every variable keeps its shape, and a job that is under way has an order.
THEOREM TypeCorrect == Spec => []TypeOK
<1>1. TypeInv => TypeOK
  BY DEF TypeInv
<1> QED
  BY <1>1, TypeInit, TypeStep, PTL DEF Spec

-----------------------------------------------------------------------------
(* Setting and verifying a hold keeps OrderInv: the order's commands, its  *)
(* binding, the jobs that send for it and its hold in MES stay together.   *)
(* HoldPromiseProofs has the other steps and the theorems.                 *)

\* An order's part of the invariant survives a step that leaves its commands
\* and its binding alone, at most takes holds away, closes it only when nothing
\* can come back, and starts no call.
LEMMA Frame ==
    ASSUME NEW p \in Orders, TypeInv, TypeInv', OrderInv(p),
           cmd'[p] = cmd[p], rel'[p] = rel[p], bind'[p] = bind[p],
           mesOwn'[LotOf[p]] \subseteq mesOwn[LotOf[p]],
           life[p] \in Closed => life'[p] \in Closed,
           life'[p] = "CLOSED" => life[p] = "CLOSED"
             \/ /\ mesOwn'[LotOf[p]] = {}
                /\ \A w \in Workers : ~(worker'[w].order = p
                                         /\ worker'[w].pc = "set_call"),
           work'[p] = "HOLD_VERIFY_PENDING" => cmd[p][1].state # "NONE",
           \A w \in Workers : worker'[w].order = p =>
               /\ worker'[w].pc \in {"set_call", "set_done"} =>
                    worker'[w] = worker[w]
               /\ worker'[w].pc \in {"release_call", "release_done"} =>
                    /\ worker[w].order = p
                    /\ worker[w].pc \in {worker'[w].pc, "release_call"}
    PROVE  OrderInv(p)'
<1> USE DEF OrderInv
<1>1. Ladder(p)'
  BY DEF Ladder
<1>2. Matched(p)'
  BY ZenonT(30) DEF Matched, Own
<1>3. Present(p)'
  BY DEF Present, Own
<1>4. Sender(p)'
  BY DEF Sender, Sending, Own
<1>5. SetAlone(p)'
  BY DEF SetAlone, Sending
<1>6. Releaser(p)'
  BY DEF Releaser, Releasing
<1>7. Apart(p)'
  BY DEF Apart, SetCalls
<1>8. ClosedIsFinal(p)'
  BY DEF ClosedIsFinal, SetCalls, Own
<1>9. Tried(p)'
  BY DEF Tried
<1> QED
  BY <1>1, <1>2, <1>3, <1>4, <1>5, <1>6, <1>7, <1>8, <1>9

-----------------------------------------------------------------------------
(* Decisions *)

\* The configured codes are counted from 1.
LEMMA FirstCode == 1 \in Codes /\ Codes \subseteq Nat /\ \A c \in Codes : c >= 1
  BY CodesAssumption DEF Codes

\* What must hold of an order, and now holds, when a set_hold is sent for it.
Sendable(o, c) ==
    /\ life[o] \notin Closed
    /\ Own(o) = {}
    /\ rel[o].state \in {"NONE", "REJECTED"}
    /\ \A d \in Codes : cmd[o][d].state \in {"NONE", "REJECTED", "RETRY_WAIT"}
    /\ \A d \in Codes : d < c => /\ cmd[o][d].state = "REJECTED"
                                /\ cmd[o][d].why = "CODE_CONFLICT"
    /\ \A d \in Codes : d > c => cmd[o][d].state = "NONE"
    /\ \/ cmd[o][c].state = "NONE"
       \/ /\ cmd[o][c].state = "RETRY_WAIT"
          /\ bind[o].code = c
          /\ cmd[o][c].attempts < MaxAttempts

\* A command that was not refused for a conflict is the last one tried.
LEMMA LadderTop ==
    ASSUME NEW o \in Orders, Ladder(o), NEW c \in Codes, NEW d \in Codes,
           cmd[o][c].state # "NONE",
           cmd[o][c].state # "REJECTED" \/ cmd[o][c].why # "CODE_CONFLICT"
    PROVE  /\ d > c => cmd[o][d].state = "NONE"
           /\ d < c => /\ cmd[o][d].state = "REJECTED"
                       /\ cmd[o][d].why = "CODE_CONFLICT"
  BY DEF Ladder

\* A SET_HOLD decision is safe to carry out.
LEMMA SendIsSafe ==
    ASSUME TypeInv, NEW o \in Orders, OrderInv(o), NEW view, NEW chosen,
           derive_state(Observed(o, view, chosen)).act = "SET_HOLD",
           NEW c \in Codes,
           DecidedCode(Observed(o, view, chosen),
                       derive_state(Observed(o, view, chosen)).rule, c)
    PROVE  Sendable(o, c)
<1> DEFINE s == Observed(o, view, chosen)
           rule == derive_state(s).rule
<1>1. /\ s.life = life[o] /\ s.cmd = cmd[o] /\ s.rel = rel[o]
      /\ s.bind = bind[o] /\ s.mes = Own(o)
  BY DEF Observed, Own
<1> HIDE DEF s
<1>2. /\ s.life \notin Closed
      /\ s.seen
      /\ ~ReleaseInFlight(s)
      /\ ~SetInFlight(s)
      /\ s.rel.state # "RETRY_WAIT"
  BY SetHoldDecision DEF s
<1>3. \/ rule = "A1-09"
      \/ /\ rule \in {"A1-03", "A1-04"}
         /\ Quiet(s)
         /\ ~OwnHold(s)
         /\ ~LineReleased(s)
         /\ ~RetriesExhausted(s)
  BY SetHoldDecision DEF s
<1>4. DecidedCode(s, rule, c)
  BY DEF s
<1>5. rel[o].state \in {"NONE", "REJECTED"}
  <2>1. rel[o].state \in ActionStates
    BY DEF TypeInv, TypeOK, ReleaseCommands
  <2>2. rel[o].state # "CONFIRMED"
    BY <1>1, <1>2 DEF OrderInv, Releaser
  <2> QED
    BY <1>1, <1>2, <2>1, <2>2
       DEF ReleaseInFlight, InFlight, InFlightStates, ActionStates
<1>6. ASSUME NEW d \in Codes
      PROVE  cmd[o][d].state \in {"NONE", "REJECTED", "RETRY_WAIT", "CONFIRMED"}
  <2>1. cmd[o][d].state \in ActionStates
    BY DEF TypeInv, TypeOK, SetCommands
  <2> QED
    BY <1>1, <1>2, <2>1 DEF SetInFlight, InFlight, InFlightStates, ActionStates
<1>7. ASSUME NEW d \in Codes, cmd[o][d].state # "NONE",
             cmd[o][d].state # "REJECTED" \/ cmd[o][d].why # "CODE_CONFLICT"
      PROVE  LastSet(s, d)
  BY <1>1, <1>7, LadderTop DEF LastSet, Attempted, OrderInv
<1>8. ASSUME NEW d \in Codes, cmd[o][d].state = "REJECTED", rule # "A1-09"
      PROVE  cmd[o][d].why \in {"CODE_CONFLICT", "PERMISSION"}
  <2>1. cmd[o][d].why \in Causes /\ cmd[o][d].why # ""
    <3>1. cmd[o][d] \in SetCommands
      BY DEF TypeInv, TypeOK
    <3> QED
      BY <1>8, <3>1 DEF SetCommands, OrderInv, Matched
  <2>2. cmd[o][d].why \notin {"TRANSIENT", "RETRY_EXHAUSTED"}
    <3> SUFFICES ASSUME cmd[o][d].why \in {"TRANSIENT", "RETRY_EXHAUSTED"}
                 PROVE  FALSE
      OBVIOUS
    <3>1. LastSet(s, d)
      BY <1>7, <1>8
    <3>2. ~RetriesExhausted(s)
      BY <1>3, <1>8
    <3> QED
      BY <1>1, <1>8, <3>1, <3>2 DEF RetriesExhausted
  <2> QED
    BY <2>1, <2>2 DEF Causes
<1>9. \A d \in Codes : cmd[o][d].state # "CONFIRMED"
  <2> SUFFICES ASSUME NEW d \in Codes, cmd[o][d].state = "CONFIRMED"
               PROVE  FALSE
    OBVIOUS
  <2>1. CASE rule = "A1-09"
    <3>1. cmd[o][c].state = "RETRY_WAIT"
      BY <1>1, <1>4, <2>1 DEF DecidedCode, RetryCode
    <3> QED
      BY <3>1, LadderTop, FirstCode DEF OrderInv
  <2>2. CASE rule # "A1-09"
    <3>1. bind[o].status \in {"CONFIRMED", "RELEASE_PENDING"}
      BY <1>1, <1>2 DEF OrderInv, Matched, Holding
    <3> QED
      BY <1>1, <1>3, <1>5, <2>2, <3>1 DEF LineReleased, InFlightStates
  <2> QED
    BY <2>1, <2>2
<1>10. Own(o) = {}
  <2> SUFFICES ASSUME NEW d \in Own(o)
               PROVE  FALSE
    OBVIOUS
  <2>1. d \in Codes
    BY OrdersAssumption DEF TypeInv, TypeOK, Own
  <2>2. cmd[o][d].state \in InFlightStates \cup {"CONFIRMED"}
    BY DEF OrderInv, Present
  <2> QED
    BY <1>6, <1>9, <2>1, <2>2 DEF InFlightStates
<1>11. CASE rule = "A1-09"
  <2>1. cmd[o][c].state = "RETRY_WAIT"
    BY <1>1, <1>4, <1>11 DEF DecidedCode, RetryCode
  <2>2. bind[o].code = c /\ cmd[o][c].attempts < MaxAttempts
    BY <2>1 DEF OrderInv, Matched
  <2>3. \A d \in Codes : /\ d > c => cmd[o][d].state = "NONE"
                         /\ d < c => /\ cmd[o][d].state = "REJECTED"
                                     /\ cmd[o][d].why = "CODE_CONFLICT"
    BY <2>1, LadderTop DEF OrderInv
  <2> QED
    BY <1>1, <1>2, <1>5, <1>6, <1>9, <1>10, <2>1, <2>2, <2>3 DEF Sendable
<1>12. CASE rule = "A1-04"
  <2>1. NextCode(s, c)
    BY <1>4, <1>12 DEF DecidedCode
  <2>2. OnlyConflicts(s)
    BY <1>12, BackupDecision DEF s
  <2>3. ASSUME NEW d \in Codes, d < c
        PROVE  cmd[o][d].state = "REJECTED" /\ cmd[o][d].why = "CODE_CONFLICT"
    <3>1. cmd[o][d].state \notin {"NONE", "RETRY_WAIT"}
      BY <1>1, <1>3, <1>12, <2>1, <2>3 DEF NextCode, Attempted, Quiet
    <3>2. cmd[o][d].state = "REJECTED"
      BY <1>6, <1>9, <3>1
    <3>3. cmd[o][d].why \in {"CODE_CONFLICT", "PERMISSION"}
      BY <1>8, <1>12, <3>2
    <3> QED
      BY <1>1, <2>2, <3>2, <3>3 DEF OnlyConflicts, RejectedByMes
  <2>4. cmd[o][c].state = "NONE"
    BY <1>1, <2>1 DEF NextCode, Attempted
  <2>5. \A d \in Codes : d > c => cmd[o][d].state = "NONE"
    BY <2>4 DEF OrderInv, Ladder
  <2> QED
    BY <1>1, <1>2, <1>5, <1>6, <1>9, <1>10, <2>3, <2>4, <2>5 DEF Sendable
<1>13. CASE rule = "A1-03"
  <2>1. c = 1
    BY <1>4, <1>13 DEF DecidedCode
  <2>2. cmd[o][c].state # "REJECTED"
    <3> SUFFICES ASSUME cmd[o][c].state = "REJECTED"
                 PROVE  FALSE
      OBVIOUS
    <3>1. cmd[o][c].why \in {"CODE_CONFLICT", "PERMISSION"}
      BY <1>8, <1>13
    <3>2. AnyRejected(s)
      BY <1>1, <3>1 DEF AnyRejected, RejectedByMes
    <3>3. CodesRemain(s) /\ ~OnlyConflicts(s)
      BY <1>13, <3>2, FirstHoldDecision DEF s
    <3>4. PICK d \in Codes : RejectedByMes(s, d) /\ s.cmd[d].why # "CODE_CONFLICT"
      BY <3>3 DEF OnlyConflicts
    <3>5. s.cmd[d].why = "PERMISSION"
      BY <1>1, <1>8, <1>13, <3>4 DEF RejectedByMes
    <3> QED
      BY <3>3, <3>4, <3>5 DEF CodesRemain, PermissionFailed
  <2>3. cmd[o][c].state = "NONE"
    BY <1>1, <1>3, <1>6, <1>9, <1>13, <2>2 DEF Quiet
  <2>4. \A d \in Codes : d > c => cmd[o][d].state = "NONE"
    BY <2>3 DEF OrderInv, Ladder
  <2>5. \A d \in Codes : ~(d < c)
    BY <2>1, FirstCode
  <2> QED
    BY <1>1, <1>2, <1>5, <1>6, <1>9, <1>10, <2>3, <2>4, <2>5 DEF Sendable
<1> QED
  BY <1>3, <1>11, <1>12, <1>13

-----------------------------------------------------------------------------
(* Setting a hold *)

\* No job sets a hold of an order for which one may be sent.
LEMMA SendableIsFree ==
    ASSUME TypeInv, NEW o \in Orders, OrderInv(o), NEW c \in Codes, Sendable(o, c)
    PROVE  /\ \A v \in Workers : ~Sending(v, o) /\ ~Releasing(v, o)
  BY DEF Sendable, OrderInv, Sender, Releaser, Sending, TypeInv, JobsHaveOrders

\* What writing a binding does to the bindings.
LEMMA BindingWrite ==
    ASSUME TypeInv, NEW o \in Orders, NEW binding,
           bind' = [bind EXCEPT ![o] = binding]
    PROVE  bind'[o] = binding /\ \A p \in Orders : p # o => bind'[p] = bind[p]
  BY DEF TypeInv, TypeOK

\* An intent written where one may be sent makes its job the only sender and
\* its code the last one tried (request_hold).
LEMMA IntentKeeps ==
    ASSUME TypeInv, \A p \in Orders : OrderInv(p),
           NEW w \in Workers, NEW o \in Orders, NEW c \in Codes,
           Sendable(o, c), Intent(w, o, c)
    PROVE  \A p \in Orders : OrderInv(p)'
<1> USE DEF order, ledger, mes, world
<1>0. TypeInv'
  BY IntentType
<1>1. /\ cmd'[o][c].state = "PREPARED"
      /\ cmd'[o][c].why = ""
      /\ cmd'[o][c].attempts < MaxAttempts
      /\ \A d \in Codes : d # c => cmd'[o][d] = cmd[o][d]
      /\ \A p \in Orders : p # o => cmd'[p] = cmd[p]
  <2> DEFINE n == IF cmd[o][c].state = "RETRY_WAIT" THEN cmd[o][c].attempts ELSE 0
             command == [state |-> "PREPARED", why |-> "", attempts |-> n]
  <2>1. cmd' = [cmd EXCEPT ![o][c] = command]
    BY DEF Intent, TypeInv, TypeOK
  <2>2. n < MaxAttempts
    BY AttemptsAssumption DEF Sendable
  <2> HIDE DEF n
  <2>3. /\ command.state = "PREPARED" /\ command.why = ""
        /\ command.attempts < MaxAttempts
    BY <2>2
  <2> HIDE DEF command
  <2> QED
    BY <2>1, <2>3 DEF TypeInv, TypeOK
<1>4. /\ bind'[o].code = c /\ bind'[o].status = "PENDING"
      /\ \A p \in Orders : p # o => bind'[p] = bind[p]
  <2> DEFINE binding == [code |-> c, status |-> "PENDING"]
  <2>1. bind' = [bind EXCEPT ![o] = binding]
    BY DEF Intent, Sendable, TypeInv, TypeOK
  <2>2. binding.code = c /\ binding.status = "PENDING"
    OBVIOUS
  <2> HIDE DEF binding
  <2> QED
    BY <2>1, <2>2, BindingWrite
<1>5. \A p \in Orders : p # o => work'[p] = work[p]
  <2>1. work' = [work EXCEPT ![o] = "HOLD_VERIFY_PENDING"]
    BY DEF Intent
  <2> QED  BY <2>1 DEF TypeInv, TypeOK
<1>6. /\ worker'[w].pc = "set_call" /\ worker'[w].order = o /\ worker'[w].code = c
      /\ \A v \in Workers : v # w => worker'[v] = worker[v]
  <2>1. worker' = [worker EXCEPT ![w] = Job("set_call", o, c, "")]
    BY DEF Intent
  <2> QED  BY <2>1 DEF Job, TypeInv, TypeOK
<1>8. life' = life /\ rel' = rel /\ mesOwn' = mesOwn
  BY DEF Intent
<1>9. ASSUME NEW p \in Orders, p # o
      PROVE  OrderInv(p)'
  <2>1. /\ cmd'[p] = cmd[p] /\ rel'[p] = rel[p] /\ bind'[p] = bind[p]
        /\ mesOwn'[LotOf[p]] \subseteq mesOwn[LotOf[p]] /\ life'[p] = life[p]
    BY <1>1, <1>4, <1>8, <1>9
  <2>2. work'[p] = "HOLD_VERIFY_PENDING" => cmd[p][1].state # "NONE"
    BY <1>5, <1>9 DEF OrderInv, Tried
  <2>3. \A v \in Workers : worker'[v].order = p => worker'[v] = worker[v]
    BY <1>6, <1>9
  <2> QED
    BY <1>0, <2>1, <2>2, <2>3, Frame
<1>10. OrderInv(o)'
  <2> USE DEF Sendable
  <2>0. \A v \in Workers : ~Sending(v, o) /\ ~Releasing(v, o)
    BY SendableIsFree
  <2>1. Ladder(o)'
    <3> SUFFICES ASSUME NEW e \in Codes, NEW d \in Codes, d < e,
                        cmd'[o][e].state # "NONE"
                 PROVE  /\ cmd'[o][d].state = "REJECTED"
                        /\ cmd'[o][d].why = "CODE_CONFLICT"
      BY DEF Ladder
    <3>1. c \in Nat /\ d \in Nat /\ e \in Nat
      BY FirstCode
    <3>2. ~(e > c)
      BY <1>1, <3>1
    <3>3. d < c
      BY <3>1, <3>2
    <3> QED
      BY ZenonT(30), <1>1, <3>1, <3>3
  <2>2. Matched(o)'
    <3>1. \A d \in Codes : d < c \/ d = c \/ d > c
      BY FirstCode
    <3>2. ASSUME NEW d \in Codes, d # c
          PROVE  /\ cmd'[o][d].state \in {"NONE", "REJECTED"}
                 /\ cmd'[o][d].state = "REJECTED" => cmd'[o][d].why # ""
      BY <1>1, <3>1, <3>2
    <3> QED
      BY <1>1, <1>4, <1>8, <3>2 DEF Matched, Holding
  <2>3. Present(o)'
    BY <1>8 DEF Present, Own
  <2>4. Sender(o)'
    <3>1. \A v \in Workers : Sending(v, o)' => v = w
      BY <1>6, <2>0 DEF Sending
    <3> QED
      BY <1>1, <1>6, <1>8, <3>1 DEF Sender, Own
  <2>5. SetAlone(o)'
    BY <1>6, <2>0 DEF SetAlone, Sending
  <2>6. Releaser(o)'
    BY <1>6, <1>8, <2>0 DEF Releaser, Releasing, OrderInv
  <2>7. Apart(o)'
    BY <1>6, <2>0 DEF Apart, SetCalls, Releasing
  <2>8. ClosedIsFinal(o)'
    BY <1>8 DEF ClosedIsFinal, Closed
  <2>9. Tried(o)'
    <3>1. c = 1 \/ 1 < c
      BY FirstCode
    <3> QED
      BY <1>1, <3>1, FirstCode DEF Tried
  <2> QED
    BY <2>1, <2>2, <2>3, <2>4, <2>5, <2>6, <2>7, <2>8, <2>9 DEF OrderInv
<1> QED
  BY <1>9, <1>10

\* The hold that SET sends for an order is one that may be sent.
LEMMA SetSendTarget ==
    ASSUME TypeInv, NEW w \in Workers, NEW o \in Orders, OrderInv(o),
           NEW c \in Codes, NEW first, NEW second \in Again(o, first),
           SetSend(w, o, first, second, c)
    PROVE  Sendable(o, c) /\ Intent(w, o, c)
<1> DEFINE chosen == target[o] \/ Decision(o, first).act = "SELECT_TARGET"
           s == Observed(o, second, chosen)
<1>1. SetDecision(o, first, second) = derive_state(s)
  <2>1. CASE Decision(o, first).act = "SELECT_TARGET"
    BY <2>1 DEF SetDecision, Targeted
  <2>2. CASE Decision(o, first).act # "SELECT_TARGET"
    <3>1. second = first
      BY <2>2 DEF Again
    <3>2. chosen = target[o]
      BY <2>2 DEF TypeInv, TypeOK
    <3> QED
      BY <2>2, <3>1, <3>2 DEF SetDecision, Decision, snapshot
  <2> QED
    BY <2>1, <2>2
<1>2. /\ derive_state(s).act = "SET_HOLD"
      /\ DecidedCode(s, derive_state(s).rule, c)
      /\ Intent(w, o, c)
  BY <1>1 DEF SetSend, Targeted
<1> HIDE DEF chosen
<1> QED
  BY <1>2, SendIsSafe

\* So is the backup that the same job goes on to after a conflict.
LEMMA SetBackupTarget ==
    ASSUME TypeInv, \A p \in Orders : OrderInv(p),
           NEW w \in Workers, NEW view, NEW c \in Codes, SetBackup(w, view, c)
    PROVE  /\ worker[w].order \in Orders
           /\ Sendable(worker[w].order, c)
           /\ Intent(w, worker[w].order, c)
<1> DEFINE o == worker[w].order
           s == Observed(o, view, target[o])
<1>1. o \in Orders
  BY DEF SetBackup, TypeInv, JobsHaveOrders
<1>2. /\ derive_state(s).rule = "A1-04"
      /\ DecidedCode(s, derive_state(s).rule, c)
      /\ Intent(w, o, c)
  BY DEF SetBackup, Decision, snapshot
<1>3. derive_state(s).act = "SET_HOLD"
  BY <1>2, BackupDecision
<1> HIDE DEF o
<1>4. Sendable(o, c)
  BY <1>1, <1>2, <1>3, SendIsSafe
<1> QED
  BY <1>1, <1>2, <1>4 DEF o

\* Sending a first hold or a retry keeps the invariant.
LEMMA SetSendKeeps ==
    ASSUME TypeInv, \A p \in Orders : OrderInv(p),
           NEW w \in Workers, NEW o \in Orders, NEW c \in Codes, NEW first,
           NEW second \in Again(o, first), SetSend(w, o, first, second, c)
    PROVE  \A p \in Orders : OrderInv(p)'
  BY SetSendTarget, IntentKeeps

\* The same for the backup.
LEMMA SetBackupKeeps ==
    ASSUME TypeInv, \A p \in Orders : OrderInv(p),
           NEW w \in Workers, NEW view, NEW c \in Codes, SetBackup(w, view, c)
    PROVE  \A p \in Orders : OrderInv(p)'
  BY SetBackupTarget, IntentKeeps

\* The holds of an order's lot are those of the commands that are out, and all
\* of them are the hold its binding names.
LEMMA PresentHold ==
    ASSUME TypeInv, NEW o \in Orders, OrderInv(o), NEW c \in Own(o)
    PROVE  /\ c \in Codes
           /\ cmd[o][c].state \in InFlightStates \cup {"CONFIRMED"}
           /\ bind[o].code = c
           /\ \/ bind[o].status \in Holding
              \/ bind[o].status = "RELEASED" /\ life[o] \in Closed
  BY OrdersAssumption
     DEF TypeInv, TypeOK, Own, OrderInv, Present, Matched, InFlightStates

\* MES answering a set_hold may add the hold of the only command that is out,
\* on the lot of that order alone (set_hold).
LEMMA SetHoldCallKeeps ==
    ASSUME OneRoundPerLot, TypeInv, \A p \in Orders : OrderInv(p),
           NEW w \in Workers, NEW receipt \in Receipts, NEW effect \in BOOLEAN,
           SetHoldCall(w, receipt, effect)
    PROVE  \A p \in Orders : OrderInv(p)'
<1> USE DEF order, ledger
<1>0. TypeInv'
  BY SetRoundType DEF SetRound
<1> PICK o \in Orders, c \in Codes : o = worker[w].order /\ c = worker[w].code
  BY DEF SetHoldCall, TypeInv, JobsHaveOrders
<1>1. SetCalls(w, o) /\ Sending(w, o)
  BY DEF SetHoldCall, SetCalls, Sending
<1>2. /\ worker'[w].pc = "set_done" /\ worker'[w].order = o
      /\ worker'[w].code = c /\ worker'[w].receipt = receipt
      /\ \A v \in Workers : v # w => worker'[v] = worker[v]
  <2>1. worker' = [worker EXCEPT ![w] = Job("set_done", o, c, receipt)]
    BY DEF SetHoldCall
  <2> QED
    BY <2>1 DEF Job, TypeInv, TypeOK
<1>3. /\ life' = life /\ work' = work /\ cmd' = cmd /\ rel' = rel /\ bind' = bind
  BY DEF SetHoldCall
<1>4. \A p \in Orders : p # o => mesOwn'[LotOf[p]] = mesOwn[LotOf[p]]
  BY <1>1, OrdersAssumption DEF SetHoldCall, TypeInv, TypeOK, OneRoundPerLot
<1>5. mesOwn'[LotOf[o]] = IF effect THEN Own(o) \cup {c} ELSE Own(o)
  BY <1>1, OrdersAssumption DEF SetHoldCall, TypeInv, TypeOK, Own
<1>6. receipt \in Rejects => ~effect
  BY DEF SetHoldCall
<1>7. cmd[o][c].state = "PREPARED" /\ c \notin Own(o)
  BY <1>1 DEF OrderInv, Sender, SetCalls
<1>8. cmd[o][c].attempts < MaxAttempts
  BY <1>1 DEF OrderInv, Sender
<1>9. bind[o].code = c
  BY ZenonT(30), <1>1, <1>7 DEF OrderInv, Matched
<1>10. Own(o) = {}
  BY <1>1, <1>7, <1>9, PresentHold
<1>11. ASSUME NEW p \in Orders, p # o
       PROVE  OrderInv(p)'
  <2>1. \A v \in Workers : worker'[v].order = p => worker'[v] = worker[v]
    BY <1>2, <1>11
  <2>2. work'[p] = "HOLD_VERIFY_PENDING" => cmd[p][1].state # "NONE"
    BY <1>3 DEF OrderInv, Tried
  <2> QED
    BY <1>0, <1>3, <1>4, <1>11, <2>1, <2>2, Frame
<1>12. OrderInv(o)'
  <2>1. Ladder(o)'
    BY <1>3 DEF Ladder, OrderInv
  <2>2. Matched(o)'
    <3>1. \A d \in Codes : cmd[o][d].state = "RETRY_WAIT" => d # c
      BY <1>7
    <3>2. \A d \in mesOwn'[LotOf[o]] : d = c
      BY <1>5, <1>10
    <3>3. \A d \in Codes :
            cmd[o][d].state = "RETRY_WAIT" => d \notin mesOwn'[LotOf[o]]
      BY <3>1, <3>2
    <3> QED
      BY ZenonT(30), <1>3, <3>3 DEF Matched, OrderInv, Own
  <2>3. Present(o)'
    BY <1>3, <1>5, <1>7, <1>10 DEF Present, Own, InFlightStates
  <2>4. Sender(o)'
    <3>1. \A v \in Workers : Sending(v, o)' => v = w
      BY <1>1, <1>2 DEF OrderInv, SetAlone, Sending
    <3> QED
      BY <1>2, <1>3, <1>5, <1>6, <1>7, <1>8, <1>10, <3>1 DEF Sender, Own
  <2>5. SetAlone(o)'
    BY <1>1, <1>2 DEF SetAlone, Sending, OrderInv
  <2>6. Releaser(o)'
    BY <1>2, <1>3 DEF Releaser, Releasing, OrderInv
  <2>7. Apart(o)'
    BY <1>2 DEF Apart, SetCalls, OrderInv
  <2>8. ClosedIsFinal(o)'
    BY <1>1, <1>3 DEF ClosedIsFinal, OrderInv
  <2>9. Tried(o)'
    BY <1>3 DEF Tried, OrderInv
  <2> QED
    BY <2>1, <2>2, <2>3, <2>4, <2>5, <2>6, <2>7, <2>8, <2>9 DEF OrderInv
<1> QED
  BY <1>11, <1>12

\* What a receipt can lead to: a retry or a refusal only when MES refused.
LEMMA ReceiptState ==
    ASSUME NEW receipt \in Receipts, NEW n
    PROVE  /\ state_after_receipt(receipt, n) \in
                {"ACKNOWLEDGED", "UNKNOWN", "RETRY_WAIT", "REJECTED"}
           /\ state_after_receipt(receipt, n) = "RETRY_WAIT" =>
                receipt \in Rejects /\ n < MaxAttempts
           /\ state_after_receipt(receipt, n) = "REJECTED" =>
                receipt \in Rejects
  BY DEF state_after_receipt, Receipts, Rejects

\* The receipt of a set_hold may overwrite a confirmed command, but it fails
\* the binding only when MES refused and no hold stands (record_receipt).
LEMMA SetReceiptKeeps ==
    ASSUME TypeInv, \A p \in Orders : OrderInv(p),
           NEW w \in Workers, SetReceipt(w)
    PROVE  \A p \in Orders : OrderInv(p)'
<1> USE DEF order, ledger, mes, world
<1>0. TypeInv'
  BY SetRoundType DEF SetRound
<1> PICK o \in Orders, c \in Codes, receipt \in Receipts :
      o = worker[w].order /\ c = worker[w].code /\ receipt = worker[w].receipt
  BY DEF SetReceipt, TypeInv, JobsHaveOrders
<1> DEFINE n == cmd[o][c].attempts + 1
           next == state_after_receipt(receipt, n)
<1>1. Sending(w, o)
  BY DEF SetReceipt, Sending
<1>2. /\ worker'[w].pc = "set_again" /\ worker'[w].order = o
      /\ \A v \in Workers : v # w => worker'[v] = worker[v]
  <2>1. worker' = [worker EXCEPT ![w] = Job("set_again", o, c, "")]
    BY DEF SetReceipt
  <2> QED
    BY <2>1 DEF Job, TypeInv, TypeOK
<1>3. /\ cmd'[o][c].state = next /\ cmd'[o][c].attempts = n
      /\ next = "REJECTED" => cmd'[o][c].why = receipt
      /\ \A d \in Codes : d # c => cmd'[o][d] = cmd[o][d]
      /\ \A p \in Orders : p # o => cmd'[p] = cmd[p]
  <2> DEFINE command == [state |-> next, attempts |-> n,
                         why |-> IF next = "REJECTED" THEN receipt ELSE ""]
  <2>1. cmd' = [cmd EXCEPT ![o][c] = command]
    BY DEF SetReceipt
  <2> HIDE DEF n, next
  <2>2. /\ command.state = next /\ command.attempts = n
        /\ next = "REJECTED" => command.why = receipt
    OBVIOUS
  <2> HIDE DEF command
  <2> QED
    BY <2>1, <2>2 DEF TypeInv, TypeOK
<1>4. /\ next = "REJECTED" => bind'[o].code = c /\ bind'[o].status = "FAILED"
      /\ next # "REJECTED" => bind'[o] = bind[o]
      /\ \A p \in Orders : p # o => bind'[p] = bind[p]
  <2> DEFINE binding == IF next = "REJECTED" THEN [code |-> c, status |-> "FAILED"]
                        ELSE bind[o]
  <2>1. bind' = [bind EXCEPT ![o] = binding]
    BY DEF SetReceipt
  <2> HIDE DEF next
  <2>2. /\ next = "REJECTED" => binding.code = c /\ binding.status = "FAILED"
        /\ next # "REJECTED" => binding = bind[o]
    OBVIOUS
  <2> HIDE DEF binding
  <2> QED
    BY <2>1, <2>2 DEF TypeInv, TypeOK
<1>5. life' = life /\ work' = work /\ rel' = rel /\ mesOwn' = mesOwn
  BY DEF SetReceipt
<1>6. /\ next \in {"ACKNOWLEDGED", "UNKNOWN", "RETRY_WAIT", "REJECTED"}
      /\ next = "RETRY_WAIT" => receipt \in Rejects /\ n < MaxAttempts
      /\ next = "REJECTED" => receipt \in Rejects
  BY ReceiptState
<1> HIDE DEF n, next
<1>7. /\ cmd[o][c].state \in {"PREPARED", "CONFIRMED"}
      /\ receipt \in Rejects => cmd[o][c].state = "PREPARED" /\ c \notin Own(o)
  BY <1>1 DEF OrderInv, Sender
<1>8. /\ bind[o].code = c
      /\ \/ bind[o].status \in Holding
         \/ bind[o].status = "RELEASED" /\ life[o] \in Closed
  BY <1>7 DEF OrderInv, Matched
<1>9. \A d \in Codes : /\ d > c => cmd[o][d].state = "NONE"
                       /\ d < c => /\ cmd[o][d].state = "REJECTED"
                                   /\ cmd[o][d].why = "CODE_CONFLICT"
  BY <1>7, LadderTop DEF OrderInv
<1>10. \A d \in Codes : d < c \/ d = c \/ d > c
  BY FirstCode
<1>11. ASSUME NEW p \in Orders, p # o
       PROVE  OrderInv(p)'
  <2>1. \A v \in Workers : worker'[v].order = p => worker'[v] = worker[v]
    BY <1>2, <1>11
  <2>2. work'[p] = "HOLD_VERIFY_PENDING" => cmd[p][1].state # "NONE"
    BY <1>5 DEF OrderInv, Tried
  <2> QED
    BY <1>0, <1>3, <1>4, <1>5, <1>11, <2>1, <2>2, Frame
<1>12. OrderInv(o)'
  <2>0. \A v \in Workers : ~Sending(v, o)'
    BY <1>1, <1>2 DEF OrderInv, SetAlone, Sending
  <2>1. Ladder(o)'
    <3> SUFFICES ASSUME NEW e \in Codes, NEW d \in Codes, d < e,
                        cmd'[o][e].state # "NONE"
                 PROVE  /\ cmd'[o][d].state = "REJECTED"
                        /\ cmd'[o][d].why = "CODE_CONFLICT"
      BY DEF Ladder
    <3>1. c \in Nat /\ d \in Nat /\ e \in Nat
      BY FirstCode
    <3>2. ~(e > c)
      BY <1>3, <1>9, <3>1
    <3>3. d < c
      BY <3>1, <3>2
    <3> QED
      BY <1>3, <1>9, <3>1, <3>3
  <2>2. Matched(o)'
    <3>1. ASSUME NEW d \in Codes, d # c
          PROVE  /\ cmd'[o][d].state \in {"NONE", "REJECTED"}
                 /\ cmd'[o][d].state = "REJECTED" => cmd'[o][d].why # ""
      BY ZenonT(30), <1>3, <1>9, <1>10, <3>1
    <3>2. next = "REJECTED" => cmd'[o][c].why # ""
      BY <1>3, <1>6 DEF Rejects
    <3>3. next # "REJECTED" =>
            /\ bind'[o].code = c
            /\ \/ bind'[o].status \in Holding
               \/ bind'[o].status = "RELEASED" /\ life'[o] \in Closed
      BY <1>4, <1>5, <1>8
    <3>4. next = "RETRY_WAIT" =>
            c \notin mesOwn'[LotOf[o]] /\ cmd'[o][c].attempts < MaxAttempts
      BY <1>3, <1>5, <1>6, <1>7 DEF Own
    <3> QED
      BY <1>3, <1>6, <3>1, <3>2, <3>3, <3>4 DEF Matched, Own
  <2>3. Present(o)'
    <3> SUFFICES ASSUME NEW d \in Own(o)
                 PROVE  cmd'[o][d].state \in InFlightStates \cup {"CONFIRMED"}
      BY <1>5 DEF Present, Own
    <3>1. d = c
      BY <1>8, PresentHold
    <3> QED
      BY <1>3, <1>6, <1>7, <3>1 DEF InFlightStates
  <2>4. Sender(o)'
    BY <2>0 DEF Sender
  <2>5. SetAlone(o)'
    BY <2>0 DEF SetAlone
  <2>6. Releaser(o)'
    BY <1>2, <1>5 DEF Releaser, Releasing, OrderInv
  <2>7. Apart(o)'
    BY <1>2 DEF Apart, SetCalls, OrderInv
  <2>8. ClosedIsFinal(o)'
    BY <1>2, <1>5 DEF ClosedIsFinal, SetCalls, Own, OrderInv
  <2>9. Tried(o)'
    BY <1>3, <1>5, <1>6, FirstCode DEF Tried, OrderInv
  <2> QED
    BY <2>1, <2>2, <2>3, <2>4, <2>5, <2>6, <2>7, <2>8, <2>9 DEF OrderInv
<1> QED
  BY <1>11, <1>12

-----------------------------------------------------------------------------
(* Verifying a hold *)

\* A hold that shows confirms the command it belongs to (verify_hold).
LEMMA VerifyFoundKeeps ==
    ASSUME TypeInv, \A p \in Orders : OrderInv(p),
           NEW o \in Orders, NEW view, VerifyFound(o, view)
    PROVE  \A p \in Orders : OrderInv(p)'
<1> USE DEF order, ledger, mes, world
<1>0. TypeInv'
  BY VerifyFoundType
<1>1. life[o] = "OPEN" /\ bind[o].code \in Own(o)
  BY DEF VerifyFound, AwaitsVerify, Own
<1> PICK b \in Codes : b = bind[o].code
  BY <1>1, PresentHold
<1>2. /\ cmd[o][b].state \in InFlightStates \cup {"CONFIRMED"}
      /\ bind[o].status \in Holding
  BY <1>1, PresentHold DEF Closed
<1>3. \A d \in Codes : /\ d > b => cmd[o][d].state = "NONE"
                       /\ d < b => /\ cmd[o][d].state = "REJECTED"
                                   /\ cmd[o][d].why = "CODE_CONFLICT"
  BY <1>2, LadderTop DEF OrderInv, InFlightStates
<1>4. \A d \in Codes : d < b \/ d = b \/ d > b
  BY FirstCode
<1>5. \A d \in Codes : LastInFlight(o, d) => d = b
  BY <1>3, <1>4 DEF LastInFlight, InFlight, InFlightStates
<1>6. /\ \A d \in Codes : d # b => cmd'[o][d] = cmd[o][d]
      /\ \A p \in Orders : p # o => cmd'[p] = cmd[p]
  BY <1>5 DEF VerifyFound, TypeInv, TypeOK
<1>7. /\ cmd'[o][b].attempts = cmd[o][b].attempts
      /\ cmd'[o][b].why = cmd[o][b].why
      /\ LastInFlight(o, b) => cmd'[o][b].state = "CONFIRMED"
      /\ ~LastInFlight(o, b) => cmd'[o][b].state = cmd[o][b].state
  <2>0. cmd[o][b] \in SetCommands
    BY DEF TypeInv, TypeOK
  <2>1. cmd'[o][b] = IF LastInFlight(o, b)
                     THEN [cmd[o][b] EXCEPT !.state = "CONFIRMED"] ELSE cmd[o][b]
    BY DEF VerifyFound, TypeInv, TypeOK
  <2> QED
    BY <2>0, <2>1 DEF SetCommands
<1>8. /\ bind'[o].code = b
      /\ bind'[o].status \in {"CONFIRMED", "RELEASE_PENDING"}
      /\ \A p \in Orders : p # o => bind'[p] = bind[p]
  <2>0. bind[o] \in Bindings
    BY DEF TypeInv, TypeOK
  <2> DEFINE status == IF bind[o].status = "PENDING" THEN "CONFIRMED"
                       ELSE bind[o].status
  <2>1. bind' = [bind EXCEPT ![o].status = status]
    BY DEF VerifyFound
  <2>2. status \in {"CONFIRMED", "RELEASE_PENDING"}
    BY <1>2 DEF Holding
  <2> HIDE DEF status
  <2> QED
    BY <2>0, <2>1, <2>2 DEF TypeInv, TypeOK, Bindings
<1>9. /\ life' = life /\ rel' = rel /\ mesOwn' = mesOwn /\ worker' = worker
      /\ work' = [work EXCEPT ![o] = "WAIT_AI"]
  BY DEF VerifyFound
<1>10. cmd[o][b].state = "PREPARED" => LastInFlight(o, b)
  <2> SUFFICES ASSUME cmd[o][b].state = "PREPARED"
               PROVE  LastInFlight(o, b)
    OBVIOUS
  <2>1. rel[o].state \in {"NONE", "REJECTED"}
    BY <1>1 DEF OrderInv, Matched, Closed
  <2> QED
    BY <1>3, <2>1 DEF LastInFlight, InFlight, InFlightStates
<1>11. cmd'[o][b].state \in {"ACKNOWLEDGED", "UNKNOWN", "CONFIRMED"}
  BY <1>2, <1>7, <1>10 DEF InFlightStates
<1>12. ASSUME NEW p \in Orders, p # o
       PROVE  OrderInv(p)'
  <2>1. work'[p] = "HOLD_VERIFY_PENDING" => cmd[p][1].state # "NONE"
    BY <1>9, <1>12 DEF OrderInv, Tried, TypeInv, TypeOK
  <2> QED
    BY <1>0, <1>6, <1>8, <1>9, <1>12, <2>1, Frame
<1>13. OrderInv(o)'
  <2>1. Ladder(o)'
    <3> SUFFICES ASSUME NEW e \in Codes, NEW d \in Codes, d < e,
                        cmd'[o][e].state # "NONE"
                 PROVE  /\ cmd'[o][d].state = "REJECTED"
                        /\ cmd'[o][d].why = "CODE_CONFLICT"
      BY DEF Ladder
    <3>1. b \in Nat /\ d \in Nat /\ e \in Nat
      BY FirstCode
    <3>2. ~(e > b)
      BY <1>3, <1>6, <3>1
    <3>3. d < b
      BY <3>1, <3>2
    <3> QED
      BY <1>3, <1>6, <3>1, <3>3
  <2>2. Matched(o)'
    <3>1. ASSUME NEW d \in Codes, d # b
          PROVE  /\ cmd'[o][d].state \in {"NONE", "REJECTED"}
                 /\ cmd'[o][d].state = "REJECTED" => cmd'[o][d].why # ""
      BY <1>3, <1>4, <1>6, <3>1
    <3> QED
      BY <1>8, <1>11, <3>1 DEF Matched, Holding
  <2>3. Present(o)'
    <3>1. \A d \in Own(o) : d = b
      BY PresentHold
    <3> QED
      BY <1>9, <1>11, <3>1 DEF Present, Own, InFlightStates
  <2>4. Sender(o)'
    <3> SUFFICES ASSUME NEW w \in Workers, Sending(w, o)
                 PROVE  /\ cmd'[o][worker[w].code].state \in
                              {"PREPARED", "CONFIRMED"}
                        /\ cmd'[o][worker[w].code].attempts < MaxAttempts
                        /\ worker[w].pc = "set_call"
                              \/ worker[w].receipt \in Rejects =>
                             /\ cmd'[o][worker[w].code].state = "PREPARED"
                             /\ worker[w].code \notin Own(o)
      BY <1>9 DEF Sender, Sending, Own
    <3> PICK e \in Codes : e = worker[w].code
      BY DEF Sending, TypeInv, JobsHaveOrders
    <3>1. /\ cmd[o][e].state \in {"PREPARED", "CONFIRMED"}
          /\ cmd[o][e].attempts < MaxAttempts
          /\ worker[w].pc = "set_call" \/ worker[w].receipt \in Rejects =>
               cmd[o][e].state = "PREPARED" /\ e \notin Own(o)
      BY DEF OrderInv, Sender
    <3>2. e = b
      BY ZenonT(30), <3>1 DEF OrderInv, Matched
    <3>3. ~(worker[w].pc = "set_call" \/ worker[w].receipt \in Rejects)
      BY <1>1, <3>1, <3>2
    <3> QED
      BY <1>7, <3>1, <3>2, <3>3
  <2>5. SetAlone(o)'
    BY <1>9 DEF SetAlone, Sending, OrderInv
  <2>6. Releaser(o)'
    BY <1>9 DEF Releaser, Releasing, OrderInv
  <2>7. Apart(o)'
    BY <1>9 DEF Apart, SetCalls, OrderInv
  <2>8. ClosedIsFinal(o)'
    BY <1>9 DEF ClosedIsFinal, SetCalls, Own, OrderInv
  <2>9. Tried(o)'
    BY <1>9 DEF Tried, TypeInv, TypeOK
  <2> QED
    BY <2>1, <2>2, <2>3, <2>4, <2>5, <2>6, <2>7, <2>8, <2>9 DEF OrderInv
<1> QED
  BY <1>12, <1>13

\* A timed-out command is retried only when its hold does not show, and then
\* no job is still sending it (verify_hold).
LEMMA VerifyRetryKeeps ==
    ASSUME TypeInv, \A p \in Orders : OrderInv(p), NEW o \in Orders, NEW view,
           NEW c \in Codes, VerifyRetry(o, view, c)
    PROVE  \A p \in Orders : OrderInv(p)'
<1> USE DEF order, ledger, mes, world
<1> DEFINE again == cmd[o][c].attempts < MaxAttempts
<1>0. TypeInv'
  BY VerifyRetryType
<1>1. /\ life[o] = "OPEN" /\ bind[o].code \notin Own(o)
      /\ cmd[o][c].state = "UNKNOWN"
  BY DEF VerifyRetry, NotFound, AwaitsVerify, Own
<1>2. bind[o].code = c
  BY <1>1 DEF OrderInv, Matched
<1>3. Own(o) = {}
  BY <1>1, PresentHold
<1>4. \A d \in Codes : /\ d > c => cmd[o][d].state = "NONE"
                       /\ d < c => /\ cmd[o][d].state = "REJECTED"
                                   /\ cmd[o][d].why = "CODE_CONFLICT"
  BY <1>1, LadderTop DEF OrderInv
<1>5. \A d \in Codes : d < c \/ d = c \/ d > c
  BY FirstCode
<1>6. /\ \/ cmd'[o][c].state = "RETRY_WAIT" /\ cmd'[o][c].attempts < MaxAttempts
         \/ cmd'[o][c].state = "REJECTED" /\ cmd'[o][c].why = "RETRY_EXHAUSTED"
      /\ \A d \in Codes : d # c => cmd'[o][d] = cmd[o][d]
      /\ \A p \in Orders : p # o => cmd'[p] = cmd[p]
  <2> DEFINE command == [state |-> IF again THEN "RETRY_WAIT" ELSE "REJECTED",
                         why |-> IF again THEN "" ELSE "RETRY_EXHAUSTED",
                         attempts |-> cmd[o][c].attempts]
  <2>1. cmd' = [cmd EXCEPT ![o][c] = command]
    BY DEF VerifyRetry, TypeInv, TypeOK
  <2>2. \/ command.state = "RETRY_WAIT" /\ command.attempts < MaxAttempts
        \/ command.state = "REJECTED" /\ command.why = "RETRY_EXHAUSTED"
    OBVIOUS
  <2> HIDE DEF command
  <2> QED
    BY <2>1, <2>2 DEF TypeInv, TypeOK
<1>7. /\ life' = life /\ rel' = rel /\ bind' = bind /\ mesOwn' = mesOwn
      /\ worker' = worker
      /\ work' = [work EXCEPT ![o] = IF again THEN "NEED_HOLD" ELSE "HOLD_FAILED"]
  BY DEF VerifyRetry
<1>8. \A w \in Workers : ~Sending(w, o)
  <2> SUFFICES ASSUME NEW w \in Workers, Sending(w, o)
               PROVE  FALSE
    OBVIOUS
  <2> PICK e \in Codes : e = worker[w].code
    BY DEF Sending, TypeInv, JobsHaveOrders
  <2>1. cmd[o][e].state \in {"PREPARED", "CONFIRMED"}
    BY DEF OrderInv, Sender
  <2> QED
    BY <1>1, <1>2, <2>1 DEF OrderInv, Matched
<1>9. ASSUME NEW p \in Orders, p # o
      PROVE  OrderInv(p)'
  <2>1. work'[p] = "HOLD_VERIFY_PENDING" => cmd[p][1].state # "NONE"
    BY <1>7, <1>9 DEF OrderInv, Tried, TypeInv, TypeOK
  <2> QED
    BY <1>0, <1>6, <1>7, <1>9, <2>1, Frame
<1>10. OrderInv(o)'
  <2>1. Ladder(o)'
    <3> SUFFICES ASSUME NEW e \in Codes, NEW d \in Codes, d < e,
                        cmd'[o][e].state # "NONE"
                 PROVE  /\ cmd'[o][d].state = "REJECTED"
                        /\ cmd'[o][d].why = "CODE_CONFLICT"
      BY DEF Ladder
    <3>1. c \in Nat /\ d \in Nat /\ e \in Nat
      BY FirstCode
    <3>2. ~(e > c)
      BY <1>4, <1>6, <3>1
    <3>3. d < c
      BY <3>1, <3>2
    <3> QED
      BY <1>4, <1>6, <3>1, <3>3
  <2>2. Matched(o)'
    <3>1. ASSUME NEW d \in Codes, d # c
          PROVE  /\ cmd'[o][d].state \in {"NONE", "REJECTED"}
                 /\ cmd'[o][d].state = "REJECTED" => cmd'[o][d].why # ""
      BY <1>4, <1>5, <1>6, <3>1
    <3>2. bind[o].status \in Holding
      BY <1>1 DEF OrderInv, Matched, Closed
    <3> QED
      BY <1>2, <1>3, <1>6, <1>7, <3>1, <3>2 DEF Matched, Own
  <2>3. Present(o)'
    BY <1>3, <1>7 DEF Present, Own
  <2>4. Sender(o)'
    BY <1>7, <1>8 DEF Sender, Sending
  <2>5. SetAlone(o)'
    BY <1>7, <1>8 DEF SetAlone, Sending
  <2>6. Releaser(o)'
    BY <1>7 DEF Releaser, Releasing, OrderInv
  <2>7. Apart(o)'
    BY <1>7 DEF Apart, SetCalls, OrderInv
  <2>8. ClosedIsFinal(o)'
    BY <1>7 DEF ClosedIsFinal, SetCalls, Own, OrderInv
  <2>9. Tried(o)'
    BY <1>7 DEF Tried, TypeInv, TypeOK
  <2> QED
    BY <2>1, <2>2, <2>3, <2>4, <2>5, <2>6, <2>7, <2>8, <2>9 DEF OrderInv
<1> QED
  BY <1>9, <1>10

-----------------------------------------------------------------------------
(* Writing a decision *)

\* The order of a decision that is written: what Project may have changed.
LEMMA ClosingIsSafe ==
    ASSUME TypeInv, NEW o \in Orders, OrderInv(o), NEW view, NEW chosen,
           life[o] \notin Closed,
           derive_state(Observed(o, view, chosen)).work \in Closed
    PROVE  Own(o) = {} /\ \A w \in Workers : ~SetCalls(w, o)
<1> DEFINE s == Observed(o, view, chosen)
<1>1. /\ s.life = life[o] /\ s.cmd = cmd[o] /\ s.rel = rel[o]
      /\ s.bind = bind[o] /\ s.mes = Own(o)
  BY DEF Observed, Own
<1> HIDE DEF s
<1>2. s.seen /\ ~SetInFlight(s) /\ ~OwnHold(s)
  BY <1>1, ClosingDecision DEF s
<1>3. Own(o) = {}
  <2> SUFFICES ASSUME NEW d \in Own(o)
               PROVE  FALSE
    OBVIOUS
  <2>1. bind[o].code = d /\ bind[o].status \in Holding
    BY PresentHold
  <2> QED
    BY <1>1, <1>2, <2>1 DEF OwnHold, Holding, BindingStates
<1>4. ASSUME NEW w \in Workers, SetCalls(w, o)
      PROVE  FALSE
  <2> PICK e \in Codes : e = worker[w].code
    BY <1>4 DEF SetCalls, TypeInv, JobsHaveOrders
  <2>1. cmd[o][e].state = "PREPARED"
    BY <1>4 DEF SetCalls, Sending, OrderInv, Sender
  <2> QED
    BY <1>1, <1>2, <2>1 DEF SetInFlight, InFlight, InFlightStates
<1> QED
  BY <1>3, <1>4

\* A decision to wait for a hold is taken only after one was sent for (A2-01).
LEMMA WaitingIsTried ==
    ASSUME TypeInv, NEW o \in Orders, OrderInv(o), NEW view, NEW chosen,
           derive_state(Observed(o, view, chosen)).work = "HOLD_VERIFY_PENDING"
    PROVE  cmd[o][1].state # "NONE"
<1> DEFINE s == Observed(o, view, chosen)
<1>1. s.life = life[o] /\ s.cmd = cmd[o]
  BY DEF Observed
<1> HIDE DEF s
<1>2. SetInFlight(s)
  BY <1>1, WaitingDecision DEF s, TypeInv, TypeOK
<1> PICK c \in Codes : cmd[o][c].state \in InFlightStates
  BY <1>1, <1>2 DEF SetInFlight, InFlight
<1>3. c = 1 \/ 1 < c
  BY FirstCode
<1> QED
  BY <1>3, FirstCode DEF OrderInv, Ladder, InFlightStates

\* Writing a decision, with or without releasing the binding (A2-04), keeps the
\* invariant (persist_projection, mark_preventive_released).
LEMMA ProjectKeeps ==
    ASSUME TypeInv, TypeInv', \A p \in Orders : OrderInv(p),
           NEW o \in Orders, NEW view, NEW chosen, NEW d,
           d = derive_state(Observed(o, view, chosen)),
           life[o] \notin Closed, Project(o, d),
           bind' = bind \/ ReleaseBinding(o, d),
           cmd' = cmd, rel' = rel, mesOwn' = mesOwn, worker' = worker
    PROVE  \A p \in Orders : OrderInv(p)'
<1>1. /\ work'[o] = d.work
      /\ life'[o] = IF d.work \in Closed THEN d.work ELSE life[o]
      /\ \A p \in Orders : p # o => work'[p] = work[p] /\ life'[p] = life[p]
  BY DEF Project, TypeInv, TypeOK
<1>2. /\ \A p \in Orders : p # o => bind'[p] = bind[p]
      /\ bind'[o].code = bind[o].code
      /\ \/ bind'[o] = bind[o]
         \/ d.rule = "A2-04" /\ bind'[o].status = "RELEASED"
  <2>1. CASE bind' = bind
    BY <2>1
  <2>2. CASE ReleaseBinding(o, d)
    <3> DEFINE status ==
                 IF d.rule = "A2-04"
                    /\ bind[o].status \in {"PENDING", "CONFIRMED", "RELEASE_PENDING"}
                 THEN "RELEASED" ELSE bind[o].status
    <3>1. bind' = [bind EXCEPT ![o].status = status]
      BY <2>2 DEF ReleaseBinding, TypeInv, TypeOK
    <3>2. status # bind[o].status => d.rule = "A2-04" /\ status = "RELEASED"
      OBVIOUS
    <3>3. bind[o] \in Bindings
      BY DEF TypeInv, TypeOK
    <3> HIDE DEF status
    <3>4. bind'[o] = [bind[o] EXCEPT !.status = status]
      BY <3>1 DEF TypeInv, TypeOK
    <3>5. status = bind[o].status => bind'[o] = bind[o]
      BY <3>3, <3>4 DEF Bindings
    <3> QED
      BY <3>1, <3>2, <3>3, <3>4, <3>5 DEF TypeInv, TypeOK, Bindings
  <2> QED
    BY <2>1, <2>2
<1>3. work'[o] = "HOLD_VERIFY_PENDING" => cmd[o][1].state # "NONE"
  <2> SUFFICES ASSUME d.work = "HOLD_VERIFY_PENDING"
               PROVE  cmd[o][1].state # "NONE"
    BY <1>1
  <2>1. derive_state(Observed(o, view, chosen)).work = "HOLD_VERIFY_PENDING"
    OBVIOUS
  <2> QED
    BY <2>1, WaitingIsTried
<1>4. life'[o] = "CLOSED" => /\ mesOwn'[LotOf[o]] = {}
                             /\ \A w \in Workers : ~SetCalls(w, o)
  BY <1>1, ClosingIsSafe DEF Own, Closed
<1>5. ASSUME NEW p \in Orders, p # o
      PROVE  OrderInv(p)'
  <2>1. work'[p] = "HOLD_VERIFY_PENDING" => cmd[p][1].state # "NONE"
    BY <1>1, <1>5 DEF OrderInv, Tried
  <2> QED
    BY <1>1, <1>2, <1>5, <2>1, Frame
<1>6. CASE bind'[o] = bind[o]
  <2>1. life'[o] = "CLOSED" =>
          /\ mesOwn'[LotOf[o]] = {}
          /\ \A w \in Workers : ~(worker'[w].order = o /\ worker'[w].pc = "set_call")
    BY <1>4 DEF SetCalls
  <2>2. OrderInv(o)'
    BY <1>1, <1>3, <1>6, <2>1, Frame
  <2> QED
    BY <1>5, <2>2
<1>7. CASE d.rule = "A2-04" /\ bind'[o].status = "RELEASED"
  <2>1. /\ d.work = "MANUAL_CLOSED"
        /\ \A c \in Codes : cmd[o][c].state \in {"NONE", "REJECTED", "CONFIRMED"}
    <3> DEFINE s == Observed(o, view, chosen)
    <3>1. s.cmd = cmd[o]
      BY DEF Observed
    <3>2. d.work = "MANUAL_CLOSED" /\ Quiet(s)
      BY <1>7, LineReleaseDecision
    <3> HIDE DEF s
    <3>3. \A c \in Codes : cmd[o][c].state \in ActionStates
      BY DEF TypeInv, TypeOK, SetCommands
    <3> QED
      BY <3>1, <3>2, <3>3 DEF Quiet, ActionStates, InFlightStates
  <2>2. life'[o] \in Closed /\ life'[o] # "CLOSED"
    BY <1>1, <2>1 DEF Closed
  <2>3. Matched(o)'
    BY <1>2, <1>7, <2>1, <2>2 DEF Matched, OrderInv
  <2>4. Ladder(o)' /\ Present(o)' /\ Sender(o)' /\ SetAlone(o)' /\ Apart(o)'
    BY DEF Ladder, Present, Sender, SetAlone, Apart, OrderInv, Own, Sending, SetCalls
  <2>5. Releaser(o)'
    BY <2>2 DEF Releaser, Releasing, OrderInv
  <2>6. ClosedIsFinal(o)' /\ Tried(o)'
    BY <1>3, <2>2 DEF ClosedIsFinal, Tried
  <2>7. OrderInv(o)'
    BY <2>3, <2>4, <2>5, <2>6 DEF OrderInv
  <2> QED
    BY <1>5, <2>7
<1> QED
  BY <1>2, <1>6, <1>7

\* So does SET writing what it derived.
LEMMA SetProjectKeeps ==
    ASSUME TypeInv, \A p \in Orders : OrderInv(p), NEW o \in Orders, NEW first,
           NEW second \in Again(o, first), SetProject(o, first, second)
    PROVE  \A p \in Orders : OrderInv(p)'
<1> USE DEF order, ledger, mes, world
<1>0. TypeInv'
  BY SetProjectType
<1>1. PICK view, chosen : SetDecision(o, first, second)
                            = derive_state(Observed(o, view, chosen))
  BY DEF SetDecision, Targeted, Decision, snapshot
<1>2. Project(o, SetDecision(o, first, second)) /\ life[o] \notin Closed
  BY DEF SetProject, Closed
<1>3. /\ cmd' = cmd /\ rel' = rel /\ bind' = bind /\ mesOwn' = mesOwn
      /\ worker' = worker
  BY DEF SetProject
<1> QED
  BY <1>0, <1>1, <1>2, <1>3, ProjectKeeps

\* Most steps leave the commands, the releases and the bindings alone, start no
\* call and take no order to CLOSED.
LEMMA BystanderKeeps ==
    ASSUME TypeInv, TypeInv', \A p \in Orders : OrderInv(p),
           cmd' = cmd, rel' = rel, bind' = bind,
           \A p \in Orders :
             /\ mesOwn'[LotOf[p]] \subseteq mesOwn[LotOf[p]]
             /\ life[p] \in Closed => life'[p] \in Closed
             /\ life'[p] = "CLOSED" => life[p] = "CLOSED"
             /\ work'[p] = "HOLD_VERIFY_PENDING" =>
                  work[p] = "HOLD_VERIFY_PENDING" \/ cmd[p][1].state # "NONE",
           \A v \in Workers : worker'[v] = worker[v] \/ worker'[v].pc = "idle"
    PROVE  \A p \in Orders : OrderInv(p)'
<1> SUFFICES ASSUME NEW p \in Orders
             PROVE  OrderInv(p)'
  OBVIOUS
<1>1. work'[p] = "HOLD_VERIFY_PENDING" => cmd[p][1].state # "NONE"
  BY DEF OrderInv, Tried
<1> QED
  BY <1>1, Frame

\* A SET round ends with at most an alarm, which closes nothing.
LEMMA SetFinishKeeps ==
    ASSUME TypeInv, \A p \in Orders : OrderInv(p),
           NEW w \in Workers, NEW view, SetFinish(w, view)
    PROVE  \A p \in Orders : OrderInv(p)'
<1> USE DEF order, ledger, mes, world
<1> DEFINE d == Decision(worker[w].order, view)
<1>0. TypeInv'
  BY SetFinishType
<1>1. /\ cmd' = cmd /\ rel' = rel /\ bind' = bind /\ mesOwn' = mesOwn
      /\ worker' = [worker EXCEPT ![w] = Idle]
  BY DEF SetFinish
<1>2. \A v \in Workers : worker'[v] = worker[v] \/ worker'[v].pc = "idle"
  BY <1>1 DEF Idle, Job, TypeInv, TypeOK
<1>3. \A p \in Orders : /\ life'[p] = life[p]
                        /\ work'[p] = "HOLD_VERIFY_PENDING" => work'[p] = work[p]
  <2>1. CASE d.act = "OPEN_INCIDENT"
    <3>1. d.work \in {"HOLD_FAILED", "RELEASE_FAILED", "MANUAL_REVIEW",
                      "STATE_CONFLICT"}
      BY <2>1, AlarmDecision DEF Decision
    <3>2. Project(worker[w].order, d)
      BY <2>1 DEF SetFinish
    <3> HIDE DEF d
    <3> QED
      BY <3>1, <3>2 DEF Project, Closed, TypeInv, TypeOK
  <2>2. CASE d.act # "OPEN_INCIDENT"
    BY <2>2 DEF SetFinish
  <2> QED
    BY <2>1, <2>2
<1> QED
  BY <1>0, <1>1, <1>2, <1>3, BystanderKeeps

\* CONFIRM_HOLD and CHECK_AI write decisions, or a wait for a hold sent before.
LEMMA VerifyingKeeps ==
    ASSUME TypeInv, TypeInv', \A p \in Orders : OrderInv(p),
           NEW o \in Orders, NEW view,
           \/ VerifyWait(o, view)
           \/ VerifyProject(o, view)
           \/ ConfirmProject(o, view)
           \/ CheckAiProject(o, view)
    PROVE  \A p \in Orders : OrderInv(p)'
<1> USE DEF order, ledger, mes, world
<1> DEFINE d == Decision(o, view)
<1>1. d = derive_state(Observed(o, view, target[o]))
  BY DEF Decision, snapshot
<1>2. ASSUME life[o] = "OPEN", Project(o, d), bind' = bind \/ ReleaseBinding(o, d),
             cmd' = cmd, rel' = rel, mesOwn' = mesOwn, worker' = worker
      PROVE  \A p \in Orders : OrderInv(p)'
  <2> HIDE DEF d
  <2>1. life[o] \notin Closed
    BY <1>2 DEF Closed
  <2> QED
    BY <1>1, <1>2, <2>1, ProjectKeeps
<1>3. CASE VerifyWait(o, view)
  <2>1. PICK c \in Codes : cmd[o][c].state = "ACKNOWLEDGED"
    BY <1>3 DEF VerifyWait
  <2>2. cmd[o][1].state # "NONE"
    <3>1. c = 1 \/ 1 < c
      BY FirstCode
    <3> QED
      BY <2>1, <3>1, FirstCode DEF OrderInv, Ladder
  <2>3. \A p \in Orders : p # o => work'[p] = work[p]
    BY <1>3 DEF VerifyWait, TypeInv, TypeOK
  <2>4. /\ cmd' = cmd /\ rel' = rel /\ bind' = bind /\ mesOwn' = mesOwn
        /\ worker' = worker /\ life' = life
    BY <1>3 DEF VerifyWait
  <2> QED
    BY <2>2, <2>3, <2>4, BystanderKeeps
<1>4. CASE VerifyProject(o, view)
  BY <1>2, <1>4 DEF VerifyProject, AwaitsVerify
<1>5. CASE ConfirmProject(o, view)
  BY <1>2, <1>5 DEF ConfirmProject
<1>6. CASE CheckAiProject(o, view)
  <2>1. life[o] = "OPEN" /\ cmd' = cmd /\ rel' = rel /\ mesOwn' = mesOwn
          /\ worker' = worker
    BY <1>6 DEF CheckAiProject
  <2>2. \/ Project(o, d) /\ ReleaseBinding(o, d)
        \/ UNCHANGED <<life, work, skip, bind>>
    BY <1>6 DEF CheckAiProject
  <2>3. CASE UNCHANGED <<life, work, skip, bind>>
    <3>1. life' = life /\ work' = work /\ bind' = bind
      BY <2>3
    <3> QED
      BY <2>1, <3>1, BystanderKeeps
  <2> QED
    BY <1>2, <2>1, <2>2, <2>3
<1> QED
  BY <1>3, <1>4, <1>5, <1>6
=============================================================================
