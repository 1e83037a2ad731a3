-------------------------- MODULE HoldPromiseProofs --------------------------
(***************************************************************************)
(* The release half of the argument, and the promises.  About the hold: it *)
(* is never doubled, always owned by its order's binding, gone when the    *)
(* order is CLOSED, and set by one job at a time; all follow from          *)
(* OrderInv, which every step of a system with one round per lot keeps.    *)
(* About the order of things: how often a code is tried, what the scan     *)
(* must have seen before a release or a closing, and that an order that    *)
(* was given up has raised its alarm.                                      *)
(***************************************************************************)
EXTENDS HoldOrderProofs

-----------------------------------------------------------------------------
(* Sending a release *)

\* CHECK_AI sends a release only with nothing in flight, so no job is setting
\* a hold of the order or releasing it already.
LEMMA SendReleaseIsSafe ==
    ASSUME TypeInv, NEW o \in Orders, OrderInv(o), NEW view,
           Decision(o, view).act = "SET_RELEASE"
    PROVE  /\ life[o] \notin Closed
           /\ \A c \in Codes : cmd[o][c].state \notin InFlightStates
           /\ \A v \in Workers : ~SetCalls(v, o) /\ ~Releasing(v, o)
<1> DEFINE s == Observed(o, view, target[o])
<1>1. s.life = life[o] /\ s.cmd = cmd[o] /\ s.rel = rel[o]
  BY DEF Observed
<1>2. s.life \notin Closed /\ ~ReleaseInFlight(s) /\ ~SetInFlight(s)
  BY ReleaseDecision DEF Decision, snapshot
<1> HIDE DEF s
<1>3. \A c \in Codes : cmd[o][c].state \notin InFlightStates
  BY <1>1, <1>2 DEF SetInFlight, InFlight
<1>4. ASSUME NEW v \in Workers, SetCalls(v, o)
      PROVE  FALSE
  <2> PICK e \in Codes : e = worker[v].code
    BY <1>4 DEF SetCalls, TypeInv, JobsHaveOrders
  <2>1. cmd[o][e].state = "PREPARED"
    BY <1>4 DEF SetCalls, Sending, OrderInv, Sender
  <2> QED
    BY <1>3, <2>1 DEF InFlightStates
<1>5. ASSUME NEW v \in Workers, Releasing(v, o)
      PROVE  FALSE
  BY <1>1, <1>2, <1>5 DEF OrderInv, Releaser, ReleaseInFlight, InFlight, InFlightStates
<1> QED
  BY <1>1, <1>2, <1>3, <1>4, <1>5

\* What a release intent may change, whether it is fresh or a retry.
LEMMA CheckAiSendKeeps ==
    ASSUME TypeInv, \A p \in Orders : OrderInv(p), NEW w \in Workers,
           NEW o \in Orders, NEW view \in Views(o), CheckAiSend(w, o, view)
    PROVE  \A p \in Orders : OrderInv(p)'
<1> USE DEF order, ledger, mes, world
<1>0. TypeInv'
  BY ReleaseRoundType DEF ReleaseRound
<1>1. /\ life[o] \notin Closed
      /\ \A c \in Codes : cmd[o][c].state \notin InFlightStates
      /\ \A v \in Workers : ~SetCalls(v, o) /\ ~Releasing(v, o)
  BY SendReleaseIsSafe DEF CheckAiSend
<1>2. life' = life /\ cmd' = cmd /\ mesOwn' = mesOwn
  BY DEF CheckAiSend
<1>3. ReleaseIntent(w, o) \/ ReleaseRetry(w, o)
  BY DEF CheckAiSend
<1>4. /\ rel'[o].state = "PREPARED"
      /\ \A p \in Orders : p # o => rel'[p] = rel[p]
  <2>1. CASE ReleaseIntent(w, o)
    BY <2>1 DEF ReleaseIntent, TypeInv, TypeOK
  <2>2. CASE ReleaseRetry(w, o)
    <3>1. rel' = [rel EXCEPT ![o].state = "PREPARED"]
      BY <2>2 DEF ReleaseRetry
    <3>2. rel[o] \in ReleaseCommands
      BY DEF TypeInv, TypeOK
    <3> QED
      BY <3>1, <3>2 DEF TypeInv, TypeOK, ReleaseCommands
  <2> QED
    BY <1>3, <2>1, <2>2
<1>5. /\ \A p \in Orders : p # o => bind'[p] = bind[p]
      /\ bind'[o].code = bind[o].code
      /\ \/ bind'[o].status = bind[o].status
         \/ bind'[o].status = "RELEASE_PENDING"
  <2> DEFINE status == IF bind[o].status \in {"CONFIRMED", "RELEASE_PENDING"}
                       THEN "RELEASE_PENDING" ELSE bind[o].status
  <2>1. bind' = [bind EXCEPT ![o].status = status]
    BY <1>3 DEF ReleaseIntent, ReleaseRetry, TypeInv, TypeOK
  <2>2. status = bind[o].status \/ status = "RELEASE_PENDING"
    OBVIOUS
  <2>3. bind[o] \in Bindings
    BY DEF TypeInv, TypeOK
  <2> HIDE DEF status
  <2> QED
    BY <2>1, <2>2, <2>3 DEF TypeInv, TypeOK, Bindings
<1>6. /\ \A p \in Orders : p # o => work'[p] = work[p]
      /\ work'[o] = "HOLD_VERIFY_PENDING" => work[o] = "HOLD_VERIFY_PENDING"
  BY <1>3 DEF ReleaseIntent, ReleaseRetry, TypeInv, TypeOK
<1>7. /\ \A v \in Workers : v # w => worker'[v] = worker[v]
      /\ \/ worker'[w] = worker[w]
         \/ worker'[w].pc = "release_call" /\ worker'[w].order = o
  <2>1. CASE ReleaseIntent(w, o)
    BY <2>1 DEF ReleaseIntent, Job, TypeInv, TypeOK
  <2>2. CASE ReleaseRetry(w, o)
    BY <2>2 DEF ReleaseRetry, Job, TypeInv, TypeOK
  <2> QED
    BY <1>3, <2>1, <2>2
<1>8. ASSUME NEW p \in Orders, p # o
      PROVE  OrderInv(p)'
  <2>1. work'[p] = "HOLD_VERIFY_PENDING" => cmd[p][1].state # "NONE"
    BY <1>6, <1>8 DEF OrderInv, Tried
  <2>2. \A v \in Workers : worker'[v].order = p => worker'[v] = worker[v]
    BY <1>7, <1>8
  <2> QED
    BY <1>0, <1>2, <1>4, <1>5, <1>8, <2>1, <2>2, Frame
<1>9. OrderInv(o)'
  <2>1. Ladder(o)' /\ Present(o)'
    BY <1>2 DEF Ladder, Present, Own, OrderInv
  <2>2. Matched(o)'
    <3>1. \A c \in Codes : cmd[o][c].state # "PREPARED"
      BY <1>1 DEF InFlightStates
    <3>2. bind[o].status \in Holding => bind'[o].status \in Holding
      BY <1>5 DEF Holding
    <3>3. bind[o].status # "PENDING" => bind'[o].status # "PENDING"
      BY <1>5
    <3> QED
      BY <1>1, <1>2, <1>5, <3>1, <3>2, <3>3 DEF Matched, Own, OrderInv
  <2>3. Sender(o)' /\ SetAlone(o)' /\ Apart(o)'
    <3>1. \A v \in Workers :
            worker'[v].pc \in {"set_call", "set_done"} => worker'[v] = worker[v]
      BY <1>7
    <3>2. Sender(o)'
      BY <1>2, <3>1 DEF Sender, Sending, Own, OrderInv
    <3>3. SetAlone(o)'
      BY <3>1 DEF SetAlone, Sending, OrderInv
    <3>4. Apart(o)'
      BY <1>1, <3>1 DEF Apart, SetCalls
    <3> QED
      BY <3>2, <3>3, <3>4
  <2>4. Releaser(o)'
    BY <1>1, <1>4, <1>7 DEF Releaser, Releasing
  <2>5. ClosedIsFinal(o)' /\ Tried(o)'
    BY <1>1, <1>2, <1>6 DEF ClosedIsFinal, Tried, OrderInv, Closed
  <2> QED
    BY <2>1, <2>2, <2>3, <2>4, <2>5 DEF OrderInv
<1> QED
  BY <1>8, <1>9

\* MES answering a release only takes a hold away.
LEMMA ReleaseCallKeeps ==
    ASSUME TypeInv, \A p \in Orders : OrderInv(p), NEW w \in Workers,
           NEW receipt \in Receipts, NEW effect \in BOOLEAN,
           ReleaseCall(w, receipt, effect)
    PROVE  \A p \in Orders : OrderInv(p)'
<1> USE DEF order, ledger
<1>0. TypeInv'
  BY ReleaseRoundType DEF ReleaseRound
<1> PICK o, c : o \in Orders /\ o = worker[w].order /\ c = worker[w].code
  BY DEF ReleaseCall, TypeInv, JobsHaveOrders
<1>1. /\ worker'[w].pc = "release_done" /\ worker'[w].order = o
      /\ \A v \in Workers : v # w => worker'[v] = worker[v]
  <2>1. worker' = [worker EXCEPT ![w] = Job("release_done", o, c, receipt)]
    BY DEF ReleaseCall
  <2> QED
    BY <2>1 DEF Job, TypeInv, TypeOK
<1>2. worker[w].pc = "release_call"
  BY DEF ReleaseCall
<1>3. /\ life' = life /\ work' = work /\ cmd' = cmd /\ rel' = rel /\ bind' = bind
  BY DEF ReleaseCall
<1>4. \A p \in Orders : mesOwn'[LotOf[p]] \subseteq mesOwn[LotOf[p]]
  BY OrdersAssumption DEF ReleaseCall, TypeInv, TypeOK
<1> SUFFICES ASSUME NEW p \in Orders
             PROVE  OrderInv(p)'
  OBVIOUS
<1>5. work'[p] = "HOLD_VERIFY_PENDING" => cmd[p][1].state # "NONE"
  BY <1>3 DEF OrderInv, Tried
<1>6. \A v \in Workers : worker'[v].order = p =>
        \/ worker'[v] = worker[v]
        \/ /\ worker'[v].pc = "release_done"
           /\ worker[v].order = p /\ worker[v].pc = "release_call"
  BY <1>1, <1>2
<1>7. \A v \in Workers : worker'[v].order = p =>
        /\ worker'[v].pc \in {"set_call", "set_done"} => worker'[v] = worker[v]
        /\ worker'[v].pc \in {"release_call", "release_done"} =>
             /\ worker[v].order = p
             /\ worker[v].pc \in {worker'[v].pc, "release_call"}
  BY <1>6
<1> QED
  BY <1>0, <1>3, <1>4, <1>5, <1>7, Frame

\* The receipt of a release settles its command, and its job is the only one.
LEMMA ReleaseReceiptKeeps ==
    ASSUME TypeInv, \A p \in Orders : OrderInv(p), NEW w \in Workers,
           ReleaseReceipt(w)
    PROVE  \A p \in Orders : OrderInv(p)'
<1> USE DEF order, ledger, mes, world
<1>0. TypeInv'
  BY ReleaseRoundType DEF ReleaseRound
<1> PICK o \in Orders : o = worker[w].order
  BY DEF ReleaseReceipt, TypeInv, JobsHaveOrders
<1>1. Releasing(w, o)
  BY DEF ReleaseReceipt, Releasing
<1>2. /\ worker'[w].pc = "idle"
      /\ \A v \in Workers : v # w => worker'[v] = worker[v]
  BY DEF ReleaseReceipt, Idle, Job, TypeInv, TypeOK
<1>3. /\ rel'[o].state \in {"ACKNOWLEDGED", "UNKNOWN", "RETRY_WAIT", "REJECTED"}
      /\ \A p \in Orders : p # o => rel'[p] = rel[p]
  <2> PICK n, next : /\ rel' = [rel EXCEPT ![o] =
                                  [state |-> next, code |-> rel[o].code, attempts |-> n]]
                     /\ next \in {"ACKNOWLEDGED", "UNKNOWN", "RETRY_WAIT", "REJECTED"}
    BY DEF ReleaseReceipt, state_after_receipt, TypeInv, TypeOK
  <2> QED
    BY DEF TypeInv, TypeOK
<1>4. /\ life' = life /\ work' = work /\ cmd' = cmd /\ bind' = bind
      /\ mesOwn' = mesOwn
  BY DEF ReleaseReceipt
<1>5. /\ rel[o].state # "NONE"
      /\ rel[o].state = "PREPARED" \/ life[o] \in Closed
      /\ \A v \in Workers : Releasing(v, o) => v = w
  BY <1>1 DEF OrderInv, Releaser
<1>6. ASSUME NEW p \in Orders, p # o
      PROVE  OrderInv(p)'
  <2>1. work'[p] = "HOLD_VERIFY_PENDING" => cmd[p][1].state # "NONE"
    BY <1>4 DEF OrderInv, Tried
  <2>2. \A v \in Workers : worker'[v].pc # "idle" => worker'[v] = worker[v]
    BY <1>2
  <2> QED
    BY <1>0, <1>3, <1>4, <1>6, <2>1, <2>2, Frame
<1>7. OrderInv(o)'
  <2>1. Ladder(o)' /\ Present(o)'
    BY <1>4 DEF Ladder, Present, Own, OrderInv
  <2>2. Matched(o)'
    BY <1>4, <1>5 DEF Matched, Own, OrderInv
  <2>3. Sender(o)' /\ SetAlone(o)' /\ Apart(o)'
    BY <1>2, <1>4 DEF Sender, SetAlone, Apart, Sending, SetCalls, Own, OrderInv
  <2>4. Releaser(o)'
    BY <1>2, <1>3, <1>5 DEF Releaser, Releasing
  <2>5. ClosedIsFinal(o)' /\ Tried(o)'
    BY <1>2, <1>4 DEF ClosedIsFinal, SetCalls, Own, Tried, OrderInv
  <2> QED
    BY <2>1, <2>2, <2>3, <2>4, <2>5 DEF OrderInv
<1> QED
  BY <1>6, <1>7

-----------------------------------------------------------------------------
(* Closing an order *)

\* CONFIRM_RELEASE closes an order whose release was sent, so no hold is being
\* set for it, and whose hold does not show, so none stands.
LEMMA VerifyReleaseKeeps ==
    ASSUME TypeInv, TypeInv', \A p \in Orders : OrderInv(p),
           NEW o \in Orders, NEW view, VerifyRelease(o, view)
    PROVE  \A p \in Orders : OrderInv(p)'
<1> USE DEF order, ledger, mes, world
<1>1. life[o] = "OPEN" /\ view.seen /\ ~OwnHold(snapshot(o, view))
  BY DEF VerifyRelease, AwaitsRelease, ReleaseVerified, Gone
<1>2. rel[o].state \in InFlightStates
  BY <1>1 DEF VerifyRelease, ReleaseVerified, OrderInv, Releaser, Closed
<1>3. \A c \in Codes : cmd[o][c].state # "PREPARED"
  BY <1>1, <1>2 DEF OrderInv, Matched, InFlightStates, Closed
<1>4. Own(o) = {}
  <2> SUFFICES ASSUME NEW c \in Own(o)
               PROVE  FALSE
    OBVIOUS
  <2>1. bind[o].code = c /\ bind[o].status \in Holding
    BY <1>1, PresentHold DEF Closed
  <2> QED
    BY <1>1, <2>1 DEF OwnHold, snapshot, Observed, Own, Holding, BindingStates
<1>5. \A v \in Workers : ~SetCalls(v, o)
  <2> SUFFICES ASSUME NEW v \in Workers, SetCalls(v, o)
               PROVE  FALSE
    OBVIOUS
  <2> PICK e \in Codes : e = worker[v].code
    BY DEF SetCalls, TypeInv, JobsHaveOrders
  <2>1. cmd[o][e].state = "PREPARED"
    BY DEF SetCalls, Sending, OrderInv, Sender
  <2> QED
    BY <1>3, <2>1
<1>6. /\ life'[o] = "CLOSED" /\ work'[o] = "CLOSED"
      /\ bind'[o].code = bind[o].code /\ bind'[o].status = "RELEASED"
  <2>1. bind[o] \in Bindings
    BY DEF TypeInv, TypeOK
  <2> QED
    BY <2>1 DEF VerifyRelease, TypeInv, TypeOK, Bindings
<1>7. \A p \in Orders : p # o =>
        /\ life'[p] = life[p] /\ work'[p] = work[p]
        /\ rel'[p] = rel[p] /\ bind'[p] = bind[p]
  BY DEF VerifyRelease, TypeInv, TypeOK
<1>8. cmd' = cmd /\ mesOwn' = mesOwn /\ worker' = worker
  BY DEF VerifyRelease
<1>9. ASSUME NEW p \in Orders, p # o
      PROVE  OrderInv(p)'
  <2>1. work'[p] = "HOLD_VERIFY_PENDING" => cmd[p][1].state # "NONE"
    BY <1>7, <1>9 DEF OrderInv, Tried
  <2> QED
    BY <1>7, <1>8, <1>9, <2>1, Frame
<1>10. OrderInv(o)'
  <2>1. Ladder(o)' /\ Present(o)'
    BY <1>8 DEF Ladder, Present, Own, OrderInv
  <2>2. Matched(o)'
    BY <1>3, <1>6, <1>8 DEF Matched, Own, OrderInv, Closed
  <2>3. Sender(o)' /\ SetAlone(o)' /\ Apart(o)'
    BY <1>8 DEF Sender, SetAlone, Apart, Sending, SetCalls, Own, OrderInv
  <2>4. Releaser(o)'
    <3>1. rel'[o].state # "NONE"
      <4>1. rel[o] \in ReleaseCommands
        BY DEF TypeInv, TypeOK
      <4> QED
        BY <4>1 DEF VerifyRelease, TypeInv, TypeOK, ReleaseCommands
    <3> QED
      BY <1>6, <1>8, <3>1 DEF Releaser, Releasing, OrderInv, Closed
  <2>5. ClosedIsFinal(o)' /\ Tried(o)'
    BY <1>4, <1>5, <1>6, <1>8 DEF ClosedIsFinal, SetCalls, Own, Tried
  <2> QED
    BY <2>1, <2>2, <2>3, <2>4, <2>5 DEF OrderInv
<1> QED
  BY <1>9, <1>10

-----------------------------------------------------------------------------
(* Every step *)

\* The steps of the jobs that take a worker.
LEMMA RoundKeeps ==
    ASSUME OneRoundPerLot, TypeInv, \A p \in Orders : OrderInv(p),
           NEW w \in Workers, SetRound(w) \/ ReleaseRound(w)
    PROVE  \A p \in Orders : OrderInv(p)'
<1>1. CASE SetRound(w)
  BY <1>1, SetSendKeeps, SetHoldCallKeeps, SetReceiptKeeps, SetBackupKeeps,
     SetFinishKeeps DEF SetRound
<1>2. CASE ReleaseRound(w)
  BY <1>2, CheckAiSendKeeps, ReleaseCallKeeps, ReleaseReceiptKeeps
     DEF ReleaseRound
<1> QED
  BY <1>1, <1>2

\* The steps of the jobs that only read MES and write the database.
LEMMA DatabaseKeeps ==
    ASSUME TypeInv, TypeInv', \A p \in Orders : OrderInv(p),
           NEW o \in Orders, Database(o)
    PROVE  \A p \in Orders : OrderInv(p)'
<1>1. ASSUME NEW view, ReleaseFails(o, view) \/ ReleasePending(o, view)
      PROVE  \A p \in Orders : OrderInv(p)'
  <2> USE DEF order, ledger, mes, world
  <2>1. /\ cmd' = cmd /\ rel' = rel /\ bind' = bind /\ mesOwn' = mesOwn
        /\ worker' = worker /\ life' = life
        /\ \A p \in Orders :
             work'[p] = "HOLD_VERIFY_PENDING" => work[p] = "HOLD_VERIFY_PENDING"
    BY <1>1 DEF ReleaseFails, ReleasePending, TypeInv, TypeOK
  <2> QED
    BY <2>1, BystanderKeeps
<1> QED
  BY <1>1, SetProjectKeeps, VerifyFoundKeeps, VerifyRetryKeeps, VerifyingKeeps,
     VerifyReleaseKeeps DEF Database

\* The steps of the operators, the line, SMM, the scan and a dying process.
LEMMA EnvironmentKeeps ==
    ASSUME TypeInv, TypeInv', \A p \in Orders : OrderInv(p), Environment
    PROVE  \A p \in Orders : OrderInv(p)'
<1> USE DEF order, ledger, mes, world
<1>1. cmd' = cmd /\ rel' = rel /\ bind' = bind
  BY DEF Environment, Crash, SmmChanges, LineReleases, CreateOrder,
         RosterChanges, ManualClose, ScanAdvances, ControlTrips, Resume
<1>2. \A p \in Orders : mesOwn'[LotOf[p]] \subseteq mesOwn[LotOf[p]]
  <2>1. ASSUME NEW l \in Lots, NEW c \in Codes, LineReleases(l, c)
        PROVE  \A p \in Orders : mesOwn'[LotOf[p]] \subseteq mesOwn[LotOf[p]]
    BY <2>1, OrdersAssumption DEF LineReleases, TypeInv, TypeOK
  <2>2. CASE mesOwn' = mesOwn
    BY <2>2
  <2> QED
    BY <2>1, <2>2
       DEF Environment, Crash, SmmChanges, CreateOrder, RosterChanges,
           ManualClose, ScanAdvances, ControlTrips, Resume
<1>3. \A p \in Orders :
        /\ life[p] \in Closed => life'[p] \in Closed
        /\ life'[p] = "CLOSED" => life[p] = "CLOSED"
        /\ work'[p] = "HOLD_VERIFY_PENDING" => work[p] = "HOLD_VERIFY_PENDING"
  BY DEF Environment, Crash, SmmChanges, LineReleases, CreateOrder,
         RosterChanges, ManualClose, ScanAdvances, ControlTrips, Resume,
         TypeInv, TypeOK, Closed
<1>4. \A v \in Workers : worker'[v] = worker[v] \/ worker'[v].pc = "idle"
  <2>1. ASSUME NEW w \in Workers, Crash(w)
        PROVE  \A v \in Workers : worker'[v] = worker[v] \/ worker'[v].pc = "idle"
    BY <2>1 DEF Crash, TypeInv, TypeOK, Idle, Job
  <2>2. CASE worker' = worker
    BY <2>2
  <2> QED
    BY <2>1, <2>2
       DEF Environment, SmmChanges, LineReleases, CreateOrder, RosterChanges,
           ManualClose, ScanAdvances, ControlTrips, Resume
<1> QED
  BY <1>1, <1>2, <1>3, <1>4, BystanderKeeps

\* Nothing was sent yet, and no lot has a hold.
LEMMA OwnershipInit == Init => OwnershipInv
<1> SUFFICES ASSUME Init
             PROVE  OwnershipInv
  OBVIOUS
<1>1. TypeInv
  BY TypeInit
<1> SUFFICES ASSUME NEW o \in Orders
             PROVE  OrderInv(o)
  BY <1>1 DEF OwnershipInv
<1>2. /\ \A c \in Codes : cmd[o][c].state = "NONE"
      /\ rel[o].state = "NONE" /\ life[o] = "ABSENT" /\ work[o] = "NONE"
      /\ Own(o) = {}
      /\ \A w \in Workers : worker[w].pc = "idle"
  BY OrdersAssumption DEF Init, NoCommand, Idle, Job, Own
<1>3. Ladder(o) /\ Matched(o) /\ Present(o)
  BY <1>2 DEF Ladder, Matched, Present
<1>4. Sender(o) /\ SetAlone(o) /\ Releaser(o) /\ Apart(o)
  BY <1>2 DEF Sender, SetAlone, Releaser, Apart, Sending, SetCalls, Releasing
<1>5. ClosedIsFinal(o) /\ Tried(o)
  BY <1>2 DEF ClosedIsFinal, Tried
<1> QED
  BY <1>3, <1>4, <1>5 DEF OrderInv

\* The induction step, for lots in one rework round at a time.
LEMMA OwnershipStep ==
    ASSUME OneRoundPerLot, OwnershipInv, [Next]_vars
    PROVE  OwnershipInv'
<1> USE DEF OwnershipInv
<1>1. TypeInv'
  BY TypeStep
<1>2. CASE UNCHANGED vars
  <2>1. /\ life' = life /\ work' = work /\ cmd' = cmd /\ rel' = rel
        /\ bind' = bind /\ mesOwn' = mesOwn /\ worker' = worker
    BY <1>2 DEF vars
  <2> QED
    BY <1>1, <2>1, BystanderKeeps
<1>3. CASE Next
  BY <1>1, <1>3, RoundKeeps, DatabaseKeeps, EnvironmentKeeps DEF Next
<1> QED
  BY <1>2, <1>3

-----------------------------------------------------------------------------
(* The promises *)

\* The invariant says what it was made for: the lot's holds are the one hold
\* of the binding, and none is left when the order is CLOSED.
LEMMA OwnershipMeans ==
    ASSUME OwnershipInv
    PROVE  /\ HoldIsOwned
           /\ NoDoubleHold
           /\ ClosedHasNoHold
           /\ CallsExclude
<1> USE DEF OwnershipInv
<1>1. HoldIsOwned
  BY PresentHold DEF HoldIsOwned, Own, Holding
<1>2. ClosedHasNoHold
  BY DEF ClosedHasNoHold, OrderInv, ClosedIsFinal, Own
<1>3. CallsExclude
  BY DEF CallsExclude, OrderInv, SetAlone, Apart, SetCalls
<1>4. NoDoubleHold
  BY PresentHold DEF NoDoubleHold, Own
<1> QED
  BY <1>1, <1>2, <1>3, <1>4

\* The rows of an order, its hold in MES and the calls on their way agree at
\* every moment, also between an intent and its receipt (request_hold,
\* request_release, verify_hold, verify_release).
THEOREM OwnershipHolds ==
    ASSUME OneRoundPerLot
    PROVE  Spec => []OwnershipInv
<1>1. OwnershipInv /\ [Next]_vars => OwnershipInv'
  BY OwnershipStep
<1> QED
  BY <1>1, OwnershipInit, PTL DEF Spec

\* Every hold the agent has in MES is the one its order's binding names, so it
\* will be recognised, verified and released (match_our_holds).
THEOREM HoldsAreOwned ==
    ASSUME OneRoundPerLot
    PROVE  Spec => []HoldIsOwned
<1>1. OwnershipInv /\ [Next]_vars => OwnershipInv'
  BY OwnershipStep
<1>2. OwnershipInv => HoldIsOwned
  BY OwnershipMeans
<1> QED
  BY <1>1, <1>2, OwnershipInit, PTL DEF Spec

\* A lot never carries the agent's hold twice: a backup code is tried only when
\* the code before it was refused (A1-04), never because nothing showed.
THEOREM HoldsAreSingle ==
    ASSUME OneRoundPerLot
    PROVE  Spec => []NoDoubleHold
<1>1. OwnershipInv /\ [Next]_vars => OwnershipInv'
  BY OwnershipStep
<1>2. OwnershipInv => NoDoubleHold
  BY OwnershipMeans
<1> QED
  BY <1>1, <1>2, OwnershipInit, PTL DEF Spec

\* An order is CLOSED only when its hold is gone and none can come back
\* (verify_release, the A2-20 closing of derive_state).
THEOREM ClosingReleases ==
    ASSUME OneRoundPerLot
    PROVE  Spec => []ClosedHasNoHold
<1>1. OwnershipInv /\ [Next]_vars => OwnershipInv'
  BY OwnershipStep
<1>2. OwnershipInv => ClosedHasNoHold
  BY OwnershipMeans
<1> QED
  BY <1>1, <1>2, OwnershipInit, PTL DEF Spec

\* One job at a time has a set_hold of an order under way, and none while a
\* release of the order is about to be sent (get_in_flight, derive_state).
THEOREM CallsAreExclusive ==
    ASSUME OneRoundPerLot
    PROVE  Spec => []CallsExclude
<1>1. OwnershipInv /\ [Next]_vars => OwnershipInv'
  BY OwnershipStep
<1>2. OwnershipInv => CallsExclude
  BY OwnershipMeans
<1> QED
  BY <1>1, <1>2, OwnershipInit, PTL DEF Spec

-----------------------------------------------------------------------------
(* One command per code *)

\* What OneCommandPerCode asks of the step of one command.
TriesInOrder(o, c) ==
    cmd'[o][c].state = "PREPARED" /\ cmd[o][c].state # "PREPARED" =>
      \/ /\ cmd[o][c].state = "NONE"
         /\ \A d \in Codes : d < c => /\ cmd[o][d].state = "REJECTED"
                                       /\ cmd[o][d].why = "CODE_CONFLICT"
      \/ /\ cmd[o][c].state = "RETRY_WAIT"
         /\ cmd'[o][c].attempts < MaxAttempts

\* request_hold writes an intent only where one may be sent, and it keeps the
\* attempts of the command it retries.
LEMMA IntentTries ==
    ASSUME TypeInv, NEW w \in Workers, NEW o \in Orders, NEW c \in Codes,
           Sendable(o, c), Intent(w, o, c)
    PROVE  \A p \in Orders, d \in Codes : TriesInOrder(p, d)
<1> DEFINE n == IF cmd[o][c].state = "RETRY_WAIT" THEN cmd[o][c].attempts ELSE 0
           command == [state |-> "PREPARED", why |-> "", attempts |-> n]
<1>1. cmd' = [cmd EXCEPT ![o][c] = command]
  BY DEF Intent, TypeInv, TypeOK
<1>2. n < MaxAttempts
  BY AttemptsAssumption DEF Sendable
<1> HIDE DEF n
<1>3. command.attempts < MaxAttempts
  BY <1>2
<1> HIDE DEF command
<1>4. /\ cmd'[o][c].attempts < MaxAttempts
      /\ \A p \in Orders, d \in Codes :
           p # o \/ d # c => cmd'[p][d] = cmd[p][d]
  BY <1>1, <1>3 DEF TypeInv, TypeOK
<1> QED
  BY <1>4 DEF TriesInOrder, Sendable

\* A command that keeps its record, or leaves PREPARED, is not a new attempt.
LEMMA NothingPrepared ==
    ASSUME NEW p \in Orders, NEW d \in Codes,
           cmd'[p][d] = cmd[p][d] \/ cmd'[p][d].state # "PREPARED"
    PROVE  TriesInOrder(p, d)
  BY DEF TriesInOrder

\* Every SET_HOLD intent of a round is one that SendIsSafe allows.
LEMMA SetRoundTries ==
    ASSUME TypeInv, \A p \in Orders : OrderInv(p), NEW w \in Workers, SetRound(w)
    PROVE  \A p \in Orders, d \in Codes : TriesInOrder(p, d)
<1> USE DEF order, ledger, mes, world
<1>1. ASSUME NEW o \in Orders, NEW c \in Codes, NEW first,
             NEW second \in Again(o, first), SetSend(w, o, first, second, c)
      PROVE  \A p \in Orders, d \in Codes : TriesInOrder(p, d)
  BY <1>1, SetSendTarget, IntentTries
<1>2. ASSUME NEW view, NEW c \in Codes, SetBackup(w, view, c)
      PROVE  \A p \in Orders, d \in Codes : TriesInOrder(p, d)
  BY <1>2, SetBackupTarget, IntentTries
<1>3. ASSUME NEW receipt \in Receipts, NEW effect \in BOOLEAN,
             SetHoldCall(w, receipt, effect)
      PROVE  cmd' = cmd
  BY <1>3 DEF SetHoldCall
<1>4. CASE SetReceipt(w)
  <2> PICK o \in Orders, c \in Codes : o = worker[w].order /\ c = worker[w].code
    BY <1>4 DEF SetReceipt, TypeInv, JobsHaveOrders
  <2> DEFINE receipt == worker[w].receipt
             n == cmd[o][c].attempts + 1
             next == state_after_receipt(receipt, n)
             command == [state |-> next, attempts |-> n,
                         why |-> IF next = "REJECTED" THEN receipt ELSE ""]
  <2>1. cmd' = [cmd EXCEPT ![o][c] = command]
    BY <1>4 DEF SetReceipt
  <2>2. command.state # "PREPARED"
    BY DEF state_after_receipt
  <2> HIDE DEF command
  <2>3. \A p \in Orders, d \in Codes :
          cmd'[p][d] = cmd[p][d] \/ cmd'[p][d].state # "PREPARED"
    BY <2>1, <2>2 DEF TypeInv, TypeOK
  <2> QED
    BY <2>3, NothingPrepared
<1>5. ASSUME NEW view, SetFinish(w, view)
      PROVE  cmd' = cmd
  BY <1>5 DEF SetFinish
<1> QED
  BY <1>1, <1>2, <1>3, <1>4, <1>5, NothingPrepared DEF SetRound

\* The other jobs write commands only to confirm, retry or give them up.
LEMMA OthersTry ==
    ASSUME TypeInv,
           \/ \E w \in Workers : ReleaseRound(w)
           \/ \E o \in Orders : Database(o)
           \/ Environment
    PROVE  \A p \in Orders, d \in Codes : TriesInOrder(p, d)
<1> USE DEF order, ledger, mes, world
<1>1. ASSUME NEW o \in Orders, NEW view, VerifyFound(o, view)
      PROVE  \A p \in Orders, d \in Codes : TriesInOrder(p, d)
  <2>1. ASSUME NEW d \in Codes
        PROVE  cmd'[o][d] = cmd[o][d] \/ cmd'[o][d].state = "CONFIRMED"
    <3>1. cmd[o][d] \in SetCommands
      BY DEF TypeInv, TypeOK
    <3>2. cmd'[o][d] = IF LastInFlight(o, d)
                       THEN [cmd[o][d] EXCEPT !.state = "CONFIRMED"]
                       ELSE cmd[o][d]
      BY <1>1 DEF VerifyFound, TypeInv, TypeOK
    <3> QED
      BY <3>1, <3>2 DEF SetCommands
  <2>2. \A p \in Orders : p # o => cmd'[p] = cmd[p]
    BY <1>1 DEF VerifyFound, TypeInv, TypeOK
  <2> QED
    BY <2>1, <2>2, NothingPrepared
<1>2. ASSUME NEW o \in Orders, NEW view, NEW c \in Codes, VerifyRetry(o, view, c)
      PROVE  \A p \in Orders, d \in Codes : TriesInOrder(p, d)
  <2> DEFINE again == cmd[o][c].attempts < MaxAttempts
             command == [state |-> IF again THEN "RETRY_WAIT" ELSE "REJECTED",
                         why |-> IF again THEN "" ELSE "RETRY_EXHAUSTED",
                         attempts |-> cmd[o][c].attempts]
  <2>1. cmd' = [cmd EXCEPT ![o][c] = command]
    BY <1>2 DEF VerifyRetry, TypeInv, TypeOK
  <2>2. command.state # "PREPARED"
    OBVIOUS
  <2> HIDE DEF command
  <2>3. \A p \in Orders, d \in Codes :
          cmd'[p][d] = cmd[p][d] \/ cmd'[p][d].state # "PREPARED"
    BY <2>1, <2>2 DEF TypeInv, TypeOK
  <2> QED
    BY <2>3, NothingPrepared
<1>3. CASE cmd' = cmd
  BY <1>3, NothingPrepared
<1>4. ASSUME NEW w \in Workers, ReleaseRound(w)
      PROVE  cmd' = cmd
  BY <1>4 DEF ReleaseRound, CheckAiSend, ReleaseCall, ReleaseReceipt
<1>5. ASSUME Environment
      PROVE  cmd' = cmd
  BY <1>5 DEF Environment, Crash, SmmChanges, LineReleases, CreateOrder,
         RosterChanges, ManualClose, ScanAdvances, ControlTrips, Resume
<1>6. ASSUME NEW o \in Orders, Database(o)
      PROVE  \A p \in Orders, d \in Codes : TriesInOrder(p, d)
  <2>1. \/ cmd' = cmd
        \/ \E view \in Views(o) : VerifyFound(o, view)
        \/ \E view \in Views(o) : \E c \in Codes : VerifyRetry(o, view, c)
    <3>1. ASSUME NEW view,
                 \/ VerifyWait(o, view) \/ VerifyProject(o, view)
                 \/ ConfirmProject(o, view) \/ CheckAiProject(o, view)
                 \/ VerifyRelease(o, view) \/ ReleaseFails(o, view)
                 \/ ReleasePending(o, view)
          PROVE  cmd' = cmd
      BY <3>1 DEF VerifyWait, VerifyProject, ConfirmProject, CheckAiProject,
                  VerifyRelease, ReleaseFails, ReleasePending
    <3>2. ASSUME NEW first, NEW second, SetProject(o, first, second)
          PROVE  cmd' = cmd
      BY <3>2 DEF SetProject
    <3> QED
      BY <1>6, <3>1, <3>2 DEF Database
  <2> QED
    BY <1>1, <1>2, <1>3, <2>1
<1> QED
  BY <1>3, <1>4, <1>5, <1>6

\* A code is tried by one command, in the configured order, and never more
\* often than the settings allow (request_hold, verify_hold).
THEOREM CodesAreTriedInOrder ==
    ASSUME OneRoundPerLot
    PROVE  Spec => OneCommandPerCode
<1>1. OwnershipInv /\ [Next]_vars => OwnershipInv'
  BY OwnershipStep
<1>2. OwnershipInv /\ [Next]_vars =>
        [\A o \in Orders, c \in Codes : TriesInOrder(o, c)]_vars
  <2> SUFFICES ASSUME OwnershipInv, Next
               PROVE  \A o \in Orders, c \in Codes : TriesInOrder(o, c)
    BY DEF OwnershipInv
  <2> QED
    BY SetRoundTries, OthersTry DEF Next, OwnershipInv
<1>3. Spec => [][\A o \in Orders, c \in Codes : TriesInOrder(o, c)]_vars
  BY <1>1, <1>2, OwnershipInit, PTL DEF Spec
<1> QED
  BY <1>3 DEF OneCommandPerCode, TriesInOrder

-----------------------------------------------------------------------------
(* Releasing and closing after the scan *)

\* What a step may do to an order: a release is first sent when the scan is
\* over, and the order is closed when every wafer was seen.
AwaitsScan(o) ==
    /\ rel'[o].state # "NONE" => rel[o].state # "NONE" \/ scan[o] = "READY"
    /\ life'[o] = "CLOSED" => life[o] = "CLOSED" \/ scan[o] # "WAITING"

\* The scan service may not answer, but it never runs ahead of the scan.
LEMMA ScanViews ==
    ASSUME NEW o \in Orders, NEW view \in Views(o)
    PROVE  view.scan \in {scan[o], "UNKNOWN"}
  BY DEF Views

\* A decision that closes an order was taken after every wafer was scanned.
LEMMA ClosingIsScanned ==
    ASSUME ReleaseAfterScan, NEW o \in Orders, life[o] \notin Closed,
           NEW view \in Views(o), NEW chosen,
           derive_state(Observed(o, view, chosen)).work = "CLOSED"
    PROVE  scan[o] # "WAITING"
<1> DEFINE s == Observed(o, view, chosen)
<1>1. s.life = life[o] /\ s.rel = rel[o] /\ s.scan = view.scan
  BY DEF Observed
<1>2. s.rel.state = "CONFIRMED" \/ s.scan \in {"DWELL", "READY"}
  <2>1. derive_state(s).work \in Closed
    BY DEF Closed
  <2> QED
    BY <1>1, <2>1, ClosingDecision
<1> HIDE DEF s
<1> QED
  BY <1>1, <1>2, ScanViews DEF ReleaseAfterScan

\* The jobs that project a decision send no release.
LEMMA ProjectAwaitsScan ==
    ASSUME TypeInv, ReleaseAfterScan, NEW o \in Orders, life[o] = "OPEN",
           NEW view \in Views(o), NEW chosen,
           NEW d, d = derive_state(Observed(o, view, chosen)),
           Project(o, d), rel' = rel
    PROVE  \A p \in Orders : AwaitsScan(p)
<1>1. /\ life'[o] = "CLOSED" => d.work = "CLOSED"
      /\ \A p \in Orders : p # o => life'[p] = life[p]
  BY DEF Project, TypeInv, TypeOK, Closed
<1>2. d.work = "CLOSED" => scan[o] # "WAITING"
  BY ClosingIsScanned DEF Closed
<1> QED
  BY <1>1, <1>2 DEF AwaitsScan

\* The jobs that set holds neither release nor close.
LEMMA SetRoundAwaitsScan ==
    ASSUME TypeInv, NEW w \in Workers, SetRound(w)
    PROVE  rel' = rel /\ \A p \in Orders : life'[p] = "CLOSED" => life[p] = "CLOSED"
<1> USE DEF order, ledger, mes, world
<1>1. ASSUME NEW view, SetFinish(w, view)
      PROVE  rel' = rel /\ \A p \in Orders : life'[p] = "CLOSED" => life[p] = "CLOSED"
  <2> DEFINE d == Decision(worker[w].order, view)
  <2>1. d.act = "OPEN_INCIDENT" => d.work # "CLOSED"
    BY AlarmDecision DEF Decision
  <2>2. \/ d.act = "OPEN_INCIDENT" /\ Project(worker[w].order, d)
        \/ life' = life
    BY <1>1 DEF SetFinish
  <2>3. rel' = rel
    BY <1>1 DEF SetFinish
  <2> HIDE DEF d
  <2> QED
    BY <2>1, <2>2, <2>3 DEF Project, TypeInv, TypeOK
<1>2. ASSUME NEW o, NEW c, Intent(w, o, c)
      PROVE  rel' = rel /\ life' = life
  BY <1>2 DEF Intent
<1>3. ASSUME NEW receipt, NEW effect, SetHoldCall(w, receipt, effect)
      PROVE  rel' = rel /\ life' = life
  BY <1>3 DEF SetHoldCall
<1>4. CASE SetReceipt(w)
  BY <1>4 DEF SetReceipt
<1> QED
  BY <1>1, <1>2, <1>3, <1>4 DEF SetRound, SetSend, SetBackup

\* A release is first sent on a snapshot that saw the scan finished (A2-21).
LEMMA ReleaseRoundAwaitsScan ==
    ASSUME TypeInv, \A p \in Orders : OrderInv(p), NEW w \in Workers,
           ReleaseRound(w)
    PROVE  \A p \in Orders : AwaitsScan(p)
<1> USE DEF order, ledger, mes, world
<1>1. ASSUME NEW o \in Orders, NEW view \in Views(o), CheckAiSend(w, o, view)
      PROVE  \A p \in Orders : AwaitsScan(p)
  <2> DEFINE s == Observed(o, view, target[o])
  <2>1. s.rel.state = "RETRY_WAIT" \/ s.scan = "READY"
    BY <1>1, ReleaseDecision DEF CheckAiSend, Decision, snapshot
  <2>2. rel[o].state = "RETRY_WAIT" \/ view.scan = "READY"
    BY <2>1 DEF Observed
  <2>3. rel[o].state = "RETRY_WAIT" \/ scan[o] = "READY"
    BY <2>2, ScanViews
  <2>4. life' = life /\ \A p \in Orders : p # o => rel'[p] = rel[p]
    BY <1>1 DEF CheckAiSend, ReleaseIntent, ReleaseRetry, TypeInv, TypeOK
  <2> QED
    BY <2>3, <2>4 DEF AwaitsScan
<1>2. ASSUME NEW receipt \in Receipts, NEW effect \in BOOLEAN,
             ReleaseCall(w, receipt, effect)
      PROVE  \A p \in Orders : AwaitsScan(p)
  BY <1>2 DEF ReleaseCall, AwaitsScan
<1>3. CASE ReleaseReceipt(w)
  <2> PICK o \in Orders : o = worker[w].order
    BY <1>3 DEF ReleaseReceipt, TypeInv, JobsHaveOrders
  <2>1. rel[o].state # "NONE"
    BY <1>3 DEF ReleaseReceipt, OrderInv, Releaser, Releasing
  <2>2. life' = life /\ \A p \in Orders : p # o => rel'[p] = rel[p]
    BY <1>3 DEF ReleaseReceipt, TypeInv, TypeOK
  <2> QED
    BY <2>1, <2>2 DEF AwaitsScan
<1> QED
  BY <1>1, <1>2, <1>3 DEF ReleaseRound

\* The other jobs close an order on a decision, or after a release.
LEMMA DatabaseAwaitsScan ==
    ASSUME TypeInv, ReleaseAfterScan, NEW o \in Orders, Database(o)
    PROVE  scan' = scan /\ \A p \in Orders : AwaitsScan(p)
<1> USE DEF order, ledger, mes, world
<1>1. ASSUME NEW first \in Views(o), NEW second \in Again(o, first),
             SetProject(o, first, second)
      PROVE  \A p \in Orders : AwaitsScan(p)
  <2>1. PICK view, chosen :
              /\ view \in Views(o)
              /\ SetDecision(o, first, second) = derive_state(Observed(o, view, chosen))
    <3>1. CASE Decision(o, first).act = "SELECT_TARGET"
      BY <3>1 DEF SetDecision, Targeted, Again
    <3>2. CASE Decision(o, first).act # "SELECT_TARGET"
      BY <3>2 DEF SetDecision, Decision, snapshot
    <3> QED
      BY <3>1, <3>2
  <2>2. /\ life[o] = "OPEN" /\ rel' = rel
        /\ Project(o, SetDecision(o, first, second))
    BY <1>1 DEF SetProject
  <2> QED
    BY <2>1, <2>2, ProjectAwaitsScan
<1>2. ASSUME NEW view \in Views(o),
             \/ VerifyProject(o, view)
             \/ ConfirmProject(o, view)
             \/ CheckAiProject(o, view)
      PROVE  \A p \in Orders : AwaitsScan(p)
  <2>1. Decision(o, view) = derive_state(Observed(o, view, target[o]))
    BY DEF Decision, snapshot
  <2>2. life[o] = "OPEN" /\ rel' = rel
    BY <1>2 DEF VerifyProject, ConfirmProject, CheckAiProject, AwaitsVerify
  <2>3. Project(o, Decision(o, view)) \/ life' = life
    BY <1>2 DEF VerifyProject, ConfirmProject, CheckAiProject
  <2>4. CASE Project(o, Decision(o, view))
    BY <2>1, <2>2, <2>4, ProjectAwaitsScan
  <2>5. CASE life' = life
    BY <2>2, <2>5 DEF AwaitsScan
  <2> QED
    BY <2>3, <2>4, <2>5
<1>3. ASSUME NEW view, NEW c \in Codes,
             \/ VerifyFound(o, view)
             \/ VerifyRetry(o, view, c)
             \/ VerifyWait(o, view)
             \/ ReleaseFails(o, view)
             \/ ReleasePending(o, view)
      PROVE  \A p \in Orders : AwaitsScan(p)
  BY <1>3 DEF VerifyFound, VerifyRetry, VerifyWait, ReleaseFails, ReleasePending,
              AwaitsScan
<1>4. ASSUME NEW view, VerifyRelease(o, view)
      PROVE  \A p \in Orders : AwaitsScan(p)
  <2>1. scan[o] = "READY"
    BY <1>4 DEF VerifyRelease, AwaitsRelease, ReleaseAfterScan
  <2>2. \A p \in Orders : p # o => life'[p] = life[p] /\ rel'[p] = rel[p]
    BY <1>4 DEF VerifyRelease, TypeInv, TypeOK
  <2> QED
    BY <2>1, <2>2 DEF AwaitsScan
<1>5. scan' = scan
  BY DEF Database, SetProject, VerifyFound, VerifyRetry, VerifyWait, VerifyProject,
         ConfirmProject, CheckAiProject, VerifyRelease, ReleaseFails, ReleasePending
<1> QED
  BY <1>1, <1>2, <1>3, <1>4, <1>5, FirstCode DEF Database

\* The scan only advances, and nothing else in the fab releases or closes.
LEMMA ScanStep ==
    ASSUME OwnershipInv, ReleaseAfterScan, [Next]_vars
    PROVE  ReleaseAfterScan'
<1> USE DEF OwnershipInv
<1>1. ASSUME scan' = scan, \A p \in Orders : AwaitsScan(p)
      PROVE  ReleaseAfterScan'
  BY <1>1 DEF ReleaseAfterScan, AwaitsScan
<1>2. ASSUME NEW w \in Workers, SetRound(w) \/ ReleaseRound(w)
      PROVE  ReleaseAfterScan'
  <2>1. scan' = scan
    <3> USE DEF world, mes
    <3>1. ASSUME NEW o, NEW c, Intent(w, o, c)
          PROVE  scan' = scan
      BY <3>1 DEF Intent
    <3>2. ASSUME NEW receipt, NEW effect,
                 SetHoldCall(w, receipt, effect) \/ ReleaseCall(w, receipt, effect)
          PROVE  scan' = scan
      BY <3>2 DEF SetHoldCall, ReleaseCall
    <3>3. ASSUME NEW o, NEW view, SetFinish(w, view) \/ CheckAiSend(w, o, view)
          PROVE  scan' = scan
      BY <3>3 DEF SetFinish, CheckAiSend
    <3>4. CASE SetReceipt(w) \/ ReleaseReceipt(w)
      BY <3>4 DEF SetReceipt, ReleaseReceipt
    <3> QED
      BY <1>2, <3>1, <3>2, <3>3, <3>4
         DEF SetRound, ReleaseRound, SetSend, SetBackup
  <2>2. CASE SetRound(w)
    <3>1. \A p \in Orders : AwaitsScan(p)
      BY <2>2, SetRoundAwaitsScan DEF AwaitsScan
    <3> QED
      BY <1>1, <2>1, <3>1
  <2>3. CASE ReleaseRound(w)
    BY <1>1, <2>1, <2>3, ReleaseRoundAwaitsScan
  <2> QED
    BY <1>2, <2>2, <2>3
<1>3. ASSUME NEW o \in Orders, Database(o)
      PROVE  ReleaseAfterScan'
  BY <1>1, <1>3, DatabaseAwaitsScan
<1>4. CASE Environment
  <2> USE DEF order, ledger, mes, world
  <2>1. /\ rel' = rel
        /\ \A p \in Orders : life'[p] = "CLOSED" => life[p] = "CLOSED"
    BY <1>4 DEF Environment, Crash, SmmChanges, LineReleases, CreateOrder,
         RosterChanges, ManualClose, ScanAdvances, ControlTrips, Resume,
         TypeInv, TypeOK
  <2>2. \A p \in Orders : /\ scan[p] = "READY" => scan'[p] = "READY"
                          /\ scan[p] # "WAITING" => scan'[p] # "WAITING"
    <3>1. ASSUME NEW o \in Orders, ScanAdvances(o)
          PROVE  \A p \in Orders : /\ scan[p] = "READY" => scan'[p] = "READY"
                                   /\ scan[p] # "WAITING" => scan'[p] # "WAITING"
      BY <3>1 DEF ScanAdvances, TypeInv, TypeOK
    <3>2. CASE scan' = scan
      BY <3>2
    <3> QED
      BY <1>4, <3>1, <3>2
         DEF Environment, Crash, SmmChanges, LineReleases, CreateOrder,
             RosterChanges, ManualClose, ControlTrips, Resume
  <2> QED
    BY <2>1, <2>2 DEF ReleaseAfterScan
<1>5. CASE UNCHANGED vars
  BY <1>5 DEF vars, ReleaseAfterScan
<1> QED
  BY <1>2, <1>3, <1>4, <1>5 DEF Next

\* Nothing is released before the scan is over, and nothing CLOSED before every
\* wafer was scanned (derive_state A2-05, A2-09, A2-20, A2-21).
THEOREM ScanComesFirst ==
    ASSUME OneRoundPerLot
    PROVE  Spec => []ReleaseAfterScan
<1>1. OwnershipInv /\ [Next]_vars => OwnershipInv'
  BY OwnershipStep
<1>2. OwnershipInv /\ ReleaseAfterScan /\ [Next]_vars => ReleaseAfterScan'
  BY ScanStep
<1>3. Init => ReleaseAfterScan
  BY DEF Init, ReleaseAfterScan
<1> QED
  BY <1>1, <1>2, <1>3, OwnershipInit, PTL DEF Spec

-----------------------------------------------------------------------------
(* Failures and their alarms *)

Failures == {"HOLD_FAILED", "RELEASE_FAILED", "MANUAL_REVIEW"}

\* A job that writes its decision and opens the incident it names.
LEMMA RaisedIsAlarmed ==
    ASSUME TypeInv, FailureIsAlarmed, NEW o \in Orders, NEW view, NEW chosen,
           NEW d, d = derive_state(Observed(o, view, chosen)),
           Project(o, d), Raise(o, d)
    PROVE  FailureIsAlarmed'
<1>1. life[o] \in Lives
  BY DEF TypeInv, TypeOK
<1>2. d.work \in Failures =>
        d.act = "OPEN_INCIDENT" \/ (work[o] = "MANUAL_REVIEW" /\ d.work = "MANUAL_REVIEW")
  <2> DEFINE s == Observed(o, view, chosen)
  <2>1. s.life = life[o] /\ s.work = work[o]
    BY DEF Observed
  <2>2. d = derive_state(s)
    OBVIOUS
  <2> HIDE DEF s
  <2> SUFFICES ASSUME derive_state(s).work \in Failures
               PROVE  \/ derive_state(s).act = "OPEN_INCIDENT"
                      \/ /\ s.work = "MANUAL_REVIEW"
                         /\ derive_state(s).work = "MANUAL_REVIEW"
    BY <2>1, <2>2
  <2>3. s.life \in Lives
    BY <1>1, <2>1
  <2> QED
    BY <2>3, FailureDecision DEF Failures
<1>3. d.work \in Failures => d.work \in alarms'[o]
  BY <1>2 DEF Raise, TypeInv, TypeOK, FailureIsAlarmed
<1>4. \A p \in Orders : p # o => work'[p] = work[p] /\ alarms'[p] = alarms[p]
  BY DEF Project, Raise, TypeInv, TypeOK
<1>5. work'[o] = d.work
  BY DEF Project, TypeInv, TypeOK
<1> HIDE DEF Project, Raise
<1> QED
  BY <1>3, <1>4, <1>5 DEF FailureIsAlarmed, Failures

\* CONFIRM_HOLD projects with an alarm for HOLD_FAILED only.  An order that
\* waits for its hold has a last command, which is in flight, confirmed, waiting
\* for its retry or refused; none of these is a reason for a review.
LEMMA WaitingIsNotReviewed ==
    ASSUME OwnershipInv, NEW o \in Orders, NEW view, AwaitsVerify(o)
    PROVE  Decision(o, view).work # "MANUAL_REVIEW"
<1> USE DEF OwnershipInv
<1> DEFINE s == Observed(o, view, target[o])
<1> SUFFICES ASSUME derive_state(s).work = "MANUAL_REVIEW"
             PROVE  FALSE
  BY DEF Decision, snapshot
<1>1. /\ s.life = life[o] /\ s.work = work[o] /\ s.cmd = cmd[o]
      /\ s.rel = rel[o] /\ s.bind = bind[o]
  BY DEF Observed
<1>2. life[o] = "OPEN" /\ work[o] # "MANUAL_REVIEW"
  BY DEF AwaitsVerify
<1>3. /\ s.rel.state \notin InFlightStates \cup {"CONFIRMED"}
      /\ Quiet(s)
      /\ ~LineReleased(s)
      /\ ~RetriesExhausted(s)
      /\ AnyRejected(s) => CodesRemain(s) /\ ~OnlyConflicts(s)
  BY <1>1, <1>2, ReviewDecision DEF Lives
<1> HIDE DEF s
<1>4. \A c \in Codes : cmd[o][c].state \notin InFlightStates \cup {"RETRY_WAIT"}
  BY <1>1, <1>3 DEF Quiet
<1>5. work[o] = "HOLD_VERIFY_PENDING"
  BY <1>4 DEF AwaitsVerify, InFlight
<1>6. 1 \in Codes /\ cmd[o][1].state # "NONE"
  BY <1>5, CodesAssumption DEF OrderInv, Tried, Codes
<1>7. \A c \in Codes : cmd[o][c].state \in {"NONE", "REJECTED"}
  <2> SUFFICES ASSUME NEW c \in Codes, cmd[o][c].state \notin {"NONE", "REJECTED"}
               PROVE  FALSE
    OBVIOUS
  <2>1. cmd[o][c].state = "CONFIRMED"
    BY <1>4 DEF TypeInv, TypeOK, SetCommands, ActionStates, InFlightStates
  <2>2. bind[o].status \in {"CONFIRMED", "RELEASE_PENDING"}
    BY <1>2, <2>1 DEF OrderInv, Matched, Holding, Closed
  <2> QED
    BY <1>1, <1>3, <2>2 DEF LineReleased
<1>8. \A c \in Codes : cmd[o][c].state = "REJECTED" =>
        cmd[o][c].why \in {"CODE_CONFLICT", "PERMISSION"}
  <2> SUFFICES ASSUME NEW c \in Codes, cmd[o][c].state = "REJECTED",
                      cmd[o][c].why \notin {"CODE_CONFLICT", "PERMISSION"}
               PROVE  FALSE
    OBVIOUS
  <2>1. cmd[o][c].why \in {"TRANSIENT", "RETRY_EXHAUSTED"}
    <3>1. cmd[o] \in [Codes -> SetCommands]
      BY DEF TypeInv, TypeOK
    <3>2. cmd[o][c] \in SetCommands
      BY <3>1
    <3>3. cmd[o][c].why \in Causes
      BY <3>2 DEF SetCommands
    <3>4. cmd[o][c].why # ""
      BY DEF OrderInv, Matched
    <3> QED
      BY <3>3, <3>4 DEF Causes
  <2>2. \A d \in Codes : d > c => cmd[o][d].state = "NONE"
    BY <2>1 DEF OrderInv, Ladder, Codes
  <2>3. LastSet(s, c)
    BY <1>1, <2>2 DEF LastSet, Attempted
  <2> QED
    BY <1>1, <1>3, <2>1, <2>3 DEF RetriesExhausted
<1>9. AnyRejected(s)
  BY <1>1, <1>6, <1>7, <1>8 DEF AnyRejected, RejectedByMes
<1>10. ~PermissionFailed(s) /\ ~OnlyConflicts(s)
  BY <1>3, <1>9 DEF CodesRemain
<1> QED
  BY <1>1, <1>8, <1>10 DEF PermissionFailed, OnlyConflicts, RejectedByMes

\* It does not call a release failed either: the hold is not seen.
LEMMA WaitingIsAlarmed ==
    ASSUME OwnershipInv, FailureIsAlarmed, NEW o \in Orders, NEW view,
           VerifyProject(o, view)
    PROVE  FailureIsAlarmed'
<1> USE DEF OwnershipInv
<1> DEFINE d == Decision(o, view)
<1>1. AwaitsVerify(o) /\ Project(o, d)
      /\ alarms' = [alarms EXCEPT ![o] = IF d.work = "HOLD_FAILED"
                                         THEN @ \cup {d.work} ELSE @]
      /\ (~view.seen \/ bind[o].code \notin mesOwn[LotOf[o]])
  BY DEF VerifyProject
<1>2. d.work # "MANUAL_REVIEW"
  BY <1>1, WaitingIsNotReviewed
<1>3. d.work # "RELEASE_FAILED"
  <2> DEFINE s == Observed(o, view, target[o])
  <2>1. /\ s.life = life[o] /\ s.seen = view.seen /\ s.bind = bind[o]
        /\ s.mes = mesOwn[LotOf[o]]
    BY DEF Observed
  <2>2. life[o] \in Lives
    BY DEF TypeInv, TypeOK
  <2>3. d = derive_state(s)
    BY DEF Decision, snapshot
  <2> HIDE DEF s, d
  <2>4. ~(s.seen /\ OwnHold(s))
    BY <1>1, <2>1 DEF OwnHold
  <2> QED
    BY <2>1, <2>2, <2>3, <2>4, ReleaseFailureDecision
<1> HIDE DEF d
<1>4. d.work = "HOLD_FAILED" => d.work \in alarms'[o]
  BY <1>1 DEF TypeInv, TypeOK
<1>5. work'[o] = d.work
      /\ \A p \in Orders : p # o => work'[p] = work[p] /\ alarms'[p] = alarms[p]
  BY <1>1 DEF Project, TypeInv, TypeOK
<1> QED
  BY <1>2, <1>3, <1>4, <1>5 DEF FailureIsAlarmed

\* What a job leaves alone keeps its alarm; so do the states that are none of
\* the three.
LEMMA OthersAreAlarmed ==
    ASSUME TypeInv, FailureIsAlarmed, NEW o \in Orders,
           \A p \in Orders : p # o => work'[p] = work[p] /\ alarms'[p] = alarms[p],
           \/ work'[o] = work[o] /\ alarms'[o] = alarms[o]
           \/ work'[o] \notin Failures
           \/ work'[o] \in alarms'[o]
    PROVE  FailureIsAlarmed'
  BY DEF FailureIsAlarmed, Failures

LEMMA SetRoundAlarms ==
    ASSUME OwnershipInv, FailureIsAlarmed, NEW w \in Workers, SetRound(w)
    PROVE  FailureIsAlarmed'
<1> USE DEF OwnershipInv, order
<1>1. ASSUME NEW o \in Orders, NEW c, Intent(w, o, c)
      PROVE  FailureIsAlarmed'
  <2>1. work' = [work EXCEPT ![o] = "HOLD_VERIFY_PENDING"] /\ alarms' = alarms
    BY <1>1 DEF Intent
  <2> QED
    BY <2>1, OthersAreAlarmed DEF TypeInv, TypeOK, Failures
<1>2. ASSUME worker[w].pc = "set_again", NEW view, SetFinish(w, view)
      PROVE  FailureIsAlarmed'
  <2> PICK o \in Orders : o = worker[w].order
    BY <1>2 DEF TypeInv, JobsHaveOrders
  <2> DEFINE d == Decision(o, view)
  <2>1. /\ Raise(o, d)
        /\ IF d.act = "OPEN_INCIDENT" THEN Project(o, d) ELSE work' = work
    BY <1>2 DEF SetFinish
  <2>2. d = derive_state(Observed(o, view, target[o]))
    BY DEF Decision, snapshot
  <2> HIDE DEF d
  <2>3. CASE d.act = "OPEN_INCIDENT"
    BY <2>1, <2>2, <2>3, RaisedIsAlarmed
  <2>4. CASE d.act # "OPEN_INCIDENT"
    BY <2>1, <2>4 DEF Raise, TypeInv, TypeOK, FailureIsAlarmed
  <2> QED
    BY <2>3, <2>4
<1>3. ASSUME work' = work, alarms' = alarms
      PROVE  FailureIsAlarmed'
  BY <1>3 DEF FailureIsAlarmed
<1>4. ASSUME NEW receipt, NEW effect, SetHoldCall(w, receipt, effect)
      PROVE  FailureIsAlarmed'
  BY <1>3, <1>4 DEF SetHoldCall
<1>5. CASE SetReceipt(w)
  BY <1>3, <1>5 DEF SetReceipt
<1>6. ASSUME worker[w].pc = "set_again", NEW view, NEW c, SetBackup(w, view, c)
      PROVE  FailureIsAlarmed'
  <2> PICK o \in Orders : o = worker[w].order
    BY <1>6 DEF TypeInv, JobsHaveOrders
  <2> QED
    BY <1>1, <1>6 DEF SetBackup
<1> QED
  BY <1>1, <1>2, <1>4, <1>5, <1>6 DEF SetRound, SetSend

LEMMA ReleaseRoundAlarms ==
    ASSUME TypeInv, FailureIsAlarmed, NEW w \in Workers, ReleaseRound(w)
    PROVE  FailureIsAlarmed'
<1> USE DEF order
<1>1. ASSUME NEW o \in Orders, NEW view, CheckAiSend(w, o, view)
      PROVE  FailureIsAlarmed'
  <2>1. alarms' = alarms
    BY <1>1 DEF CheckAiSend
  <2>2. \/ work' = [work EXCEPT ![o] = "RELEASE_SENT"]
        \/ work' = [work EXCEPT ![o] = @]
    BY <1>1 DEF CheckAiSend, ReleaseIntent, ReleaseRetry
  <2> QED
    BY <2>1, <2>2, OthersAreAlarmed DEF TypeInv, TypeOK, Failures
<1>2. ASSUME NEW receipt, NEW effect, ReleaseCall(w, receipt, effect)
      PROVE  FailureIsAlarmed'
  BY <1>2 DEF ReleaseCall, FailureIsAlarmed
<1>3. CASE ReleaseReceipt(w)
  BY <1>3 DEF ReleaseReceipt, FailureIsAlarmed
<1> QED
  BY <1>1, <1>2, <1>3 DEF ReleaseRound

\* The jobs of one transaction each.
LEMMA DatabaseAlarms ==
    ASSUME OwnershipInv, FailureIsAlarmed, NEW o \in Orders, Database(o)
    PROVE  FailureIsAlarmed'
<1> USE DEF OwnershipInv
<1>1. ASSUME NEW first, NEW second, SetProject(o, first, second)
      PROVE  FailureIsAlarmed'
  <2>1. PICK view, chosen :
              SetDecision(o, first, second) = derive_state(Observed(o, view, chosen))
    BY DEF SetDecision, Targeted, Decision, snapshot
  <2>2. /\ Project(o, SetDecision(o, first, second))
        /\ Raise(o, SetDecision(o, first, second))
    BY <1>1 DEF SetProject
  <2> QED
    BY <2>1, <2>2, RaisedIsAlarmed
<1>2. ASSUME NEW view, VerifyFound(o, view)
      PROVE  FailureIsAlarmed'
  <2>1. work' = [work EXCEPT ![o] = "WAIT_AI"] /\ alarms' = alarms
    BY <1>2 DEF VerifyFound
  <2> QED
    BY <2>1, OthersAreAlarmed DEF TypeInv, TypeOK, Failures
<1>3. ASSUME NEW view, NEW c, VerifyRetry(o, view, c)
      PROVE  FailureIsAlarmed'
  <2> DEFINE again == cmd[o][c].attempts < MaxAttempts
  <2>1. /\ work' = [work EXCEPT ![o] = IF again THEN "NEED_HOLD" ELSE "HOLD_FAILED"]
        /\ alarms' = [alarms EXCEPT ![o] = IF again THEN @
                                           ELSE @ \cup {"HOLD_FAILED"}]
    BY <1>3 DEF VerifyRetry
  <2> HIDE DEF again
  <2> QED
    BY <2>1, OthersAreAlarmed DEF TypeInv, TypeOK, Failures
<1>4. ASSUME NEW view, VerifyWait(o, view)
      PROVE  FailureIsAlarmed'
  <2>1. work' = [work EXCEPT ![o] = "HOLD_VERIFY_PENDING"] /\ alarms' = alarms
    BY <1>4 DEF VerifyWait
  <2> QED
    BY <2>1, OthersAreAlarmed DEF TypeInv, TypeOK, Failures
<1>5. ASSUME NEW view, ConfirmProject(o, view)
      PROVE  FailureIsAlarmed'
  BY <1>5, RaisedIsAlarmed DEF ConfirmProject, Decision, snapshot
<1>6. ASSUME NEW view, CheckAiProject(o, view)
      PROVE  FailureIsAlarmed'
  <2> DEFINE d == Decision(o, view)
  <2>1. Raise(o, d) /\ (Project(o, d) \/ work' = work)
    BY <1>6 DEF CheckAiProject
  <2>2. d = derive_state(Observed(o, view, target[o]))
    BY DEF Decision, snapshot
  <2> HIDE DEF d
  <2>3. CASE Project(o, d)
    BY <2>1, <2>2, <2>3, RaisedIsAlarmed
  <2>4. CASE work' = work
    BY <2>1, <2>4 DEF Raise, TypeInv, TypeOK, FailureIsAlarmed
  <2> QED
    BY <2>1, <2>3, <2>4
<1>7. ASSUME NEW view, VerifyRelease(o, view)
      PROVE  FailureIsAlarmed'
  <2>1. work' = [work EXCEPT ![o] = "CLOSED"] /\ alarms' = alarms
    BY <1>7 DEF VerifyRelease
  <2> QED
    BY <2>1, OthersAreAlarmed DEF TypeInv, TypeOK, Failures
<1>8. ASSUME NEW view, ReleaseFails(o, view)
      PROVE  FailureIsAlarmed'
  <2>1. /\ work' = [work EXCEPT ![o] = "RELEASE_FAILED"]
        /\ alarms' = [alarms EXCEPT ![o] = @ \cup {"RELEASE_FAILED"}]
    BY <1>8 DEF ReleaseFails
  <2> QED
    BY <2>1, OthersAreAlarmed DEF TypeInv, TypeOK
<1>9. ASSUME NEW view, ReleasePending(o, view)
      PROVE  FailureIsAlarmed'
  <2>1. /\ alarms' = alarms
        /\ \/ work' = [work EXCEPT ![o] = "RELEASE_VERIFY_PENDING"]
           \/ work' = [work EXCEPT ![o] = "OBSERVATION_UNKNOWN"]
    BY <1>9 DEF ReleasePending
  <2> QED
    BY <2>1, OthersAreAlarmed DEF TypeInv, TypeOK, Failures
<1> QED
  BY <1>1, <1>2, <1>3, <1>4, <1>5, <1>6, <1>7, <1>8, <1>9, WaitingIsAlarmed
     DEF Database

LEMMA EnvironmentAlarms ==
    ASSUME TypeInv, FailureIsAlarmed, Environment
    PROVE  FailureIsAlarmed'
<1> USE DEF order
<1>1. ASSUME NEW o \in Orders, CreateOrder(o)
      PROVE  FailureIsAlarmed'
  <2>1. work' = [work EXCEPT ![o] = "NEED_HOLD"] /\ alarms' = alarms
    BY <1>1 DEF CreateOrder
  <2> QED
    BY <2>1, OthersAreAlarmed DEF TypeInv, TypeOK, Failures
<1>2. ASSUME NEW o \in Orders, RosterChanges(o)
      PROVE  FailureIsAlarmed'
  <2>1. /\ work' = [work EXCEPT ![o] = "MANUAL_REVIEW"]
        /\ alarms' = [alarms EXCEPT ![o] = @ \cup {"MANUAL_REVIEW"}]
    BY <1>2 DEF RosterChanges
  <2> QED
    BY <2>1, OthersAreAlarmed DEF TypeInv, TypeOK
<1>3. ASSUME NEW o \in Orders, ManualClose(o)
      PROVE  FailureIsAlarmed'
  <2>1. work' = [work EXCEPT ![o] = "MANUAL_CLOSED"] /\ alarms' = alarms
    BY <1>3 DEF ManualClose
  <2> QED
    BY <2>1, OthersAreAlarmed DEF TypeInv, TypeOK, Failures
<1>4. CASE work' = work /\ alarms' = alarms
  BY <1>4 DEF FailureIsAlarmed
<1> QED
  BY <1>1, <1>2, <1>3, <1>4
     DEF Environment, Crash, SmmChanges, LineReleases, ScanAdvances,
         ControlTrips, Resume

\* An order that stands as failed or under review has raised that alarm, on
\* every path that writes the state (open_incident, verify_hold, verify_release).
THEOREM FailuresAreAlarmed ==
    ASSUME OneRoundPerLot
    PROVE  Spec => []FailureIsAlarmed
<1>1. OwnershipInv /\ [Next]_vars => OwnershipInv'
  BY OwnershipStep
<1>2. OwnershipInv /\ FailureIsAlarmed /\ [Next]_vars => FailureIsAlarmed'
  <2> SUFFICES ASSUME OwnershipInv, FailureIsAlarmed, [Next]_vars
               PROVE  FailureIsAlarmed'
    OBVIOUS
  <2>1. CASE UNCHANGED vars
    BY <2>1 DEF vars, order, FailureIsAlarmed
  <2>2. CASE Next
    BY <2>2, SetRoundAlarms, ReleaseRoundAlarms, DatabaseAlarms,
       EnvironmentAlarms DEF Next, OwnershipInv
  <2> QED
    BY <2>1, <2>2
<1>3. Init => FailureIsAlarmed
  BY DEF Init, FailureIsAlarmed
<1> QED
  BY <1>1, <1>2, <1>3, OwnershipInit, PTL DEF Spec

-----------------------------------------------------------------------------
(* Reviews *)

\* an order under review whose release was not asked for
InReview(o) ==
    life[o] = "OPEN" /\ work[o] = "MANUAL_REVIEW" /\ rel[o].state = "NONE"

\* What ReviewIsKept asks of the step of one order.
StaysInReview(o) ==
    InReview(o) => \/ work'[o] = "MANUAL_REVIEW" /\ rel'[o].state = "NONE"
                   \/ life'[o] = "MANUAL_CLOSED"

\* Nothing is done about it (A1-07).
LEMMA LeftAlone ==
    ASSUME NEW o, work[o] = "MANUAL_REVIEW", NEW view
    PROVE  Decision(o, view) = Rule("A1-07", "MANUAL_REVIEW", "NONE")
  BY DEF Decision, snapshot, Observed, derive_state

\* A step that writes to one order only, which is not under review.
LEMMA OthersStayInReview ==
    ASSUME NEW o \in Orders, ~InReview(o),
           \A p \in Orders : p # o => work'[p] = work[p] /\ rel'[p] = rel[p]
    PROVE  \A p \in Orders : StaysInReview(p)
  BY DEF StaysInReview, InReview

\* SET_DEFAULT_HOLD sends only for orders that still need a hold.
LEMMA SetRoundLeavesReview ==
    ASSUME TypeInv, NEW w \in Workers, SetRound(w)
    PROVE  \A p \in Orders : StaysInReview(p)
<1> USE DEF order, ledger, mes, world
<1>1. ASSUME NEW o \in Orders, NEW c \in Codes, Intent(w, o, c), ~InReview(o)
      PROVE  \A p \in Orders : StaysInReview(p)
  <2>1. rel' = rel /\ \A p \in Orders : p # o => work'[p] = work[p]
    BY <1>1 DEF Intent, TypeInv, TypeOK
  <2> QED
    BY <1>1, <2>1, OthersStayInReview
<1>2. ASSUME NEW o \in Orders, NEW c \in Codes, NEW first, NEW second,
             SetSend(w, o, first, second, c)
      PROVE  \A p \in Orders : StaysInReview(p)
  BY <1>1, <1>2 DEF SetSend, SetWork, InReview
<1>3. ASSUME NEW view, NEW c \in Codes, SetBackup(w, view, c)
      PROVE  \A p \in Orders : StaysInReview(p)
  <2> DEFINE o == worker[w].order
  <2>1. o \in Orders /\ Decision(o, view).rule = "A1-04" /\ Intent(w, o, c)
    BY <1>3 DEF SetBackup, TypeInv, JobsHaveOrders
  <2>2. work[o] # "MANUAL_REVIEW"
    BY <2>1, LeftAlone DEF Rule
  <2> HIDE DEF o
  <2> QED
    BY <1>1, <2>1, <2>2 DEF InReview
<1>4. ASSUME NEW view, SetFinish(w, view)
      PROVE  \A p \in Orders : StaysInReview(p)
  <2> DEFINE o == worker[w].order
             d == Decision(o, view)
  <2>1. o \in Orders /\ rel' = rel
    BY <1>4 DEF SetFinish, TypeInv, JobsHaveOrders
  <2>2. d.act = "OPEN_INCIDENT" => work[o] # "MANUAL_REVIEW"
    BY LeftAlone DEF Rule
  <2>3. \/ work' = work
        \/ d.act = "OPEN_INCIDENT" /\ Project(o, d)
    BY <1>4 DEF SetFinish
  <2> HIDE DEF o, d
  <2>4. \A p \in Orders : work'[p] = work[p] \/ (p = o /\ work[o] # "MANUAL_REVIEW")
    BY <2>1, <2>2, <2>3 DEF Project, TypeInv, TypeOK
  <2> QED
    BY <2>1, <2>4 DEF StaysInReview, InReview
<1>5. ASSUME NEW receipt, NEW effect, SetHoldCall(w, receipt, effect) \/ SetReceipt(w)
      PROVE  \A p \in Orders : StaysInReview(p)
  BY <1>5 DEF SetHoldCall, SetReceipt, StaysInReview, InReview
<1> QED
  BY <1>2, <1>3, <1>4, <1>5 DEF SetRound

\* CHECK_AI asks for no release of it, and a release that is being called was
\* asked for before.
LEMMA ReleaseRoundLeavesReview ==
    ASSUME TypeInv, \A p \in Orders : OrderInv(p), NEW w \in Workers,
           ReleaseRound(w)
    PROVE  \A p \in Orders : StaysInReview(p)
<1> USE DEF order, ledger, mes, world
<1>1. ASSUME NEW o \in Orders, NEW view, CheckAiSend(w, o, view)
      PROVE  \A p \in Orders : StaysInReview(p)
  <2>1. work[o] # "MANUAL_REVIEW"
    BY <1>1, LeftAlone DEF CheckAiSend, Rule
  <2>2. \A p \in Orders : p # o => work'[p] = work[p] /\ rel'[p] = rel[p]
    BY <1>1 DEF CheckAiSend, ReleaseIntent, ReleaseRetry, TypeInv, TypeOK
  <2> QED
    BY <2>1, <2>2, OthersStayInReview DEF InReview
<1>2. ASSUME NEW receipt, NEW effect, ReleaseCall(w, receipt, effect)
      PROVE  \A p \in Orders : StaysInReview(p)
  BY <1>2 DEF ReleaseCall, StaysInReview, InReview
<1>3. CASE ReleaseReceipt(w)
  <2> PICK o \in Orders : o = worker[w].order
    BY <1>3 DEF ReleaseReceipt, TypeInv, JobsHaveOrders
  <2>1. rel[o].state # "NONE"
    BY <1>3 DEF ReleaseReceipt, OrderInv, Releaser, Releasing
  <2>2. work' = work /\ \A p \in Orders : p # o => rel'[p] = rel[p]
    BY <1>3 DEF ReleaseReceipt, TypeInv, TypeOK
  <2> QED
    BY <2>1, <2>2, OthersStayInReview DEF InReview
<1> QED
  BY <1>1, <1>2, <1>3 DEF ReleaseRound

\* The jobs that verify and project pass it by, or write MANUAL_REVIEW again.
LEMMA DatabaseLeavesReview ==
    ASSUME TypeInv, NEW o \in Orders, Database(o)
    PROVE  \A p \in Orders : StaysInReview(p)
<1> USE DEF order, ledger, mes, world
<1>1. ASSUME NEW first, NEW second, SetProject(o, first, second)
      PROVE  \A p \in Orders : StaysInReview(p)
  <2>1. /\ work[o] # "MANUAL_REVIEW" /\ rel' = rel
        /\ \A p \in Orders : p # o => work'[p] = work[p]
    BY <1>1 DEF SetProject, SetWork, Project, TypeInv, TypeOK
  <2> QED
    BY <2>1, OthersStayInReview DEF InReview
<1>2. ASSUME NEW view, NEW c \in Codes,
             \/ VerifyFound(o, view) \/ VerifyRetry(o, view, c)
             \/ VerifyWait(o, view) \/ VerifyProject(o, view)
      PROVE  \A p \in Orders : StaysInReview(p)
  <2>1. AwaitsVerify(o) /\ rel' = rel
    BY <1>2 DEF VerifyFound, VerifyRetry, VerifyWait, VerifyProject, NotFound
  <2>2. \A p \in Orders : p # o => work'[p] = work[p]
    BY <1>2 DEF VerifyFound, VerifyRetry, VerifyWait, VerifyProject, Project,
                TypeInv, TypeOK
  <2> QED
    BY <2>1, <2>2, OthersStayInReview DEF AwaitsVerify, InReview
<1>3. ASSUME NEW view, ConfirmProject(o, view) \/ CheckAiProject(o, view)
      PROVE  \A p \in Orders : StaysInReview(p)
  <2> DEFINE d == Decision(o, view)
  <2>1. /\ rel' = rel
        /\ \/ work' = work
           \/ Project(o, d) /\ d.work # "MANUAL_REVIEW"
    BY <1>3 DEF ConfirmProject, CheckAiProject
  <2>2. d.work # "MANUAL_REVIEW" => work[o] # "MANUAL_REVIEW"
    BY LeftAlone DEF Rule
  <2> HIDE DEF d
  <2>3. \A p \in Orders : work'[p] = work[p] \/ (p = o /\ work[o] # "MANUAL_REVIEW")
    BY <2>1, <2>2 DEF Project, TypeInv, TypeOK
  <2> QED
    BY <2>1, <2>3 DEF StaysInReview, InReview
<1>4. ASSUME NEW view,
             \/ VerifyRelease(o, view) \/ ReleaseFails(o, view)
             \/ ReleasePending(o, view)
      PROVE  \A p \in Orders : StaysInReview(p)
  <2>1. rel[o].state # "NONE"
    BY <1>4 DEF VerifyRelease, ReleaseFails, ReleasePending, AwaitsRelease
  <2>2. \A p \in Orders : p # o => work'[p] = work[p] /\ rel'[p] = rel[p]
    BY <1>4 DEF VerifyRelease, ReleaseFails, ReleasePending, TypeInv, TypeOK
  <2> QED
    BY <2>1, <2>2, OthersStayInReview DEF InReview
<1> QED
  BY <1>1, <1>2, <1>3, <1>4, FirstCode DEF Database

LEMMA EnvironmentLeavesReview ==
    ASSUME TypeInv, Environment
    PROVE  \A p \in Orders : StaysInReview(p)
<1> USE DEF order, ledger, mes, world
<1>1. ASSUME NEW o \in Orders, CreateOrder(o) \/ RosterChanges(o) \/ ManualClose(o)
      PROVE  \A p \in Orders : StaysInReview(p)
  BY <1>1 DEF CreateOrder, RosterChanges, ManualClose, StaysInReview, InReview,
              TypeInv, TypeOK
<1>2. CASE work' = work /\ rel' = rel
  BY <1>2 DEF StaysInReview, InReview
<1> QED
  BY <1>1, <1>2 DEF Environment, Crash, SmmChanges, LineReleases, ScanAdvances,
         ControlTrips, Resume

\* An order under review whose release was not asked for is left to the
\* operator by every job, whatever was under way for it (A1-07).
THEOREM ReviewsAreKept ==
    ASSUME OneRoundPerLot
    PROVE  Spec => ReviewIsKept
<1>1. OwnershipInv /\ [Next]_vars => OwnershipInv'
  BY OwnershipStep
<1>2. OwnershipInv /\ [Next]_vars => [\A o \in Orders : StaysInReview(o)]_vars
  BY SetRoundLeavesReview, ReleaseRoundLeavesReview, DatabaseLeavesReview,
     EnvironmentLeavesReview DEF Next, OwnershipInv
<1>3. Spec => [][\A o \in Orders : StaysInReview(o)]_vars
  BY <1>1, <1>2, OwnershipInit, PTL DEF Spec
<1> QED
  BY <1>3 DEF ReviewIsKept, StaysInReview, InReview
=============================================================================
