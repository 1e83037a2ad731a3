------------------------------- MODULE Defense -------------------------------
(***************************************************************************)
(* DEFENSE, the incidents and their mails, composed with the jobs of       *)
(* HoldOrder.  Every transaction of a job writes the incidents of its      *)
(* decision; DEFENSE looks at all orders, opens and resolves incidents,    *)
(* disables new holds, and sends the mails, all in one transaction that    *)
(* commits at the end of the pass.                                         *)
(*                                                                         *)
(* The database is SQLite in WAL mode with deferred transactions.  A pass  *)
(* reads the state committed when it began and takes the write lock with   *)
(* its first write, which fails when somebody committed in between.  A     *)
(* failure before anything was sent changes nothing, so a pass that has    *)
(* something to write before its first mail is given the lock at once.     *)
(***************************************************************************)
EXTENDS HoldOrder, Sequences, FiniteSets, SequencesExt

CONSTANTS Sweepers,     \* DEFENSE processes that may run at the same time
          PageSize,     \* mails looked at in a pass; 100 in the code
          Threshold,    \* settings.disable_after_overdue_lots
          MaxBroken,    \* broken passes told apart
          Faults

AllFaults == {"notifier", "stall", "coverage", "kill"}

ASSUME DefenseAssumption ==
    /\ PageSize \in Nat \ {0}
    /\ Threshold \in Nat \ {0}
    /\ MaxBroken \in Nat
    /\ Faults \subseteq AllFaults
    /\ IsFiniteSet(Lots) /\ IsFiniteSet(Orders)

VARIABLES
    book,       \* the incident table: rows, and their order by first_seen_at
    old,        \* the binding's hold is older than watchdog_minutes
    late,       \* its release was asked for release_verify_overdue_minutes ago
    sweep,      \* what each DEFENSE process is doing
    letters,    \* mails that arrived, by incident
    broken      \* passes that sent or wrote something and did not commit

ages == <<old, late>>
dvars == <<vars, book, old, late, sweep, letters, broken>>

-----------------------------------------------------------------------------
(* The incident table *)

OrderTypes == {"HOLD_FAILED", "RELEASE_FAILED", "MANUAL_REVIEW",
               "DATA_UNAVAILABLE", "HOLD_OVERDUE", "STATE_CONFLICT",
               "RELEASE_VERIFY_OVERDUE"}
SystemTypes == {"AGENT_STALL", "COVERAGE_MISMATCH", "CONTROL_DISABLED"}

Order(o, type) == <<o, type>>
System(type) == <<"system", type>>

Keys == (Orders \X OrderTypes) \cup ({"system"} \X SystemTypes)
          \cup (Lots \X {"ORPHAN_HOLD"})

ResolveSkip == {"STATE_CONFLICT", "AGENT_STALL", "CONTROL_DISABLED", "ORPHAN_HOLD",
                "RELEASE_VERIFY_OVERDUE"}

Rows == [status : {"NONE", "OPEN", "RESOLVED"},
         mail : {"NONE", "PENDING", "FAILED", "SENT"},
         tries : Nat]

NoRow == [status |-> "NONE", mail |-> "NONE", tries |-> 0]
NewRow == [status |-> "OPEN", mail |-> "PENDING", tries |-> 0]

Empty == [row |-> [k \in Keys |-> NoRow], queue |-> <<>>]

\* open_incident: a row that exists is left as it is, whatever its status; a
\* new one gets a mail.  The rows of one pass have the same first_seen_at.
Open(b, keys) ==
    LET new == {k \in keys : b.row[k].status = "NONE"} IN
    [row |-> [k \in Keys |-> IF k \in new THEN NewRow ELSE b.row[k]],
     queue |-> b.queue \o SetToSeq(new)]

Resolve(b, keys) ==
    [row |-> [k \in Keys |-> IF k \in keys /\ b.row[k].status = "OPEN"
                             THEN [b.row[k] EXCEPT !.status = "RESOLVED"]
                             ELSE b.row[k]],
     queue |-> b.queue]

\* the incidents maybe_resolve_order_incidents closes
Ordinary(o) == {Order(o, type) : type \in OrderTypes \ ResolveSkip}

\* slip: a mail that was sent stays in the list
EverySent(b) == {i \in DOMAIN b.queue : b.row[b.queue[i]].mail # "NONE"}

\* list_pending, as places in the queue; a pass later than the one that failed
\* finds the retry due
Pending(b) ==
    {i \in DOMAIN b.queue : b.row[b.queue[i]].mail \in {"PENDING", "FAILED"}}

\* slip: one attempt too many
TooOften(row) == row.tries > MaxAttempts

Exhausted(row) == row.tries >= MaxAttempts

\* What a pass will send.  A mail that has failed often enough is passed over,
\* but stays in the list and takes its place on the page.
Page(b) ==
    {i \in Pending(b) : /\ Cardinality({j \in Pending(b) : j <= i}) <= PageSize
                        /\ ~Exhausted(b.row[b.queue[i]])}

\* slip: a failure is not counted
Uncounted(row, ok) ==
    [status |-> row.status, mail |-> IF ok THEN "SENT" ELSE "FAILED",
     tries |-> row.tries]

\* mark_sent, mark_failed
Mark(row, ok) ==
    [status |-> row.status, mail |-> IF ok THEN "SENT" ELSE "FAILED",
     tries |-> IF ok THEN row.tries ELSE row.tries + 1]

Marked(b, k, ok) ==
    [row |-> [b.row EXCEPT ![k] = Mark(@, ok)], queue |-> b.queue]

-----------------------------------------------------------------------------
(* The jobs' transactions *)

Unlocked == \A d \in Sweepers : ~sweep[d].locked

Commits(b) ==
    /\ Unlocked
    /\ book' = b
    /\ sweep' = [d \in Sweepers |-> [sweep[d] EXCEPT !.fresh = FALSE]]
    /\ UNCHANGED <<letters, broken>>

\* the incidents a step of HoldOrder raised under the name of a work state
Raised ==
    Open(book, UNION {{Order(o, type) : type \in alarms'[o] \ alarms[o]} :
                        o \in Orders})

\* a binding's age starts with its command and again with its confirmation,
\* that of a release with each request
Clocks ==
    /\ old' = [o \in Orders |->
                 /\ old[o]
                 /\ bind'[o] # bind[o] =>
                      bind'[o].status \notin {"PENDING", "CONFIRMED"}]
    /\ late' = [o \in Orders |->
                  late[o] /\ ~(/\ rel'[o] # rel[o]
                               /\ rel'[o].state = "PREPARED"
                               /\ bind'[o].status = "RELEASE_PENDING")]

\* a transaction that writes no incident but those of its decision
Plainly == Commits(Raised) /\ Clocks

\* maybe_resolve_order_incidents, when every wafer has its scan time
WhenScanned(b, o, view) ==
    IF view.scan \in {"DWELL", "READY"} THEN Resolve(b, Ordinary(o)) ELSE b

CheckAiPass(o, view) ==
    CheckAiProject(o, view) /\ Commits(WhenScanned(Raised, o, view)) /\ Clocks

CheckAiRelease(w, o, view) ==
    /\ CheckAiSend(w, o, view)
    /\ Commits(IF worker'[w] = worker[w] THEN WhenScanned(Raised, o, view)
               ELSE Raised)
    /\ Clocks

CheckAiReceipt(w, view) ==
    /\ ReleaseReceipt(w)
    /\ Commits(WhenScanned(Raised, worker[w].order, view))
    /\ Clocks

\* slip: a release counts as late only after MES took it
TakenAndLate(o) ==
    life[o] = "OPEN" /\ rel[o].state = "ACKNOWLEDGED" /\ late[o]

\* maybe_open_release_verify_overdue
IsLate(o) == life[o] = "OPEN" /\ InFlight(rel[o]) /\ late[o]

LateRelease(o) ==
    IF IsLate(o) THEN {Order(o, "RELEASE_VERIFY_OVERDUE")} ELSE {}

\* slip: closing leaves the incident open
StaysOverdue(b, o) == b

NoLongerOverdue(b, o) == Resolve(b, {Order(o, "RELEASE_VERIFY_OVERDUE")})

\* CONFIRM_RELEASE; an order it leaves as it is may still be late
ConfirmReleasePass(o, view) ==
    /\ \/ /\ VerifyRelease(o, view)
          /\ Commits(NoLongerOverdue(Open(Raised, LateRelease(o)), o))
       \/ /\ ReleaseFails(o, view)
          /\ Commits(IF rel[o].state = "REJECTED"
                     THEN NoLongerOverdue(Raised, o)
                     ELSE Open(Raised, LateRelease(o)))
       \/ /\ ReleasePending(o, view)
          /\ Commits(Open(Raised, LateRelease(o)))
       \/ /\ AwaitsRelease(o)
          /\ view.seen
          /\ \/ Gone(o, view) /\ rel[o].state = "UNKNOWN"
                  /\ ~LotIsFree(snapshot(o, view))
             \/ ~Gone(o, view) /\ rel[o].state = "PREPARED"
                  /\ rel[o].attempts = 0
          /\ UNCHANGED vars
          /\ Commits(Open(book, LateRelease(o)))
    /\ Clocks

-----------------------------------------------------------------------------
(* The pass of DEFENSE *)

NoPass == [pc |-> "idle", book |-> Empty, control |-> "ENABLED",
           page |-> {}, locked |-> FALSE, fresh |-> FALSE]

Overdue(o) ==
    /\ life[o] \notin {"ABSENT", "CLOSED"}
    /\ bind[o].status \in {"CONFIRMED", "PENDING"}
    /\ old[o]

\* slip: a hold that is being released counts as well
OldLots == {LotOf[o] : o \in {p \in Orders : life[p] = "OPEN" /\ old[p]}}

OverdueLots == {LotOf[o] : o \in {p \in Orders : Overdue(p)}}

Trips == Cardinality(OverdueLots) >= Threshold /\ control = "ENABLED"

\* what DEFENSE reports of one order
Report(o, view) ==
    LateRelease(o)
      \cup (IF life[o] = "CLOSED" /\ OwnHold(snapshot(o, view))
            THEN {Order(o, "STATE_CONFLICT")} ELSE {})
      \cup (IF Overdue(o) THEN {Order(o, "HOLD_OVERDUE")} ELSE {})
      \cup (IF life[o] \in {"OPEN", "MANUAL_CLOSED"} /\ ~view.seen
            THEN {Order(o, "DATA_UNAVAILABLE")} ELSE {})

\* slip: only a confirmed hold has an owner
Unconfirmed ==
    {<<l, "ORPHAN_HOLD">> : l \in
       {m \in Lots : \E c \in mesOwn[m] : \A o \in Orders :
          LotOf[o] = m => bind[o].status # "CONFIRMED" \/ bind[o].code # c}}

\* a hold of the agent that no order's binding names
Orphans ==
    {<<l, "ORPHAN_HOLD">> : l \in
       {m \in Lots : \E c \in mesOwn[m] : \A o \in Orders :
          LotOf[o] = m => bind[o].status = "NONE" \/ bind[o].code # c}}

\* the incidents of a pass, and what is resolved in it; reports holds what was
\* found of the system as a whole
Watched(view, reports) ==
    LET opened == Open(book, (UNION {Report(o, view[o]) : o \in Orders})
                               \cup reports
                               \cup (IF Trips THEN {System("CONTROL_DISABLED")}
                                     ELSE {}))
        done == {o \in Orders : /\ life[o] \in {"OPEN", "MANUAL_CLOSED"}
                                /\ view[o].scan \in {"DWELL", "READY"}} IN
    Resolve(opened, UNION {Ordinary(o) : o \in done})

\* what the pass may find wrong with the system as a whole
Reports ==
    {orphans \cup others :
       orphans \in {Orphans} \cup (IF "query" \in Hazards THEN {{}} ELSE {}),
       others \in SUBSET
         ((IF "stall" \in Faults THEN {System("AGENT_STALL")} ELSE {})
           \cup (IF "coverage" \in Faults THEN {System("COVERAGE_MISMATCH")}
                 ELSE {}))}

Answers == {view \in [Orders -> UNION {Views(o) : o \in Orders}] :
              \A o \in Orders : view[o] \in Views(o)}

\* the first part of a pass, up to the mails
Watch(d, view, reports) ==
    LET b == Watched(view, reports)
        writes == b # book \/ Trips IN
    /\ sweep[d].pc = "idle"
    /\ writes => Unlocked
    /\ sweep' = [sweep EXCEPT ![d] =
                   [pc |-> "mail", book |-> b,
                    control |-> IF Trips THEN "DISABLED_NEW_HOLD" ELSE control,
                    page |-> Page(b), locked |-> writes, fresh |-> TRUE]]
    /\ UNCHANGED <<vars, book, ages, letters, broken>>

Cut(n) == IF n < MaxBroken THEN n + 1 ELSE n

\* A mail goes out, or not, and is marked; when the mark is the first write of
\* a pass and the database has moved on, the pass fails with the mail sent.
Send(d, ok) ==
    LET next == Min(sweep[d].page)
        k == sweep[d].book.queue[next]
        marks == sweep[d].locked \/ (sweep[d].fresh /\ Unlocked) IN
    /\ sweep[d].pc = "mail"
    /\ sweep[d].page # {}
    /\ ~ok => "notifier" \in Faults
    /\ letters' = [letters EXCEPT ![k] =
                     IF ok /\ @ <= MaxBroken THEN @ + 1 ELSE @]
    /\ IF marks
       THEN /\ sweep' = [sweep EXCEPT ![d].book = Marked(@, k, ok),
                                      ![d].page = @ \ {next},
                                      ![d].locked = TRUE]
            /\ UNCHANGED broken
       ELSE /\ sweep' = [sweep EXCEPT ![d] = NoPass]
            /\ broken' = Cut(broken)
    /\ UNCHANGED <<vars, book, ages>>

\* the end of the pass
Commit(d) ==
    /\ sweep[d].pc = "mail"
    /\ sweep[d].page = {}
    /\ IF sweep[d].locked
       THEN /\ book' = sweep[d].book
            /\ control' = sweep[d].control
            /\ sweep' = [e \in Sweepers |->
                           IF e = d THEN NoPass
                           ELSE [sweep[e] EXCEPT !.fresh = FALSE]]
       ELSE /\ sweep' = [sweep EXCEPT ![d] = NoPass]
            /\ UNCHANGED <<book, control>>
    /\ UNCHANGED <<order, ledger, alarms, worker, mes, scan, ages, letters,
                   broken>>

\* the process dies, or the adapter raises
Kill(d) ==
    /\ "kill" \in Faults
    /\ sweep[d].pc = "mail"
    /\ sweep' = [sweep EXCEPT ![d] = NoPass]
    /\ broken' = Cut(broken)
    /\ UNCHANGED <<vars, book, ages, letters>>

-----------------------------------------------------------------------------
(* Composition *)

\* the other transactions of the jobs and the operators
Transaction(o) ==
    \/ CreateOrder(o)
    \/ RosterChanges(o)
    \/ ManualClose(o)
    \/ \E w \in Workers, c \in Codes : \E first \in Views(o) :
         \E second \in Again(o, first) : SetSend(w, o, first, second, c)
    \/ \E first \in Views(o) : \E second \in Again(o, first) :
         SetProject(o, first, second)
    \/ \E view \in Views(o) :
         \/ VerifyFound(o, view)
         \/ \E c \in Codes : VerifyRetry(o, view, c)
         \/ VerifyWait(o, view)
         \/ VerifyProject(o, view)
         \/ ConfirmProject(o, view)

SetRest(w) ==
    \/ SetReceipt(w)
    \/ worker[w].pc = "set_again" /\ \E view \in Views(worker[w].order) :
         \/ \E c \in Codes : SetBackup(w, view, c)
         \/ SetFinish(w, view)

\* what happens outside the database
Outside ==
    \/ \E w \in Workers :
         \/ \E receipt \in Receipts, effect \in BOOLEAN :
              SetHoldCall(w, receipt, effect) \/ ReleaseCall(w, receipt, effect)
         \/ Crash(w)
    \/ \E l \in Lots : SmmChanges(l) \/ \E c \in Codes : LineReleases(l, c)
    \/ \E o \in Orders : ScanAdvances(o)

HoldAges(o) ==
    /\ bind[o].status \in {"CONFIRMED", "PENDING"}
    /\ ~old[o]
    /\ old' = [old EXCEPT ![o] = TRUE]
    /\ UNCHANGED <<vars, book, late, sweep, letters, broken>>

ReleaseAges(o) ==
    /\ InFlight(rel[o])
    /\ ~late[o]
    /\ late' = [late EXCEPT ![o] = TRUE]
    /\ UNCHANGED <<vars, book, old, sweep, letters, broken>>

JobPass(o) ==
    \/ Transaction(o) /\ Plainly
    \/ \E view \in Views(o) :
         \/ CheckAiPass(o, view)
         \/ ConfirmReleasePass(o, view)
         \/ \E w \in Workers : CheckAiRelease(w, o, view)

SendingJob(w) ==
    \/ SetRest(w) /\ Plainly
    \/ worker[w].order \in Orders
         /\ \E view \in Views(worker[w].order) : CheckAiReceipt(w, view)

Sweep(d) ==
    \/ \E view \in Answers, reports \in Reports : Watch(d, view, reports)
    \/ \E ok \in BOOLEAN : Send(d, ok)
    \/ Commit(d)
    \/ Kill(d)

DInit ==
    /\ Init
    /\ book = Empty
    /\ old = [o \in Orders |-> FALSE]
    /\ late = [o \in Orders |-> FALSE]
    /\ sweep = [d \in Sweepers |-> NoPass]
    /\ letters = [k \in Keys |-> 0]
    /\ broken = 0

DNext ==
    \/ \E o \in Orders : JobPass(o) \/ HoldAges(o) \/ ReleaseAges(o)
    \/ \E w \in Workers : SendingJob(w)
    \/ \E d \in Sweepers : Sweep(d)
    \/ Resume /\ Plainly
    \/ Outside /\ UNCHANGED <<book, ages, sweep, letters, broken>>

DSpec == DInit /\ [][DNext]_dvars

-----------------------------------------------------------------------------
(* Properties *)

Passes == [pc : {"idle", "mail"}, control : {"ENABLED", "DISABLED_NEW_HOLD"},
           locked : BOOLEAN, fresh : BOOLEAN]

\* Every variable keeps its shape; a row is queued once, and only one pass
\* has written (SQLite's write lock).
DTypeOK ==
    /\ book.row \in [Keys -> Rows]
    /\ \A k \in Keys : book.row[k].tries <= MaxAttempts
    /\ old \in [Orders -> BOOLEAN]
    /\ late \in [Orders -> BOOLEAN]
    /\ letters \in [Keys -> 0..MaxBroken + 1]
    /\ broken \in 0..MaxBroken
    /\ \A d \in Sweepers :
         [pc |-> sweep[d].pc, control |-> sweep[d].control,
          locked |-> sweep[d].locked, fresh |-> sweep[d].fresh] \in Passes
    /\ \A d, e \in Sweepers : sweep[d].locked /\ sweep[e].locked => d = e

\* A mail arrives twice only because a pass broke off between the mail and its
\* commit; overlapping passes and retries send nothing twice on their own
\* (list_pending, mark_sent, the rollback of a failed pass).
RepeatsAreBreaks == \A k \in Keys : letters[k] <= 1 + broken

\* An order that was closed has no RELEASE_VERIFY_OVERDUE left open, whichever
\* of DEFENSE and CONFIRM_RELEASE saw it first (verify_release resolves it;
\* REL_OVERDUE_RECOVER), unless MES refused its release: CONFIRM_RELEASE
\* resolves the incident then, but A2-20 may close the order before.
ClosedIsNotOverdue ==
    \A o \in Orders : life[o] = "CLOSED" /\ rel[o].state # "REJECTED" =>
        book.row[Order(o, "RELEASE_VERIFY_OVERDUE")].status # "OPEN"

Told(b, k) == b.row[k].status # "NONE"

ToldLots(b) ==
    {LotOf[o] : o \in {p \in Orders : Told(b, Order(p, "HOLD_OVERDUE"))}}

Explained(b) ==
    /\ Told(b, System("CONTROL_DISABLED"))
    /\ Cardinality(ToldLots(b)) >= Threshold

\* New holds are disabled only with an incident that says so and one for the
\* overdue hold of each of enough different lots.
DisablingIsExplained == control = "DISABLED_NEW_HOLD" => Explained(book)

\* A hold that a closed order left in MES, or that nobody owns, is never found
\* by DEFENSE: the agent does not make what it watches for.
NothingToClean ==
    /\ \A l \in Lots : book.row[<<l, "ORPHAN_HOLD">>].status = "NONE"
    /\ \A o \in Orders : life[o] = "CLOSED" =>
         book.row[Order(o, "STATE_CONFLICT")].status = "NONE"
=============================================================================
