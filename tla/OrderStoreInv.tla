---------------------------- MODULE OrderStoreInv ----------------------------
(***************************************************************************)
(* The inductive invariant of OrderStore: what holds of the rows, of the   *)
(* calls under way, of the pages and of the transaction that has written,  *)
(* whatever the jobs do.  It implies TypeOK, JournalOK and                 *)
(* CallsAreBounded, and that every commit is a step of OrderLedger.        *)
(***************************************************************************)
EXTENDS OrderStore

\* How often MES was asked for a command, by its state and its attempts: once
\* more than it answered only while nobody has written down the answer.
Asked(c, n) ==
    /\ n \in 0..MaxAttempts
    /\ c.attempts <= n /\ n <= c.attempts + 1
    /\ c.state \notin {"PREPARED", "CONFIRMED"} => n = c.attempts
    /\ c.state \in {"PREPARED", "RETRY_WAIT"} => c.attempts < MaxAttempts

RowInv(r, asked) ==
    /\ LogOK(r.log, Commands)
    /\ asked \in [Commands -> Nat]
    /\ \A k \in Commands : Asked(CommandOf(r.log, k), asked[k])

\* what is known of a job by itself
JobOK(x) ==
    /\ x \in [pc : Phases, page : {x.page}, todo : SUBSET Orders,
              at : Orders \cup {0}, answer : Receipts \cup {NoReceipt}]
    /\ x.pc \in {"idle", "found"} => x.todo = {}
    /\ x.pc \in {"call", "receipt", "sent", "back"} => x.at \in Orders
    /\ x.pc = "receipt" => x.answer # NoReceipt

\* A job between its intent and the commit of the receipt: the command waits
\* for this answer, though the hold may have been confirmed meanwhile.
Pending(x) == x.pc \in {"call", "receipt"}

PendingOK(x, c, n) ==
    /\ c.state \in {"PREPARED", "CONFIRMED"}
    /\ c.attempts < MaxAttempts
    /\ n = IF x.pc = "receipt" THEN c.attempts + 1 ELSE c.attempts

\* An order still to be visited, as listed: the row has moved on, or it is open
\* and in the work state listed.
PageOK(x, rows) ==
    \A o \in x.todo :
        /\ x.page[o].ver \in Nat
        /\ x.page[o].ver <= rows[o].ver
        /\ rows[o].ver = x.page[o].ver =>
             rows[o].life = "OPEN" /\ rows[o].work = x.page[o].work

\* a changed life or work_state shows in the version
VerKeeps(r, s) ==
    /\ r.ver <= s.ver
    /\ s.ver = r.ver => s.life = r.life /\ s.work = r.work

\* What a transaction has made of a row before it commits: nothing but a lease,
\* a state it derived, or a release that is prepared and not sent.
Derived(r, s) ==
    /\ s \in Row
    /\ VerKeeps(r, s)
    /\ \/ s.log = r.log /\ s.life = r.life /\ s.work = r.work /\ s.bind = r.bind
       \/ /\ r.life = "OPEN"
          /\ s.log = r.log /\ s.life = r.life /\ s.bind = r.bind
          /\ s.work \in Works \ Closed
       \/ /\ r.life = "OPEN" /\ r.bind = "CONFIRMED"
          /\ s.log = r.log /\ s.bind = "RELEASED"
          /\ s.life = "MANUAL_CLOSED" /\ s.work = "MANUAL_CLOSED"
       \/ /\ r.life = "OPEN" /\ Release(r).state = "RETRY_WAIT" /\ ~Releasable(r)
          /\ s.life = r.life /\ s.work = r.work /\ s.bind = r.bind
          /\ s.log = save_command(r.log, "SET_RELEASE", "PREPARED",
                                  Release(r).outcome)

-----------------------------------------------------------------------------
Shapes ==
    /\ db \in [Orders -> Row]
    /\ lock \in Jobs \cup {NoJob}
    /\ clock \in 0..MaxClock
    /\ job = [j \in Jobs |-> job[j]]
    /\ calls = [o \in Orders |-> calls[o]]

RowsInv == \A o \in Orders : RowInv(db[o], calls[o])

JobsInv == \A j \in Jobs : JobOK(job[j]) /\ PageOK(job[j], db)

\* the command job j is at
Own(j, rows) == CommandOf(rows[job[j].at].log, Command(j))

CallsInv ==
    /\ \A j \in Jobs : Pending(job[j]) =>
          PendingOK(job[j], Own(j, db), calls[job[j].at][Command(j)])
    /\ \A i, j \in Jobs :
          Pending(job[i]) /\ Pending(job[j]) /\ job[i].at = job[j].at
          /\ Command(i) = Command(j) => i = j

DraftInv ==
    lock # NoJob =>
        /\ job[lock].pc = "pass"
        /\ draft = [o \in Orders |-> draft[o]]
        /\ \A o \in Orders : Derived(db[o], draft[o])
        /\ \A o \in job[lock].todo : draft[o] = db[o]

StoreInv == Shapes /\ RowsInv /\ JobsInv /\ CallsInv /\ DraftInv
=============================================================================
