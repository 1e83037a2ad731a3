---------------------------- MODULE DefenseProofs ----------------------------
(***************************************************************************)
(* With DEFENSE and the incidents the jobs still are those of HoldOrder,   *)
(* and new holds are disabled only with their incidents, for any number of *)
(* orders, lots and overlapping passes and every threshold.  A mail is     *)
(* repeated only by a pass that broke off, and a closed order leaves no    *)
(* overdue release open and nothing for DEFENSE to clean up.               *)
(***************************************************************************)
EXTENDS DefenseInv, HoldPromiseProofs, FiniteSetTheorems, WellFoundedInduction

-----------------------------------------------------------------------------
(* Incident tables *)

\* no row is deleted
Keeps(b, c) == IsBook(c) /\ \A k \in Keys : Told(b, k) => Told(c, k)

\* open_incident adds rows only.
LEMMA OpenKeeps ==
    ASSUME NEW b, IsBook(b), NEW keys
    PROVE  /\ Keeps(b, Open(b, keys))
           /\ \A k \in keys \cap Keys : Told(Open(b, keys), k)
  BY DEF IsBook, Keeps, Told, Open, NewRow, Rows

\* Resolving an incident leaves its row.
LEMMA ResolveKeeps ==
    ASSUME NEW b, IsBook(b), NEW keys
    PROVE  Keeps(b, Resolve(b, keys))
  BY DEF IsBook, Keeps, Told, Resolve, Rows

\* So does marking its mail.
LEMMA MarkedKeeps ==
    ASSUME NEW b, IsBook(b), NEW k, NEW ok \in BOOLEAN
    PROVE  Keeps(b, Marked(b, k, ok))
<1>1. k \in Keys => /\ Mark(b.row[k], ok) \in Rows
                    /\ Mark(b.row[k], ok).status = b.row[k].status
  BY DEF IsBook, Rows, Mark
<1> QED
  BY <1>1 DEF IsBook, Keeps, Told, Marked

LEMMA KeepsTransitive ==
    ASSUME NEW a, NEW b, NEW c, Keeps(a, b), Keeps(b, c)
    PROVE  Keeps(a, c)
  BY DEF Keeps

\* The lots that were told of stay told of, so an explanation stays one.
LEMMA KeepsExplained ==
    ASSUME NEW b, NEW c, Keeps(b, c), Explained(b)
    PROVE  Explained(c)
<1>1. System("CONTROL_DISABLED") \in Keys
  BY DEF System, Keys, SystemTypes
<1>2. \A o \in Orders : Order(o, "HOLD_OVERDUE") \in Keys
  BY DEF Order, Keys, OrderTypes
<1>3. ToldLots(b) \in SUBSET ToldLots(c)
  BY <1>2 DEF ToldLots, Keeps
<1>4. IsFiniteSet(ToldLots(b)) /\ IsFiniteSet(ToldLots(c))
  <2>1. ToldLots(b) \in SUBSET Lots /\ ToldLots(c) \in SUBSET Lots
    BY OrdersAssumption DEF ToldLots
  <2> QED
    BY <2>1, FS_Subset, DefenseAssumption
<1>5. Cardinality(ToldLots(b)) <= Cardinality(ToldLots(c))
  BY <1>3, <1>4, FS_Subset
<1>6. Cardinality(ToldLots(b)) \in Nat /\ Cardinality(ToldLots(c)) \in Nat
  BY <1>4, FS_CardinalityType
<1> QED
  BY <1>1, <1>5, <1>6, DefenseAssumption DEF Explained, Keeps

-----------------------------------------------------------------------------
(* The passes *)

LEMMA NoPassInv == PassInv(NoPass) /\ ~NoPass.locked
<1>1. IsBook(Empty)
  BY DEF IsBook, Empty, NoRow, Rows
<1> QED
  BY <1>1 DEF PassInv, NoPass, Modes, Current

LEMMA SweepInit == DInit => SweepInv
<1> SUFFICES ASSUME DInit
             PROVE  SweepInv
  OBVIOUS
<1>1. IsBook(book) /\ control = "ENABLED"
  BY NoPassInv DEF DInit, Init, PassInv, NoPass, Empty, IsBook, NoRow, Rows
<1>2. \A d \in Sweepers : sweep[d] = NoPass
  BY DEF DInit
<1> QED
  BY <1>1, <1>2, NoPassInv DEF SweepInv, Modes, DisablingIsExplained, DInit

\* A job's transaction leaves no pass current and keeps every row; it may
\* enable new holds, never disable them.
LEMMA CommitKeeps ==
    ASSUME SweepInv, NEW b, Keeps(book, b), Commits(b),
           control' \in {control, "ENABLED"}
    PROVE  SweepInv'
<1>1. \A d \in Sweepers : /\ sweep'[d].book = sweep[d].book
                          /\ sweep'[d].control = sweep[d].control
                          /\ ~sweep'[d].locked
                          /\ ~sweep'[d].fresh
                          /\ DOMAIN sweep'[d] = DOMAIN sweep[d]
  BY DEF Commits, Unlocked, SweepInv, PassInv
<1>2. \A d \in Sweepers : PassInv(sweep[d])'
  BY <1>1 DEF PassInv, SweepInv, Current
<1>3. DisablingIsExplained'
  BY KeepsExplained DEF DisablingIsExplained, SweepInv, Commits
<1>4. sweep' = [d \in Sweepers |-> sweep'[d]]
  BY DEF Commits
<1> QED
  BY <1>1, <1>2, <1>3, <1>4 DEF SweepInv, Commits, Keeps, Modes

LEMMA RaisedKeeps == IsBook(book) => Keeps(book, Raised)
  BY OpenKeeps DEF Raised

LEMMA ScannedKeeps ==
    ASSUME NEW b, Keeps(book, b), NEW o, NEW view
    PROVE  Keeps(book, WhenScanned(b, o, view))
  BY ResolveKeeps, KeepsTransitive DEF WhenScanned, Keeps

\* The visits of the jobs to one order.
LEMMA JobKeeps ==
    ASSUME SweepInv, NEW o \in Orders, JobPass(o)
    PROVE  SweepInv'
<1> USE DEF world
<1>1. IsBook(book) /\ Keeps(book, Raised)
  BY RaisedKeeps DEF SweepInv
<1>2. CASE Transaction(o) /\ Plainly
  <2>1. control' = control
    BY <1>2 DEF Transaction, CreateOrder, RosterChanges, ManualClose, SetSend,
       Intent, SetProject, VerifyFound, VerifyRetry, VerifyWait, VerifyProject,
       ConfirmProject
  <2> QED
    BY <1>1, <1>2, <2>1, CommitKeeps DEF Plainly
<1>3. ASSUME NEW view \in Views(o), CheckAiPass(o, view)
      PROVE  SweepInv'
  <2>1. control' = control
    BY <1>3 DEF CheckAiPass, CheckAiProject
  <2> QED
    BY <1>1, <1>3, <2>1, CommitKeeps, ScannedKeeps DEF CheckAiPass
<1>4. ASSUME NEW view \in Views(o), NEW w \in Workers,
             CheckAiRelease(w, o, view)
      PROVE  SweepInv'
  <2>1. control' = control
    BY <1>4 DEF CheckAiRelease, CheckAiSend
  <2> QED
    BY <1>1, <1>4, <2>1, CommitKeeps, ScannedKeeps DEF CheckAiRelease
<1>5. ASSUME NEW view \in Views(o), ConfirmReleasePass(o, view)
      PROVE  SweepInv'
  <2>1. control' = control
    BY <1>5 DEF ConfirmReleasePass, VerifyRelease, ReleaseFails,
       ReleasePending, vars
  <2>2. PICK b : Commits(b) /\ Keeps(book, b)
    <3>1. \A k : Keeps(book, Open(Raised, k)) /\ Keeps(book, Open(book, k))
      BY <1>1, OpenKeeps, KeepsTransitive DEF Keeps
    <3>2. \A c : Keeps(book, c) => Keeps(book, NoLongerOverdue(c, o))
      BY ResolveKeeps, KeepsTransitive DEF NoLongerOverdue, Keeps
    <3> QED
      BY <1>1, <1>5, <3>1, <3>2 DEF ConfirmReleasePass
  <2> QED
    BY <2>1, <2>2, CommitKeeps
<1> QED
  BY <1>2, <1>3, <1>4, <1>5 DEF JobPass

\* The rest of the rounds that send.
LEMMA SendingKeeps ==
    ASSUME SweepInv, NEW w \in Workers, SendingJob(w)
    PROVE  SweepInv'
<1> USE DEF world
<1>1. IsBook(book) /\ Keeps(book, Raised)
  BY RaisedKeeps DEF SweepInv
<1>2. CASE SetRest(w) /\ Plainly
  <2>1. control' = control
    BY <1>2 DEF SetRest, SetReceipt, SetBackup, Intent, SetFinish
  <2> QED
    BY <1>1, <1>2, <2>1, CommitKeeps DEF Plainly
<1>3. ASSUME NEW view, CheckAiReceipt(w, view)
      PROVE  SweepInv'
  <2>1. control' = control
    BY <1>3 DEF CheckAiReceipt, ReleaseReceipt
  <2> QED
    BY <1>1, <1>3, <2>1, CommitKeeps, ScannedKeeps DEF CheckAiReceipt
<1> QED
  BY <1>2, <1>3 DEF SendingJob

\* RESUME enables new holds.
LEMMA ResumeKeeps ==
    ASSUME SweepInv, Resume, Plainly
    PROVE  SweepInv'
  BY RaisedKeeps, CommitKeeps DEF Resume, Plainly, SweepInv

\* What happens outside the database, and the passing of time.
LEMMA ElsewhereKeeps ==
    ASSUME SweepInv, UNCHANGED <<control, book, sweep>>
    PROVE  SweepInv'
  BY DEF SweepInv, PassInv, DisablingIsExplained

\* When a pass takes a step of its own, the others stay as they are.
LEMMA OwnStep ==
    ASSUME SweepInv, NEW d \in Sweepers, NEW p, PassInv(p),
           sweep' = [sweep EXCEPT ![d] = p],
           UNCHANGED <<book, control>>,
           p.locked => \A e \in Sweepers : sweep[e].locked => e = d
    PROVE  SweepInv'
<1>1. \A e \in Sweepers : sweep'[e] = IF e = d THEN p ELSE sweep[e]
  BY DEF SweepInv
<1>2. \A e \in Sweepers : PassInv(sweep[e])'
  <2> TAKE e \in Sweepers
  <2>1. CASE e = d
    BY <1>1, <2>1 DEF PassInv
  <2>2. CASE e # d
    BY <1>1, <2>2 DEF PassInv, SweepInv
  <2> QED
    BY <2>1, <2>2
<1>3. sweep' = [e \in Sweepers |-> sweep'[e]]
  BY DEF SweepInv
<1> QED
  BY <1>1, <1>2, <1>3 DEF SweepInv, DisablingIsExplained, PassInv

\* What a pass found is in its book; when it disables new holds, so is why.
LEMMA WatchedExplains ==
    ASSUME IsBook(book), NEW view, NEW reports
    PROVE  /\ Keeps(book, Watched(view, reports))
           /\ Trips => Explained(Watched(view, reports))
<1> DEFINE keys == (UNION {Report(o, view[o]) : o \in Orders})
                     \cup reports
                     \cup (IF Trips THEN {System("CONTROL_DISABLED")} ELSE {})
           opened == Open(book, keys)
<1>1. /\ Keeps(book, opened)
      /\ \A k \in keys \cap Keys : Told(opened, k)
  BY OpenKeeps
<1>2. Keeps(opened, Watched(view, reports))
  BY <1>1, ResolveKeeps DEF Watched, Keeps
<1>3. ASSUME Trips
      PROVE  Explained(opened)
  <2> HIDE DEF opened
  <2>1. Told(opened, System("CONTROL_DISABLED"))
    <3>1. System("CONTROL_DISABLED") \in keys \cap Keys
      BY <1>3 DEF System, Keys, SystemTypes
    <3> QED
      BY <1>1, <3>1
  <2>2. ASSUME NEW o \in Orders, Overdue(o)
        PROVE  Told(opened, Order(o, "HOLD_OVERDUE"))
    <3>1. Order(o, "HOLD_OVERDUE") \in Report(o, view[o])
      BY <2>2 DEF Report
    <3>2. Order(o, "HOLD_OVERDUE") \in keys \cap Keys
      BY <3>1 DEF Order, Keys, OrderTypes
    <3> QED
      BY <1>1, <3>2
  <2>3. OverdueLots \in SUBSET ToldLots(opened)
    BY <2>2 DEF OverdueLots, ToldLots
  <2>4. ToldLots(opened) \in SUBSET Lots
    BY OrdersAssumption DEF ToldLots
  <2>5. /\ IsFiniteSet(ToldLots(opened))
        /\ Cardinality(OverdueLots) <= Cardinality(ToldLots(opened))
    BY <2>3, <2>4, FS_Subset, DefenseAssumption
  <2>6. IsFiniteSet(OverdueLots)
    BY <2>3, <2>5, FS_Subset
  <2> QED
    BY <1>3, <2>1, <2>5, <2>6, FS_CardinalityType, DefenseAssumption
       DEF Explained, Trips
<1> QED
  BY <1>1, <1>2, <1>3, KeepsTransitive, KeepsExplained

\* The steps of DEFENSE.
LEMMA SweepKeeps ==
    ASSUME SweepInv, NEW d \in Sweepers, Sweep(d)
    PROVE  SweepInv'
<1>1. ASSUME NEW view, NEW reports, Watch(d, view, reports)
      PROVE  SweepInv'
  <2> DEFINE b == Watched(view, reports)
             p == [pc |-> "mail", book |-> b,
                   control |-> IF Trips THEN "DISABLED_NEW_HOLD" ELSE control,
                   page |-> Page(b), locked |-> b # book \/ Trips,
                   fresh |-> TRUE]
  <2>1. Keeps(book, b) /\ (Trips => Explained(b))
    BY WatchedExplains DEF SweepInv
  <2>2. control = "DISABLED_NEW_HOLD" => Explained(b)
    BY <2>1, KeepsExplained DEF SweepInv, DisablingIsExplained
  <2>3. PassInv(p)
    BY <2>1, <2>2 DEF PassInv, Keeps, SweepInv, Modes
  <2>4. sweep' = [sweep EXCEPT ![d] = p] /\ UNCHANGED <<book, control>>
    BY <1>1 DEF Watch, vars
  <2>5. p.locked => \A e \in Sweepers : sweep[e].locked => e = d
    BY <1>1 DEF Watch, Unlocked
  <2> HIDE DEF p
  <2> QED
    BY <2>3, <2>4, <2>5, OwnStep
<1>2. ASSUME sweep' = [sweep EXCEPT ![d] = NoPass],
             UNCHANGED <<book, control>>
      PROVE  SweepInv'
  BY <1>2, OwnStep, NoPassInv
<1>3. ASSUME NEW ok \in BOOLEAN, Send(d, ok)
      PROVE  SweepInv'
  <2>1. UNCHANGED <<book, control>>
    BY <1>3 DEF Send, vars
  <2>2. CASE sweep' = [sweep EXCEPT ![d] = NoPass]
    BY <1>2, <2>1, <2>2
  <2>3. CASE sweep' # [sweep EXCEPT ![d] = NoPass]
    <3> DEFINE next == Min(sweep[d].page)
               k == sweep[d].book.queue[next]
               b == Marked(sweep[d].book, k, ok)
               p == [sweep[d] EXCEPT !.book = b, !.page = @ \ {next},
                                     !.locked = TRUE]
    <3>1. /\ sweep' = [sweep EXCEPT ![d] = p]
          /\ sweep[d].locked \/ (sweep[d].fresh /\ Unlocked)
      BY <1>3, <2>3 DEF Send
    <3>2. Keeps(sweep[d].book, b)
      BY MarkedKeeps DEF SweepInv, PassInv
    <3>3. /\ p.book = b /\ p.control = sweep[d].control
          /\ DOMAIN p = DOMAIN sweep[d]
      BY DEF SweepInv, PassInv
    <3>4. PassInv(p)
      BY <3>1, <3>2, <3>3, KeepsExplained
         DEF PassInv, SweepInv, Keeps, Current
    <3>5. \A e \in Sweepers : sweep[e].locked => e = d
      BY <3>1 DEF Unlocked, SweepInv
    <3> HIDE DEF p
    <3> QED
      BY <2>1, <3>1, <3>4, <3>5, OwnStep
  <2> QED
    BY <2>2, <2>3
<1>4. CASE Kill(d)
  BY <1>2, <1>4 DEF Kill, vars
<1>5. CASE Commit(d) /\ ~sweep[d].locked
  BY <1>2, <1>5 DEF Commit
<1>6. CASE Commit(d) /\ sweep[d].locked
  <2>1. /\ book' = sweep[d].book
        /\ control' = sweep[d].control
    BY <1>6 DEF Commit
  <2>2. \A e \in Sweepers :
          /\ sweep'[e] = IF e = d THEN NoPass
                         ELSE [sweep[e] EXCEPT !.fresh = FALSE]
          /\ e # d => ~sweep[e].locked
    BY <1>6 DEF Commit, SweepInv
  <2>3. \A e \in Sweepers : PassInv(sweep[e])' /\ ~sweep'[e].locked
    <3> TAKE e \in Sweepers
    <3>1. CASE e = d
      <4>1. sweep'[e] = NoPass
        BY <2>2, <3>1
      <4>2. ~Current(NoPass) /\ ~NoPass.locked
        BY DEF Current, NoPass
      <4> QED
        BY <4>1, <4>2, NoPassInv DEF PassInv
    <3>2. CASE e # d
      BY <2>2, <3>2 DEF PassInv, SweepInv, Current
    <3> QED
      BY <3>1, <3>2
  <2>4. DisablingIsExplained'
    BY <1>6, <2>1 DEF DisablingIsExplained, SweepInv, PassInv, Current
  <2>5. sweep' = [e \in Sweepers |-> sweep'[e]]
    BY <1>6 DEF Commit
  <2> QED
    BY <2>1, <2>3, <2>4, <2>5 DEF SweepInv, PassInv
<1> QED
  BY <1>1, <1>3, <1>4, <1>5, <1>6 DEF Sweep

LEMMA SweepStep ==
    ASSUME SweepInv, [DNext]_dvars
    PROVE  SweepInv'
<1>1. CASE UNCHANGED dvars
  BY <1>1, ElsewhereKeeps DEF dvars, vars
<1>2. ASSUME NEW o \in Orders, JobPass(o) \/ HoldAges(o) \/ ReleaseAges(o)
      PROVE  SweepInv'
  BY <1>2, JobKeeps, ElsewhereKeeps DEF HoldAges, ReleaseAges, vars
<1>3. ASSUME Outside, UNCHANGED <<book, ages, sweep, letters, broken>>
      PROVE  SweepInv'
  <2>1. UNCHANGED control
    BY ZenonT(30), <1>3 DEF Outside, SetHoldCall, ReleaseCall, Crash, SmmChanges,
       LineReleases, ScanAdvances, world
  <2> QED
    BY <1>3, <2>1, ElsewhereKeeps
<1> QED
  BY <1>1, <1>2, <1>3, SendingKeeps, SweepKeeps, ResumeKeeps DEF DNext

\* New holds are never disabled without an incident that says so and one for
\* the overdue hold of each of Threshold different lots, whatever passes
\* overlap, die or find the database changed under them.
THEOREM DisablingExplained == DSpec => []DisablingIsExplained
<1>1. SweepInv => DisablingIsExplained
  BY DEF SweepInv
<1>2. SweepInv /\ [DNext]_dvars => SweepInv'
  BY SweepStep
<1> QED
  BY <1>1, <1>2, SweepInit, PTL DEF DSpec

-----------------------------------------------------------------------------
(* Refinement *)

\* The jobs do what they do in HoldOrder.
LEMMA JobsRefine ==
    ASSUME [DNext]_dvars, ~(\E d \in Sweepers : Sweep(d))
    PROVE  [Next]_vars
<1>1. ASSUME NEW o \in Orders, JobPass(o)
      PROVE  [Next]_vars
  <2>1. CASE Transaction(o)
    BY <2>1 DEF Transaction, Next, SetRound, Database, Environment
  <2>2. ASSUME NEW view \in Views(o), CheckAiPass(o, view)
        PROVE  [Next]_vars
    BY <2>2 DEF CheckAiPass, Next, Database
  <2>3. ASSUME NEW view \in Views(o), ConfirmReleasePass(o, view)
        PROVE  [Next]_vars
    BY <2>3 DEF ConfirmReleasePass, Next, Database
  <2>4. ASSUME NEW view \in Views(o), NEW w \in Workers,
               CheckAiRelease(w, o, view)
        PROVE  [Next]_vars
    BY <2>4 DEF CheckAiRelease, Next, ReleaseRound
  <2> QED
    BY <1>1, <2>1, <2>2, <2>3, <2>4 DEF JobPass
<1>2. ASSUME NEW w \in Workers, SendingJob(w)
      PROVE  [Next]_vars
  <2>1. CASE SetRest(w)
    BY <2>1 DEF SetRest, Next, SetRound
  <2>2. ASSUME NEW view, CheckAiReceipt(w, view)
        PROVE  [Next]_vars
    BY <2>2 DEF CheckAiReceipt, Next, ReleaseRound
  <2> QED
    BY <1>2, <2>1, <2>2 DEF SendingJob
<1>3. ASSUME Outside
      PROVE  [Next]_vars
  BY <1>3 DEF Outside, Next, SetRound, ReleaseRound, Environment
<1>4. CASE Resume
  BY <1>4 DEF Next, Environment
<1>5. CASE UNCHANGED vars
  BY <1>5
<1> QED
  BY <1>1, <1>2, <1>3, <1>4, <1>5 DEF DNext, HoldAges, ReleaseAges, dvars

\* DEFENSE does nothing to them, or disables new holds.
LEMMA PassesRefine ==
    ASSUME "control" \in Hazards, SweepInv, NEW d \in Sweepers, Sweep(d)
    PROVE  [Next]_vars
<1>1. CASE Commit(d) /\ sweep[d].locked
  <2>1. control' \in {control, "DISABLED_NEW_HOLD"}
    BY <1>1 DEF Commit, SweepInv, PassInv, Current
  <2>2. UNCHANGED <<order, ledger, alarms, worker, mes, scan>>
    BY <1>1 DEF Commit
  <2>3. CASE control' = control
    BY <2>2, <2>3 DEF vars, order, ledger, mes
  <2>4. CASE control' = "DISABLED_NEW_HOLD"
    BY <2>2, <2>4 DEF ControlTrips, Environment, Next
  <2> QED
    BY <2>1, <2>3, <2>4
<1>2. CASE Commit(d) /\ ~sweep[d].locked
  BY <1>2 DEF Commit, vars, order, ledger, mes
<1> QED
  BY <1>1, <1>2 DEF Sweep, Watch, Send, Kill

\* DEFENSE, the incidents and the mails implement what HoldOrder takes them
\* for: jobs that do the same, and a DEFENSE that may disable new holds.
THEOREM DefenseImplementsHoldOrder ==
    ASSUME "control" \in Hazards
    PROVE  DSpec => Spec
<1>1. DInit => Init
  BY DEF DInit
<1>2. SweepInv /\ [DNext]_dvars => [Next]_vars
  BY JobsRefine, PassesRefine
<1>3. SweepInv /\ [DNext]_dvars => SweepInv'
  BY SweepStep
<1> QED
  BY <1>1, <1>2, <1>3, SweepInit, PTL DEF DSpec, Spec

-----------------------------------------------------------------------------
(* The incident table *)

\* An incident is about one of finitely many orders and lots.
LEMMA KeysAreFinite == IsFiniteSet(Keys)
<1>1. IsFiniteSet(OrderTypes) /\ IsFiniteSet(SystemTypes)
        /\ IsFiniteSet({"system"}) /\ IsFiniteSet({"ORPHAN_HOLD"})
  <2>1. \A a, b : IsFiniteSet({a, b})
    <3> TAKE a, b
    <3>1. {a, b} = {a} \cup {b} /\ IsFiniteSet({a}) /\ IsFiniteSet({b})
      BY FS_Singleton
    <3> QED
      BY <3>1, FS_Union
  <2>2. \A a, b, c, d : IsFiniteSet({a, b, c, d})
    <3> TAKE a, b, c, d
    <3>1. /\ {a, b, c, d} = {a, b} \cup {c, d}
          /\ IsFiniteSet({a, b}) /\ IsFiniteSet({c, d})
      BY <2>1
    <3> QED
      BY <3>1, FS_Union
  <2>3. OrderTypes = {"HOLD_FAILED", "RELEASE_FAILED", "MANUAL_REVIEW",
                      "DATA_UNAVAILABLE"}
                       \cup {"HOLD_OVERDUE", "HOLD_OVERDUE", "STATE_CONFLICT",
                             "RELEASE_VERIFY_OVERDUE"}
    BY DEF OrderTypes
  <2>4. SystemTypes = {"AGENT_STALL", "AGENT_STALL", "COVERAGE_MISMATCH",
                       "CONTROL_DISABLED"}
    BY DEF SystemTypes
  <2> QED
    BY <2>2, <2>3, <2>4, FS_Singleton, FS_Union
<1>2. /\ IsFiniteSet(Orders \X OrderTypes)
      /\ IsFiniteSet({"system"} \X SystemTypes)
      /\ IsFiniteSet(Lots \X {"ORPHAN_HOLD"})
  BY <1>1, DefenseAssumption, FS_Product
<1>3. IsFiniteSet((Orders \X OrderTypes) \cup ({"system"} \X SystemTypes))
  BY <1>2, FS_Union
<1> QED
  BY <1>2, <1>3, FS_Union DEF Keys

\* SetToSeq lists the members of a finite set, each once.
LEMMA Listed ==
    ASSUME NEW S, IsFiniteSet(S)
    PROVE  /\ SetToSeq(S) \in Seq(S)
           /\ \A i, j \in DOMAIN SetToSeq(S) :
                SetToSeq(S)[i] = SetToSeq(S)[j] => i = j
<1>1. PICK f : f \in Bijection(1..Cardinality(S), S)
  BY FS_CardinalityType DEF ExistsBijection
<1>2. f \in [1..Cardinality(S) -> S] /\ IsInjective(f)
  BY <1>1 DEF Bijection, Injection
<1>3. /\ SetToSeq(S) \in [1..Cardinality(S) -> S]
      /\ IsInjective(SetToSeq(S))
  BY <1>2 DEF SetToSeq
<1>4. Cardinality(S) \in Nat
  BY FS_CardinalityType
<1> QED
  BY <1>3, <1>4 DEF IsInjective

\* What stands in a queue that a list of new rows was put behind.
LEMMA Appended ==
    ASSUME NEW S, NEW q \in Seq(S), NEW t \in Seq(S)
    PROVE  /\ q \o t \in Seq(S)
           /\ \A i \in DOMAIN (q \o t) :
                \/ i \in DOMAIN q /\ (q \o t)[i] = q[i]
                \/ /\ i - Len(q) \in DOMAIN t /\ i \notin DOMAIN q
                   /\ (q \o t)[i] = t[i - Len(q)]
                   /\ i \in Nat /\ Len(q) \in Nat
  OBVIOUS

\* open_incident queues a row when it makes it.
LEMMA OpenOK ==
    ASSUME NEW b, BookOK(b), NEW keys \in SUBSET Keys
    PROVE  BookOK(Open(b, keys))
<1> DEFINE new == {k \in keys : b.row[k].status = "NONE"}
           t == SetToSeq(new)
           c == Open(b, keys)
<1>1. IsFiniteSet(new)
  <2>1. new \in SUBSET Keys
    OBVIOUS
  <2> QED
    BY <2>1, KeysAreFinite, FS_Subset
<1>2. t \in Seq(new) /\ \A i, j \in DOMAIN t : t[i] = t[j] => i = j
  BY <1>1, Listed
<1>3. /\ c.row = [k \in Keys |-> IF k \in new THEN NewRow ELSE b.row[k]]
      /\ c.queue = b.queue \o t
  BY DEF Open
<1>4. b.queue \in Seq(Keys) /\ t \in Seq(Keys)
  <2> HIDE DEF t
  <2>1. \A S : t \in Seq(S) => t \in Seq(S \cup Keys)
    OBVIOUS
  <2>2. new \cup Keys = Keys
    OBVIOUS
  <2>3. t \in Seq(Keys)
    BY <1>2, <2>1, <2>2
  <2> QED
    BY <2>3 DEF BookOK
<1> HIDE DEF t, c
<1>5. \A i \in DOMAIN c.queue :
        \/ /\ i \in DOMAIN b.queue /\ c.queue[i] = b.queue[i]
           /\ c.queue[i] \notin new
        \/ /\ i - Len(b.queue) \in DOMAIN t
           /\ c.queue[i] = t[i - Len(b.queue)]
           /\ c.queue[i] \in new
           /\ i \in Nat /\ Len(b.queue) \in Nat
  BY SMTT(30), <1>2, <1>3, <1>4, Appended DEF BookOK, Told
<1>6. \A i, j \in DOMAIN c.queue : c.queue[i] = c.queue[j] => i = j
  BY <1>2, <1>5 DEF BookOK
<1>7. /\ IsBook(c)
      /\ \A k \in Keys : /\ c.row[k].tries <= MaxAttempts
                         /\ ~Told(c, k) => c.row[k].mail = "NONE"
  BY <1>3, AttemptsAssumption DEF BookOK, IsBook, Rows, NewRow, Told
<1>8. c.queue \in Seq(Keys)
  BY <1>3, <1>4, Appended
<1>9. \A i \in DOMAIN c.queue : Told(c, c.queue[i])
  <2> TAKE i \in DOMAIN c.queue
  <2>1. c.queue[i] \in Keys
    BY <1>8
  <2>2. CASE c.queue[i] \in new
    BY <1>3, <2>1, <2>2 DEF Told, NewRow
  <2>3. CASE c.queue[i] \notin new
    <3>1. Told(b, c.queue[i])
      BY <1>5, <2>3 DEF BookOK
    <3> QED
      BY <1>3, <2>1, <2>3, <3>1 DEF Told
  <2> QED
    BY <2>2, <2>3
<1> QED
  BY <1>6, <1>7, <1>8, <1>9 DEF BookOK, c

LEMMA ResolveOK ==
    ASSUME NEW b, BookOK(b), NEW keys
    PROVE  BookOK(Resolve(b, keys))
<1> DEFINE c == Resolve(b, keys)
<1>1. /\ c.queue = b.queue
      /\ c.row = [k \in Keys |-> IF k \in keys /\ b.row[k].status = "OPEN"
                                 THEN [b.row[k] EXCEPT !.status = "RESOLVED"]
                                 ELSE b.row[k]]
  BY DEF Resolve
<1>2. /\ c.row \in [Keys -> Rows]
      /\ \A k \in Keys : /\ c.row[k].tries = b.row[k].tries
                         /\ c.row[k].mail = b.row[k].mail
                         /\ b.row[k].status # "NONE" => c.row[k].status # "NONE"
  BY SMTT(30), <1>1 DEF BookOK, IsBook, Rows
<1> HIDE DEF c
<1>3. \A i \in DOMAIN b.queue : b.queue[i] \in Keys
  BY DEF BookOK
<1>4. BookOK(c)
  BY <1>1, <1>2, <1>3 DEF BookOK, IsBook, Told
<1> QED
  BY <1>4 DEF c

\* A mail may be tried when it has not failed too often.
LEMMA MarkedOK ==
    ASSUME NEW b, BookOK(b), NEW k \in Keys, NEW ok \in BOOLEAN,
           Told(b, k), ~Exhausted(b.row[k])
    PROVE  /\ BookOK(Marked(b, k, ok))
           /\ Marked(b, k, ok).queue = b.queue
           /\ \A j \in Keys : j # k => Marked(b, k, ok).row[j] = b.row[j]
           /\ ok => Sent(Marked(b, k, ok), k)
<1> DEFINE c == Marked(b, k, ok)
<1>1. c.queue = b.queue /\ c.row = [b.row EXCEPT ![k] = Mark(@, ok)]
  BY DEF Marked
<1>2. /\ Mark(b.row[k], ok) \in Rows
      /\ Mark(b.row[k], ok).tries <= MaxAttempts
      /\ Mark(b.row[k], ok).status = b.row[k].status
      /\ ok => Mark(b.row[k], ok).mail = "SENT"
  BY AttemptsAssumption DEF BookOK, IsBook, Rows, Mark, Exhausted
<1>3. /\ c.row \in [Keys -> Rows]
      /\ c.row[k] = Mark(b.row[k], ok)
      /\ \A j \in Keys : j # k => c.row[j] = b.row[j]
  BY <1>1, <1>2 DEF BookOK, IsBook
<1> HIDE DEF c
<1>4. \A i \in DOMAIN b.queue : b.queue[i] \in Keys
  BY DEF BookOK
<1>5. BookOK(c)
  BY <1>1, <1>2, <1>3, <1>4 DEF BookOK, IsBook, Told
<1> QED
  BY <1>1, <1>2, <1>3, <1>5 DEF c, Sent

\* Neither opening nor resolving incidents unsends a mail.
LEMMA OpenSent ==
    ASSUME NEW b, BookOK(b), NEW keys, NEW k \in Keys, Sent(b, k)
    PROVE  Sent(Open(b, keys), k)
  BY DEF BookOK, Sent, Told, Open

LEMMA ResolveSent ==
    ASSUME NEW b, BookOK(b), NEW keys, NEW k \in Keys, Sent(b, k)
    PROVE  Sent(Resolve(b, keys), k)
  BY DEF BookOK, IsBook, Rows, Sent, Resolve

-----------------------------------------------------------------------------
(* What the jobs raise *)

\* STATE_CONFLICT is for an order that was ended and has a hold (D-05).
LEMMA ConflictDecision ==
    ASSUME NEW s, derive_state(s).work = "STATE_CONFLICT"
    PROVE  s.life \in Closed /\ OwnHold(s)
  BY DEF derive_state, OpenRule, ObservedRule, NewHoldRule, SkipRule, ScanRule,
         Rule, Closed

Raisable == {"HOLD_FAILED", "RELEASE_FAILED", "MANUAL_REVIEW", "STATE_CONFLICT"}

\* The alarms a step raises for an order.
Alarming(p) ==
    \A type \in alarms'[p] \ alarms[p] :
        /\ type \in Raisable
        /\ type = "STATE_CONFLICT" => life[p] \in Closed /\ Own(p) # {}

\* A decision raises what it is named for.
LEMMA RaiseAlarms ==
    ASSUME TypeInv, NEW o \in Orders, NEW view, NEW chosen, NEW d,
           d = derive_state(Observed(o, view, chosen)), Raise(o, d)
    PROVE  \A p \in Orders : Alarming(p)
<1>1. \A p \in Orders : \A type \in alarms'[p] \ alarms[p] :
        p = o /\ type = d.work /\ d.act = "OPEN_INCIDENT"
  BY DEF Raise, TypeInv, TypeOK
<1>2. d.act = "OPEN_INCIDENT" => d.work \in Raisable
  BY AlarmDecision DEF Raisable
<1>3. d.work = "STATE_CONFLICT" => life[o] \in Closed /\ Own(o) # {}
  BY ConflictDecision DEF Observed, OwnHold, Own
<1> QED
  BY <1>1, <1>2, <1>3 DEF Alarming

\* A step that raises one alarm of a known name.
LEMMA NamedAlarm ==
    ASSUME TypeInv, NEW o \in Orders,
           NEW type \in {"HOLD_FAILED", "RELEASE_FAILED", "MANUAL_REVIEW"},
           \/ alarms' = [alarms EXCEPT ![o] = @ \cup {type}]
           \/ alarms' = alarms
    PROVE  \A p \in Orders : Alarming(p)
  BY SMTT(30) DEF Alarming, Raisable, TypeInv, TypeOK

LEMMA DatabaseRaises ==
    ASSUME TypeInv, NEW o \in Orders, Database(o)
    PROVE  \A p \in Orders : Alarming(p)
<1>1. ASSUME NEW first, NEW second, SetProject(o, first, second)
      PROVE  \A p \in Orders : Alarming(p)
  <2>1. PICK view, chosen :
          SetDecision(o, first, second) = derive_state(Observed(o, view, chosen))
    BY DEF SetDecision, Targeted, Decision, snapshot
  <2> QED
    BY <1>1, <2>1, RaiseAlarms DEF SetProject
<1>2. ASSUME NEW view, ConfirmProject(o, view) \/ CheckAiProject(o, view)
      PROVE  \A p \in Orders : Alarming(p)
  BY <1>2, RaiseAlarms
     DEF ConfirmProject, CheckAiProject, Decision, snapshot
<1>3. ASSUME NEW view, VerifyProject(o, view)
      PROVE  \A p \in Orders : Alarming(p)
  <2>1. \/ alarms' = [alarms EXCEPT ![o] = @ \cup {"HOLD_FAILED"}]
        \/ alarms' = alarms
    BY <1>3 DEF VerifyProject, TypeInv, TypeOK
  <2> QED
    BY <2>1, NamedAlarm
<1>4. ASSUME NEW view, NEW c, VerifyRetry(o, view, c)
      PROVE  \A p \in Orders : Alarming(p)
  <2>1. \/ alarms' = [alarms EXCEPT ![o] = @ \cup {"HOLD_FAILED"}]
        \/ alarms' = alarms
    BY <1>4 DEF VerifyRetry, TypeInv, TypeOK
  <2> QED
    BY <2>1, NamedAlarm
<1>5. ASSUME NEW view, ReleaseFails(o, view)
      PROVE  \A p \in Orders : Alarming(p)
  BY <1>5, NamedAlarm DEF ReleaseFails
<1>6. ASSUME alarms' = alarms
      PROVE  \A p \in Orders : Alarming(p)
  BY <1>6 DEF Alarming
<1>7. ASSUME NEW view, \/ VerifyFound(o, view)
                       \/ VerifyWait(o, view)
                       \/ VerifyRelease(o, view)
                       \/ ReleasePending(o, view)
      PROVE  alarms' = alarms
  BY <1>7 DEF VerifyFound, VerifyWait, VerifyRelease, ReleasePending
<1> QED
  BY <1>1, <1>2, <1>3, <1>4, <1>5, <1>6, <1>7 DEF Database

\* Every alarm has a name the incident table knows.
LEMMA AlarmSteps ==
    ASSUME TypeInv, [Next]_vars
    PROVE  \A p \in Orders : Alarming(p)
<1> USE DEF order, ledger, mes, world
<1>1. ASSUME alarms' = alarms
      PROVE  \A p \in Orders : Alarming(p)
  BY <1>1 DEF Alarming
<1>2. ASSUME NEW w \in Workers, SetRound(w)
      PROVE  \A p \in Orders : Alarming(p)
  <2>1. ASSUME NEW view, SetFinish(w, view)
        PROVE  \A p \in Orders : Alarming(p)
    <3>1. worker[w].order \in Orders
      BY <2>1 DEF SetFinish, TypeInv, JobsHaveOrders
    <3> QED
      BY <2>1, <3>1, RaiseAlarms DEF SetFinish, Decision, snapshot
  <2>2. alarms' = alarms \/ \E view : SetFinish(w, view)
    <3>1. \A o, c : Intent(w, o, c) => alarms' = alarms
      BY DEF Intent
    <3>2. \A receipt, effect : SetHoldCall(w, receipt, effect) => alarms' = alarms
      BY DEF SetHoldCall
    <3>3. SetReceipt(w) => alarms' = alarms
      BY DEF SetReceipt
    <3> QED
      BY <1>2, <3>1, <3>2, <3>3 DEF SetRound, SetSend, SetBackup
  <2> QED
    BY <1>1, <2>1, <2>2
<1>3. ASSUME NEW w \in Workers, ReleaseRound(w)
      PROVE  alarms' = alarms
  BY <1>3 DEF ReleaseRound, CheckAiSend, ReleaseCall, ReleaseReceipt
<1>4. ASSUME Environment
      PROVE  \A p \in Orders : Alarming(p)
  <2>1. ASSUME NEW o \in Orders, RosterChanges(o)
        PROVE  \A p \in Orders : Alarming(p)
    BY <2>1, NamedAlarm DEF RosterChanges
  <2>2. alarms' = alarms \/ \E o \in Orders : RosterChanges(o)
    BY <1>4 DEF Environment, Crash, SmmChanges, LineReleases, CreateOrder,
       ManualClose, ScanAdvances, ControlTrips, Resume
  <2> QED
    BY <1>1, <2>1, <2>2
<1>5. CASE UNCHANGED vars
  BY <1>1, <1>5 DEF vars
<1> QED
  BY <1>1, <1>2, <1>3, <1>4, <1>5, DatabaseRaises DEF Next


-----------------------------------------------------------------------------
(* Mails *)

\* The incident table may go on to b: no mail is unsent.
Follows(b) == BookOK(b) /\ \A k \in Keys : Sent(book, k) => Sent(b, k)

LEMMA OpenFollows ==
    ASSUME NEW b, Follows(b), NEW keys \in SUBSET Keys
    PROVE  Follows(Open(b, keys))
  BY OpenOK, OpenSent DEF Follows

LEMMA ResolveFollows ==
    ASSUME NEW b, Follows(b), NEW keys
    PROVE  Follows(Resolve(b, keys))
  BY ResolveOK, ResolveSent DEF Follows

LEMMA RaisedFollows ==
    ASSUME BookOK(book), \A p \in Orders : Alarming(p)
    PROVE  Follows(book) /\ Follows(Raised)
<1> DEFINE keys == UNION {{Order(o, type) : type \in alarms'[o] \ alarms[o]} :
                            o \in Orders}
<1>1. keys \in SUBSET Keys
  BY DEF Alarming, Raisable, Order, Keys, OrderTypes
<1>2. Follows(book)
  BY DEF Follows
<1>3. Raised = Open(book, keys)
  BY DEF Raised
<1> HIDE DEF keys
<1> QED
  BY <1>1, <1>2, <1>3, OpenFollows

\* A step that sends no mail and breaks no pass off.
LEMMA LettersKept ==
    ASSUME LettersInv, letters' = letters, broken' = broken,
           \A k \in Keys : Out(k) => Out(k)'
    PROVE  LettersInv'
  BY DEF LettersInv

\* A job's transaction makes every pass stale.
LEMMA MailCommit ==
    ASSUME SweepInv, MailInv, NEW b, Follows(b), Commits(b), Clocks
    PROVE  MailInv'
<1>1. \A d \in Sweepers : /\ sweep'[d].pc = sweep[d].pc
                          /\ sweep'[d].book = sweep[d].book
                          /\ sweep'[d].page = sweep[d].page
                          /\ ~sweep[d].locked
                          /\ sweep'[d].locked = sweep[d].locked
                          /\ sweep'[d].fresh = FALSE
  BY DEF Commits, Unlocked, SweepInv, PassInv
<1>2. \A d \in Sweepers : PassOK(sweep[d])'
  BY <1>1 DEF PassOK, MailInv, BooksOK
<1>3. \A d \in Sweepers : ~Current(sweep[d])'
  BY <1>1 DEF Current
<1>4. BooksOK'
  BY <1>2, <1>3 DEF BooksOK, Commits, Follows, BookOK, IsBook, Told
<1>5. old' \in [Orders -> BOOLEAN] /\ late' \in [Orders -> BOOLEAN]
  BY DEF Clocks, MailInv
<1>6. LettersInv'
  <2>1. \A k \in Keys : Out(k) => Out(k)'
    BY <1>1 DEF Out, Commits, Follows, Sent
  <2> QED
    BY <2>1, LettersKept DEF MailInv, Commits
<1> QED
  BY <1>4, <1>5, <1>6 DEF MailInv, Commits

LEMMA ScannedFollows ==
    ASSUME NEW b, Follows(b), NEW o, NEW view
    PROVE  Follows(WhenScanned(b, o, view))
  BY ResolveFollows DEF WhenScanned

LEMMA LateKeys == \A o \in Orders : LateRelease(o) \in SUBSET Keys
  BY DEF LateRelease, Order, Keys, OrderTypes

LEMMA JobMail ==
    ASSUME SweepInv, MailInv, \A p \in Orders : Alarming(p),
           NEW o \in Orders, JobPass(o)
    PROVE  MailInv'
<1>1. Follows(book) /\ Follows(Raised)
  BY RaisedFollows DEF MailInv, BooksOK
<1>2. PICK b : Follows(b) /\ Commits(b) /\ Clocks
  <2>1. CASE Plainly
    BY <1>1, <2>1 DEF Plainly
  <2>2. ASSUME NEW view, NEW w,
               CheckAiPass(o, view) \/ CheckAiRelease(w, o, view)
        PROVE  \E b : Follows(b) /\ Commits(b) /\ Clocks
    BY <1>1, <2>2, ScannedFollows DEF CheckAiPass, CheckAiRelease
  <2>3. ASSUME NEW view, ConfirmReleasePass(o, view)
        PROVE  \E b : Follows(b) /\ Commits(b) /\ Clocks
    <3>1. /\ Follows(Open(Raised, LateRelease(o)))
          /\ Follows(Open(book, LateRelease(o)))
      BY <1>1, LateKeys, OpenFollows
    <3>2. \A c : Follows(c) => Follows(NoLongerOverdue(c, o))
      BY ResolveFollows DEF NoLongerOverdue
    <3> QED
      BY <1>1, <2>3, <3>1, <3>2 DEF ConfirmReleasePass
  <2> QED
    BY <2>1, <2>2, <2>3 DEF JobPass
<1> QED
  BY <1>2, MailCommit

LEMMA SendingMail ==
    ASSUME SweepInv, MailInv, \A p \in Orders : Alarming(p),
           NEW w \in Workers, SendingJob(w)
    PROVE  MailInv'
<1>1. Follows(book) /\ Follows(Raised)
  BY RaisedFollows DEF MailInv, BooksOK
<1>2. PICK b : Follows(b) /\ Commits(b) /\ Clocks
  BY <1>1, ScannedFollows DEF SendingJob, Plainly, CheckAiReceipt
<1> QED
  BY <1>2, MailCommit

LEMMA ResumeMail ==
    ASSUME SweepInv, MailInv, \A p \in Orders : Alarming(p), Plainly
    PROVE  MailInv'
  BY RaisedFollows, MailCommit DEF MailInv, BooksOK, Plainly

\* What happens outside the database, and the passing of time.
LEMMA ElsewhereMail ==
    ASSUME MailInv, UNCHANGED <<book, sweep, letters, broken>>,
           old' \in [Orders -> BOOLEAN], late' \in [Orders -> BOOLEAN]
    PROVE  MailInv'
  BY DEF MailInv, BooksOK, LettersInv, Out

\* A pass takes a step of its own.
LEMMA OwnBooks ==
    ASSUME SweepInv, BooksOK, NEW d \in Sweepers, NEW p, PassOK(p),
           Current(p) => \A k \in Keys : Sent(book, k) => Sent(p.book, k),
           sweep' = [sweep EXCEPT ![d] = p], book' = book
    PROVE  /\ BooksOK'
           /\ sweep'[d] = p
           /\ \A e \in Sweepers : e # d => sweep'[e] = sweep[e]
<1>1. \A e \in Sweepers : sweep'[e] = IF e = d THEN p ELSE sweep[e]
  BY DEF SweepInv
<1>2. \A e \in Sweepers : PassOK(sweep[e])'
  BY <1>1 DEF BooksOK, PassOK
<1>3. \A e \in Sweepers, k \in Keys :
        Current(sweep'[e]) /\ Sent(book, k) => Sent(sweep'[e].book, k)
  BY <1>1 DEF BooksOK
<1> QED
  BY <1>1, <1>2, <1>3 DEF BooksOK, Current, Sent


LEMMA NoPassOK == PassOK(NoPass) /\ ~Current(NoPass)
<1>1. BookOK(Empty)
  BY AttemptsAssumption DEF BookOK, IsBook, Empty, NoRow, Rows, Told
<1> QED
  BY <1>1 DEF PassOK, NoPass, Current

\* The first part of a pass.
LEMMA WatchMail ==
    ASSUME SweepInv, MailInv, NEW d \in Sweepers, NEW view,
           NEW reports \in SUBSET Keys, Watch(d, view, reports)
    PROVE  MailInv'
<1> DEFINE b == Watched(view, reports)
           p == [pc |-> "mail", book |-> b,
                 control |-> IF Trips THEN "DISABLED_NEW_HOLD" ELSE control,
                 page |-> Page(b), locked |-> b # book \/ Trips,
                 fresh |-> TRUE]
<1>1. Follows(b)
  <2> DEFINE keys == (UNION {Report(o, view[o]) : o \in Orders})
                       \cup reports
                       \cup (IF Trips THEN {System("CONTROL_DISABLED")} ELSE {})
  <2>1. keys \in SUBSET Keys
    <3>1. \A o \in Orders : Report(o, view[o]) \in SUBSET Keys
      BY LateKeys DEF Report, Order, Keys, OrderTypes
    <3>2. System("CONTROL_DISABLED") \in Keys
      BY DEF System, Keys, SystemTypes
    <3> QED
      BY <3>1, <3>2
  <2>2. Follows(book)
    BY DEF Follows, MailInv, BooksOK
  <2>3. Follows(Open(book, keys))
    BY <2>1, <2>2, OpenFollows
  <2> HIDE DEF keys
  <2>4. \A done : Follows(Resolve(Open(book, keys), done))
    BY <2>3, ResolveFollows
  <2> QED
    BY <2>4 DEF Watched, keys
<1>2. PassOK(p)
  <2>1. Page(b) \subseteq Pending(b)
          /\ \A i \in Page(b) : ~Exhausted(b.row[b.queue[i]])
    BY DEF Page
  <2>2. p.locked \in BOOLEAN
    OBVIOUS
  <2> QED
    BY <1>1, <2>1, <2>2 DEF PassOK, Follows
<1>3. /\ sweep' = [sweep EXCEPT ![d] = p]
      /\ book' = book /\ letters' = letters /\ broken' = broken
      /\ old' = old /\ late' = late
      /\ sweep[d].pc = "idle"
  BY DEF Watch, ages
<1>4. p.book = b
  OBVIOUS
<1> HIDE DEF p, b
<1>5. /\ BooksOK'
      /\ \A e \in Sweepers : e # d => sweep'[e] = sweep[e]
  BY <1>1, <1>2, <1>3, <1>4, OwnBooks DEF Follows, MailInv
<1>6. ~sweep[d].locked
  BY <1>3 DEF MailInv, BooksOK, PassOK
<1>7. LettersInv'
  <2>1. \A k \in Keys : Out(k) => Out(k)'
    BY <1>3, <1>5, <1>6 DEF Out, Sent
  <2> QED
    BY <1>3, <2>1, LettersKept DEF MailInv
<1> QED
  BY <1>3, <1>5, <1>7 DEF MailInv

\* A pass breaks off: what it sent may be sent again.
LEMMA BreakMail ==
    ASSUME SweepInv, MailInv, NEW d \in Sweepers,
           sweep' = [sweep EXCEPT ![d] = NoPass], broken' = Cut(broken),
           letters' = letters, UNCHANGED <<book, ages>>
    PROVE  MailInv'
<1>1. BooksOK'
  BY NoPassOK, OwnBooks DEF MailInv
<1>2. broken' \in 0..MaxBroken
  BY DefenseAssumption DEF MailInv, Cut
<1>3. LettersInv'
  BY DefenseAssumption DEF MailInv, LettersInv, Cut
<1> QED
  BY <1>1, <1>2, <1>3 DEF MailInv, ages

\* A nonempty set of numbers has a least one.
LEMMA LeastNumber ==
    ASSUME NEW T \in SUBSET Nat, T # {}
    PROVE  Min(T) \in T
<1>1. PICK n \in T : \A m \in T : <<m, n>> \notin OpToRel(<, Nat)
  BY NatLessThanWellFounded, WFMin
<1>2. \A m \in T : ~(m < n)
  BY <1>1 DEF OpToRel
<1>3. \A m \in T : m \in Nat
  OBVIOUS
<1>4. n \in T /\ \A m \in T : n <= m
  BY <1>2, <1>3
<1> QED
  BY <1>4 DEF Min

\* A mail of the page has not been sent by this pass, or by one that committed.
LEMMA NextMail ==
    ASSUME MailInv, NEW d \in Sweepers, sweep[d].page # {}
    PROVE  LET next == Min(sweep[d].page)
               k == sweep[d].book.queue[next] IN
           /\ next \in sweep[d].page /\ next \in DOMAIN sweep[d].book.queue
           /\ k \in Keys
           /\ Told(sweep[d].book, k)
           /\ ~Exhausted(sweep[d].book.row[k])
           /\ ~Sent(sweep[d].book, k)
           /\ Current(sweep[d]) => ~Sent(book, k)
<1> DEFINE next == Min(sweep[d].page)
           k == sweep[d].book.queue[next]
           b == sweep[d].book
<1>1. BookOK(b) /\ sweep[d].page \subseteq Pending(b)
        /\ \A i \in sweep[d].page : ~Exhausted(b.row[b.queue[i]])
  BY DEF MailInv, BooksOK, PassOK
<1>2. \A i \in DOMAIN b.queue : i \in Nat /\ b.queue[i] \in Keys
  BY <1>1 DEF BookOK
<1>3. sweep[d].page \in SUBSET DOMAIN b.queue
  BY <1>1 DEF Pending
<1>4. sweep[d].page \in SUBSET Nat
  BY <1>2, <1>3
<1>5. next \in sweep[d].page
  BY <1>4, LeastNumber
<1> HIDE DEF next
<1>6. k \in Keys /\ Told(b, k) /\ ~Exhausted(b.row[k]) /\ next \in DOMAIN b.queue
  BY <1>1, <1>2, <1>3, <1>5 DEF BookOK
<1>7. ~Sent(b, k)
  BY <1>1, <1>5 DEF Pending, Sent
<1>8. Current(sweep[d]) => ~Sent(book, k)
  BY <1>6, <1>7 DEF MailInv, BooksOK
<1> QED
  BY <1>5, <1>6, <1>7, <1>8 DEF next


\* The mails that arrived are counted up to the bound.
LEMMA CountsMail ==
    ASSUME NEW f \in [Keys -> 0..MaxBroken + 1], NEW k, NEW ok
    PROVE  [f EXCEPT ![k] = IF ok /\ @ <= MaxBroken THEN @ + 1 ELSE @]
             \in [Keys -> 0..MaxBroken + 1]
<1>1. \A n \in 0..MaxBroken + 1 :
        (IF ok /\ n <= MaxBroken THEN n + 1 ELSE n) \in 0..MaxBroken + 1
  BY DefenseAssumption
<1> QED
  BY <1>1

\* A mail that is marked goes out once.
LEMMA MarkMail ==
    ASSUME SweepInv, MailInv, NEW d \in Sweepers, NEW ok \in BOOLEAN,
           Send(d, ok), sweep[d].locked \/ (sweep[d].fresh /\ Unlocked)
    PROVE  MailInv'
<1> DEFINE next == Min(sweep[d].page)
           b == sweep[d].book
           k == b.queue[next]
           c == Marked(b, k, ok)
           p == [sweep[d] EXCEPT !.book = c, !.page = @ \ {next},
                                 !.locked = TRUE]
<1>1. /\ sweep[d].page # {}
      /\ sweep' = [sweep EXCEPT ![d] = p]
      /\ letters' = [letters EXCEPT ![k] =
                       IF ok /\ @ <= MaxBroken THEN @ + 1 ELSE @]
      /\ broken' = broken /\ book' = book /\ old' = old /\ late' = late
      /\ sweep[d].pc = "mail"
  BY DEF Send, ages
<1>2. Current(sweep[d])
  BY DEF Current
<1>3. /\ next \in sweep[d].page /\ next \in DOMAIN b.queue
      /\ k \in Keys
      /\ Told(b, k)
      /\ ~Exhausted(b.row[k])
      /\ ~Sent(b, k)
      /\ ~Sent(book, k)
  BY <1>1, <1>2, NextMail
<1>4. /\ p.pc = "mail" /\ p.book = c /\ p.page = sweep[d].page \ {next}
      /\ p.locked = TRUE /\ p.fresh = sweep[d].fresh
  BY <1>1 DEF SweepInv, PassInv
<1>5. BookOK(b) /\ sweep[d].page \subseteq Pending(b)
        /\ (\A i \in sweep[d].page : ~Exhausted(b.row[b.queue[i]]))
        /\ sweep[d].fresh \in BOOLEAN
  BY DEF MailInv, BooksOK, PassOK
<1> HIDE DEF next, p
<1>6. /\ BookOK(c)
      /\ c.queue = b.queue
      /\ \A j \in Keys : j # k => c.row[j] = b.row[j]
      /\ ok => Sent(c, k)
  BY <1>3, <1>5, MarkedOK
<1> HIDE DEF c
<1>7. \A i \in p.page : /\ i \in Pending(b)
                        /\ c.queue[i] \in Keys
                        /\ c.row[c.queue[i]] = b.row[b.queue[i]]
  <2> TAKE i \in p.page
  <2>1. i \in Pending(b) /\ i \in DOMAIN b.queue /\ i # next
    BY <1>4, <1>5 DEF Pending
  <2>2. b.queue[i] \in Keys /\ b.queue[i] # k
    <3>1. /\ b.queue \in Seq(Keys)
          /\ \A m, n \in DOMAIN b.queue : b.queue[m] = b.queue[n] => m = n
      BY <1>5 DEF BookOK
    <3>2. next \in DOMAIN b.queue /\ k = b.queue[next]
      BY <1>3
    <3> QED
      BY <2>1, <3>1, <3>2
  <2> QED
    BY <1>6, <2>1, <2>2
<1>8. PassOK(p)
  BY <1>4, <1>5, <1>6, <1>7 DEF PassOK, Pending
<1>9. \A j \in Keys : Sent(b, j) => Sent(c, j)
  BY <1>3, <1>6 DEF Sent
<1>10. \A j \in Keys : Sent(book, j) => Sent(p.book, j)
  BY <1>2, <1>4, <1>9 DEF MailInv, BooksOK
<1>11. /\ BooksOK'
       /\ sweep'[d] = p
       /\ \A e \in Sweepers : e # d => sweep'[e] = sweep[e]
  BY <1>1, <1>8, <1>10, OwnBooks DEF MailInv
<1>12. \A e \in Sweepers : sweep[e].locked => e = d
  BY DEF Unlocked, SweepInv
<1>13. \A j \in Keys : /\ Out(j) => Out(j)'
                       /\ j = k => ~Out(j) /\ (ok => Out(j)')
  <2>1. \A j \in Keys : Sent(c, j) => Out(j)'
    BY <1>4, <1>11 DEF Out, Sent
  <2>2. \A j \in Keys : Sent(book, j) => Out(j)'
    BY <1>1 DEF Out, Sent
  <2> QED
    BY <1>3, <1>6, <1>9, <1>12, <2>1, <2>2 DEF Out
<1>14. letters' \in [Keys -> 0..MaxBroken + 1] /\ broken' \in 0..MaxBroken
  BY <1>1, CountsMail DEF MailInv
<1>15. LettersInv'
  <2> SUFFICES ASSUME NEW j \in Keys
               PROVE  /\ letters'[j] <= 1 + broken'
                      /\ broken' < MaxBroken /\ ~Out(j)' =>
                           letters'[j] <= broken'
    BY DEF LettersInv
  <2>1. /\ letters[j] \in Nat /\ broken \in Nat /\ MaxBroken \in Nat
        /\ letters[j] <= MaxBroken + 1 /\ broken <= MaxBroken
        /\ letters[j] <= 1 + broken
        /\ broken < MaxBroken /\ ~Out(j) => letters[j] <= broken
    BY DefenseAssumption DEF MailInv, LettersInv
  <2>2. CASE j # k \/ ~ok
    <3>1. letters'[j] = letters[j]
      BY <1>1, <2>2 DEF MailInv
    <3> QED
      BY <1>1, <1>13, <2>1, <3>1
  <2>3. CASE j = k /\ ok
    <3>1. letters'[j] = IF letters[j] <= MaxBroken THEN letters[j] + 1
                        ELSE letters[j]
      BY <1>1, <2>3 DEF MailInv
    <3>2. ~Out(j) /\ Out(j)'
      BY <1>13, <2>3
    <3> QED
      BY <1>1, <2>1, <3>1, <3>2
  <2> QED
    BY <2>2, <2>3
<1> QED
  BY <1>1, <1>11, <1>14, <1>15 DEF MailInv

\* A mail that cannot be marked breaks the pass off.
LEMMA LoseMail ==
    ASSUME SweepInv, MailInv, NEW d \in Sweepers, NEW ok \in BOOLEAN,
           Send(d, ok), ~(sweep[d].locked \/ (sweep[d].fresh /\ Unlocked))
    PROVE  MailInv'
<1> DEFINE k == sweep[d].book.queue[Min(sweep[d].page)]
<1>1. /\ sweep[d].page # {}
      /\ sweep' = [sweep EXCEPT ![d] = NoPass]
      /\ letters' = [letters EXCEPT ![k] =
                       IF ok /\ @ <= MaxBroken THEN @ + 1 ELSE @]
      /\ broken' = Cut(broken) /\ book' = book /\ old' = old /\ late' = late
  BY DEF Send, ages
<1> HIDE DEF k
<1>2. /\ BooksOK'
      /\ \A e \in Sweepers : e # d => sweep'[e] = sweep[e]
  BY <1>1, NoPassOK, OwnBooks DEF MailInv
<1>3. \A j \in Keys : Out(j) => Out(j)'
  BY <1>1, <1>2 DEF Out, Sent
<1>4. letters' \in [Keys -> 0..MaxBroken + 1] /\ broken' \in 0..MaxBroken
  <2>1. letters' \in [Keys -> 0..MaxBroken + 1]
    BY <1>1, CountsMail DEF MailInv
  <2> QED
    BY <1>1, <2>1, DefenseAssumption DEF MailInv, Cut
<1>5. LettersInv'
  <2> SUFFICES ASSUME NEW j \in Keys
               PROVE  /\ letters'[j] <= 1 + broken'
                      /\ broken' < MaxBroken /\ ~Out(j)' =>
                           letters'[j] <= broken'
    BY DEF LettersInv
  <2>1. /\ letters[j] \in Nat /\ broken \in Nat /\ MaxBroken \in Nat
        /\ letters[j] <= MaxBroken + 1 /\ broken <= MaxBroken
        /\ letters[j] <= 1 + broken
        /\ broken < MaxBroken /\ ~Out(j) => letters[j] <= broken
    BY DefenseAssumption DEF MailInv, LettersInv
  <2>2. /\ letters'[j] \in Nat
        /\ letters'[j] <= letters[j] + 1
        /\ letters'[j] <= MaxBroken + 1
    BY <1>1, <1>4, <2>1 DEF MailInv
  <2>3. broken' = IF broken < MaxBroken THEN broken + 1 ELSE broken
    BY <1>1 DEF Cut
  <2> QED
    BY <1>3, <2>1, <2>2, <2>3
<1> QED
  BY <1>1, <1>2, <1>4, <1>5 DEF MailInv

\* The end of a pass commits the mails it sent.
LEMMA CommitMail ==
    ASSUME SweepInv, MailInv, NEW d \in Sweepers, Commit(d)
    PROVE  MailInv'
<1>1. letters' = letters /\ broken' = broken /\ old' = old /\ late' = late
  BY DEF Commit, ages
<1>2. CASE ~sweep[d].locked
  <2>1. sweep' = [sweep EXCEPT ![d] = NoPass] /\ book' = book
    BY <1>2 DEF Commit
  <2>2. BooksOK' /\ \A e \in Sweepers : e # d => sweep'[e] = sweep[e]
    BY <2>1, NoPassOK, OwnBooks DEF MailInv
  <2>3. \A j \in Keys : Out(j) => Out(j)'
    BY <1>2, <2>1, <2>2 DEF Out, Sent
  <2> QED
    BY <1>1, <2>2, <2>3, LettersKept DEF MailInv
<1>3. CASE sweep[d].locked
  <2>1. book' = sweep[d].book
    BY <1>3 DEF Commit
  <2>2. \A e \in Sweepers :
          /\ e = d => sweep'[e] = NoPass
          /\ e # d => /\ sweep'[e].pc = sweep[e].pc
                      /\ sweep'[e].book = sweep[e].book
                      /\ sweep'[e].page = sweep[e].page
                      /\ sweep'[e].fresh = FALSE
                      /\ sweep'[e].locked = FALSE
    BY <1>3 DEF Commit, SweepInv, PassInv, MailInv, BooksOK, PassOK
  <2>3. \A e \in Sweepers : PassOK(sweep'[e]) /\ ~Current(sweep'[e])
    <3> TAKE e \in Sweepers
    <3>1. CASE e = d
      BY <2>2, <3>1, NoPassOK
    <3>2. CASE e # d
      BY <2>2, <3>2 DEF PassOK, Current, MailInv, BooksOK
    <3> QED
      BY <3>1, <3>2
  <2>4. \A e \in Sweepers : PassOK(sweep[e])' /\ ~Current(sweep[e])'
    BY <2>3 DEF PassOK, BookOK, IsBook, Told, Pending, Exhausted, Current
  <2>5. BookOK(book)'
    BY <2>1 DEF MailInv, BooksOK, PassOK, BookOK, IsBook, Told
  <2>6. \A j \in Keys : Out(j) => Out(j)'
    <3>1. \A e \in Sweepers : sweep[e].locked => e = d
      BY <1>3 DEF SweepInv
    <3>2. \A j \in Keys : Out(j) => Sent(sweep[d].book, j)
      BY <1>3, <3>1 DEF Out, MailInv, BooksOK, Current
    <3> QED
      BY <2>1, <3>2 DEF Out, Sent
  <2> QED
    BY <1>1, <2>4, <2>5, <2>6, LettersKept DEF MailInv, BooksOK
<1> QED
  BY <1>2, <1>3

LEMMA SweepMail ==
    ASSUME SweepInv, MailInv, NEW d \in Sweepers, Sweep(d)
    PROVE  MailInv'
<1>1. \A reports \in Reports : reports \in SUBSET Keys
  <2>1. Orphans \in SUBSET Keys
    BY DEF Orphans, Keys
  <2>2. {System("AGENT_STALL"), System("COVERAGE_MISMATCH")} \in SUBSET Keys
    BY DEF System, Keys, SystemTypes
  <2> QED
    BY <2>1, <2>2 DEF Reports
<1>2. ASSUME NEW ok \in BOOLEAN, Send(d, ok)
      PROVE  MailInv'
  BY <1>2, MarkMail, LoseMail
<1>3. CASE Kill(d)
  BY <1>3, BreakMail DEF Kill
<1> QED
  BY <1>1, <1>2, <1>3, WatchMail, CommitMail DEF Sweep


-----------------------------------------------------------------------------
(* The orders, with DEFENSE at work *)

\* DEFENSE changes nothing of the orders; it may disable new holds.
LEMMA SweepFrame ==
    ASSUME SweepInv, NEW d \in Sweepers, Sweep(d)
    PROVE  /\ UNCHANGED <<order, ledger, alarms, worker, mes, scan>>
           /\ control' \in Modes
<1>1. \A e \in Sweepers : sweep[e].control \in Modes
  BY DEF SweepInv, PassInv
<1> QED
  BY <1>1 DEF Sweep, Watch, Send, Commit, Kill, vars, order, ledger, mes,
              SweepInv

\* Every step keeps the shape of the orders.
LEMMA DTypeStep ==
    ASSUME SweepInv, TypeInv, [DNext]_dvars
    PROVE  TypeInv'
<1>1. ASSUME NEW d \in Sweepers, Sweep(d)
      PROVE  TypeInv'
  BY <1>1, SweepFrame
     DEF TypeInv, TypeOK, JobsHaveOrders, order, ledger, mes, Modes
<1> QED
  BY <1>1, JobsRefine, TypeStep

LEMMA MailInit == DInit => MailInv
<1> SUFFICES ASSUME DInit
             PROVE  MailInv
  OBVIOUS
<1>1. BookOK(book) /\ \A d \in Sweepers : sweep[d] = NoPass
  BY NoPassOK DEF DInit, PassOK, NoPass
<1>2. BooksOK
  BY <1>1, NoPassOK DEF BooksOK
<1>3. \A k \in Keys : letters[k] = 0
  BY DEF DInit
<1> QED
  BY <1>2, <1>3, DefenseAssumption DEF MailInv, LettersInv, DInit

LEMMA MailStep ==
    ASSUME SweepInv, TypeInv, MailInv, [DNext]_dvars
    PROVE  MailInv'
<1>1. ASSUME NEW d \in Sweepers, Sweep(d)
      PROVE  MailInv'
  BY <1>1, SweepMail
<1>2. CASE ~\E d \in Sweepers : Sweep(d)
  <2>1. \A p \in Orders : Alarming(p)
    BY <1>2, JobsRefine, AlarmSteps
  <2>2. ASSUME NEW o \in Orders, JobPass(o)
        PROVE  MailInv'
    BY <2>1, <2>2, JobMail
  <2>3. ASSUME NEW w \in Workers, SendingJob(w)
        PROVE  MailInv'
    BY <2>1, <2>3, SendingMail
  <2>4. CASE Resume /\ Plainly
    BY <2>1, <2>4, ResumeMail
  <2>5. ASSUME NEW o \in Orders, HoldAges(o) \/ ReleaseAges(o)
        PROVE  MailInv'
    BY <2>5, ElsewhereMail DEF HoldAges, ReleaseAges, MailInv
  <2>6. CASE UNCHANGED <<book, ages, sweep, letters, broken>>
    BY <2>6, ElsewhereMail DEF ages, MailInv
  <2> QED
    BY <1>2, <2>2, <2>3, <2>4, <2>5, <2>6 DEF DNext, dvars, ages
<1> QED
  BY <1>1, <1>2

LEMMA MailMeans ==
    ASSUME SweepInv, MailInv
    PROVE  DTypeOK /\ RepeatsAreBreaks
<1>1. \A d \in Sweepers :
         [pc |-> sweep[d].pc, control |-> sweep[d].control,
          locked |-> sweep[d].locked, fresh |-> sweep[d].fresh] \in Passes
  BY DEF Passes, MailInv, BooksOK, PassOK, SweepInv, PassInv, Modes
<1>2. DTypeOK
  BY <1>1 DEF DTypeOK, MailInv, BooksOK, BookOK, IsBook, SweepInv
<1>3. RepeatsAreBreaks
  BY DEF RepeatsAreBreaks, MailInv, LettersInv
<1> QED
  BY <1>2, <1>3

\* The incident table, the ages, the letters and the passes keep their shape:
\* no mail is tried more than MaxAttempts times, and one pass at a time has
\* the write lock.
THEOREM DefenseTypes == DSpec => []DTypeOK
<1>1. SweepInv /\ TypeInv /\ MailInv /\ [DNext]_dvars
        => SweepInv' /\ TypeInv' /\ MailInv'
  BY SweepStep, DTypeStep, MailStep
<1>2. DInit => SweepInv /\ TypeInv /\ MailInv
  BY SweepInit, MailInit, TypeInit DEF DInit
<1>3. SweepInv /\ MailInv => DTypeOK
  BY MailMeans
<1> QED
  BY <1>1, <1>2, <1>3, PTL DEF DSpec

\* A mail arrives more than once only as often as passes broke off between
\* the mail and their commit, whatever passes overlap, fail or are killed,
\* for any number of sweepers, orders, lots and mails of a page.
THEOREM RepeatsAreAccounted == DSpec => []RepeatsAreBreaks
<1>1. SweepInv /\ TypeInv /\ MailInv /\ [DNext]_dvars
        => SweepInv' /\ TypeInv' /\ MailInv'
  BY SweepStep, DTypeStep, MailStep
<1>2. DInit => SweepInv /\ TypeInv /\ MailInv
  BY SweepInit, MailInit, TypeInit DEF DInit
<1>3. SweepInv /\ MailInv => RepeatsAreBreaks
  BY MailMeans
<1> QED
  BY <1>1, <1>2, <1>3, PTL DEF DSpec

\* DEFENSE keeps what is promised about the holds.
LEMMA DOwnershipStep ==
    ASSUME OneRoundPerLot, SweepInv, OwnershipInv, [DNext]_dvars
    PROVE  OwnershipInv'
<1>1. TypeInv /\ TypeInv' /\ \A p \in Orders : OrderInv(p)
  BY DTypeStep DEF OwnershipInv
<1>2. ASSUME NEW d \in Sweepers, Sweep(d)
      PROVE  OwnershipInv'
  <2>1. /\ cmd' = cmd /\ rel' = rel /\ bind' = bind /\ mesOwn' = mesOwn
        /\ life' = life /\ work' = work /\ worker' = worker
    BY <1>2, SweepFrame DEF order, ledger, mes
  <2>2. \A p \in Orders : OrderInv(p)'
    BY <1>1, <2>1, BystanderKeeps DEF OrderInv, Tried
  <2> QED
    BY <1>1, <2>2 DEF OwnershipInv
<1> QED
  BY <1>2, JobsRefine, OwnershipStep

\* So the promises of HoldOrder hold with DEFENSE at work, whatever hazards
\* the rest of the fab has.
THEOREM HoldsStaySafe ==
    ASSUME OneRoundPerLot
    PROVE  DSpec => [](NoDoubleHold /\ HoldIsOwned /\ ClosedHasNoHold)
<1>1. SweepInv /\ OwnershipInv /\ [DNext]_dvars => SweepInv' /\ OwnershipInv'
  BY SweepStep, DOwnershipStep
<1>2. DInit => SweepInv /\ OwnershipInv
  BY SweepInit, OwnershipInit DEF DInit
<1>3. OwnershipInv => NoDoubleHold /\ HoldIsOwned /\ ClosedHasNoHold
  BY OwnershipMeans
<1> QED
  BY <1>1, <1>2, <1>3, PTL DEF DSpec


-----------------------------------------------------------------------------
(* What a step does to an order with an overdue release *)

\* MES refused the release for good and nobody is sending it.
Over(p) == rel[p].state = "REJECTED" /\ \A w \in Workers : ~Releasing(w, p)

\* An order that asked for a release is not closed but after a refusal, and a
\* closed order that asked in vain does not ask again.
LateStep(p) ==
    rel[p].state # "NONE" =>
      /\ rel'[p].state # "NONE"
      /\ life'[p] = "CLOSED" => (life[p] = "CLOSED" /\ ~Over(p)) \/ Over(p)'

\* What an operator ended stays ended.
EndStep(p) == life[p] = "MANUAL_CLOSED" => life'[p] = "MANUAL_CLOSED"

LEMMA LateFrame ==
    ASSUME NEW p \in Orders, rel'[p] = rel[p],
           life'[p] = life[p] \/ life'[p] # "CLOSED",
           \A w \in Workers : Releasing(w, p)' => Releasing(w, p)
    PROVE  LateStep(p)
  BY DEF LateStep, Over

\* A decision closes no order whose release waits for its retry (A1-09).
LEMMA ClosingAfterRetry ==
    ASSUME NEW s, s.life \notin Closed, derive_state(s).work \in Closed
    PROVE  s.rel.state # "RETRY_WAIT"
  BY DEF derive_state, OpenRule, ObservedRule, NewHoldRule, SkipRule, ScanRule,
         Rule, Closed

\* persist_projection of an open order.
LEMMA ProjectLate ==
    ASSUME TypeInv, \A p \in Orders : OrderInv(p), NEW o \in Orders,
           NEW view, NEW chosen, NEW d,
           d = derive_state(Observed(o, view, chosen)), life[o] = "OPEN",
           Project(o, d), rel' = rel, worker' = worker
    PROVE  \A p \in Orders : LateStep(p) /\ EndStep(p)
<1>1. \A p \in Orders : p # o => life'[p] = life[p]
  BY DEF Project, TypeInv, TypeOK
<1>2. life'[o] = "CLOSED" => d.work \in Closed
  BY DEF Project, TypeInv, TypeOK, Closed
<1>3. ASSUME d.work \in Closed, rel[o].state # "NONE"
      PROVE  Over(o)
  <2>1. life[o] \notin Closed
    BY DEF Closed
  <2>2. ~InFlight(rel[o]) /\ rel[o].state # "RETRY_WAIT"
    BY <1>3, <2>1, ClosingDecision, ClosingAfterRetry
       DEF Observed, ReleaseInFlight
  <2>3. rel[o].state # "CONFIRMED"
    BY <2>1 DEF OrderInv, Releaser
  <2>4. rel[o].state \in ActionStates
    BY DEF TypeInv, TypeOK, ReleaseCommands
  <2>5. rel[o].state = "REJECTED"
    BY <1>3, <2>2, <2>3, <2>4 DEF InFlight, InFlightStates, ActionStates
  <2> QED
    BY <2>1, <2>5 DEF Over, OrderInv, Releaser
<1>4. \A p \in Orders : Over(p)' <=> Over(p)
  BY DEF Over, Releasing
<1>5. LateStep(o)
  BY <1>2, <1>3, <1>4 DEF LateStep
<1>6. \A p \in Orders : p # o => LateStep(p)
  BY <1>1, <1>4 DEF LateStep
<1> QED
  BY <1>1, <1>5, <1>6 DEF EndStep

LEMMA SetRoundLate ==
    ASSUME TypeInv, NEW w \in Workers, SetRound(w)
    PROVE  \A p \in Orders : LateStep(p) /\ EndStep(p)
<1> USE DEF order, ledger, mes, world
<1>1. ASSUME rel' = rel, life' = life, NEW j,
             worker' = [worker EXCEPT ![w] = j],
             j.pc \notin {"release_call", "release_done"}
      PROVE  \A p \in Orders : LateStep(p) /\ EndStep(p)
  <2>1. \A v \in Workers : worker'[v] = IF v = w THEN j ELSE worker[v]
    BY <1>1 DEF TypeInv, TypeOK
  <2>2. \A p \in Orders : \A v \in Workers : Releasing(v, p)' => Releasing(v, p)
    BY <1>1, <2>1 DEF Releasing
  <2> QED
    BY <1>1, <2>2, LateFrame DEF EndStep
<1>2. ASSUME NEW o, NEW c, Intent(w, o, c)
      PROVE  \A p \in Orders : LateStep(p) /\ EndStep(p)
  BY <1>1, <1>2 DEF Intent, Job
<1>3. ASSUME NEW receipt, NEW effect, SetHoldCall(w, receipt, effect)
      PROVE  \A p \in Orders : LateStep(p) /\ EndStep(p)
  BY <1>1, <1>3 DEF SetHoldCall, Job
<1>4. CASE SetReceipt(w)
  BY <1>1, <1>4 DEF SetReceipt, Job
<1>5. ASSUME NEW view, SetFinish(w, view)
      PROVE  \A p \in Orders : LateStep(p) /\ EndStep(p)
  <2>1. life' = life
    <3>1. CASE Decision(worker[w].order, view).act = "OPEN_INCIDENT"
      <4>1. Decision(worker[w].order, view).work \notin Closed
        BY <3>1, AlarmDecision DEF Decision, Closed
      <4> QED
        BY <1>5, <3>1, <4>1 DEF SetFinish, Project, TypeInv, TypeOK
    <3>2. CASE Decision(worker[w].order, view).act # "OPEN_INCIDENT"
      BY <1>5, <3>2 DEF SetFinish
    <3> QED
      BY <3>1, <3>2
  <2> QED
    BY <1>1, <1>5, <2>1 DEF SetFinish, Idle, Job
<1> QED
  BY <1>2, <1>3, <1>4, <1>5 DEF SetRound, SetSend, SetBackup

LEMMA ReleaseRoundLate ==
    ASSUME TypeInv, NEW w \in Workers, ReleaseRound(w)
    PROVE  \A p \in Orders : LateStep(p) /\ EndStep(p)
<1> USE DEF order, ledger, mes, world
<1>1. life' = life
  BY DEF ReleaseRound, CheckAiSend, ReleaseCall, ReleaseReceipt
<1>2. ASSUME NEW o \in Orders, NEW view, CheckAiSend(w, o, view)
      PROVE  \A p \in Orders : LateStep(p)
  <2>1. life[o] = "OPEN" /\ worker[w].pc = "idle"
    BY <1>2 DEF CheckAiSend
  <2>2. /\ rel'[o].state = "PREPARED"
        /\ \A p \in Orders : p # o => rel'[p] = rel[p]
    <3>1. CASE ReleaseIntent(w, o)
      BY <3>1 DEF ReleaseIntent, TypeInv, TypeOK
    <3>2. CASE ReleaseRetry(w, o)
      <4>1. rel' = [rel EXCEPT ![o].state = "PREPARED"]
        BY <3>2 DEF ReleaseRetry
      <4>2. rel \in [Orders -> ReleaseCommands]
        BY DEF TypeInv, TypeOK
      <4> QED
        BY <4>1, <4>2 DEF ReleaseCommands
    <3> QED
      BY <1>2, <3>1, <3>2 DEF CheckAiSend
  <2>3. \A v \in Workers : \/ worker'[v] = worker[v]
                           \/ worker'[v].order = o
    <3>1. worker \in [Workers -> Jobs]
      BY DEF TypeInv, TypeOK
    <3>2. PICK j : worker' = [worker EXCEPT ![w] = j]
                     /\ (j.order = o \/ j = worker[w])
      BY ZenonT(30), <1>2 DEF CheckAiSend, ReleaseIntent, ReleaseRetry, Job
    <3> QED
      BY <3>1, <3>2
  <2>4. LateStep(o)
    BY <1>1, <2>1, <2>2 DEF LateStep
  <2>5. \A p \in Orders : p # o => LateStep(p)
    BY <1>1, <2>2, <2>3, LateFrame DEF Releasing
  <2> QED
    BY <2>4, <2>5
<1>3. ASSUME NEW receipt, NEW effect, ReleaseCall(w, receipt, effect)
      PROVE  \A p \in Orders : LateStep(p)
  <2>1. \A v \in Workers :
          \/ worker'[v] = worker[v]
          \/ /\ worker[v].pc = "release_call"
             /\ worker'[v].order = worker[v].order
    BY <1>3 DEF ReleaseCall, Job, TypeInv, TypeOK
  <2> QED
    BY <1>1, <1>3, <2>1, LateFrame DEF ReleaseCall, Releasing
<1>4. ASSUME ReleaseReceipt(w)
      PROVE  \A p \in Orders : LateStep(p)
  <2>1. PICK o \in Orders : o = worker[w].order /\ Releasing(w, o)
    BY <1>4 DEF ReleaseReceipt, Releasing, TypeInv, JobsHaveOrders
  <2>2. /\ rel'[o].state # "NONE"
        /\ \A p \in Orders : p # o => rel'[p] = rel[p]
    BY <1>4, <2>1 DEF ReleaseReceipt, TypeInv, TypeOK, state_after_receipt
  <2>3. \A v \in Workers : worker'[v] = worker[v] \/ worker'[v].pc = "idle"
    BY <1>4 DEF ReleaseReceipt, TypeInv, TypeOK, Idle, Job
  <2>4. ~Over(o)
    BY <2>1 DEF Over
  <2>5. LateStep(o)
    BY <1>1, <2>2, <2>4 DEF LateStep
  <2>6. \A p \in Orders : p # o => LateStep(p)
    BY <1>1, <2>2, <2>3, LateFrame DEF Releasing
  <2> QED
    BY <2>5, <2>6
<1> QED
  BY <1>1, <1>2, <1>3, <1>4 DEF ReleaseRound, EndStep

\* The visits that only read MES; VerifyRelease closes the order itself.
LEMMA DatabaseLate ==
    ASSUME TypeInv, \A p \in Orders : OrderInv(p), NEW o \in Orders, Database(o)
    PROVE  /\ \A p \in Orders : EndStep(p) /\ (p # o => LateStep(p))
           /\ LateStep(o) \/ \E view \in Views(o) : VerifyRelease(o, view)
<1> USE DEF world
<1>1. ASSUME rel' = rel, life' = life, worker' = worker
      PROVE  \A p \in Orders : LateStep(p) /\ EndStep(p)
  BY <1>1, LateFrame DEF Releasing, EndStep
<1>2. ASSUME NEW first, NEW second, SetProject(o, first, second)
      PROVE  \A p \in Orders : LateStep(p) /\ EndStep(p)
  <2>1. PICK view, chosen :
          SetDecision(o, first, second) = derive_state(Observed(o, view, chosen))
    BY DEF SetDecision, Targeted, Decision, snapshot
  <2> QED
    BY <1>2, <2>1, ProjectLate DEF SetProject, ledger
<1>3. ASSUME NEW view, \/ ConfirmProject(o, view)
                       \/ CheckAiProject(o, view)
                       \/ VerifyProject(o, view)
      PROVE  \A p \in Orders : LateStep(p) /\ EndStep(p)
  <2>1. /\ rel' = rel /\ worker' = worker /\ life[o] = "OPEN"
        /\ Project(o, Decision(o, view)) \/ life' = life
    BY <1>3 DEF ConfirmProject, CheckAiProject, VerifyProject, AwaitsVerify,
                ledger
  <2> QED
    BY <1>1, <2>1, ProjectLate DEF Decision, snapshot
<1>4. ASSUME NEW view, \/ VerifyFound(o, view)
                       \/ \E c \in Codes : VerifyRetry(o, view, c)
                       \/ VerifyWait(o, view)
                       \/ ReleaseFails(o, view)
                       \/ ReleasePending(o, view)
      PROVE  \A p \in Orders : LateStep(p) /\ EndStep(p)
  BY <1>1, <1>4 DEF VerifyFound, VerifyRetry, VerifyWait, ReleaseFails,
                    ReleasePending, ledger
<1>5. ASSUME NEW view, VerifyRelease(o, view)
      PROVE  \A p \in Orders : EndStep(p) /\ (p # o => LateStep(p))
  <2>1. \A p \in Orders : p # o => rel'[p] = rel[p] /\ life'[p] = life[p]
    BY <1>5 DEF VerifyRelease, TypeInv, TypeOK
  <2>2. life[o] = "OPEN" /\ worker' = worker
    BY <1>5 DEF VerifyRelease, AwaitsRelease
  <2> QED
    BY <2>1, <2>2, LateFrame DEF EndStep, Releasing
<1> QED
  BY <1>2, <1>3, <1>4, <1>5 DEF Database

LEMMA EnvironmentLate ==
    ASSUME TypeInv, Environment
    PROVE  \A p \in Orders : LateStep(p) /\ EndStep(p)
<1> USE DEF order, ledger, mes, world
<1>1. /\ rel' = rel
      /\ \A v \in Workers : worker'[v] = worker[v] \/ worker'[v].pc = "idle"
      /\ \A p \in Orders : /\ life'[p] = life[p] \/ life'[p] # "CLOSED"
                           /\ EndStep(p)
  <2>1. ASSUME NEW w \in Workers, Crash(w)
        PROVE  \A v \in Workers : worker'[v] = worker[v] \/ worker'[v].pc = "idle"
    BY <2>1 DEF Crash, TypeInv, TypeOK, Idle, Job
  <2>2. ASSUME NEW o \in Orders, CreateOrder(o) \/ ManualClose(o)
        PROVE  \A p \in Orders : /\ life'[p] = life[p] \/ life'[p] # "CLOSED"
                                 /\ EndStep(p)
    BY <2>2 DEF CreateOrder, ManualClose, TypeInv, TypeOK, EndStep
  <2>3. rel' = rel /\ (worker' = worker \/ \E w \in Workers : Crash(w))
          /\ (life' = life \/ \E o \in Orders : CreateOrder(o) \/ ManualClose(o))
    BY DEF Environment, Crash, SmmChanges, LineReleases, CreateOrder,
           RosterChanges, ManualClose, ScanAdvances, ControlTrips, Resume
  <2> QED
    BY <2>1, <2>2, <2>3 DEF EndStep
<1> QED
  BY <1>1, LateFrame DEF Releasing


\* CONFIRM_RELEASE closes an order whose release it then confirms.
Verified(p) == life[p] = "OPEN" /\ life'[p] = "CLOSED" /\ rel'[p] # rel[p]

LEMMA VerifyReleaseVerifies ==
    ASSUME TypeInv, NEW o \in Orders, OrderInv(o), NEW view,
           VerifyRelease(o, view)
    PROVE  Verified(o)
<1>1. life[o] = "OPEN" /\ life'[o] = "CLOSED"
  BY DEF VerifyRelease, AwaitsRelease, TypeInv, TypeOK
<1>2. rel'[o].state = "CONFIRMED"
  <2>1. rel' = [rel EXCEPT ![o].state = "CONFIRMED"]
    BY DEF VerifyRelease
  <2>2. rel \in [Orders -> ReleaseCommands]
    BY DEF TypeInv, TypeOK
  <2> QED
    BY <2>1, <2>2 DEF ReleaseCommands
<1>3. rel[o].state # "CONFIRMED"
  BY <1>1 DEF OrderInv, Releaser, Closed
<1> QED
  BY <1>1, <1>2, <1>3 DEF Verified

LEMMA StepLate ==
    ASSUME OwnershipInv, [Next]_vars
    PROVE  \A p \in Orders : EndStep(p) /\ (LateStep(p) \/ Verified(p))
<1>1. TypeInv /\ \A p \in Orders : OrderInv(p)
  BY DEF OwnershipInv
<1>2. ASSUME NEW o \in Orders, Database(o)
      PROVE  \A p \in Orders : EndStep(p) /\ (LateStep(p) \/ Verified(p))
  <2>1. LateStep(o) \/ Verified(o)
    BY <1>1, <1>2, DatabaseLate, VerifyReleaseVerifies
  <2> QED
    BY <1>1, <1>2, <2>1, DatabaseLate
<1>3. CASE UNCHANGED vars
  <2>1. rel' = rel /\ life' = life /\ worker' = worker
    BY <1>3 DEF vars
  <2> QED
    BY <2>1, LateFrame DEF EndStep, Releasing
<1> QED
  BY <1>1, <1>2, <1>3, SetRoundLate, ReleaseRoundLate, EnvironmentLate
     DEF Next

\* The agent puts holds on the lots of its orders only.
LEMMA StrayStep ==
    ASSUME TypeInv, NoStray, [Next]_vars
    PROVE  NoStray'
<1> USE DEF order, ledger, mes, world
<1>1. ASSUME NEW l0, NEW holds, \E o \in Orders : LotOf[o] = l0,
             mesOwn' = [mesOwn EXCEPT ![l0] = holds]
      PROVE  NoStray'
  <2>1. \A l \in Lots : l = l0 \/ mesOwn'[l] = mesOwn[l]
    BY <1>1 DEF TypeInv, TypeOK
  <2> QED
    BY <1>1, <2>1 DEF NoStray
<1>2. ASSUME \A l \in Lots : mesOwn'[l] \subseteq mesOwn[l]
      PROVE  NoStray'
  BY <1>2 DEF NoStray
<1>3. ASSUME NEW w \in Workers, NEW receipt, NEW effect,
             \/ SetHoldCall(w, receipt, effect)
             \/ ReleaseCall(w, receipt, effect)
      PROVE  NoStray'
  <2>1. worker[w].order \in Orders
    BY <1>3 DEF SetHoldCall, ReleaseCall, TypeInv, JobsHaveOrders
  <2> QED
    BY <1>1, <1>3, <2>1 DEF SetHoldCall, ReleaseCall
<1>4. ASSUME NEW l \in Lots, NEW c, LineReleases(l, c)
      PROVE  NoStray'
  <2>1. \A m \in Lots : mesOwn'[m] \subseteq mesOwn[m]
    BY <1>4 DEF LineReleases, TypeInv, TypeOK
  <2> QED
    BY <1>2, <2>1
<1>5. ASSUME mesOwn' = mesOwn
      PROVE  NoStray'
  BY <1>2, <1>5
<1>6. ASSUME NEW w \in Workers, SetRound(w) \/ ReleaseRound(w)
      PROVE  NoStray'
  <2>1. \A o, c : Intent(w, o, c) => mesOwn' = mesOwn
    BY DEF Intent
  <2>2. ASSUME NEW view, SetFinish(w, view)
        PROVE  mesOwn' = mesOwn
    BY <2>2 DEF SetFinish
  <2>3. \A o, view : CheckAiSend(w, o, view) => mesOwn' = mesOwn
    BY DEF CheckAiSend
  <2>4. SetReceipt(w) \/ ReleaseReceipt(w) => mesOwn' = mesOwn
    BY DEF SetReceipt, ReleaseReceipt
  <2> QED
    BY <1>3, <1>5, <1>6, <2>1, <2>2, <2>3, <2>4
       DEF SetRound, ReleaseRound, SetSend, SetBackup
<1>7. ASSUME NEW o \in Orders, Database(o)
      PROVE  mesOwn' = mesOwn
  BY <1>7 DEF Database, SetProject, VerifyFound, VerifyRetry, VerifyWait,
     VerifyProject, ConfirmProject, CheckAiProject, VerifyRelease,
     ReleaseFails, ReleasePending
<1>8. ASSUME Environment
      PROVE  NoStray'
  <2>1. mesOwn' = mesOwn \/ \E l \in Lots, c \in Codes : LineReleases(l, c)
    BY <1>8 DEF Environment, Crash, SmmChanges, CreateOrder,
       RosterChanges, ManualClose, ScanAdvances, ControlTrips, Resume
  <2> QED
    BY <1>4, <1>5, <2>1
<1>9. CASE UNCHANGED vars
  BY <1>5, <1>9 DEF vars
<1> QED
  BY <1>5, <1>6, <1>7, <1>8, <1>9 DEF Next

-----------------------------------------------------------------------------
(* What the incidents of an order tell *)

Late(o) == Order(o, "RELEASE_VERIFY_OVERDUE")

\* What the table b tells that is not told yet is so.
Tells(b) ==
    /\ IsBook(b)
    /\ \A o \in Orders : b.row[Late(o)].status = "OPEN" =>
         book.row[Late(o)].status = "OPEN" \/ IsLate(o)
    /\ \A l \in Lots : Told(b, <<l, "ORPHAN_HOLD">>) =>
         Told(book, <<l, "ORPHAN_HOLD">>)
    /\ \A o \in Orders : Told(b, Order(o, "STATE_CONFLICT")) =>
         Told(book, Order(o, "STATE_CONFLICT")) \/ life[o] = "MANUAL_CLOSED"

LEMMA KindsOfKeys ==
    /\ \A o \in Orders : Late(o) \in Keys /\ Order(o, "STATE_CONFLICT") \in Keys
    /\ \A l \in Lots : <<l, "ORPHAN_HOLD">> \in Keys
  BY DEF Late, Order, Keys, OrderTypes

\* Opening incidents that are so.
LEMMA OpenTells ==
    ASSUME NEW b, Tells(b), NEW keys,
           \A o \in Orders :
             /\ Late(o) \in keys => IsLate(o)
             /\ Order(o, "STATE_CONFLICT") \in keys => life[o] = "MANUAL_CLOSED",
           \A l \in Lots : <<l, "ORPHAN_HOLD">> \notin keys
    PROVE  Tells(Open(b, keys))
<1>1. IsBook(Open(b, keys))
  BY OpenKeeps DEF Keeps, Tells
<1>2. \A k \in Keys : k \notin keys => Open(b, keys).row[k] = b.row[k]
  BY DEF Open
<1>3. \A k \in Keys : Open(b, keys).row[k].status = "OPEN" =>
        k \in keys \/ b.row[k].status = "OPEN"
  BY <1>2
<1>4. \A k \in Keys : Told(Open(b, keys), k) => k \in keys \/ Told(b, k)
  BY <1>2 DEF Told
<1> HIDE DEF Tells
<1>5. \A o \in Orders : Open(b, keys).row[Late(o)].status = "OPEN" =>
        book.row[Late(o)].status = "OPEN" \/ IsLate(o)
  BY <1>3, KindsOfKeys DEF Tells
<1>6. \A l \in Lots : Told(Open(b, keys), <<l, "ORPHAN_HOLD">>) =>
        Told(book, <<l, "ORPHAN_HOLD">>)
  BY <1>4, KindsOfKeys DEF Tells
<1>7. \A o \in Orders : Told(Open(b, keys), Order(o, "STATE_CONFLICT")) =>
        Told(book, Order(o, "STATE_CONFLICT")) \/ life[o] = "MANUAL_CLOSED"
  BY <1>4, KindsOfKeys DEF Tells
<1> QED
  BY <1>1, <1>5, <1>6, <1>7 DEF Tells

\* Resolving or marking says nothing new.
LEMMA QuietTells ==
    ASSUME NEW b, Tells(b), NEW c, IsBook(c),
           \A k \in Keys : \/ c.row[k].status = b.row[k].status
                           \/ c.row[k].status = "RESOLVED" /\ Told(b, k)
    PROVE  Tells(c)
<1>1. \A k \in Keys : /\ c.row[k].status = "OPEN" => b.row[k].status = "OPEN"
                      /\ Told(c, k) => Told(b, k)
  BY DEF Told
<1> QED
  BY <1>1, KindsOfKeys DEF Tells

LEMMA ResolveTells ==
    ASSUME NEW b, Tells(b), NEW keys
    PROVE  Tells(Resolve(b, keys))
<1>1. IsBook(b) /\ IsBook(Resolve(b, keys))
  BY ResolveKeeps DEF Tells, Keeps
<1>2. \A k \in Keys :
        \/ Resolve(b, keys).row[k].status = b.row[k].status
        \/ Resolve(b, keys).row[k].status = "RESOLVED" /\ Told(b, k)
  BY <1>1 DEF Resolve, IsBook, Rows, Told
<1> QED
  BY <1>1, <1>2, QuietTells

\* A decision of a job says so of the order it was about.
LEMMA RaisedTells ==
    ASSUME IsBook(book), OwnershipInv, \A p \in Orders : Alarming(p)
    PROVE  Tells(book) /\ Tells(Raised)
<1> DEFINE keys == UNION {{Order(o, type) : type \in alarms'[o] \ alarms[o]} :
                            o \in Orders}
<1>1. Tells(book)
  BY DEF Tells
<1>2. \A k \in keys : \E o \in Orders, type \in Raisable :
        /\ k = Order(o, type)
        /\ type = "STATE_CONFLICT" => life[o] \in Closed /\ Own(o) # {}
  BY DEF Alarming
<1>3. \A o \in Orders : life[o] \in Closed /\ Own(o) # {} =>
        life[o] = "MANUAL_CLOSED"
  BY DEF OwnershipInv, OrderInv, ClosedIsFinal, Closed
<1>4. Raised = Open(book, keys)
  BY DEF Raised
<1> HIDE DEF keys
<1>5. \A o \in Orders :
        /\ Late(o) \notin keys
        /\ Order(o, "STATE_CONFLICT") \in keys => life[o] = "MANUAL_CLOSED"
  BY <1>2, <1>3 DEF Late, Order, Raisable
<1>6. \A l \in Lots : <<l, "ORPHAN_HOLD">> \notin keys
  BY <1>2 DEF Order, Raisable
<1> QED
  BY <1>1, <1>4, <1>5, <1>6, OpenTells

LEMMA LateReleaseTells ==
    ASSUME NEW b, Tells(b), NEW o \in Orders
    PROVE  Tells(Open(b, LateRelease(o)))
<1>1. \A p \in Orders : /\ Late(p) \in LateRelease(o) => IsLate(p)
                        /\ Order(p, "STATE_CONFLICT") \notin LateRelease(o)
  BY DEF LateRelease, Late, Order
<1>2. \A l \in Lots : <<l, "ORPHAN_HOLD">> \notin LateRelease(o)
  BY DEF LateRelease, Order
<1> QED
  BY <1>1, <1>2, OpenTells


\* What was told before a step and what it tells is so after it.
LEMMA TellsNow ==
    ASSUME TellingInv, NEW b, Tells(b)
    PROVE  LateOK(b) /\ CleanOK(b)
<1>1. \A o \in Orders : IsLate(o) => life[o] = "OPEN" /\ rel[o].state # "NONE"
  BY DEF IsLate, InFlight, InFlightStates
<1> QED
  BY <1>1 DEF TellingInv, Tells, LateOK, CleanOK, Late

LEMMA TellsNext ==
    ASSUME NEW b, LateOK(b), CleanOK(b),
           \A p \in Orders : /\ EndStep(p)
                             /\ \/ LateStep(p)
                                \/ b.row[Late(p)].status # "OPEN"
    PROVE  LateOK(b)' /\ CleanOK(b)'
<1>1. LateOK(b)'
  <2> SUFFICES ASSUME NEW o \in Orders, b.row[Late(o)].status = "OPEN"
               PROVE  /\ rel'[o].state # "NONE"
                      /\ life'[o] = "CLOSED" => Over(o)'
    BY DEF LateOK, Over, Late
  <2>1. LateStep(o) /\ rel[o].state # "NONE" /\ (life[o] = "CLOSED" => Over(o))
    BY DEF LateOK, Over, Late
  <2> QED
    BY <2>1 DEF LateStep
<1>2. CleanOK(b)'
  BY DEF CleanOK, EndStep, Told
<1> QED
  BY <1>1, <1>2

\* A job's transaction leaves no pass current.
LEMMA CommitTells ==
    ASSUME SweepInv, TellingInv, NoStray', NEW b, Tells(b), Commits(b),
           \A p \in Orders : /\ EndStep(p)
                             /\ \/ LateStep(p)
                                \/ b.row[Late(p)].status # "OPEN"
    PROVE  TellingInv'
<1>1. LateOK(b)' /\ CleanOK(b)'
  BY TellsNow, TellsNext
<1>2. book' = b
  BY DEF Commits
<1>3. LateOK(book)' /\ CleanOK(book)'
  BY <1>1, <1>2 DEF LateOK, CleanOK, Told, Releasing
<1>4. \A d \in Sweepers : ~Current(sweep[d])'
  BY DEF Commits, Unlocked, SweepInv, PassInv, Current
<1> QED
  BY <1>3, <1>4 DEF TellingInv

LEMMA JobTells ==
    ASSUME SweepInv, OwnershipInv, TellingInv, [Next]_vars,
           NEW o \in Orders, JobPass(o)
    PROVE  TellingInv'
<1> USE DEF world
<1>1. /\ NoStray'
      /\ \A p \in Orders : EndStep(p) /\ (LateStep(p) \/ Verified(p))
      /\ Tells(book) /\ Tells(Raised)
  BY StrayStep, StepLate, AlarmSteps, RaisedTells
     DEF TellingInv, OwnershipInv, SweepInv
<1>2. ASSUME NEW b, Tells(b), Commits(b), life' = life \/ rel' = rel
      PROVE  TellingInv'
  <2>1. \A p \in Orders : LateStep(p)
    BY <1>1, <1>2 DEF Verified
  <2> QED
    BY <1>1, <1>2, <2>1, CommitTells
<1>3. \A b, view : Tells(b) => Tells(WhenScanned(b, o, view))
  BY ResolveTells DEF WhenScanned
<1>4. CASE Transaction(o) /\ Plainly
  <2>1. \A w, c : Intent(w, o, c) => rel' = rel
    BY DEF Intent
  <2>2. rel' = rel
    BY <1>4, <2>1 DEF Transaction, CreateOrder, RosterChanges, ManualClose,
       SetSend, SetProject, VerifyFound, VerifyRetry, VerifyWait,
       VerifyProject, ConfirmProject, ledger
  <2> QED
    BY <1>1, <1>2, <1>4, <2>2 DEF Plainly
<1>5. ASSUME NEW view, CheckAiPass(o, view)
      PROVE  TellingInv'
  BY <1>1, <1>2, <1>3, <1>5 DEF CheckAiPass, CheckAiProject
<1>6. ASSUME NEW view, NEW w, CheckAiRelease(w, o, view)
      PROVE  TellingInv'
  BY <1>1, <1>2, <1>3, <1>6 DEF CheckAiRelease, CheckAiSend
<1>7. ASSUME NEW view, ConfirmReleasePass(o, view)
      PROVE  TellingInv'
  <2>1. /\ Tells(Open(Raised, LateRelease(o)))
        /\ Tells(Open(book, LateRelease(o)))
    BY <1>1, LateReleaseTells
  <2>2. \A b : Tells(b) => Tells(NoLongerOverdue(b, o))
    BY ResolveTells DEF NoLongerOverdue
  <2>3. CASE VerifyRelease(o, view)
               /\ Commits(NoLongerOverdue(Open(Raised, LateRelease(o)), o))
    <3> DEFINE b == NoLongerOverdue(Open(Raised, LateRelease(o)), o)
    <3>1. b.row[Late(o)].status # "OPEN"
      <4>1. \A c : IsBook(c) => NoLongerOverdue(c, o).row[Late(o)].status # "OPEN"
        BY KindsOfKeys DEF NoLongerOverdue, Resolve, Late, IsBook, Rows
      <4> QED
        BY <2>1, <4>1 DEF Tells
    <3>2. \A p \in Orders : p # o => ~Verified(p)
      <4>1. \A p \in Orders : p # o => life'[p] = life[p]
        BY <2>3 DEF VerifyRelease, OwnershipInv, TypeInv, TypeOK
      <4> QED
        BY <4>1 DEF Verified
    <3>3. Tells(b) /\ Commits(b)
      BY <2>1, <2>2, <2>3
    <3> HIDE DEF b
    <3>4. \A p \in Orders : /\ EndStep(p)
                            /\ \/ LateStep(p)
                               \/ b.row[Late(p)].status # "OPEN"
      BY <1>1, <3>1, <3>2
    <3> QED
      BY <1>1, <3>3, <3>4, CommitTells
  <2>4. CASE life' = life /\ \E b : Tells(b) /\ Commits(b)
    BY <1>2, <2>4
  <2>5. ~(VerifyRelease(o, view)
            /\ Commits(NoLongerOverdue(Open(Raised, LateRelease(o)), o))) =>
          life' = life /\ \E b : Tells(b) /\ Commits(b)
    BY <1>1, <1>7, <2>1, <2>2
       DEF ConfirmReleasePass, ReleaseFails, ReleasePending, vars
  <2> QED
    BY <2>3, <2>4, <2>5
<1> QED
  BY <1>4, <1>5, <1>6, <1>7 DEF JobPass

LEMMA SendingTells ==
    ASSUME SweepInv, OwnershipInv, TellingInv, [Next]_vars,
           \/ \E w \in Workers : SendingJob(w)
           \/ Resume /\ Plainly
    PROVE  TellingInv'
<1> USE DEF order, ledger, world
<1>1. /\ NoStray'
      /\ \A p \in Orders : EndStep(p) /\ (LateStep(p) \/ Verified(p))
      /\ Tells(book) /\ Tells(Raised)
  BY StrayStep, StepLate, AlarmSteps, RaisedTells
     DEF TellingInv, OwnershipInv, SweepInv
<1>2. ASSUME NEW b, Tells(b), Commits(b), life' = life \/ rel' = rel
      PROVE  TellingInv'
  <2>1. \A p \in Orders : LateStep(p)
    BY <1>1, <1>2 DEF Verified
  <2> QED
    BY <1>1, <1>2, <2>1, CommitTells
<1>3. ASSUME NEW w, SetRest(w), Plainly
      PROVE  TellingInv'
  <2>1. rel' = rel
    BY <1>3 DEF SetRest, SetReceipt, SetBackup, Intent, SetFinish
  <2> QED
    BY <1>1, <1>2, <1>3, <2>1 DEF Plainly
<1>4. ASSUME NEW w, NEW view, CheckAiReceipt(w, view)
      PROVE  TellingInv'
  <2>1. life' = life
    BY <1>4 DEF CheckAiReceipt, ReleaseReceipt
  <2>2. PICK b : Tells(b) /\ Commits(b)
    <3>1. Tells(WhenScanned(Raised, worker[w].order, view))
      BY <1>1, ResolveTells DEF WhenScanned
    <3> QED
      BY <1>4, <3>1 DEF CheckAiReceipt
  <2> QED
    BY <1>2, <2>1, <2>2
<1>5. CASE Resume /\ Plainly
  BY <1>1, <1>2, <1>5 DEF Resume, Plainly
<1> QED
  BY <1>3, <1>4, <1>5 DEF SendingJob

\* What happens outside the database, and the passing of time.
LEMMA ElsewhereTells ==
    ASSUME OwnershipInv, TellingInv, [Next]_vars, UNCHANGED <<book, sweep>>,
           life' = life
    PROVE  TellingInv'
<1>1. /\ NoStray'
      /\ \A p \in Orders : EndStep(p) /\ (LateStep(p) \/ Verified(p))
  BY StrayStep, StepLate DEF TellingInv, OwnershipInv
<1>2. \A p \in Orders : LateStep(p)
  BY <1>1 DEF Verified
<1>3. LateOK(book)' /\ CleanOK(book)'
  <2>1. \A b : LateOK(b) /\ CleanOK(b) => LateOK(b)' /\ CleanOK(b)'
    BY <1>1, <1>2, TellsNext
  <2> QED
    BY <2>1 DEF TellingInv, LateOK, CleanOK, Told, Releasing
<1>4. \A d \in Sweepers : Current(sweep[d])' =>
        LateOK(sweep[d].book)' /\ CleanOK(sweep[d].book)'
  <2>1. \A b : LateOK(b) /\ CleanOK(b) => LateOK(b)' /\ CleanOK(b)'
    BY <1>1, <1>2, TellsNext
  <2> TAKE d \in Sweepers
  <2>2. Current(sweep[d])' => Current(sweep[d])
    BY DEF Current
  <2> QED
    BY <2>1, <2>2 DEF TellingInv, LateOK, CleanOK, Told, Releasing
<1> QED
  BY <1>1, <1>3, <1>4 DEF TellingInv


\* A step of DEFENSE changes nothing the incidents of an order depend on.
LEMMA SweepSame ==
    ASSUME SweepInv, NEW d \in Sweepers, Sweep(d), NoStray
    PROVE  /\ NoStray'
           /\ \A b : LateOK(b) /\ CleanOK(b) => LateOK(b)' /\ CleanOK(b)'
<1>1. rel' = rel /\ life' = life /\ worker' = worker /\ mesOwn' = mesOwn
  BY SweepFrame DEF order, ledger, mes
<1> QED
  BY <1>1 DEF NoStray, LateOK, CleanOK, Told, Releasing

\* A pass takes a step of its own.
LEMMA OwnTells ==
    ASSUME SweepInv, TellingInv, NEW d \in Sweepers, Sweep(d), NEW p,
           Current(p) => LateOK(p.book) /\ CleanOK(p.book),
           sweep' = [sweep EXCEPT ![d] = p], book' = book
    PROVE  TellingInv'
<1>1. \A e \in Sweepers : sweep'[e] = IF e = d THEN p ELSE sweep[e]
  BY DEF SweepInv
<1>2. /\ NoStray'
      /\ \A b : LateOK(b) /\ CleanOK(b) => LateOK(b)' /\ CleanOK(b)'
  BY SweepSame DEF TellingInv
<1>3. LateOK(book)' /\ CleanOK(book)'
  BY <1>2 DEF TellingInv, LateOK, CleanOK, Told, Releasing
<1>4. \A e \in Sweepers : Current(sweep[e])' =>
        LateOK(sweep[e].book)' /\ CleanOK(sweep[e].book)'
  <2> TAKE e \in Sweepers
  <2>1. CASE e = d
    <3>1. Current(sweep[e])' => Current(p)
      BY <1>1, <2>1 DEF Current
    <3>2. LateOK(p.book) /\ CleanOK(p.book) =>
            LateOK(p.book)' /\ CleanOK(p.book)'
      BY <1>2
    <3> QED
      BY <1>1, <2>1, <3>1, <3>2 DEF LateOK, CleanOK, Told, Releasing
  <2>2. CASE e # d
    <3>1. Current(sweep[e])' => Current(sweep[e])
      BY <1>1, <2>2 DEF Current
    <3>2. sweep'[e] = sweep[e]
      BY <1>1, <2>2
    <3>3. LateOK(sweep[e].book) /\ CleanOK(sweep[e].book) =>
            LateOK(sweep[e].book)' /\ CleanOK(sweep[e].book)'
      BY <1>2, <3>2 DEF LateOK, CleanOK, Told, Releasing
    <3> QED
      BY <3>1, <3>3 DEF TellingInv
  <2> QED
    BY <2>1, <2>2
<1> QED
  BY <1>2, <1>3, <1>4 DEF TellingInv

\* DEFENSE finds no hold without an owner, and none of an order that was
\* closed as it should.
LEMMA WatchedTells ==
    ASSUME IsBook(book), OwnershipInv, NoStray, NEW view,
           NEW reports \in Reports
    PROVE  Tells(Watched(view, reports))
<1>1. HoldIsOwned
  BY OwnershipMeans
<1>2. Orphans = {}
  <2> SUFFICES ASSUME NEW l \in Lots, NEW c \in mesOwn[l]
               PROVE  \E o \in Orders :
                        /\ LotOf[o] = l
                        /\ bind[o].status # "NONE" /\ bind[o].code = c
    BY DEF Orphans
  <2>1. PICK o \in Orders : LotOf[o] = l
    BY DEF NoStray
  <2> QED
    BY <1>1, <2>1 DEF HoldIsOwned
<1>3. \A o \in Orders : life[o] = "CLOSED" => ~OwnHold(snapshot(o, view[o]))
  BY DEF OwnershipInv, OrderInv, ClosedIsFinal, Own, OwnHold, snapshot, Observed
<1> DEFINE keys == (UNION {Report(o, view[o]) : o \in Orders})
                     \cup reports
                     \cup (IF Trips THEN {System("CONTROL_DISABLED")} ELSE {})
<1>4. \A k \in keys :
        \/ \E o \in Orders : k = Late(o) /\ IsLate(o)
        \/ \E o \in Orders : \E type \in {"HOLD_OVERDUE", "DATA_UNAVAILABLE"} :
             k = Order(o, type)
        \/ \E type \in SystemTypes : k = System(type)
  <2>1. \A o \in Orders : \A k \in Report(o, view[o]) :
          \/ k = Late(o) /\ IsLate(o)
          \/ \E type \in {"HOLD_OVERDUE", "DATA_UNAVAILABLE"} :
               k = Order(o, type)
    BY <1>3 DEF Report, LateRelease, Late
  <2>2. \A k \in reports : \E type \in SystemTypes : k = System(type)
    BY <1>2 DEF Reports, SystemTypes
  <2>3. "CONTROL_DISABLED" \in SystemTypes
    BY DEF SystemTypes
  <2> QED
    BY <2>1, <2>2, <2>3
<1> HIDE DEF keys
<1>5. \A o \in Orders : /\ Late(o) \in keys => IsLate(o)
                        /\ Order(o, "STATE_CONFLICT") \notin keys
  <2>1. \A o \in Orders : Late(o) \in keys => IsLate(o)
    BY <1>4 DEF Late, Order, System, SystemTypes
  <2>2. \A o \in Orders : Order(o, "STATE_CONFLICT") \notin keys
    BY <1>4 DEF Late, Order, System, SystemTypes
  <2> QED
    BY <2>1, <2>2
<1>6. \A l \in Lots : <<l, "ORPHAN_HOLD">> \notin keys
  BY <1>4 DEF Late, Order, System, SystemTypes
<1>7. Tells(Open(book, keys))
  <2>1. Tells(book)
    BY DEF Tells
  <2> QED
    BY <1>5, <1>6, <2>1, OpenTells
<1>8. \A done : Tells(Resolve(Open(book, keys), done))
  BY <1>7, ResolveTells
<1> QED
  BY <1>8 DEF Watched, keys

LEMMA SweepTells ==
    ASSUME SweepInv, OwnershipInv, TellingInv, NEW d \in Sweepers, Sweep(d)
    PROVE  TellingInv'
<1>1. ASSUME NEW view, NEW reports \in Reports, Watch(d, view, reports)
      PROVE  TellingInv'
  <2> DEFINE b == Watched(view, reports)
             p == [pc |-> "mail", book |-> b,
                   control |-> IF Trips THEN "DISABLED_NEW_HOLD" ELSE control,
                   page |-> Page(b), locked |-> b # book \/ Trips,
                   fresh |-> TRUE]
  <2>1. LateOK(b) /\ CleanOK(b)
    BY WatchedTells, TellsNow DEF SweepInv, TellingInv
  <2>2. sweep' = [sweep EXCEPT ![d] = p] /\ book' = book
    BY <1>1 DEF Watch
  <2>3. p.book = b
    OBVIOUS
  <2> HIDE DEF b, p
  <2> QED
    BY <2>1, <2>2, <2>3, OwnTells
<1>2. ASSUME sweep' = [sweep EXCEPT ![d] = NoPass], book' = book
      PROVE  TellingInv'
  BY <1>2, NoPassOK, OwnTells
<1>3. ASSUME NEW ok \in BOOLEAN, Send(d, ok)
      PROVE  TellingInv'
  <2>1. CASE sweep' = [sweep EXCEPT ![d] = NoPass]
    BY <1>2, <1>3, <2>1 DEF Send
  <2>2. CASE sweep' # [sweep EXCEPT ![d] = NoPass]
    <3>1. PICK k, page :
            /\ sweep' = [sweep EXCEPT ![d].book = Marked(@, k, ok),
                                      ![d].page = page, ![d].locked = TRUE]
            /\ sweep[d].locked \/ sweep[d].fresh
      BY <1>3, <2>2 DEF Send
    <3> DEFINE b == sweep[d].book
               p == [sweep[d] EXCEPT !.book = Marked(b, k, ok), !.page = page,
                                     !.locked = TRUE]
    <3>2. sweep' = [sweep EXCEPT ![d] = p] /\ book' = book
      BY <1>3, <3>1 DEF Send
    <3>3. p.book = Marked(b, k, ok)
      BY DEF SweepInv, PassInv
    <3>4. \A j \in Keys : Marked(b, k, ok).row[j].status = b.row[j].status
      <4>1. b.row \in [Keys -> Rows]
        BY DEF SweepInv, PassInv, IsBook
      <4> QED
        BY <4>1 DEF Marked, Mark
    <3>5. LateOK(b) /\ CleanOK(b)
      BY <3>1 DEF TellingInv, Current
    <3>6. LateOK(p.book) /\ CleanOK(p.book)
      BY <3>3, <3>4, <3>5, KindsOfKeys DEF LateOK, CleanOK, Told, Late
    <3> HIDE DEF p
    <3> QED
      BY <3>2, <3>6, OwnTells
  <2> QED
    BY <2>1, <2>2
<1>4. CASE Kill(d)
  BY <1>2, <1>4 DEF Kill
<1>5. CASE Commit(d) /\ ~sweep[d].locked
  BY <1>2, <1>5 DEF Commit
<1>6. CASE Commit(d) /\ sweep[d].locked
  <2>1. book' = sweep[d].book
    BY <1>6 DEF Commit
  <2>2. \A e \in Sweepers : ~Current(sweep[e])'
    <3> TAKE e \in Sweepers
    <3>1. CASE e = d
      <4>1. sweep'[e] = NoPass
        BY <1>6, <3>1 DEF Commit
      <4> QED
        BY <4>1 DEF Current, NoPass
    <3>2. CASE e # d
      <4>1. ~sweep[e].locked
        BY <1>6, <3>2 DEF SweepInv
      <4>2. sweep'[e] = [sweep[e] EXCEPT !.fresh = FALSE]
        BY <1>6, <3>2 DEF Commit
      <4> QED
        BY <4>1, <4>2 DEF Current, SweepInv, PassInv
    <3> QED
      BY <3>1, <3>2
  <2>3. LateOK(sweep[d].book) /\ CleanOK(sweep[d].book)
    BY <1>6 DEF TellingInv, Current
  <2>4. /\ NoStray'
        /\ \A b : LateOK(b) /\ CleanOK(b) => LateOK(b)' /\ CleanOK(b)'
    BY SweepSame DEF TellingInv
  <2>5. LateOK(book)' /\ CleanOK(book)'
    BY <2>1, <2>3, <2>4 DEF LateOK, CleanOK, Told, Releasing
  <2> QED
    BY <2>2, <2>4, <2>5 DEF TellingInv
<1> QED
  BY <1>1, <1>3, <1>4, <1>5, <1>6 DEF Sweep

LEMMA TellingInit == DInit => TellingInv
<1> SUFFICES ASSUME DInit
             PROVE  TellingInv
  OBVIOUS
<1>1. NoStray
  BY DEF NoStray, DInit, Init
<1>2. \A k \in Keys : book.row[k].status = "NONE"
  BY DEF DInit, Empty, NoRow
<1>3. LateOK(book) /\ CleanOK(book)
  BY <1>2, KindsOfKeys DEF LateOK, CleanOK, Told, Late
<1>4. \A d \in Sweepers : ~Current(sweep[d])
  BY NoPassOK DEF DInit
<1> QED
  BY <1>1, <1>3, <1>4 DEF TellingInv

LEMMA TellingStep ==
    ASSUME SweepInv, OwnershipInv, TellingInv, [DNext]_dvars
    PROVE  TellingInv'
<1>1. CASE \E d \in Sweepers : Sweep(d)
  BY <1>1, SweepTells
<1>2. CASE ~\E d \in Sweepers : Sweep(d)
  <2>1. [Next]_vars
    BY <1>2, JobsRefine
  <2>2. ASSUME NEW o \in Orders, HoldAges(o) \/ ReleaseAges(o)
        PROVE  TellingInv'
    BY <2>1, <2>2, ElsewhereTells DEF HoldAges, ReleaseAges, vars
  <2>3. CASE Outside /\ UNCHANGED <<book, ages, sweep, letters, broken>>
    <3>1. life' = life
      BY ZenonT(30), <2>3 DEF Outside, SetHoldCall, ReleaseCall, Crash, SmmChanges,
         LineReleases, ScanAdvances, order
    <3> QED
      BY <2>1, <2>3, <3>1, ElsewhereTells
  <2>4. CASE UNCHANGED dvars
    BY <2>1, <2>4, ElsewhereTells DEF dvars, vars
  <2> QED
    BY <1>2, <2>1, <2>2, <2>3, <2>4, JobTells, SendingTells DEF DNext
<1> QED
  BY <1>1, <1>2

LEMMA TellingMeans ==
    ASSUME TellingInv
    PROVE  ClosedIsNotOverdue /\ NothingToClean
<1>1. ClosedIsNotOverdue
  BY DEF ClosedIsNotOverdue, TellingInv, LateOK
<1>2. NothingToClean
  BY DEF NothingToClean, TellingInv, CleanOK, Told
<1> QED
  BY <1>1, <1>2

\* An order that was closed has no RELEASE_VERIFY_OVERDUE left open unless MES
\* refused its release, in whichever order DEFENSE's pass and CONFIRM_RELEASE
\* see and commit it, for any number of orders, jobs and overlapping passes.
THEOREM ClosingSettles ==
    ASSUME OneRoundPerLot
    PROVE  DSpec => []ClosedIsNotOverdue
<1>1. SweepInv /\ OwnershipInv /\ TellingInv /\ [DNext]_dvars
        => SweepInv' /\ OwnershipInv' /\ TellingInv'
  BY SweepStep, DOwnershipStep, TellingStep
<1>2. DInit => SweepInv /\ OwnershipInv /\ TellingInv
  BY SweepInit, OwnershipInit, TellingInit DEF DInit
<1>3. TellingInv => ClosedIsNotOverdue
  BY TellingMeans
<1> QED
  BY <1>1, <1>2, <1>3, PTL DEF DSpec

\* DEFENSE never finds a hold without an owner, or one that a closed order
\* left in MES: what it watches for is nothing the agent does.
THEOREM NothingIsLeft ==
    ASSUME OneRoundPerLot
    PROVE  DSpec => []NothingToClean
<1>1. SweepInv /\ OwnershipInv /\ TellingInv /\ [DNext]_dvars
        => SweepInv' /\ OwnershipInv' /\ TellingInv'
  BY SweepStep, DOwnershipStep, TellingStep
<1>2. DInit => SweepInv /\ OwnershipInv /\ TellingInv
  BY SweepInit, OwnershipInit, TellingInit DEF DInit
<1>3. TellingInv => NothingToClean
  BY TellingMeans
<1> QED
  BY <1>1, <1>2, <1>3, PTL DEF DSpec

=============================================================================
