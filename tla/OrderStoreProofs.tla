--------------------------- MODULE OrderStoreProofs ---------------------------
(***************************************************************************)
(* Theorems about OrderStore, for any jobs, processes, orders, passes and  *)
(* clocks.                                                                 *)
(*                                                                         *)
(* First the lease: a process that holds an order on lease keeps it,       *)
(* whatever page or snapshot another works from.  Its argument needs the   *)
(* lease columns of the rows alone.                                        *)
(*                                                                         *)
(* Then the rows: StoreInv is kept by every step, and every step commits   *)
(* for each order nothing or one step of OrderLedger.  A lemma for each    *)
(* way a row is written says what it does to the list of attempts and that *)
(* it is such a step; four lemmas say what a commit, a commit that sends   *)
(* and answers nothing, a write and a read do to the invariant; then each  *)
(* action is one of these.                                                 *)
(***************************************************************************)
EXTENDS OrderStoreInv, JournalProofs

-----------------------------------------------------------------------------
(* Leases *)

\* An order's row, whatever its columns hold, with a lease that ends in time.
RowOK(r) ==
    /\ r \in [ver : {r.ver}, owner : {r.owner}, until : {r.until}, life : {r.life},
              work : {r.work}, bind : {r.bind}, log : {r.log}]
    /\ r.until \in Nat
    /\ r.until <= clock + Lease

RowsOK(rows) ==
    /\ rows = [o \in Orders |-> rows[o]]
    /\ \A o \in Orders : RowOK(rows[o])

\* a lease that runs is not shortened and stays with its owner
Leased(r, s) ==
    r.owner # NoJob /\ clock < r.until => s.owner = r.owner /\ r.until <= s.until

KeepsLeases(c, d) == \A o \in Orders : Leased(c[o], d[o])

\* The rows of the transaction under way keep the committed leases as well.
LeaseInv ==
    /\ clock \in Nat
    /\ RowsOK(db)
    /\ lock # NoJob => RowsOK(draft) /\ KeepsLeases(db, draft)

-----------------------------------------------------------------------------
(* Rows *)

\* the columns of the lease
SameLease(r, s) == RowOK(s) /\ s.owner = r.owner /\ s.until = r.until

LEMMA UpdatedLease ==
    ASSUME NEW r, RowOK(r)
    PROVE  SameLease(r, Updated(r))
  BY DEF RowOK, SameLease, Updated

LEMMA ProjectedLease ==
    ASSUME NEW r, RowOK(r), NEW d
    PROVE  SameLease(r, Projected(r, d))
  BY DEF RowOK, SameLease, Projected, Updated

\* Writing other columns leaves the lease.
LEMMA AssignLease ==
    ASSUME NEW r, RowOK(r), NEW life, NEW work, NEW bind, NEW log
    PROVE  /\ SameLease(r, [r EXCEPT !.log = log])
           /\ SameLease(r, [r EXCEPT !.log = log, !.bind = bind])
           /\ SameLease(r, [r EXCEPT !.log = log, !.bind = bind, !.work = work])
           /\ SameLease(r, [r EXCEPT !.work = work, !.bind = bind, !.log = log])
           /\ SameLease(r, [r EXCEPT !.work = work, !.log = log])
           /\ SameLease(r, [r EXCEPT !.life = life, !.work = work])
           /\ SameLease(r, [r EXCEPT !.life = life, !.work = work, !.bind = bind,
                                     !.log = log])
<1>0. SameLease(r, [r EXCEPT !.log = log])
  BY DEF RowOK, SameLease
<1>1. SameLease(r, [r EXCEPT !.log = log, !.bind = bind])
  BY DEF RowOK, SameLease
<1>2. SameLease(r, [r EXCEPT !.log = log, !.bind = bind, !.work = work])
  BY DEF RowOK, SameLease
<1>3. SameLease(r, [r EXCEPT !.work = work, !.bind = bind, !.log = log])
  BY DEF RowOK, SameLease
<1>4. SameLease(r, [r EXCEPT !.work = work, !.log = log])
  BY DEF RowOK, SameLease
<1>5. SameLease(r, [r EXCEPT !.life = life, !.work = work])
  BY DEF RowOK, SameLease
<1>6. SameLease(r, [r EXCEPT !.life = life, !.work = work, !.bind = bind, !.log = log])
  BY DEF RowOK, SameLease
<1> QED
  BY <1>0, <1>1, <1>2, <1>3, <1>4, <1>5, <1>6

LEMMA PreparedLease ==
    ASSUME NEW r, RowOK(r), NEW k
    PROVE  SameLease(r, Prepared(r, k))
<1> DEFINE u == Updated(r)
           log == IF Rows(u.log, k) = {} THEN insert_prepared(u.log, k)
                  ELSE save_command(u.log, k, "PREPARED", CommandOf(u.log, k).outcome)
           bind == IF k = "SET_HOLD" THEN "PENDING" ELSE "RELEASE_PENDING"
           work == IF k = "SET_HOLD" THEN "HOLD_VERIFY_PENDING" ELSE "RELEASE_SENT"
<1>1. Prepared(r, k) = [u EXCEPT !.log = log, !.bind = bind, !.work = work]
  BY DEF Prepared
<1>2. RowOK(u) /\ SameLease(r, u)
  BY UpdatedLease DEF SameLease
<1> HIDE DEF u, log, bind, work
<1>3. SameLease(u, [u EXCEPT !.log = log, !.bind = bind, !.work = work])
  BY <1>2, AssignLease
<1> QED
  BY <1>1, <1>2, <1>3 DEF SameLease

LEMMA StrandedLease ==
    ASSUME NEW r, RowOK(r)
    PROVE  SameLease(r, Stranded(r))
<1> DEFINE log == save_command(r.log, "SET_RELEASE", "PREPARED", Release(r).outcome)
<1>1. Stranded(r) = [r EXCEPT !.log = log]
  BY DEF Stranded, Release
<1> HIDE DEF log
<1>2. SameLease(r, [r EXCEPT !.log = log])
  BY AssignLease
<1> QED
  BY <1>1, <1>2

LEMMA AnsweredLease ==
    ASSUME NEW r, RowOK(r), NEW k, NEW receipt
    PROVE  SameLease(r, Answered(r, k, receipt))
<1> DEFINE log == record_receipt(r.log, k, receipt)
           bind == IF k = "SET_HOLD" /\ CommandOf(log, k).state = "REJECTED"
                   THEN "FAILED" ELSE r.bind
<1>1. Answered(r, k, receipt) = [r EXCEPT !.log = log, !.bind = bind]
  BY DEF Answered
<1> HIDE DEF log, bind
<1>2. SameLease(r, [r EXCEPT !.log = log, !.bind = bind])
  BY AssignLease
<1> QED
  BY <1>1, <1>2

LEMMA VerifiedLease ==
    ASSUME NEW r, RowOK(r), NEW s \in HoldVerified(r) \cup ReleaseVerified(r)
    PROVE  SameLease(r, s)
<1> DEFINE u == Updated(r)
<1>1. RowOK(u) /\ SameLease(r, u)
  BY UpdatedLease DEF SameLease
<1>2. \A t : SameLease(u, t) => SameLease(r, t)
  BY <1>1 DEF SameLease
<1>3. CASE s \in HoldVerified(r)
  <2> DEFINE save(state) ==
               save_command(r.log, "SET_HOLD", state, SetCommand(r).outcome)
             again == SetCommand(r).attempts < MaxAttempts
             work == IF again THEN "NEED_HOLD" ELSE "HOLD_FAILED"
             seen == save("CONFIRMED")
             gone == save(IF again THEN "RETRY_WAIT" ELSE "REJECTED")
             bind == IF u.bind = "PENDING" THEN "CONFIRMED" ELSE u.bind
             d == IF SetDecision(r) = "SET_HOLD" THEN "NEED_HOLD" ELSE SetDecision(r)
  <2>1. \/ s = [u EXCEPT !.work = "WAIT_AI", !.bind = bind, !.log = seen]
        \/ s = [u EXCEPT !.work = work, !.log = gone]
        \/ s = Projected(r, d)
    BY <1>3 DEF HoldVerified
  <2> HIDE DEF u, work, seen, gone, bind, d
  <2>2. SameLease(u, [u EXCEPT !.work = "WAIT_AI", !.bind = bind, !.log = seen])
    BY <1>1, AssignLease
  <2>3. SameLease(u, [u EXCEPT !.work = work, !.log = gone])
    BY <1>1, AssignLease
  <2> QED
    BY <1>2, <2>1, <2>2, <2>3, ProjectedLease
<1>4. CASE s \in ReleaseVerified(r)
  <2> DEFINE log == save_command(u.log, "SET_RELEASE", "CONFIRMED", Release(r).outcome)
             d == IF Release(r).outcome \in Rejects THEN "RELEASE_FAILED"
                  ELSE IF InFlight(Release(r)) THEN "RELEASE_VERIFY_PENDING"
                  ELSE r.work
  <2>1. \/ s = [u EXCEPT !.life = "CLOSED", !.work = "CLOSED",
                         !.bind = "RELEASED", !.log = log]
        \/ s = Projected(r, d)
    BY <1>4 DEF ReleaseVerified
  <2> HIDE DEF u, log, d
  <2>2. SameLease(u, [u EXCEPT !.life = "CLOSED", !.work = "CLOSED",
                               !.bind = "RELEASED", !.log = log])
    BY <1>1, AssignLease
  <2> QED
    BY <1>2, <2>1, <2>2, ProjectedLease
<1> QED
  BY <1>3, <1>4

\* A process that claims an order takes it from nobody.
LEMMA ClaimedLease ==
    ASSUME clock \in Nat, NEW r, RowOK(r), NEW j, LeaseFree(j, r)
    PROVE  RowOK(Claimed(j, r)) /\ Leased(r, Claimed(j, r))
<1>1. Lease \in Nat /\ clock \in Nat
  BY StoreAssumption
<1> DEFINE u == Updated(r)
           s == [u EXCEPT !.owner = WorkerId[j], !.until = clock + Lease]
<1>2. RowOK(u) /\ u.owner = r.owner /\ u.until = r.until
  BY UpdatedLease DEF SameLease
<1> HIDE DEF u
<1> DEFINE owner == WorkerId[j]
           until == clock + Lease
<1>3. RowOK(s) /\ s.owner = WorkerId[j] /\ s.until = clock + Lease
  <2>1. until \in Nat /\ until <= clock + Lease
    BY <1>1
  <2> HIDE DEF owner, until
  <2>2. [u EXCEPT !.owner = owner, !.until = until] \in
          [ver : {u.ver}, owner : {owner}, until : {until}, life : {u.life},
           work : {u.work}, bind : {u.bind}, log : {u.log}]
    BY <1>2 DEF RowOK
  <2> QED
    BY <2>1, <2>2 DEF RowOK, owner, until
<1> HIDE DEF s
<1>4. Claimed(j, r) = s
  BY DEF Claimed, u, s
<1>5. r.until \in Nat /\ r.until <= clock + Lease
  BY DEF RowOK
<1> QED
  BY <1>1, <1>3, <1>4, <1>5 DEF LeaseFree, Leased

LEMMA SameIsLeased ==
    ASSUME NEW r, NEW s, NEW t, RowOK(r), Leased(r, s), SameLease(s, t)
    PROVE  RowOK(t) /\ Leased(r, t)
  BY DEF RowOK, Leased, SameLease

\* A job that gets past a lease that runs in the transaction has it already.
LEMMA LeasedOnward ==
    ASSUME clock \in Nat, NEW r, NEW s, NEW t, RowOK(r), RowOK(s), RowOK(t),
           Leased(r, s), Leased(s, t)
    PROVE  Leased(r, t)
  BY DEF RowOK, Leased

-----------------------------------------------------------------------------
(* Tables *)

LEMMA TableLease ==
    ASSUME clock \in Nat, NEW c, RowsOK(c), NEW d, RowsOK(d), KeepsLeases(c, d),
           NEW o, NEW s, o \in Orders => RowOK(s) /\ Leased(d[o], s)
    PROVE  /\ RowsOK([d EXCEPT ![o] = s])
           /\ KeepsLeases(c, [d EXCEPT ![o] = s])
<1> DEFINE e == [d EXCEPT ![o] = s]
<1>1. \A p \in Orders : e[p] = IF p = o THEN s ELSE d[p]
  BY DEF RowsOK
<1>2. e = [p \in Orders |-> e[p]]
  BY DEF RowsOK
<1> HIDE DEF e
<1>3. RowsOK(e)
  BY <1>1, <1>2 DEF RowsOK
<1>4. ASSUME NEW p \in Orders
      PROVE  Leased(c[p], e[p])
  BY <1>1, <1>4, LeasedOnward DEF RowsOK, KeepsLeases
<1> QED
  BY <1>3, <1>4 DEF KeepsLeases, e

\* what a transaction of j sees
LEMMA SeesLease ==
    ASSUME LeaseInv, NEW j \in Jobs
    PROVE  RowsOK(Sees(j)) /\ KeepsLeases(db, Sees(j)) /\ RowsOK(db)
  BY StoreAssumption DEF LeaseInv, Sees, KeepsLeases, Leased, RowsOK, RowOK

LEMMA CommitLease ==
    ASSUME LeaseInv, NEW j, NEW rows, NEW mine, Commit(j, rows, mine),
           RowsOK(rows), KeepsLeases(db, rows)
    PROVE  LeaseInv' /\ KeepsLeases(db, db')
<1>1. db' = rows /\ lock' = NoJob /\ clock' = clock
  BY DEF Commit
<1> QED
  BY <1>1 DEF LeaseInv, RowsOK, RowOK

LEMMA WriteLease ==
    ASSUME LeaseInv, NEW j, NEW rows, NEW mine, Write(j, rows, mine),
           RowsOK(rows), KeepsLeases(db, rows)
    PROVE  LeaseInv' /\ db' = db
<1>1. db' = db /\ draft' = rows /\ clock' = clock
  BY DEF Write
<1> QED
  BY <1>1 DEF LeaseInv, RowsOK, RowOK, KeepsLeases, Leased

LEMMA QuietLease ==
    ASSUME LeaseInv, UNCHANGED <<db, lock, draft, clock>>
    PROVE  LeaseInv' /\ db' = db
  BY DEF LeaseInv, RowsOK, RowOK, KeepsLeases, Leased

-----------------------------------------------------------------------------
(* The steps of a pass *)

LEMMA SendLease ==
    ASSUME LeaseInv, NEW j \in Jobs, NEW o \in Orders, Send(j, o)
    PROVE  LeaseInv' /\ KeepsLeases(db, db')
<1> DEFINE r == Sees(j)[o]
           s == Prepared(Claimed(j, r), Command(j))
           rows == [Sees(j) EXCEPT ![o] = s]
<1>1. LeaseFree(j, r) /\ Commit(j, rows, [job[j] EXCEPT !.pc = "call", !.at = o])
  BY DEF Send, Claimable
<1>2. RowOK(r) /\ clock \in Nat
  BY SeesLease DEF RowsOK, LeaseInv
<1>3. RowOK(Claimed(j, r)) /\ Leased(r, Claimed(j, r))
  BY <1>1, <1>2, ClaimedLease
<1>4. RowOK(s) /\ Leased(r, s)
  BY <1>2, <1>3, PreparedLease, SameIsLeased
<1> HIDE DEF s
<1>5. RowsOK(rows) /\ KeepsLeases(db, rows)
  BY <1>2, <1>4, SeesLease, TableLease
<1> QED
  BY <1>1, <1>5, CommitLease

LEMMA DeriveLease ==
    ASSUME LeaseInv, NEW j \in Jobs, NEW o \in Orders, Derive(j, o)
    PROVE  LeaseInv' /\ db' = db
<1> DEFINE r == Sees(j)[o]
<1>1. LeaseFree(j, r)
  BY DEF Derive, Claimable
<1>2. PICK s : /\ Write(j, [Sees(j) EXCEPT ![o] = s], Visited(j, o))
               /\ \/ \E d : s = Projected(Claimed(j, r), d)
                  \/ s = Stranded(Claimed(j, r))
  BY DEF Derive
<1>3. RowOK(r) /\ clock \in Nat
  BY SeesLease DEF RowsOK, LeaseInv
<1>4. RowOK(Claimed(j, r)) /\ Leased(r, Claimed(j, r))
  BY <1>1, <1>3, ClaimedLease
<1>5. RowOK(s) /\ Leased(r, s)
  BY <1>2, <1>3, <1>4, ProjectedLease, StrandedLease, SameIsLeased
<1> DEFINE rows == [Sees(j) EXCEPT ![o] = s]
<1>6. RowsOK(rows) /\ KeepsLeases(db, rows)
  BY <1>3, <1>5, SeesLease, TableLease
<1> QED
  BY <1>2, <1>6, WriteLease

LEMMA ReceiptLease ==
    ASSUME LeaseInv, NEW j \in Jobs, Receipt(j)
    PROVE  LeaseInv' /\ KeepsLeases(db, db')
<1> DEFINE o == job[j].at
           s == Answered(db[o], Command(j), job[j].answer)
           rows == [db EXCEPT ![o] = s]
<1>1. Commit(j, rows, [job[j] EXCEPT !.pc = "sent", !.answer = NoReceipt])
  BY DEF Receipt
<1>2. RowsOK(db) /\ KeepsLeases(db, db) /\ clock \in Nat
  BY DEF LeaseInv, KeepsLeases, Leased, RowsOK, RowOK
<1>3. o \in Orders => RowOK(s) /\ Leased(db[o], s)
  <2> SUFFICES ASSUME o \in Orders
               PROVE  RowOK(s) /\ Leased(db[o], s)
    OBVIOUS
  <2>1. RowOK(db[o]) /\ Leased(db[o], db[o])
    BY <1>2 DEF RowsOK, KeepsLeases
  <2> QED
    BY <2>1, AnsweredLease, SameIsLeased
<1> HIDE DEF s
<1>4. RowsOK(rows) /\ KeepsLeases(db, rows)
  BY <1>2, <1>3, TableLease
<1> QED
  BY <1>1, <1>4, CommitLease

LEMMA FinishLease ==
    ASSUME LeaseInv, NEW j \in Jobs, Finish(j)
    PROVE  LeaseInv' /\ db' = db
<1> DEFINE o == job[j].at
           s == Projected(Sees(j)[o], "HOLD_FAILED")
           rows == [Sees(j) EXCEPT ![o] = s]
<1>1. \/ Write(j, rows, Visited(j, o))
      \/ Stay(j, Visited(j, o))
      \/ Write(j, Sees(j), Visited(j, o))
  BY DEF Finish
<1>2. RowsOK(Sees(j)) /\ KeepsLeases(db, Sees(j)) /\ RowsOK(db) /\ clock \in Nat
  BY SeesLease DEF LeaseInv
<1>3. o \in Orders => RowOK(s) /\ Leased(Sees(j)[o], s)
  <2> SUFFICES ASSUME o \in Orders
               PROVE  RowOK(s) /\ Leased(Sees(j)[o], s)
    OBVIOUS
  <2>1. RowOK(Sees(j)[o]) /\ Leased(Sees(j)[o], Sees(j)[o])
    BY SMTT(30), <1>2 DEF RowsOK, RowOK, Leased
  <2> QED
    BY <2>1, ProjectedLease, SameIsLeased
<1> HIDE DEF s
<1>4. RowsOK(rows) /\ KeepsLeases(db, rows)
  BY <1>2, <1>3, TableLease
<1> HIDE DEF rows
<1>5. CASE Stay(j, Visited(j, o))
  BY <1>5, QuietLease DEF Stay
<1> QED
  BY <1>1, <1>2, <1>4, <1>5, WriteLease

LEMMA GoesLease ==
    ASSUME LeaseInv, NEW j \in Jobs, Goes(j)
    PROVE  LeaseInv' /\ (db' = db \/ KeepsLeases(db, db'))
<1>1. ASSUME NEW o \in Orders, Skip(j, o)
      PROVE  LeaseInv' /\ db' = db
  BY <1>1, QuietLease DEF Skip, Stay
<1>2. CASE Call(j) \/ Reread(j)
  BY <1>2, QuietLease DEF Call, Reread, Stay
<1>3. CASE End(j)
  <2>1. CASE lock = j
    <3>1. Commit(j, draft, Idle)
      BY <1>3, <2>1 DEF End
    <3>2. RowsOK(draft) /\ KeepsLeases(db, draft)
      BY <2>1, StoreAssumption DEF LeaseInv
    <3> QED
      BY <3>1, <3>2, CommitLease
  <2>2. CASE lock # j
    BY <1>3, <2>2, QuietLease DEF End, Stay
  <2> QED
    BY <2>1, <2>2
<1>4. CASE Fail(j)
  <2>1. /\ db' = db /\ clock' = clock
        /\ lock' = NoJob \/ (lock' = lock /\ draft' = draft)
    BY <1>4 DEF Fail
  <2> QED
    BY <2>1 DEF LeaseInv, RowsOK, RowOK, KeepsLeases, Leased
<1>5. ASSUME NEW o \in Orders, Send(j, o)
      PROVE  LeaseInv' /\ KeepsLeases(db, db')
  BY <1>5, SendLease
<1>6. ASSUME NEW o \in Orders, Derive(j, o)
      PROVE  LeaseInv' /\ db' = db
  BY <1>6, DeriveLease
<1> QED
  BY <1>1, <1>2, <1>3, <1>4, <1>5, <1>6, ReceiptLease, FinishLease DEF Goes

LEMMA PassLease ==
    ASSUME LeaseInv, NEW j \in Jobs, Pass(j)
    PROVE  LeaseInv' /\ (db' = db \/ KeepsLeases(db, db'))
<1>1. RowsOK(db) /\ KeepsLeases(db, db)
  BY DEF LeaseInv, KeepsLeases, Leased, RowsOK, RowOK
<1>2. CASE Discover(j)
  <2>1. PICK mine : Commit(j, db, mine)
    BY <1>2 DEF Discover
  <2> QED
    BY <1>1, <2>1, CommitLease
<1>3. CASE Begin(j)
  <2>1. PICK mine : Stay(j, mine) \/ Write(j, db, mine)
    BY <1>3 DEF Begin
  <2>2. CASE Stay(j, mine)
    BY <2>2, QuietLease DEF Stay
  <2> QED
    BY <1>1, <2>1, <2>2, WriteLease
<1> QED
  BY <1>2, <1>3, GoesLease DEF Pass

LEMMA ConfirmLease ==
    ASSUME LeaseInv, NEW j \in Confirmers, Confirm(j)
    PROVE  LeaseInv' /\ KeepsLeases(db, db')
<1> DEFINE verified(r) ==
        IF ~ConfirmWants(r) \/ ~LeaseFree(j, r) THEN {r}
        ELSE IF Release(r).state = "NONE" THEN HoldVerified(Claimed(j, r))
        ELSE ReleaseVerified(Claimed(j, r))
<1>1. PICK rows \in [Orders -> UNION {verified(db[o]) : o \in Orders}] :
         /\ \A o \in Orders : rows[o] \in verified(db[o])
         /\ Commit(j, rows, Idle)
  BY DEF Confirm
<1>2. ASSUME NEW o \in Orders
      PROVE  RowOK(rows[o]) /\ Leased(db[o], rows[o])
  <2> DEFINE r == db[o]
             s == rows[o]
  <2>1. RowOK(r) /\ clock \in Nat /\ Leased(r, r)
    BY DEF LeaseInv, RowsOK, RowOK, Leased
  <2>2. s \in verified(r)
    BY <1>1
  <2>3. CASE s = r
    BY <2>1, <2>3
  <2>4. CASE /\ LeaseFree(j, r)
             /\ s \in HoldVerified(Claimed(j, r)) \cup ReleaseVerified(Claimed(j, r))
    <3>1. RowOK(Claimed(j, r)) /\ Leased(r, Claimed(j, r))
      BY <2>1, <2>4, ClaimedLease
    <3>2. SameLease(Claimed(j, r), s)
      BY <2>4, <3>1, VerifiedLease
    <3> QED
      BY <2>1, <3>1, <3>2, SameIsLeased
  <2> QED
    BY <2>2, <2>3, <2>4
<1>3. rows = [o \in Orders |-> rows[o]]
  OBVIOUS
<1> QED
  BY <1>1, <1>2, <1>3, CommitLease DEF RowsOK, KeepsLeases

LEMMA CloseLease ==
    ASSUME LeaseInv, NEW o \in Orders, ManualClose(o)
    PROVE  LeaseInv' /\ KeepsLeases(db, db')
<1> DEFINE r == db[o]
           s == [Updated(r) EXCEPT !.life = "MANUAL_CLOSED",
                                   !.work = "MANUAL_CLOSED"]
           rows == [db EXCEPT ![o] = s]
<1>1. db' = rows /\ lock' = NoJob /\ clock' = clock
  BY DEF ManualClose
<1>2. RowsOK(db) /\ KeepsLeases(db, db) /\ clock \in Nat
  BY DEF LeaseInv, KeepsLeases, Leased, RowsOK, RowOK
<1>3. RowOK(s) /\ Leased(r, s)
  <2> DEFINE u == Updated(r)
  <2>1. RowOK(r) /\ Leased(r, r)
    BY <1>2 DEF RowsOK, KeepsLeases
  <2>2. RowOK(u) /\ SameLease(r, u)
    BY <2>1, UpdatedLease DEF SameLease
  <2> HIDE DEF u
  <2>3. SameLease(u, [u EXCEPT !.life = "MANUAL_CLOSED", !.work = "MANUAL_CLOSED"])
    BY <2>2, AssignLease
  <2>4. SameLease(r, s)
    BY <2>2, <2>3 DEF SameLease, u
  <2> QED
    BY <2>1, <2>4, SameIsLeased
<1> HIDE DEF s
<1>4. RowsOK(rows) /\ KeepsLeases(db, rows)
  BY <1>2, <1>3, TableLease
<1> HIDE DEF rows
<1> QED
  BY <1>1, <1>4 DEF LeaseInv, RowsOK, RowOK

-----------------------------------------------------------------------------
LEMMA LeaseInit == Init => LeaseInv
<1> SUFFICES ASSUME Init
             PROVE  LeaseInv
  OBVIOUS
<1>1. Lease \in Nat /\ clock = 0 /\ lock = NoJob /\ db \in [Orders -> Found]
  BY StoreAssumption DEF Init
<1>2. RowOK(NewRow) /\ RowOK(HeldRow) /\ RowOK(RefusedRow)
  <2>1. \A r : (/\ r \in [ver : {r.ver}, owner : {r.owner}, until : {r.until},
                          life : {r.life}, work : {r.work}, bind : {r.bind},
                          log : {r.log}]
                 /\ r.until = 0) => RowOK(r)
    BY <1>1 DEF RowOK
  <2>2. RowOK(NewRow)
    BY <2>1 DEF NewRow
  <2>3. RowOK(HeldRow)
    BY <2>1 DEF HeldRow, NewRow
  <2>4. RowOK(RefusedRow)
    BY <2>1 DEF RefusedRow, NewRow
  <2> QED
    BY <2>2, <2>3, <2>4
<1>3. db = [o \in Orders |-> db[o]]
      /\ \A o \in Orders : db[o] \in {NewRow, HeldRow, RefusedRow}
  BY <1>1 DEF Found
<1>4. RowsOK(db)
  BY <1>2, <1>3 DEF RowsOK
<1> QED
  BY <1>1, <1>4 DEF LeaseInv

LEMMA LeaseStep ==
    ASSUME LeaseInv, [Next]_vars
    PROVE  LeaseInv' /\ (db' = db \/ KeepsLeases(db, db'))
<1>1. CASE UNCHANGED vars
  BY <1>1, QuietLease DEF vars
<1>2. CASE Tick
  <2>1. /\ clock' = clock + 1 /\ UNCHANGED <<db, lock, draft>>
        /\ clock \in Nat /\ Lease \in Nat
    BY <1>2, StoreAssumption DEF Tick, LeaseInv
  <2>2. \A r : RowOK(r) => RowOK(r)'
    BY <2>1 DEF RowOK
  <2>3. RowsOK(db)' /\ (lock # NoJob => RowsOK(draft)')
    BY <2>1 DEF LeaseInv, RowsOK, RowOK
  <2>4. lock # NoJob => KeepsLeases(db, draft)'
    BY <2>1 DEF LeaseInv, RowsOK, RowOK, KeepsLeases, Leased
  <2> QED
    BY <2>1, <2>3, <2>4 DEF LeaseInv
<1>3. ASSUME NEW j \in Setters \cup Checkers, Pass(j)
      PROVE  LeaseInv' /\ (db' = db \/ KeepsLeases(db, db'))
  BY <1>3, PassLease DEF Jobs
<1> QED
  BY <1>1, <1>2, <1>3, ConfirmLease, CloseLease DEF Next

\* No process takes an order while the lease of another runs, whatever page or
\* snapshot it works from (orders.try_claim, claim_order).
THEOREM LeasesAreKept == Spec => LeaseIsKept
<1>1. LeaseInv /\ [Next]_vars =>
        [\A o \in Orders :
           db[o].owner # NoJob /\ clock < db[o].until =>
               db'[o].owner = db[o].owner]_vars
  BY LeaseStep DEF KeepsLeases, Leased
<1>2. LeaseInv /\ [Next]_vars => LeaseInv'
  BY LeaseStep
<1> QED
  BY <1>1, <1>2, LeaseInit, PTL DEF Spec, LeaseIsKept

-----------------------------------------------------------------------------
(* What each write makes of a row *)

LEMMA UpdatedRow ==
    ASSUME NEW r \in Row
    PROVE  /\ Updated(r) \in Row
           /\ Updated(r).ver = r.ver + 1
           /\ Updated(r).life = r.life /\ Updated(r).work = r.work
           /\ Updated(r).bind = r.bind /\ Updated(r).log = r.log
  BY DEF Row, Updated

LEMMA ClaimedRow ==
    ASSUME NEW r \in Row, NEW j \in Jobs, clock \in Nat
    PROVE  /\ Claimed(j, r) \in Row
           /\ Claimed(j, r).ver = r.ver + 1
           /\ Claimed(j, r).life = r.life /\ Claimed(j, r).work = r.work
           /\ Claimed(j, r).bind = r.bind /\ Claimed(j, r).log = r.log
<1>1. WorkerId[j] \in Ids /\ clock + Lease \in Nat
  BY StoreAssumption
<1> QED
  BY <1>1, UpdatedRow DEF Row, Claimed

LEMMA ProjectedRow ==
    ASSUME NEW r \in Row, NEW d \in Works \ {"CLOSED"}
    PROVE  /\ Projected(r, d) \in Row
           /\ VerKeeps(r, Projected(r, d))
           /\ Projected(r, d).log = r.log
           /\ Projected(r, d).work = d
           /\ d \notin Closed \/ d = r.work =>
                Projected(r, d).life = r.life /\ Projected(r, d).bind = r.bind
           /\ d = "MANUAL_CLOSED" /\ d # r.work =>
                /\ Projected(r, d).life = "MANUAL_CLOSED"
                /\ Projected(r, d).bind = "RELEASED"
<1>1. d \in Closed => d \in Lives
  BY DEF Closed, Lives
<1>2. "RELEASED" \in BindingStates
  BY DEF BindingStates
<1>3. CASE d = r.work
  BY <1>3 DEF Projected, VerKeeps, Row
<1>4. CASE d # r.work
  <2> DEFINE u == Updated(r)
             life == IF d \in Closed THEN d ELSE u.life
             bind == IF d = "MANUAL_CLOSED" THEN "RELEASED" ELSE u.bind
             s == [u EXCEPT !.work = d, !.life = life, !.bind = bind]
  <2>1. Projected(r, d) = s
    BY <1>4 DEF Projected
  <2>2. /\ u \in Row /\ u.ver = r.ver + 1 /\ u.life = r.life /\ u.work = r.work
        /\ u.bind = r.bind /\ u.log = r.log
    BY UpdatedRow
  <2>3. life \in Lives /\ bind \in BindingStates
    BY <1>1, <1>2, <2>2 DEF Row
  <2>4. /\ d \notin Closed => life = r.life /\ bind = r.bind
        /\ d = "MANUAL_CLOSED" => life = d /\ bind = "RELEASED"
    BY <2>2 DEF Closed
  <2> HIDE DEF u, life, bind
  <2>5. /\ s \in Row /\ s.work = d /\ s.life = life /\ s.bind = bind
        /\ s.log = u.log /\ s.ver = u.ver
    BY <2>2, <2>3 DEF Row
  <2> HIDE DEF s
  <2>6. r.ver \in Nat
    BY DEF Row
  <2> QED
    BY <1>4, <2>1, <2>2, <2>4, <2>5, <2>6 DEF VerKeeps
<1> QED
  BY <1>3, <1>4

-----------------------------------------------------------------------------
(* What a row keeps *)

\* What becomes of a command when nobody sends it and nobody answers it.
KeptCommand(c, d) ==
    /\ d.attempts = c.attempts
    /\ \/ d.state = c.state
       \/ c.state \in InFlightStates \cup {"CONFIRMED"} /\ d.state = "CONFIRMED"
       \/ c.state = "UNKNOWN" /\ d.state = "REJECTED"
       \/ /\ c.state = "UNKNOWN" /\ c.attempts < MaxAttempts
          /\ d.state = "RETRY_WAIT"
       \/ c.state = "RETRY_WAIT" /\ d.state = "PREPARED"

Kept(r, s) ==
    /\ s \in Row
    /\ VerKeeps(r, s)
    /\ LogOK(s.log, Commands)
    /\ \A k \in Commands : KeptCommand(CommandOf(r.log, k), CommandOf(s.log, k))

LEMMA KeptAsked ==
    ASSUME NEW c, NEW d, KeptCommand(c, d), NEW n, Asked(c, n),
           c.attempts \in Nat
    PROVE  Asked(d, n)
  BY AttemptsAssumption DEF KeptCommand, Asked, InFlightStates

LEMMA KeptPending ==
    ASSUME NEW c, NEW d, KeptCommand(c, d), NEW x, NEW n, PendingOK(x, c, n)
    PROVE  PendingOK(x, d, n)
  BY DEF KeptCommand, PendingOK, InFlightStates

LEMMA KeptInv ==
    ASSUME NEW r, NEW s, Kept(r, s), NEW asked, RowInv(r, asked)
    PROVE  RowInv(s, asked)
<1>1. ASSUME NEW k \in Commands
      PROVE  Asked(CommandOf(s.log, k), asked[k])
  BY <1>1, CommandType, KeptAsked DEF RowInv, Kept
<1> QED
  BY <1>1 DEF RowInv, Kept

\* The same log, and a version that shows what changed.
LEMMA SameLogKept ==
    ASSUME NEW r, NEW s \in Row, LogOK(r.log, Commands), VerKeeps(r, s), s.log = r.log
    PROVE  Kept(r, s)
  BY DEF Kept, KeptCommand

\* One command is saved with another state.
LEMMA SavedKept ==
    ASSUME NEW r, NEW s \in Row, LogOK(r.log, Commands), VerKeeps(r, s),
           NEW k \in Commands,
           NEW state \in ActionStates \ {"NONE"},
           s.log = save_command(r.log, k, state, CommandOf(r.log, k).outcome),
           CommandOf(r.log, k).state # "NONE",
           \/ state = "CONFIRMED"
              /\ CommandOf(r.log, k).state \in InFlightStates \cup {"CONFIRMED"}
           \/ CommandOf(r.log, k).state = "UNKNOWN" /\ state = "REJECTED"
           \/ CommandOf(r.log, k).state = "UNKNOWN" /\ state = "RETRY_WAIT"
              /\ CommandOf(r.log, k).attempts < MaxAttempts
           \/ CommandOf(r.log, k).state = "RETRY_WAIT" /\ state = "PREPARED"
    PROVE  /\ Kept(r, s)
           /\ CommandOf(s.log, k) = [CommandOf(r.log, k) EXCEPT !.state = state]
           /\ \A c \in Commands \ {k} : CommandOf(s.log, c) = CommandOf(r.log, c)
<1> DEFINE new == save_command(r.log, k, state, CommandOf(r.log, k).outcome)
<1>1. Rows(r.log, k) # {}
  BY CommandType
<1>2. /\ LogOK(s.log, Commands)
      /\ CommandOf(s.log, k) = [CommandOf(r.log, k) EXCEPT !.state = state]
      /\ \A c \in Commands \ {k} : CommandOf(s.log, c) = CommandOf(r.log, c)
  BY <1>1, Saved
<1>3. /\ CommandOf(s.log, k).state = state
      /\ CommandOf(s.log, k).attempts = CommandOf(r.log, k).attempts
  BY <1>2, CommandType
<1>4. \A c \in Commands : KeptCommand(CommandOf(r.log, c), CommandOf(s.log, c))
  BY <1>2, <1>3 DEF KeptCommand
<1> QED
  BY <1>2, <1>4 DEF Kept

-----------------------------------------------------------------------------
(* Rows as OrderLedger sees them *)

\* What is committed of a row is nothing, or one step of OrderLedger.
LedgerStep(r, s) ==
    Summary(s) = Summary(r) \/ Ledger!Step(Summary(r), Summary(s))

Summaries == [life : Lives, work : Works, bind : BindingStates,
              cmd : [Commands -> [state : ActionStates, attempts : 0..MaxAttempts]]]

LEMMA SummaryType ==
    ASSUME NEW r \in Row, LogOK(r.log, Commands)
    PROVE  /\ Summary(r) \in Summaries
           /\ Summary(r).life = r.life /\ Summary(r).work = r.work
           /\ Summary(r).bind = r.bind
           /\ \A k \in Commands :
                /\ Summary(r).cmd[k].state = CommandOf(r.log, k).state
                /\ Summary(r).cmd[k].attempts = CommandOf(r.log, k).attempts
<1> DEFINE brief(k) == LET c == CommandOf(r.log, k) IN
                       [state |-> c.state, attempts |-> c.attempts]
<1>1. \A k \in Commands :
        /\ brief(k) \in [state : ActionStates, attempts : 0..MaxAttempts]
        /\ brief(k).state = CommandOf(r.log, k).state
        /\ brief(k).attempts = CommandOf(r.log, k).attempts
  BY CommandType
<1>2. Summary(r) = [life |-> r.life, work |-> r.work, bind |-> r.bind,
                    cmd |-> [k \in Commands |-> brief(k)]]
  BY DEF Summary
<1> HIDE DEF brief
<1> QED
  BY <1>1, <1>2 DEF Row, Summaries

\* Two rows with the same columns and commands have the same summary.
LEMMA SameSummary ==
    ASSUME NEW r \in Row, LogOK(r.log, Commands), NEW s \in Row, LogOK(s.log, Commands),
           s.life = r.life, s.work = r.work, s.bind = r.bind,
           \A k \in Commands :
             /\ CommandOf(s.log, k).state = CommandOf(r.log, k).state
             /\ CommandOf(s.log, k).attempts = CommandOf(r.log, k).attempts
    PROVE  Summary(s) = Summary(r)
<1>1. Summary(r).cmd = Summary(s).cmd
  <2>1. \A k \in Commands : Summary(r).cmd[k] = Summary(s).cmd[k]
    BY SummaryType DEF Summaries
  <2> QED
    BY <2>1, SummaryType DEF Summaries
<1> QED
  BY <1>1, SummaryType DEF Summaries

\* The summary of a row in which one command changed.
LEMMA SummaryOfChanged ==
    ASSUME NEW r \in Row, LogOK(r.log, Commands), NEW s \in Row, LogOK(s.log, Commands),
           NEW k \in Commands,
           \A c \in Commands \ {k} : CommandOf(s.log, c) = CommandOf(r.log, c)
    PROVE  Summary(s) = [life |-> s.life, work |-> s.work, bind |-> s.bind,
                         cmd |-> [Summary(r).cmd EXCEPT ![k] =
                                    [state |-> CommandOf(s.log, k).state,
                                     attempts |-> CommandOf(s.log, k).attempts]]]
<1> DEFINE cmd == [Summary(r).cmd EXCEPT ![k] =
                     [state |-> CommandOf(s.log, k).state,
                      attempts |-> CommandOf(s.log, k).attempts]]
<1>1. CommandOf(s.log, k).state \in ActionStates
      /\ CommandOf(s.log, k).attempts \in 0..MaxAttempts
  BY CommandType
<1>2. cmd \in [Commands -> [state : ActionStates, attempts : 0..MaxAttempts]]
  BY <1>1, SummaryType DEF Summaries
<1>3. ASSUME NEW c \in Commands
      PROVE  Summary(s).cmd[c] = cmd[c]
  <2>1. Summary(s).cmd[c] \in [state : ActionStates, attempts : 0..MaxAttempts]
        /\ cmd[c] \in [state : ActionStates, attempts : 0..MaxAttempts]
    BY <1>2, SummaryType DEF Summaries
  <2>2. /\ Summary(s).cmd[c].state = CommandOf(s.log, c).state
        /\ Summary(s).cmd[c].attempts = CommandOf(s.log, c).attempts
    BY SummaryType
  <2>3. /\ cmd[c].state = CommandOf(s.log, c).state
        /\ cmd[c].attempts = CommandOf(s.log, c).attempts
    BY SummaryType DEF Summaries
  <2> QED
    BY <2>1, <2>2, <2>3
<1> HIDE DEF cmd
<1>4. Summary(s).cmd = cmd
  BY <1>2, <1>3, SummaryType DEF Summaries
<1> QED
  BY <1>4, SummaryType DEF cmd, Summaries

StateOf(cmd, k, state) == [cmd EXCEPT ![k].state = state]

\* The summary of a row in which the state of one command changed.
LEMMA StateChanged ==
    ASSUME NEW r \in Row, LogOK(r.log, Commands), NEW s \in Row, LogOK(s.log, Commands),
           NEW k \in Commands,
           \A c \in Commands \ {k} : CommandOf(s.log, c) = CommandOf(r.log, c),
           CommandOf(s.log, k).attempts = CommandOf(r.log, k).attempts
    PROVE  Summary(s).cmd = StateOf(Summary(r).cmd, k, CommandOf(s.log, k).state)
<1> DEFINE state == CommandOf(s.log, k).state
           R == Summary(r)
           S == Summary(s)
           new == [state |-> state, attempts |-> CommandOf(r.log, k).attempts]
<1>1. S.cmd = [R.cmd EXCEPT ![k] = new]
  BY SummaryOfChanged
<1>2. R \in Summaries /\ R.cmd[k].attempts = CommandOf(r.log, k).attempts
  BY SummaryType
<1> HIDE DEF R, S
<1>3. [R.cmd[k] EXCEPT !.state = state] = new
  BY <1>2 DEF Summaries
<1>4. [R.cmd EXCEPT ![k] = new] = StateOf(R.cmd, k, state)
  BY <1>2, <1>3 DEF Summaries, StateOf
<1> QED
  BY <1>1, <1>4 DEF R, S

-----------------------------------------------------------------------------
(* Every write is a step of OrderLedger *)

\* what a transaction wrote and has not committed
LEMMA DerivedStep ==
    ASSUME NEW r \in Row, LogOK(r.log, Commands), NEW s, Derived(r, s)
    PROVE  Kept(r, s) /\ LedgerStep(r, s)
<1>1. s \in Row /\ VerKeeps(r, s)
  BY DEF Derived
<1> DEFINE R == Summary(r)
           S == Summary(s)
<1>2. CASE s.log = r.log
  <2>1. Kept(r, s)
    BY <1>1, <1>2, SameLogKept
  <2>2. LogOK(s.log, Commands)
    BY <1>2
  <2>3. S.cmd = R.cmd
    BY <1>2 DEF Summary
  <2>4. CASE s.life = r.life /\ s.work = r.work /\ s.bind = r.bind
    <3>1. \A k \in Commands : CommandOf(s.log, k) = CommandOf(r.log, k)
      BY <1>2
    <3>2. Summary(s) = Summary(r)
      BY <1>1, <2>2, <2>4, <3>1, SameSummary
    <3> QED
      BY <2>1, <3>2 DEF LedgerStep
  <2>5. CASE /\ r.life = "OPEN" /\ s.life = r.life /\ s.bind = r.bind
             /\ s.work \in Works \ Closed
    <3>1. R.life = "OPEN" /\ S = [R EXCEPT !.work = S.work] /\ S.work = s.work
      BY <1>1, <2>2, <2>3, <2>5, SummaryType DEF Summaries
    <3>2. Ledger!Derive(R, S)
      BY <2>5, <3>1 DEF Ledger!Derive, Ledger!Works, Ledger!Closed, Works, Closed
    <3> QED
      BY <2>1, <3>2 DEF LedgerStep, Ledger!Step
  <2>6. CASE /\ r.life = "OPEN" /\ r.bind = "CONFIRMED" /\ s.bind = "RELEASED"
             /\ s.life = "MANUAL_CLOSED" /\ s.work = "MANUAL_CLOSED"
    <3>1. /\ R.life = "OPEN" /\ R.bind = "CONFIRMED"
          /\ S = [R EXCEPT !.life = "MANUAL_CLOSED", !.work = "MANUAL_CLOSED",
                           !.bind = "RELEASED"]
      BY <1>1, <2>2, <2>3, <2>6, SummaryType DEF Summaries
    <3>2. Ledger!Derive(R, S)
      BY <3>1 DEF Ledger!Derive
    <3> QED
      BY <2>1, <3>2 DEF LedgerStep, Ledger!Step
  <2>7. CASE s.log = save_command(r.log, "SET_RELEASE", "PREPARED", Release(r).outcome)
             /\ s.life = r.life /\ s.work = r.work /\ s.bind = r.bind
    BY <2>4, <2>7
  <2> QED
    BY <2>1, <2>4, <2>5, <2>6, <2>7 DEF Derived
<1>3. CASE /\ r.life = "OPEN" /\ Release(r).state = "RETRY_WAIT" /\ ~Releasable(r)
           /\ s.life = r.life /\ s.work = r.work /\ s.bind = r.bind
           /\ s.log = save_command(r.log, "SET_RELEASE", "PREPARED",
                                   Release(r).outcome)
  <2> DEFINE k == "SET_RELEASE"
  <2>1. k \in Commands /\ "PREPARED" \in ActionStates \ {"NONE"}
    BY DEF Commands, ActionStates
  <2>2. CommandOf(r.log, k).state = "RETRY_WAIT"
    BY <1>3 DEF Release
  <2>3. s.log = save_command(r.log, k, "PREPARED", CommandOf(r.log, k).outcome)
    BY <1>3 DEF Release
  <2> HIDE DEF k
  <2>4. /\ Kept(r, s)
        /\ CommandOf(s.log, k) = [CommandOf(r.log, k) EXCEPT !.state = "PREPARED"]
        /\ \A c \in Commands \ {k} : CommandOf(s.log, c) = CommandOf(r.log, c)
    BY <1>1, <2>1, <2>2, <2>3, SavedKept
  <2>5. LogOK(s.log, Commands)
    BY <2>4 DEF Kept
  <2>6. S = [life |-> s.life, work |-> s.work, bind |-> s.bind,
             cmd |-> [R.cmd EXCEPT ![k] =
                        [state |-> CommandOf(s.log, k).state,
                         attempts |-> CommandOf(s.log, k).attempts]]]
    BY ZenonT(30), <1>1, <2>1, <2>4, <2>5, SummaryOfChanged
  <2>7. /\ CommandOf(s.log, k).state = "PREPARED"
        /\ CommandOf(s.log, k).attempts = R.cmd[k].attempts
        /\ R.cmd[k].state = "RETRY_WAIT"
    BY <2>1, <2>2, <2>4, CommandType, SummaryType
  <2>8. S.cmd = StateOf(R.cmd, k, "PREPARED")
    <3>1. CommandOf(s.log, k).attempts = CommandOf(r.log, k).attempts
      BY <2>1, <2>7, SummaryType
    <3>2. \A c \in Commands \ {k} : CommandOf(s.log, c) = CommandOf(r.log, c)
      BY <2>4
    <3>3. S.cmd = StateOf(R.cmd, k, CommandOf(s.log, k).state)
      BY <1>1, <2>1, <2>5, <3>1, <3>2, StateChanged
    <3> QED
      BY <2>7, <3>3
  <2>9. Ledger!Strand(R, S)
    <3>1. /\ R \in Summaries /\ S \in Summaries
          /\ S.life = R.life /\ S.work = R.work /\ S.bind = R.bind
          /\ R.life = "OPEN" /\ R.bind \notin {"CONFIRMED", "RELEASE_PENDING"}
      BY <1>1, <1>3, <2>5, SummaryType DEF Releasable
    <3> DEFINE cmd == StateOf(R.cmd, k, "PREPARED")
    <3> HIDE DEF R, S, cmd
    <3>2. S = [R EXCEPT !.cmd = cmd]
      BY <2>8, <3>1 DEF Summaries, cmd
    <3>3. S = [R EXCEPT !.cmd[k].state = "PREPARED"]
      BY <3>2, Zenon DEF cmd, StateOf
    <3> QED
      BY <2>7, <3>1, <3>3 DEF Ledger!Strand, k
  <2> QED
    BY <2>4, <2>9 DEF LedgerStep, Ledger!Step
<1> QED
  BY <1>2, <1>3 DEF Derived

\* A job claims a row and writes the state it derived.
LEMMA ProjectedIsDerived ==
    ASSUME NEW r \in Row, clock \in Nat, NEW j \in Jobs, r.life = "OPEN", NEW d,
           \/ d \in Works \ Closed
           \/ d = r.work
           \/ d = "MANUAL_CLOSED" /\ r.bind = "CONFIRMED",
           NEW c \in {r, Claimed(j, r)}
    PROVE  Derived(r, Projected(c, d))
<1>1. /\ c \in Row /\ c.ver >= r.ver /\ c.life = r.life /\ c.work = r.work
      /\ c.bind = r.bind /\ c.log = r.log /\ r.ver \in Nat /\ c.ver \in Nat
  BY ClaimedRow DEF Row
<1>2. CASE d = r.work
  BY <1>1, <1>2 DEF Projected, Derived, VerKeeps
<1>3. CASE d # r.work
  <2>1. d \in Works \ {"CLOSED"}
    BY <1>3 DEF Works, Closed
  <2>2. /\ Projected(c, d) \in Row
        /\ VerKeeps(c, Projected(c, d))
        /\ Projected(c, d).log = r.log
        /\ Projected(c, d).work = d
        /\ d \notin Closed =>
             Projected(c, d).life = r.life /\ Projected(c, d).bind = r.bind
        /\ d = "MANUAL_CLOSED" =>
             /\ Projected(c, d).life = "MANUAL_CLOSED"
             /\ Projected(c, d).bind = "RELEASED"
    BY <1>1, <1>3, <2>1, ProjectedRow
  <2>3. VerKeeps(r, Projected(c, d))
    BY <1>1, <2>2 DEF VerKeeps, Row
  <2> QED
    BY <1>3, <2>2, <2>3 DEF Derived
<1> QED
  BY <1>2, <1>3

\* The release prepared for a binding that is no longer there.
LEMMA StrandedIsDerived ==
    ASSUME NEW r \in Row, LogOK(r.log, Commands), clock \in Nat, NEW j \in Jobs,
           r.life = "OPEN", Release(r).state = "RETRY_WAIT", ~Releasable(r)
    PROVE  Derived(r, Stranded(Claimed(j, r)))
<1> DEFINE c == Claimed(j, r)
           k == "SET_RELEASE"
           log == save_command(r.log, k, "PREPARED", CommandOf(r.log, k).outcome)
           s == [c EXCEPT !.log = log]
<1>1. /\ c \in Row /\ c.ver = r.ver + 1 /\ c.life = r.life /\ c.work = r.work
      /\ c.bind = r.bind /\ c.log = r.log /\ r.ver \in Nat
  BY ClaimedRow DEF Row
<1>2. k \in Commands /\ "PREPARED" \in ActionStates \ {"NONE"}
  BY DEF Commands, ActionStates
<1>3. Stranded(c) = s /\ Release(r).outcome = CommandOf(r.log, k).outcome
  BY <1>1 DEF Stranded, Release
<1>4. Rows(r.log, k) # {}
  BY <1>2, CommandType DEF Release
<1> HIDE DEF k, c
<1>5. LogOK(log, Commands)
  BY <1>2, <1>4, Saved
<1> HIDE DEF log
<1>6. s \in Row /\ s.ver = c.ver /\ s.life = c.life /\ s.work = c.work
      /\ s.bind = c.bind /\ s.log = log
  BY <1>1, <1>5 DEF Row, LogOK
<1> HIDE DEF s
<1>7. VerKeeps(r, s)
  BY <1>1, <1>6 DEF VerKeeps
<1> QED
  BY <1>1, <1>3, <1>6, <1>7 DEF Derived, log, k, c

\* The intent, on a row that was claimed.
LEMMA PreparedStep ==
    ASSUME NEW r \in Row, LogOK(r.log, Commands), clock \in Nat, NEW j \in Jobs,
           NEW k \in Commands, r.life = "OPEN",
           CommandOf(r.log, k).state \in {"NONE", "RETRY_WAIT"},
           CommandOf(r.log, k).state = "RETRY_WAIT" =>
               CommandOf(r.log, k).attempts < MaxAttempts,
           k = "SET_RELEASE" => Releasable(r),
           NEW s, s = Prepared(Claimed(j, r), k)
    PROVE  /\ s \in Row /\ LogOK(s.log, Commands) /\ VerKeeps(r, s)
           /\ CommandOf(s.log, k).state = "PREPARED"
           /\ CommandOf(s.log, k).attempts = CommandOf(r.log, k).attempts
           /\ \A c \in Commands \ {k} : CommandOf(s.log, c) = CommandOf(r.log, c)
           /\ LedgerStep(r, s)
<1> DEFINE c == Claimed(j, r)
           u == Updated(c)
           log == IF Rows(r.log, k) = {} THEN insert_prepared(r.log, k)
                  ELSE save_command(r.log, k, "PREPARED", CommandOf(r.log, k).outcome)
           bind == IF k = "SET_HOLD" THEN "PENDING" ELSE "RELEASE_PENDING"
           work == IF k = "SET_HOLD" THEN "HOLD_VERIFY_PENDING" ELSE "RELEASE_SENT"
           was == CommandOf(r.log, k)
           R == Summary(r)
           S == Summary(s)
<1>1. c \in Row /\ c.ver = r.ver + 1 /\ c.life = r.life /\ c.log = r.log
      /\ r.ver \in Nat
  BY ClaimedRow DEF Row
<1> HIDE DEF c
<1>2. /\ u \in Row /\ u.ver = r.ver + 2 /\ u.life = r.life
      /\ u.log = r.log
  BY <1>1, UpdatedRow
<1>3. s = [u EXCEPT !.log = log, !.bind = bind, !.work = work]
  BY <1>2 DEF Prepared, c
<1>4. bind \in BindingStates /\ work \in Works
  BY DEF BindingStates, Works
<1>5. /\ LogOK(log, Commands)
      /\ CommandOf(log, k).state = "PREPARED"
      /\ CommandOf(log, k).attempts = was.attempts
      /\ \A d \in Commands \ {k} : CommandOf(log, d) = CommandOf(r.log, d)
  <2>1. was \in [state : ActionStates, outcome : Receipts \cup {NoReceipt},
                 attempts : 0..MaxAttempts]
        /\ (was.state = "NONE" => was.attempts = 0)
        /\ (was.state = "NONE" <=> Rows(r.log, k) = {})
    BY CommandType
  <2>2. CASE Rows(r.log, k) = {}
    <3> DEFINE new == insert_prepared(r.log, k)
    <3>1. /\ LogOK(new, Commands)
          /\ CommandOf(new, k) =
               [state |-> "PREPARED", outcome |-> NoReceipt, attempts |-> 0]
          /\ \A d \in Commands \ {k} : CommandOf(new, d) = CommandOf(r.log, d)
      BY <2>2, Inserted
    <3>2. log = new
      BY <2>2
    <3> HIDE DEF log, new, was
    <3> QED
      BY <2>1, <2>2, <3>1, <3>2
  <2>3. CASE Rows(r.log, k) # {}
    <3> DEFINE new == save_command(r.log, k, "PREPARED", was.outcome)
    <3>1. "PREPARED" \in ActionStates \ {"NONE"}
      BY DEF ActionStates
    <3>2. /\ LogOK(new, Commands)
          /\ CommandOf(new, k) = [was EXCEPT !.state = "PREPARED"]
          /\ \A d \in Commands \ {k} : CommandOf(new, d) = CommandOf(r.log, d)
      BY <2>3, <3>1, Saved
    <3>3. log = new
      BY <2>3
    <3> HIDE DEF log, new, was
    <3> QED
      BY <2>1, <3>2, <3>3
  <2> QED
    BY <2>2, <2>3
<1> HIDE DEF u, log, bind, work
<1>6. /\ s \in Row /\ s.ver = u.ver /\ s.life = u.life /\ s.work = work
      /\ s.bind = bind /\ s.log = log
  BY <1>2, <1>3, <1>4, <1>5 DEF Row, LogOK
<1>7. VerKeeps(r, s)
  BY <1>1, <1>2, <1>6 DEF VerKeeps
<1>8. S.cmd = StateOf(R.cmd, k, "PREPARED")
  <2>1. S.cmd = StateOf(R.cmd, k, CommandOf(s.log, k).state)
    BY <1>5, <1>6, StateChanged
  <2> QED
    BY <1>5, <1>6, <2>1
<1>9. /\ R \in Summaries /\ S \in Summaries
      /\ R.life = "OPEN" /\ S.life = R.life /\ S.work = work /\ S.bind = bind
      /\ R.bind = r.bind
      /\ R.cmd[k].state = was.state /\ R.cmd[k].attempts = was.attempts
  BY <1>2, <1>5, <1>6, SummaryType
<1>10. was.state = "NONE" => was.attempts = 0
  BY CommandType
<1>11. Ledger!Intent(R, S, k)
  <2> DEFINE cmd == StateOf(R.cmd, k, "PREPARED")
  <2> HIDE DEF R, S, cmd, was
  <2>1. S = [R EXCEPT !.cmd = cmd, !.bind = bind, !.work = work]
    BY <1>8, <1>9 DEF Summaries, cmd
  <2>2. S = [R EXCEPT !.cmd[k].state = "PREPARED",
                      !.bind = IF k = "SET_HOLD" THEN "PENDING" ELSE "RELEASE_PENDING",
                      !.work = IF k = "SET_HOLD" THEN "HOLD_VERIFY_PENDING"
                               ELSE "RELEASE_SENT"]
    BY <2>1, Zenon DEF cmd, StateOf, bind, work
  <2>3. /\ \/ R.cmd[k].state = "NONE" /\ R.cmd[k].attempts = 0
           \/ R.cmd[k].state = "RETRY_WAIT" /\ R.cmd[k].attempts < MaxAttempts
        /\ k = "SET_RELEASE" => R.bind \in {"CONFIRMED", "RELEASE_PENDING"}
    BY <1>9, <1>10 DEF Releasable, was
  <2> QED
    BY <1>9, <2>2, <2>3, Zenon DEF Ledger!Intent
<1>12. LedgerStep(r, s)
  BY <1>11 DEF LedgerStep, Ledger!Step, Ledger!Commands, Commands
<1> QED
  BY <1>5, <1>6, <1>7, <1>12

\* The receipt, on the row as it is by then.
LEMMA AnsweredStep ==
    ASSUME NEW r \in Row, LogOK(r.log, Commands), NEW k \in Commands,
           CommandOf(r.log, k).state # "NONE",
           CommandOf(r.log, k).attempts < MaxAttempts,
           NEW receipt \in Receipts,
           NEW s, s = Answered(r, k, receipt)
    PROVE  /\ s \in Row /\ LogOK(s.log, Commands) /\ VerKeeps(r, s)
           /\ CommandOf(s.log, k).attempts = CommandOf(r.log, k).attempts + 1
           /\ CommandOf(s.log, k).state =
                state_after_receipt(receipt, CommandOf(r.log, k).attempts + 1)
           /\ \A c \in Commands \ {k} : CommandOf(s.log, c) = CommandOf(r.log, c)
           /\ LedgerStep(r, s)
<1> DEFINE log == record_receipt(r.log, k, receipt)
           n == CommandOf(r.log, k).attempts + 1
           state == state_after_receipt(receipt, n)
           bind == IF k = "SET_HOLD" /\ state = "REJECTED" THEN "FAILED" ELSE r.bind
           R == Summary(r)
           S == Summary(s)
<1>1. Rows(r.log, k) # {} /\ n \in Nat /\ n <= MaxAttempts
      /\ R.cmd[k].attempts + 1 = n
  BY CommandType, SummaryType, AttemptsAssumption
<1>2. /\ LogOK(log, Commands)
      /\ CommandOf(log, k) = [state |-> state, outcome |-> receipt, attempts |-> n]
      /\ \A c \in Commands \ {k} : CommandOf(log, c) = CommandOf(r.log, c)
  BY <1>1, Recorded
<1>3. CommandOf(log, k).state = state /\ CommandOf(log, k).attempts = n
  <2> HIDE DEF log, state, n
  <2> QED
    BY <1>2
<1>4. s = [r EXCEPT !.log = log, !.bind = bind]
  BY <1>3 DEF Answered
<1>5. bind \in BindingStates
  BY DEF BindingStates, Row
<1> HIDE DEF log, state, bind, n
<1>6. /\ s \in Row /\ s.ver = r.ver /\ s.life = r.life /\ s.work = r.work
      /\ s.bind = bind /\ s.log = log /\ r.ver \in Nat
  BY <1>2, <1>4, <1>5 DEF Row, LogOK
<1>7. VerKeeps(r, s)
  BY <1>6 DEF VerKeeps
<1>8. /\ R \in Summaries /\ S \in Summaries /\ S.life = R.life /\ S.work = R.work
      /\ S.bind = bind /\ R.bind = r.bind
  BY <1>2, <1>6, SummaryType
<1> DEFINE cmd == [R.cmd EXCEPT ![k] = [state |-> state, attempts |-> n]]
<1>9. S.cmd = cmd
  BY <1>2, <1>3, <1>6, SummaryOfChanged
<1> HIDE DEF R, S
<1>10. Ledger!Receipt(R, S, k)
  <2> HIDE DEF cmd
  <2>1. S = [R EXCEPT !.cmd = cmd, !.bind = bind]
    BY <1>8, <1>9 DEF Summaries
  <2>2. bind = IF k = "SET_HOLD" /\ state = "REJECTED" THEN "FAILED" ELSE R.bind
    BY <1>8 DEF bind
  <2>3. S = [R EXCEPT !.cmd[k] = [state |-> state, attempts |-> n],
                      !.bind = IF k = "SET_HOLD" /\ state = "REJECTED"
                               THEN "FAILED" ELSE R.bind]
    BY <2>1, <2>2, Zenon DEF cmd
  <2>4. Ledger!state_after_receipt(receipt, n) = state
    BY DEF Ledger!state_after_receipt, state_after_receipt, state
  <2>5. receipt \in Ledger!Receipts
    BY DEF Ledger!Receipts, Ledger!Rejects, Receipts, Rejects
  <2> QED
    BY <1>1, <2>3, <2>4, <2>5, Zenon DEF Ledger!Receipt
<1>11. LedgerStep(r, s)
  BY <1>10 DEF LedgerStep, Ledger!Step, Ledger!Commands, Commands, R, S
<1> QED
  BY <1>2, <1>3, <1>6, <1>7, <1>11 DEF state, n

\* The operator closes the order.
LEMMA ClosedStep ==
    ASSUME NEW r \in Row, LogOK(r.log, Commands), NEW s,
           s = [Updated(r) EXCEPT !.life = "MANUAL_CLOSED", !.work = "MANUAL_CLOSED"]
    PROVE  Kept(r, s) /\ LedgerStep(r, s)
<1> DEFINE u == Updated(r)
           R == Summary(r)
           S == Summary(s)
<1>1. /\ u \in Row /\ u.ver = r.ver + 1 /\ u.log = r.log /\ u.bind = r.bind
      /\ r.ver \in Nat
  BY UpdatedRow DEF Row
<1>2. "MANUAL_CLOSED" \in Lives /\ "MANUAL_CLOSED" \in Works
  BY DEF Lives, Works
<1>3. /\ s \in Row /\ s.ver = u.ver /\ s.log = r.log /\ s.bind = r.bind
      /\ s.life = "MANUAL_CLOSED" /\ s.work = "MANUAL_CLOSED"
  <2> HIDE DEF u
  <2>1. s = [u EXCEPT !.life = "MANUAL_CLOSED", !.work = "MANUAL_CLOSED"]
    BY DEF u
  <2> QED
    BY <1>1, <1>2, <2>1 DEF Row
<1> HIDE DEF u
<1>4. Kept(r, s)
  <2>1. VerKeeps(r, s)
    BY <1>1, <1>3 DEF VerKeeps
  <2> QED
    BY <1>3, <2>1, SameLogKept
<1>5. S.cmd = R.cmd
  BY <1>3 DEF Summary
<1>6. S = [R EXCEPT !.life = "MANUAL_CLOSED", !.work = "MANUAL_CLOSED"]
  <2>1. /\ R \in Summaries /\ S \in Summaries /\ S.bind = R.bind
        /\ S.life = "MANUAL_CLOSED" /\ S.work = "MANUAL_CLOSED"
    BY <1>3, SummaryType
  <2> HIDE DEF R, S
  <2> QED
    BY <1>5, <2>1 DEF Summaries
<1> QED
  BY <1>4, <1>6 DEF LedgerStep, Ledger!Step, Ledger!Close

\* What CONFIRM_HOLD and CONFIRM_RELEASE make of a command.
LEMMA SavedSummary ==
    ASSUME NEW r \in Row, LogOK(r.log, Commands), NEW s \in Row, VerKeeps(r, s),
           NEW k \in Commands, NEW state \in ActionStates \ {"NONE"},
           s.log = save_command(r.log, k, state, CommandOf(r.log, k).outcome),
           CommandOf(r.log, k).state # "NONE",
           \/ state = "CONFIRMED"
              /\ CommandOf(r.log, k).state \in InFlightStates \cup {"CONFIRMED"}
           \/ CommandOf(r.log, k).state = "UNKNOWN" /\ state = "REJECTED"
           \/ CommandOf(r.log, k).state = "UNKNOWN" /\ state = "RETRY_WAIT"
              /\ CommandOf(r.log, k).attempts < MaxAttempts
    PROVE  /\ Kept(r, s)
           /\ Summary(r) \in Summaries /\ Summary(s) \in Summaries
           /\ Summary(s).life = s.life /\ Summary(s).work = s.work
           /\ Summary(s).bind = s.bind
           /\ Summary(s).cmd = StateOf(Summary(r).cmd, k, state)
           /\ Summary(s).cmd[k].state = state
<1>1. /\ Kept(r, s)
      /\ CommandOf(s.log, k) = [CommandOf(r.log, k) EXCEPT !.state = state]
      /\ \A c \in Commands \ {k} : CommandOf(s.log, c) = CommandOf(r.log, c)
  BY SavedKept
<1>2. LogOK(s.log, Commands)
  BY <1>1 DEF Kept
<1>3. CommandOf(s.log, k).state = state
      /\ CommandOf(s.log, k).attempts = CommandOf(r.log, k).attempts
  BY <1>1, CommandType
<1>4. \A c \in Commands \ {k} : CommandOf(s.log, c) = CommandOf(r.log, c)
  BY <1>1
<1>5. Summary(s).cmd = StateOf(Summary(r).cmd, k, CommandOf(s.log, k).state)
  BY <1>2, <1>3, <1>4, StateChanged
<1> QED
  BY <1>1, <1>2, <1>3, <1>5, SummaryType

LEMMA HoldVerifiedStep ==
    ASSUME NEW r \in Row, LogOK(r.log, Commands), clock \in Nat, NEW j \in Jobs,
           r.life = "OPEN", NEW s \in HoldVerified(Claimed(j, r))
    PROVE  Kept(r, s) /\ LedgerStep(r, s)
<1> DEFINE c == Claimed(j, r)
           u == Updated(c)
           k == "SET_HOLD"
           was == CommandOf(r.log, k)
           again == was.attempts < MaxAttempts
           save(state) == save_command(r.log, k, state, was.outcome)
           R == Summary(r)
           S == Summary(s)
<1>1. /\ c \in Row /\ c.ver = r.ver + 1 /\ c.life = r.life /\ c.work = r.work
      /\ c.bind = r.bind /\ c.log = r.log /\ r.ver \in Nat
  BY ClaimedRow DEF Row
<1> HIDE DEF c
<1>2. /\ u \in Row /\ u.ver = r.ver + 2 /\ u.life = r.life /\ u.work = r.work
      /\ u.bind = r.bind /\ u.log = r.log
  BY <1>1, UpdatedRow
<1>3. SetCommand(c) = was
  BY <1>1 DEF SetCommand
<1>4. k \in Commands /\ "CONFIRMED" \in ActionStates \ {"NONE"}
      /\ "RETRY_WAIT" \in ActionStates \ {"NONE"} /\ "REJECTED" \in ActionStates \ {"NONE"}
  BY DEF Commands, ActionStates
<1>5. /\ R.life = "OPEN" /\ R.bind = r.bind /\ R.cmd[k].state = was.state
      /\ R.cmd[k].attempts = was.attempts
  BY <1>4, SummaryType
<1> DEFINE bind == IF u.bind = "PENDING" THEN "CONFIRMED" ELSE u.bind
           work == IF again THEN "NEED_HOLD" ELSE "HOLD_FAILED"
           state == IF again THEN "RETRY_WAIT" ELSE "REJECTED"
           seen == save("CONFIRMED")
           gone == save(state)
           d == IF SetDecision(c) = "SET_HOLD" THEN "NEED_HOLD" ELSE SetDecision(c)
<1>6. \/ /\ was.state \in InFlightStates \cup {"CONFIRMED"}
         /\ s = [u EXCEPT !.work = "WAIT_AI", !.bind = bind, !.log = seen]
      \/ /\ was.state = "UNKNOWN"
         /\ s = [u EXCEPT !.work = work, !.log = gone]
      \/ s = Projected(c, d)
  <2> DEFINE now == SetCommand(c)
             more == now.attempts < MaxAttempts
             kept == save_command(c.log, "SET_HOLD", "CONFIRMED", now.outcome)
             lost == save_command(c.log, "SET_HOLD",
                                  IF more THEN "RETRY_WAIT" ELSE "REJECTED", now.outcome)
  <2>1. \/ /\ now.state \in InFlightStates \cup {"CONFIRMED"}
           /\ s = [u EXCEPT !.work = "WAIT_AI", !.bind = bind, !.log = kept]
        \/ /\ now.state = "UNKNOWN"
           /\ s = [u EXCEPT !.work = IF more THEN "NEED_HOLD" ELSE "HOLD_FAILED",
                            !.log = lost]
        \/ s = Projected(c, d)
    BY DEF HoldVerified, c
  <2>2. now = was /\ kept = seen /\ lost = gone
    BY <1>1, <1>3
  <2> HIDE DEF now, was, kept, seen, lost, gone, u, bind, d
  <2>3. (now.attempts < MaxAttempts) = (was.attempts < MaxAttempts)
    BY <2>2
  <2> QED
    BY <2>1, <2>2, <2>3
<1>7. CASE /\ was.state \in InFlightStates \cup {"CONFIRMED"}
           /\ s = [u EXCEPT !.work = "WAIT_AI", !.bind = bind, !.log = seen]
  <2>1. bind \in BindingStates /\ "WAIT_AI" \in Works
    BY <1>2 DEF BindingStates, Works, Row
  <2>2. Rows(r.log, k) # {} /\ was.state # "NONE"
    BY <1>4, <1>7, CommandType DEF InFlightStates
  <2>3. LogOK(seen, Commands)
    BY <1>4, <2>2, Saved
  <2> HIDE DEF u, bind, seen, was, k
  <2>4. /\ s \in Row /\ s.ver = u.ver /\ s.life = r.life /\ s.work = "WAIT_AI"
        /\ s.bind = bind /\ s.log = seen
    BY <1>2, <1>7, <2>1, <2>3 DEF Row, LogOK
  <2>5. VerKeeps(r, s)
    BY <1>1, <1>2, <2>4 DEF VerKeeps
  <2>6. s.log = save_command(r.log, k, "CONFIRMED", CommandOf(r.log, k).outcome)
    BY <2>4 DEF seen, was
  <2>7. CommandOf(r.log, k).state # "NONE"
        /\ CommandOf(r.log, k).state \in InFlightStates \cup {"CONFIRMED"}
    BY <1>7, <2>2 DEF was
  <2>8. /\ Kept(r, s)
        /\ R \in Summaries /\ S \in Summaries
        /\ S.life = R.life /\ S.work = "WAIT_AI" /\ S.bind = bind
        /\ S.cmd = StateOf(R.cmd, k, "CONFIRMED")
        /\ S.cmd[k].state = "CONFIRMED"
    BY <1>4, <1>5, <2>4, <2>5, <2>6, <2>7, SavedSummary
  <2>9. bind = IF R.bind = "PENDING" THEN "CONFIRMED" ELSE R.bind
    BY <1>2, <1>5 DEF bind
  <2> DEFINE cmd == StateOf(R.cmd, k, S.cmd[k].state)
  <2> HIDE DEF R, S, cmd
  <2>10. S = [R EXCEPT !.work = S.work, !.bind = S.bind, !.cmd = cmd]
    BY <2>8 DEF Summaries, cmd
  <2>11. S = [R EXCEPT !.work = S.work, !.bind = S.bind,
                       !.cmd["SET_HOLD"].state = S.cmd["SET_HOLD"].state]
    BY <2>10, Zenon DEF cmd, StateOf, k
  <2>12. S.cmd["SET_HOLD"].state = "CONFIRMED"
    BY <2>8 DEF k
  <2>13. Ledger!Confirm(R, S)
    BY <1>5, <2>8, <2>9, <2>11, <2>12, Zenon DEF Ledger!Confirm
  <2> QED
    BY <2>8, <2>13 DEF LedgerStep, Ledger!Step, R, S
<1>8. CASE was.state = "UNKNOWN" /\ s = [u EXCEPT !.work = work, !.log = gone]
  <2>1. work \in Works /\ state \in ActionStates \ {"NONE"}
    BY <1>4 DEF Works
  <2>2. Rows(r.log, k) # {} /\ was.state # "NONE"
    BY <1>4, <1>8, CommandType
  <2> HIDE DEF state
  <2>3. LogOK(gone, Commands)
    BY <1>4, <2>1, <2>2, Saved
  <2>4. \/ state = "REJECTED"
        \/ state = "RETRY_WAIT" /\ CommandOf(r.log, k).attempts < MaxAttempts
    BY DEF state
  <2> HIDE DEF u, work, gone, was, k
  <2>5. /\ s \in Row /\ s.ver = u.ver /\ s.life = r.life /\ s.work = work
        /\ s.bind = r.bind /\ s.log = gone
    BY <1>2, <1>8, <2>1, <2>3 DEF Row, LogOK
  <2>6. VerKeeps(r, s)
    BY <1>1, <1>2, <2>5 DEF VerKeeps
  <2>7. s.log = save_command(r.log, k, state, CommandOf(r.log, k).outcome)
    BY <2>5 DEF gone, was
  <2>8. CommandOf(r.log, k).state = "UNKNOWN"
    BY <1>8 DEF was
  <2>9. /\ Kept(r, s)
        /\ R \in Summaries /\ S \in Summaries
        /\ S.life = R.life /\ S.work = work /\ S.bind = R.bind
        /\ S.cmd = StateOf(R.cmd, k, state)
    BY <1>4, <1>5, <2>1, <2>4, <2>5, <2>6, <2>7, <2>8, SavedSummary
  <2> DEFINE cmd == StateOf(R.cmd, k, state)
  <2> HIDE DEF R, S, cmd
  <2>10. S = [R EXCEPT !.work = work, !.cmd = cmd]
    BY <2>9 DEF Summaries, cmd
  <2>11. S = [R EXCEPT !.work = work, !.cmd["SET_HOLD"].state = state]
    BY <2>10, Zenon DEF cmd, StateOf, k
  <2>12. /\ work = IF R.cmd["SET_HOLD"].attempts < MaxAttempts
                   THEN "NEED_HOLD" ELSE "HOLD_FAILED"
         /\ state = IF R.cmd["SET_HOLD"].attempts < MaxAttempts
                    THEN "RETRY_WAIT" ELSE "REJECTED"
         /\ R.cmd["SET_HOLD"].state = "UNKNOWN"
    BY <1>5, <1>8 DEF k, work, state
  <2>13. Ledger!GiveUp(R, S)
    BY <1>5, <2>11, <2>12, Zenon DEF Ledger!GiveUp
  <2> QED
    BY <2>9, <2>13 DEF LedgerStep, Ledger!Step, R, S
<1>9. CASE s = Projected(c, d)
  <2>1. d \in Works \ Closed
    BY <1>1 DEF SetDecision, Works, Closed
  <2> HIDE DEF d
  <2>2. Derived(r, s)
    BY <1>9, <2>1, ProjectedIsDerived DEF c
  <2> QED
    BY <2>2, DerivedStep
<1> QED
  BY <1>6, <1>7, <1>8, <1>9

LEMMA ReleaseVerifiedStep ==
    ASSUME NEW r \in Row, LogOK(r.log, Commands), clock \in Nat, NEW j \in Jobs,
           r.life = "OPEN", NEW s \in ReleaseVerified(Claimed(j, r))
    PROVE  Kept(r, s) /\ LedgerStep(r, s)
<1> DEFINE c == Claimed(j, r)
           u == Updated(c)
           k == "SET_RELEASE"
           was == CommandOf(r.log, k)
           log == save_command(r.log, k, "CONFIRMED", was.outcome)
           d == IF Release(c).outcome \in Rejects THEN "RELEASE_FAILED"
                ELSE IF InFlight(Release(c)) THEN "RELEASE_VERIFY_PENDING"
                ELSE c.work
           R == Summary(r)
           S == Summary(s)
<1>1. /\ c \in Row /\ c.ver = r.ver + 1 /\ c.life = r.life /\ c.work = r.work
      /\ c.bind = r.bind /\ c.log = r.log /\ r.ver \in Nat
  BY ClaimedRow DEF Row
<1> HIDE DEF c
<1>2. /\ u \in Row /\ u.ver = r.ver + 2 /\ u.log = r.log
  BY <1>1, UpdatedRow
<1>3. Release(c) = was
  BY <1>1 DEF Release
<1>4. k \in Commands /\ "CONFIRMED" \in ActionStates \ {"NONE"}
  BY DEF Commands, ActionStates
<1>5. R.life = "OPEN" /\ R.cmd[k].state = was.state
  BY <1>4, SummaryType
<1>6. \/ /\ was.state \in InFlightStates
         /\ s = [u EXCEPT !.life = "CLOSED", !.work = "CLOSED",
                          !.bind = "RELEASED", !.log = log]
      \/ s = Projected(c, d)
  <2> DEFINE new == save_command(u.log, k, "CONFIRMED", Release(c).outcome)
  <2>1. \/ /\ Release(c).state \in InFlightStates
           /\ s = [u EXCEPT !.life = "CLOSED", !.work = "CLOSED",
                            !.bind = "RELEASED", !.log = new]
        \/ s = Projected(c, d)
    BY DEF ReleaseVerified, InFlight, c
  <2>2. new = log
    BY <1>2, <1>3
  <2> HIDE DEF new, log, d, u
  <2> QED
    BY <1>3, <2>1, <2>2
<1>7. CASE /\ was.state \in InFlightStates
           /\ s = [u EXCEPT !.life = "CLOSED", !.work = "CLOSED",
                            !.bind = "RELEASED", !.log = log]
  <2>1. "CLOSED" \in Lives /\ "CLOSED" \in Works /\ "RELEASED" \in BindingStates
    BY DEF Lives, Works, BindingStates
  <2>2. Rows(r.log, k) # {} /\ was.state # "NONE"
    BY <1>4, <1>7, CommandType DEF InFlightStates
  <2>3. LogOK(log, Commands)
    BY <1>4, <2>2, Saved
  <2> HIDE DEF u, log, was, k
  <2>4. /\ s \in Row /\ s.ver = u.ver /\ s.life = "CLOSED" /\ s.work = "CLOSED"
        /\ s.bind = "RELEASED" /\ s.log = log
    BY <1>2, <1>7, <2>1, <2>3 DEF Row, LogOK
  <2>5. VerKeeps(r, s)
    BY <1>1, <1>2, <2>4 DEF VerKeeps
  <2>6. s.log = save_command(r.log, k, "CONFIRMED", CommandOf(r.log, k).outcome)
    BY <2>4 DEF log, was
  <2>7. CommandOf(r.log, k).state # "NONE"
        /\ CommandOf(r.log, k).state \in InFlightStates \cup {"CONFIRMED"}
    BY <1>7, <2>2 DEF was
  <2>8. /\ Kept(r, s)
        /\ R \in Summaries /\ S \in Summaries
        /\ S.life = "CLOSED" /\ S.work = "CLOSED" /\ S.bind = "RELEASED"
        /\ S.cmd = StateOf(R.cmd, k, "CONFIRMED")
    BY <1>4, <2>4, <2>5, <2>6, <2>7, SavedSummary
  <2> DEFINE cmd == StateOf(R.cmd, k, "CONFIRMED")
  <2> HIDE DEF R, S, cmd
  <2>9. S = [R EXCEPT !.life = "CLOSED", !.work = "CLOSED", !.bind = "RELEASED",
                      !.cmd = cmd]
    BY <2>8 DEF Summaries, cmd
  <2>10. S = [R EXCEPT !.life = "CLOSED", !.work = "CLOSED", !.bind = "RELEASED",
                       !.cmd["SET_RELEASE"].state = "CONFIRMED"]
    BY <2>9, Zenon DEF cmd, StateOf, k
  <2>11. R.cmd["SET_RELEASE"].state \in Ledger!InFlightStates
    BY <1>5, <1>7 DEF Ledger!InFlightStates, InFlightStates, k
  <2>12. Ledger!Finish(R, S)
    BY <1>5, <2>10, <2>11, Zenon DEF Ledger!Finish
  <2> QED
    BY <2>8, <2>12 DEF LedgerStep, Ledger!Step, R, S
<1>8. CASE s = Projected(c, d)
  <2>1. d \in Works \ Closed \/ d = r.work
    BY <1>1 DEF Works, Closed
  <2> HIDE DEF d
  <2>2. Derived(r, s)
    BY <1>8, <2>1, ProjectedIsDerived DEF c
  <2> QED
    BY <2>2, DerivedStep
<1> QED
  BY <1>6, <1>7, <1>8

-----------------------------------------------------------------------------
(* What a commit, a write and a read do to the invariant *)

LEMMA PageKept ==
    ASSUME NEW x, NEW c, NEW d, PageOK(x, c), x.todo \subseteq Orders,
           \A o \in Orders : c[o].ver \in Nat /\ d[o].ver \in Nat /\ VerKeeps(c[o], d[o])
    PROVE  PageOK(x, d)
<1> SUFFICES ASSUME NEW o \in x.todo
             PROVE  /\ x.page[o].ver \in Nat
                    /\ x.page[o].ver <= d[o].ver
                    /\ d[o].ver = x.page[o].ver =>
                         d[o].life = "OPEN" /\ d[o].work = x.page[o].work
  BY DEF PageOK
<1>1. /\ c[o].ver \in Nat /\ d[o].ver \in Nat /\ c[o].ver <= d[o].ver
      /\ d[o].ver = c[o].ver => d[o].life = c[o].life /\ d[o].work = c[o].work
  BY DEF VerKeeps
<1>2. /\ x.page[o].ver \in Nat
      /\ x.page[o].ver <= c[o].ver
      /\ c[o].ver = x.page[o].ver => c[o].life = "OPEN" /\ c[o].work = x.page[o].work
  BY DEF PageOK
<1> QED
  BY <1>1, <1>2

LEMMA IdleOK ==
    \A rows : JobOK(Idle) /\ PageOK(Idle, rows) /\ ~Pending(Idle) /\ Idle.todo = {}
  BY DEF JobOK, PageOK, Pending, Idle, Phases

LEMMA OvertakenJobs ==
    ASSUME Shapes, NEW j, NEW mine, job' = Overtaken(j, mine)
    PROVE  /\ job' = [k \in Jobs |-> job'[k]]
           /\ \A k \in Jobs : job'[k] = IF k = j THEN mine
                                       ELSE IF job[k].pc \in Reading THEN Idle
                                       ELSE job[k]
  BY DEF Overtaken

LEMMA RowFacts ==
    ASSUME Shapes, RowsInv
    PROVE  /\ \A o \in Orders : /\ db[o] \in Row /\ db[o].ver \in Nat
                              /\ LogOK(db[o].log, Commands)
           /\ db = [o \in Orders |-> db[o]]
           /\ clock \in Nat
  BY DEF Shapes, RowsInv, RowInv, Row

\* A commit, or the operator's write: the rows move on, whoever has read is out.
LEMMA CommittedInv ==
    ASSUME StoreInv, NEW j \in Jobs \cup {NoJob}, NEW rows, NEW mine,
           db' = rows, lock' = NoJob, job' = Overtaken(j, mine), UNCHANGED <<calls, clock>>,
           rows \in [Orders -> Row],
           \A o \in Orders : VerKeeps(db[o], rows[o]) /\ RowInv(rows[o], calls[o]),
           JobOK(mine), PageOK(mine, rows),
           \A i \in Jobs \ {j} : job[i].pc = "call" =>
               PendingOK(job[i], Own(i, rows), calls[job[i].at][Command(i)]),
           Pending(mine) =>
               /\ PendingOK(mine, CommandOf(rows[mine.at].log, Command(j)),
                            calls[mine.at][Command(j)])
               /\ \A i \in Jobs \ {j} :
                    job[i].pc = "call" /\ job[i].at = mine.at => Command(i) # Command(j)
    PROVE  StoreInv'
<1>1. Shapes /\ RowsInv /\ JobsInv /\ CallsInv
  BY DEF StoreInv
<1>2. /\ job' = [k \in Jobs |-> job'[k]]
      /\ \A k \in Jobs : job'[k] = IF k = j THEN mine
                                  ELSE IF job[k].pc \in Reading THEN Idle
                                  ELSE job[k]
  BY <1>1, OvertakenJobs
<1>3. Shapes'
  BY <1>1, <1>2 DEF Shapes
<1>4. RowsInv'
  BY DEF RowsInv
<1>5. JobsInv'
  <2> SUFFICES ASSUME NEW k \in Jobs
               PROVE  JobOK(job'[k]) /\ PageOK(job'[k], rows)
    BY DEF JobsInv
  <2>1. JobOK(job[k]) /\ PageOK(job[k], db) /\ job[k].todo \subseteq Orders
    BY <1>1 DEF JobsInv, JobOK
  <2>2. \A o \in Orders : db[o].ver \in Nat /\ rows[o].ver \in Nat
    BY <1>1 DEF Shapes, Row
  <2>3. PageOK(job[k], rows)
    BY <2>1, <2>2, PageKept
  <2> QED
    BY <1>2, <2>1, <2>3, IdleOK
<1>6. \A k \in Jobs \ {j} : Pending(job'[k]) => job'[k] = job[k] /\ job[k].pc = "call"
  BY <1>2, IdleOK DEF Pending, Reading
<1>7. CallsInv'
  <2>1. ASSUME NEW k \in Jobs, Pending(job'[k])
        PROVE  PendingOK(job'[k], CommandOf(rows[job'[k].at].log, Command(k)),
                         calls[job'[k].at][Command(k)])
    BY <1>2, <1>6, <2>1 DEF Own
  <2>2. ASSUME NEW i \in Jobs, NEW k \in Jobs, Pending(job'[i]), Pending(job'[k]),
               job'[i].at = job'[k].at, Command(i) = Command(k)
        PROVE  i = k
    <3>1. CASE i # j /\ k # j
      BY <1>1, <1>6, <2>2, <3>1 DEF CallsInv
    <3> QED
      BY <1>2, <1>6, <2>2, <3>1
  <2> QED
    BY <2>1, <2>2 DEF CallsInv, Own
<1>8. DraftInv'
  BY DEF DraftInv
<1> QED
  BY <1>3, <1>4, <1>5, <1>7, <1>8 DEF StoreInv

\* Nothing was sent and nothing answered.
LEMMA KeptRowsInv ==
    ASSUME StoreInv, NEW j \in Jobs \cup {NoJob}, NEW rows, NEW mine,
           db' = rows, lock' = NoJob, job' = Overtaken(j, mine), UNCHANGED <<calls, clock>>,
           rows = [o \in Orders |-> rows[o]],
           \A o \in Orders : Kept(db[o], rows[o]),
           JobOK(mine), mine.todo = {}, ~Pending(mine)
    PROVE  StoreInv'
<1>1. rows \in [Orders -> Row]
  BY DEF Kept
<1>2. \A o \in Orders : VerKeeps(db[o], rows[o]) /\ RowInv(rows[o], calls[o])
  BY KeptInv DEF StoreInv, RowsInv, Kept
<1>3. PageOK(mine, rows)
  BY DEF PageOK
<1>4. ASSUME NEW i \in Jobs \ {j}, job[i].pc = "call"
      PROVE  PendingOK(job[i], Own(i, rows), calls[job[i].at][Command(i)])
  <2>1. Pending(job[i]) /\ job[i].at \in Orders /\ Command(i) \in Commands
    BY <1>4 DEF StoreInv, JobsInv, JobOK, Pending, Command, Commands
  <2>2. PendingOK(job[i], Own(i, db), calls[job[i].at][Command(i)])
    BY <2>1 DEF StoreInv, CallsInv
  <2>3. KeptCommand(Own(i, db), Own(i, rows))
    BY <2>1 DEF Kept, Own
  <2> QED
    BY <2>2, <2>3, KeptPending
<1> QED
  BY <1>1, <1>2, <1>3, <1>4, CommittedInv

\* a write that is not committed yet
LEMMA WrittenInv ==
    ASSUME StoreInv, NEW j \in Jobs, NEW rows, NEW mine, Write(j, rows, mine),
           rows = [o \in Orders |-> rows[o]],
           \A o \in Orders : Derived(db[o], rows[o]),
           JobOK(mine), PageOK(mine, db), mine.pc = "pass",
           \A o \in mine.todo : rows[o] = db[o]
    PROVE  StoreInv'
<1>1. /\ lock' = j /\ draft' = rows /\ UNCHANGED <<db, calls, clock>>
      /\ job' = [k \in Jobs |-> job'[k]]
      /\ \A k \in Jobs : job'[k] = IF k = j THEN mine ELSE job[k]
  BY DEF Write, StoreInv, Shapes
<1>2. ~Pending(mine)
  BY DEF Pending
<1>3. Shapes' /\ RowsInv'
  BY <1>1 DEF StoreInv, Shapes, RowsInv
<1>4. JobsInv'
  BY <1>1 DEF StoreInv, JobsInv
<1>5. CallsInv'
  BY <1>1, <1>2 DEF StoreInv, CallsInv, Own
<1>6. DraftInv'
  BY <1>1 DEF DraftInv
<1> QED
  BY <1>3, <1>4, <1>5, <1>6 DEF StoreInv

LEMMA StayedInv ==
    ASSUME StoreInv, NEW j \in Jobs, NEW mine, Stay(j, mine),
           JobOK(mine), PageOK(mine, db), ~Pending(mine),
           lock = j => mine.pc = "pass" /\ mine.todo \subseteq job[j].todo
    PROVE  StoreInv'
<1>1. /\ UNCHANGED <<db, lock, draft, calls, clock>>
      /\ job' = [k \in Jobs |-> job'[k]]
      /\ \A k \in Jobs : job'[k] = IF k = j THEN mine ELSE job[k]
  BY DEF Stay, StoreInv, Shapes
<1>2. Shapes' /\ RowsInv'
  BY <1>1 DEF StoreInv, Shapes, RowsInv
<1>3. JobsInv'
  BY <1>1 DEF StoreInv, JobsInv
<1>4. CallsInv'
  BY <1>1 DEF StoreInv, CallsInv, Own
<1>5. DraftInv'
  BY <1>1 DEF StoreInv, Shapes, DraftInv
<1> QED
  BY <1>2, <1>3, <1>4, <1>5 DEF StoreInv

-----------------------------------------------------------------------------
(* The steps of the jobs *)

\* What every step may leave behind: the invariant, and a step of OrderLedger.
Good == StoreInv' /\ \A o \in Orders : LedgerStep(db[o], db'[o])

LEMMA QuietIsGood == ASSUME StoreInv', db' = db PROVE Good
  BY DEF Good, LedgerStep

LEMMA SameIsKept ==
    ASSUME NEW r \in Row, LogOK(r.log, Commands)
    PROVE  Kept(r, r) /\ LedgerStep(r, r) /\ Derived(r, r)
  BY DEF Kept, KeptCommand, LedgerStep, Derived, VerKeeps, Row

LEMMA SeenRows ==
    ASSUME StoreInv, NEW j \in Jobs
    PROVE  /\ Sees(j) = [o \in Orders |-> Sees(j)[o]]
           /\ \A o \in Orders : Derived(db[o], Sees(j)[o])
           /\ \A o \in job[j].todo : o \in Orders /\ Sees(j)[o] = db[o]
<1>1. \A o \in job[j].todo : o \in Orders
  BY DEF StoreInv, JobsInv, JobOK
<1>2. CASE lock = j
  BY <1>1, <1>2, StoreAssumption DEF Sees, StoreInv, DraftInv
<1>3. CASE lock # j
  <2>1. \A o \in Orders : Derived(db[o], db[o])
    BY RowFacts, SameIsKept DEF StoreInv
  <2> QED
    BY <1>1, <1>3, <2>1, RowFacts DEF Sees, StoreInv
<1> QED
  BY <1>2, <1>3

LEMMA VisitedOK ==
    ASSUME StoreInv, NEW j \in Jobs, NEW o, job[j].pc \in {"pass", "back"}
    PROVE  /\ JobOK(Visited(j, o)) /\ PageOK(Visited(j, o), db)
           /\ Visited(j, o).pc = "pass" /\ ~Pending(Visited(j, o))
           /\ Visited(j, o).todo = job[j].todo \ {o}
<1> DEFINE x == job[j]
           y == Visited(j, o)
           todo == x.todo \ {o}
<1>1. JobOK(x) /\ PageOK(x, db)
  BY DEF StoreInv, JobsInv
<1>2. y = [x EXCEPT !.pc = "pass", !.todo = todo, !.at = 0]
  BY DEF Visited
<1>3. todo \in SUBSET Orders
  BY <1>1 DEF JobOK
<1> HIDE DEF todo, x
<1>4. /\ y \in [pc : Phases, page : {x.page}, todo : SUBSET Orders,
                at : Orders \cup {0}, answer : Receipts \cup {NoReceipt}]
      /\ y.pc = "pass" /\ y.todo = todo /\ y.page = x.page
  BY <1>1, <1>2, <1>3 DEF JobOK, Phases
<1> HIDE DEF y
<1>5. JobOK(y)
  BY <1>4 DEF JobOK
<1>6. PageOK(y, db)
  BY <1>1, <1>4 DEF PageOK, todo
<1> QED
  BY <1>4, <1>5, <1>6 DEF Pending, y, todo, x

\* the row that a job takes up is open, as its page says
LEMMA TakenUp ==
    ASSUME StoreInv, NEW j \in Jobs, NEW o, Visits(j, o), Claimable(j, o)
    PROVE  /\ o \in Orders /\ Sees(j)[o] = db[o] /\ db[o].life = "OPEN"
           /\ Mixed(j, o) = db[o]
<1>1. o \in job[j].todo /\ o \in Orders /\ Sees(j)[o] = db[o]
  BY SeenRows DEF Visits
<1>2. db[o].life = "OPEN" /\ db[o].work = job[j].page[o].work
  BY <1>1 DEF StoreInv, JobsInv, PageOK, Claimable
<1>3. db[o] \in Row
  BY <1>1, RowFacts DEF StoreInv
<1> DEFINE r == db[o]
<1>4. Mixed(j, o) = [r EXCEPT !.life = r.life, !.work = r.work]
  BY <1>1, <1>2 DEF Mixed
<1>5. [r EXCEPT !.life = r.life, !.work = r.work] = r
  <2> HIDE DEF r
  <2>1. r \in Row
    BY <1>3 DEF r
  <2> QED
    BY <2>1 DEF Row
<1> QED
  BY <1>1, <1>2, <1>4, <1>5

LEMMA DiscoverGood ==
    ASSUME StoreInv, NEW j \in Jobs, Discover(j)
    PROVE  Good
<1> DEFINE mine == [job[j] EXCEPT !.pc = "found"]
<1>1. /\ db' = db /\ lock' = NoJob /\ job' = Overtaken(j, mine)
      /\ UNCHANGED <<calls, clock>> /\ job[j].pc = "idle"
  BY DEF Discover, Commit
<1>2. JobOK(job[j])
  BY DEF StoreInv, JobsInv
<1>3. JobOK(mine) /\ mine.todo = {} /\ ~Pending(mine)
  BY <1>1, <1>2 DEF JobOK, Phases, Pending
<1>4. \A o \in Orders : Kept(db[o], db[o])
  BY RowFacts, SameIsKept DEF StoreInv
<1> HIDE DEF mine
<1>5. StoreInv'
  BY <1>1, <1>3, <1>4, RowFacts, KeptRowsInv DEF StoreInv
<1> QED
  BY <1>1, <1>5, QuietIsGood

LEMMA BeginGood ==
    ASSUME StoreInv, NEW j \in Jobs, Begin(j)
    PROVE  Good
<1> DEFINE page == [o \in Orders |-> [ver |-> db[o].ver, work |-> db[o].work]]
           todo == {o \in Orders : db[o].life = "OPEN"}
           x == job[j]
           mine == [x EXCEPT !.pc = "pass", !.page = page, !.todo = todo]
<1>1. /\ x.pc \in {"idle", "found"}
      /\ Stay(j, mine) \/ (lock = NoJob /\ Write(j, db, mine))
  BY DEF Begin
<1>2. JobOK(x)
  BY DEF StoreInv, JobsInv
<1>3. todo \in SUBSET Orders
  OBVIOUS
<1>4. \A o \in todo : /\ page[o].ver = db[o].ver /\ page[o].work = db[o].work
                      /\ db[o].life = "OPEN" /\ o \in Orders
  OBVIOUS
<1> HIDE DEF page, todo, x
<1>5. /\ mine \in [pc : Phases, page : {page}, todo : SUBSET Orders,
                   at : Orders \cup {0}, answer : Receipts \cup {NoReceipt}]
      /\ mine.pc = "pass" /\ mine.page = page /\ mine.todo = todo
  BY <1>2, <1>3 DEF JobOK, Phases
<1> HIDE DEF mine
<1>6. JobOK(mine)
  BY <1>5 DEF JobOK
<1>7. PageOK(mine, db)
  BY <1>4, <1>5, RowFacts DEF PageOK, StoreInv
<1>8. ~Pending(mine)
  BY <1>5 DEF Pending
<1>9. CASE Stay(j, mine)
  <2>1. lock # j
    BY <1>1, StoreAssumption DEF StoreInv, DraftInv, x
  <2>2. StoreInv'
    BY <1>6, <1>7, <1>8, <1>9, <2>1, StayedInv
  <2> QED
    BY <1>9, <2>2, QuietIsGood DEF Stay
<1>10. CASE Write(j, db, mine)
  <2>1. \A o \in Orders : Derived(db[o], db[o])
    BY RowFacts, SameIsKept DEF StoreInv
  <2>2. StoreInv'
    BY <1>5, <1>6, <1>7, <1>10, <2>1, RowFacts, WrittenInv DEF StoreInv
  <2> QED
    BY <1>10, <2>2, QuietIsGood DEF Write
<1> QED
  BY <1>1, <1>9, <1>10

LEMMA SkipGood ==
    ASSUME StoreInv, NEW j \in Jobs, NEW o, Skip(j, o)
    PROVE  Good
<1>1. Stay(j, Visited(j, o)) /\ job[j].pc = "pass"
  BY DEF Skip, Visits
<1>2. StoreInv'
  BY <1>1, VisitedOK, StayedInv
<1> QED
  BY <1>1, <1>2, QuietIsGood DEF Stay

LEMMA SendGood ==
    ASSUME StoreInv, NEW j \in Jobs, NEW o \in Orders, Send(j, o)
    PROVE  Good
<1> DEFINE r == db[o]
           k == Command(j)
           s == Prepared(Claimed(j, r), k)
           rows == [Sees(j) EXCEPT ![o] = s]
           mine == [job[j] EXCEPT !.pc = "call", !.at = o]
           was == CommandOf(r.log, k)
<1>1. Visits(j, o) /\ Claimable(j, o)
  BY DEF Send
<1>2. Sees(j)[o] = r /\ r.life = "OPEN"
  BY <1>1, TakenUp
<1>3. r \in Row /\ LogOK(r.log, Commands) /\ clock \in Nat
  BY RowFacts DEF StoreInv
<1>4. /\ Commit(j, rows, mine)
      /\ IF j \in Setters THEN SetDecision(r) = "SET_HOLD"
         ELSE j \in Checkers /\ "SET_RELEASE" \in CheckDecisions(r) /\ Releasable(r)
  BY <1>2 DEF Send
<1>5. /\ k \in Commands
      /\ was.state \in {"NONE", "RETRY_WAIT"}
      /\ k = "SET_RELEASE" => Releasable(r)
  <2>1. CASE j \in Setters
    <3>1. SetDecision(r) = "SET_HOLD" /\ k = "SET_HOLD"
      BY <1>4, <2>1 DEF Command
    <3>2. SetCommand(r) = was
      BY <3>1 DEF SetCommand
    <3>3. r.life = "OPEN"
      BY <1>2
    <3> QED
      BY <3>1, <3>2, <3>3 DEF SetDecision, Commands
  <2>2. CASE j \notin Setters
    <3>1. "SET_RELEASE" \in CheckDecisions(r) /\ Releasable(r) /\ k = "SET_RELEASE"
      BY <1>4, <2>2 DEF Command
    <3>2. Release(r) = was
      BY <3>1 DEF Release
    <3> QED
      BY <3>1, <3>2 DEF CheckDecisions, Commands
  <2> QED
    BY <2>1, <2>2
<1>6. Asked(was, calls[o][k]) /\ calls[o] \in [Commands -> Nat]
      /\ \A c \in Commands : Asked(CommandOf(r.log, c), calls[o][c])
  BY <1>5 DEF StoreInv, RowsInv, RowInv
<1>7. was.attempts \in Nat /\ was.attempts < MaxAttempts /\ calls[o][k] = was.attempts
      /\ calls[o][k] \in Nat
  <2>1. was.attempts \in Nat /\ (was.state = "NONE" => was.attempts = 0)
    BY <1>3, <1>5, CommandType
  <2> HIDE DEF was
  <2> QED
    BY <1>5, <1>6, <2>1, AttemptsAssumption DEF Asked
<1>8. /\ s \in Row /\ LogOK(s.log, Commands) /\ VerKeeps(r, s)
      /\ CommandOf(s.log, k).state = "PREPARED"
      /\ CommandOf(s.log, k).attempts = was.attempts
      /\ \A c \in Commands \ {k} : CommandOf(s.log, c) = CommandOf(r.log, c)
      /\ LedgerStep(r, s)
  <2> HIDE DEF k, s, was, r
  <2>1. was.state = "RETRY_WAIT" => was.attempts < MaxAttempts
    BY <1>7
  <2> QED
    BY <1>2, <1>3, <1>5, <2>1, PreparedStep DEF s, was
<1> HIDE DEF s, k, was
<1>9. RowInv(s, calls[o])
  <2>1. ASSUME NEW c \in Commands
        PROVE  Asked(CommandOf(s.log, c), calls[o][c])
    <3>1. CASE c = k
      BY <1>7, <1>8, <3>1, AttemptsAssumption DEF Asked
    <3>2. CASE c # k
      BY <1>6, <1>8, <3>2
    <3> QED
      BY <3>1, <3>2
  <2> QED
    BY <1>6, <1>8, <2>1 DEF RowInv
<1>10. rows = [p \in Orders |-> rows[p]]
       /\ \A p \in Orders : rows[p] = IF p = o THEN s ELSE Sees(j)[p]
  BY SeenRows
<1> HIDE DEF rows
<1>11. ASSUME NEW p \in Orders \ {o}
       PROVE  Kept(db[p], rows[p]) /\ LedgerStep(db[p], rows[p])
  <2>1. Derived(db[p], rows[p])
    BY <1>10, SeenRows
  <2> QED
    BY <2>1, RowFacts, DerivedStep DEF StoreInv
<1>12. \A p \in Orders : /\ rows[p] \in Row /\ VerKeeps(db[p], rows[p])
                          /\ RowInv(rows[p], calls[p])
                          /\ LedgerStep(db[p], rows[p])
  BY <1>8, <1>9, <1>10, <1>11, KeptInv DEF Kept, StoreInv, RowsInv
<1>13. ASSUME NEW i \in Jobs \ {j}, job[i].pc = "call"
       PROVE  /\ PendingOK(job[i], Own(i, rows), calls[job[i].at][Command(i)])
              /\ job[i].at = o => Command(i) # k
  <2>1. /\ Pending(job[i]) /\ job[i].at \in Orders /\ Command(i) \in Commands
        /\ PendingOK(job[i], Own(i, db), calls[job[i].at][Command(i)])
    BY <1>13 DEF StoreInv, JobsInv, JobOK, CallsInv, Pending, Command, Commands
  <2>2. CASE job[i].at # o
    <3>1. KeptCommand(Own(i, db), Own(i, rows))
      BY <1>11, <2>1, <2>2 DEF Kept, Own
    <3> QED
      BY <2>1, <2>2, <3>1, KeptPending
  <2>3. CASE job[i].at = o
    <3>1. Command(i) # k
      BY <1>5, <2>1, <2>3 DEF PendingOK, Own, was
    <3>2. Own(i, rows) = Own(i, db)
      BY <1>8, <1>10, <2>1, <2>3, <3>1 DEF Own
    <3> QED
      BY <2>1, <3>1, <3>2
  <2> QED
    BY <2>2, <2>3
<1>14. /\ JobOK(mine) /\ mine.pc = "call" /\ mine.at = o /\ Pending(mine)
       /\ PageOK(mine, rows)
  <2> DEFINE x == job[j]
  <2>1. JobOK(x) /\ PageOK(x, db)
    BY DEF StoreInv, JobsInv
  <2> HIDE DEF x
  <2>2. mine = [x EXCEPT !.pc = "call", !.at = o]
    BY DEF x
  <2> HIDE DEF mine
  <2>3. /\ mine \in [pc : Phases, page : {x.page}, todo : SUBSET Orders,
                     at : Orders \cup {0}, answer : Receipts \cup {NoReceipt}]
        /\ mine.pc = "call" /\ mine.page = x.page /\ mine.todo = x.todo
        /\ mine.at = o
    BY <2>1, <2>2 DEF JobOK, Phases
  <2>4. JobOK(mine)
    BY <2>3 DEF JobOK
  <2>5. \A p \in Orders : /\ db[p].ver \in Nat /\ rows[p].ver \in Nat
                          /\ VerKeeps(db[p], rows[p])
    BY <1>12, RowFacts DEF StoreInv, Row
  <2>6. PageOK(x, rows)
    BY <2>1, <2>5, PageKept DEF JobOK
  <2>7. PageOK(mine, rows)
    BY <2>3, <2>6 DEF PageOK
  <2> QED
    BY <2>3, <2>4, <2>7 DEF Pending
<1> HIDE DEF mine
<1>15. PendingOK(mine, CommandOf(rows[o].log, k), calls[o][k])
  BY <1>7, <1>8, <1>10, <1>14 DEF PendingOK
<1>16. /\ db' = rows /\ lock' = NoJob /\ job' = Overtaken(j, mine)
       /\ UNCHANGED <<calls, clock>>
  BY <1>4 DEF Commit
<1>17. rows \in [Orders -> Row]
  BY <1>10, <1>12
<1>18. StoreInv'
  BY <1>12, <1>13, <1>14, <1>15, <1>16, <1>17, CommittedInv DEF k
<1> QED
  BY <1>12, <1>16, <1>18 DEF Good

LEMMA DeriveGood ==
    ASSUME StoreInv, NEW j \in Jobs, NEW o \in Orders, Derive(j, o)
    PROVE  Good
<1> DEFINE r == db[o]
           mine == Visited(j, o)
<1>1. Visits(j, o) /\ Claimable(j, o) /\ job[j].pc = "pass"
  BY DEF Derive, Visits
<1>2. Sees(j)[o] = r /\ r.life = "OPEN" /\ Mixed(j, o) = r
  BY <1>1, TakenUp
<1>3. r \in Row /\ LogOK(r.log, Commands) /\ clock \in Nat
  BY RowFacts DEF StoreInv
<1>4. PICK s : /\ Write(j, [Sees(j) EXCEPT ![o] = s], mine)
               /\ \/ \E d : /\ s = Projected(Claimed(j, r), d)
                            /\ \/ SetDecision(r) # "SET_HOLD" /\ d = SetDecision(r)
                               \/ d \in CheckDecisions(r) \ {"SET_RELEASE"}
                               \/ d = r.work
                  \/ /\ s = Stranded(Claimed(j, r))
                     /\ Release(r).state = "RETRY_WAIT" /\ ~Releasable(r)
  BY <1>2 DEF Derive
<1>5. Derived(r, s)
  <2>1. ASSUME NEW d, s = Projected(Claimed(j, r), d),
               \/ SetDecision(r) # "SET_HOLD" /\ d = SetDecision(r)
               \/ d \in CheckDecisions(r) \ {"SET_RELEASE"}
               \/ d = r.work
        PROVE  Derived(r, s)
    <3>1. \/ d \in Works \ Closed
          \/ d = r.work
          \/ d = "MANUAL_CLOSED" /\ r.bind = "CONFIRMED"
      BY <2>1 DEF SetDecision, CheckDecisions, Works, Closed
    <3> QED
      BY <1>2, <1>3, <2>1, <3>1, ProjectedIsDerived
  <2> QED
    BY <1>2, <1>3, <1>4, <2>1, StrandedIsDerived
<1> DEFINE rows == [Sees(j) EXCEPT ![o] = s]
<1>6. rows = [p \in Orders |-> rows[p]]
      /\ \A p \in Orders : rows[p] = IF p = o THEN s ELSE Sees(j)[p]
  BY SeenRows
<1>7. Write(j, rows, mine)
  BY <1>4
<1> HIDE DEF rows, r
<1>8. \A p \in Orders : Derived(db[p], rows[p])
  BY <1>5, <1>6, SeenRows DEF r
<1>9. /\ JobOK(mine) /\ PageOK(mine, db) /\ mine.pc = "pass"
      /\ mine.todo = job[j].todo \ {o}
  BY <1>1, VisitedOK
<1>10. \A p \in mine.todo : rows[p] = db[p]
  BY <1>6, <1>9, SeenRows
<1> HIDE DEF mine
<1>11. StoreInv'
  BY <1>6, <1>7, <1>8, <1>9, <1>10, WrittenInv
<1> QED
  BY <1>7, <1>11, QuietIsGood DEF Write

LEMMA CallGood ==
    ASSUME StoreInv, NEW j \in Jobs, Call(j)
    PROVE  Good
<1> DEFINE x == job[j]
           o == x.at
           k == Command(j)
           n == calls[o][k]
           was == CommandOf(db[o].log, k)
<1>1. PICK receipt \in {"ACCEPTED", "UNKNOWN", "TRANSIENT"} :
         job' = [job EXCEPT ![j] = [x EXCEPT !.pc = "receipt", !.answer = receipt]]
  BY DEF Call
<1> DEFINE y == [x EXCEPT !.pc = "receipt", !.answer = receipt]
<1>2. /\ x.pc = "call" /\ UNCHANGED <<db, lock, draft, clock>>
      /\ calls' = [calls EXCEPT ![o][k] = n + 1]
  BY DEF Call
<1>3. JobOK(x) /\ PageOK(x, db) /\ o \in Orders /\ k \in Commands /\ Pending(x)
  BY <1>2 DEF StoreInv, JobsInv, JobOK, Pending, Command, Commands
<1>4. /\ was.state \in {"PREPARED", "CONFIRMED"} /\ was.attempts < MaxAttempts
      /\ n = was.attempts
  BY <1>2, <1>3 DEF StoreInv, CallsInv, Own, PendingOK
<1>5. RowInv(db[o], calls[o])
  BY <1>3 DEF StoreInv, RowsInv
<1>6. was.attempts \in Nat /\ calls[o] \in [Commands -> Nat]
  BY <1>3, <1>5, CommandType DEF RowInv
<1> HIDE DEF was
<1>7. /\ calls' = [p \in Orders |-> calls'[p]]
      /\ \A p \in Orders \ {o} : calls'[p] = calls[p]
      /\ calls'[o] \in [Commands -> Nat]
      /\ calls'[o][k] = n + 1
      /\ \A c \in Commands \ {k} : calls'[o][c] = calls[o][c]
  <2> DEFINE asked == [calls[o] EXCEPT ![k] = n + 1]
  <2>1. calls' = [calls EXCEPT ![o] = asked]
    BY <1>2, Zenon
  <2>2. asked \in [Commands -> Nat] /\ asked[k] = n + 1
        /\ \A c \in Commands \ {k} : asked[c] = calls[o][c]
    BY <1>3, <1>4, <1>6
  <2>3. calls = [p \in Orders |-> calls[p]]
    BY DEF StoreInv, Shapes
  <2> HIDE DEF asked, n, o, k
  <2> QED
    BY <1>3, <2>1, <2>2, <2>3
<1> HIDE DEF o, k, n
<1>8. /\ y \in [pc : Phases, page : {x.page}, todo : SUBSET Orders,
                at : Orders \cup {0}, answer : Receipts \cup {NoReceipt}]
      /\ y.pc = "receipt" /\ y.page = x.page /\ y.todo = x.todo /\ y.at = o
      /\ y.answer = receipt
  <2>1. receipt \in Receipts
    BY <1>1 DEF Receipts, Rejects
  <2>2. x.at = o
    BY DEF o
  <2> HIDE DEF x
  <2> QED
    BY <1>3, <2>1, <2>2 DEF JobOK, Phases
<1>9. /\ job' = [i \in Jobs |-> job'[i]]
      /\ \A i \in Jobs : job'[i] = IF i = j THEN y ELSE job[i]
  BY <1>1 DEF StoreInv, Shapes
<1> HIDE DEF y
<1>10. JobOK(y) /\ PageOK(y, db)
  <2>1. receipt \in Receipts
    BY <1>1 DEF Receipts, Rejects
  <2>2. y.answer # NoReceipt
    BY <1>8, <2>1, NoReceiptIsNone
  <2>3. JobOK(y)
    BY <1>3, <1>8, <2>2 DEF JobOK
  <2> QED
    BY <1>3, <1>8, <2>3 DEF PageOK
<1>11. Shapes'
  BY <1>2, <1>7, <1>9 DEF StoreInv, Shapes
<1>12. RowsInv'
  <2>1. ASSUME NEW c \in Commands
        PROVE  Asked(CommandOf(db[o].log, c), calls'[o][c])
    <3>1. CASE c = k
      <4>1. Asked(was, n + 1)
        BY <1>4, <1>6, AttemptsAssumption DEF Asked
      <4> QED
        BY <1>7, <3>1, <4>1 DEF was, o, k
    <3>2. CASE c # k
      BY <1>5, <1>7, <3>2 DEF RowInv
    <3> QED
      BY <3>1, <3>2
  <2>2. RowInv(db[o], calls'[o])
    BY <1>5, <1>7, <2>1 DEF RowInv
  <2> QED
    BY <1>2, <1>7, <2>2 DEF StoreInv, RowsInv
<1>13. JobsInv'
  BY <1>2, <1>9, <1>10 DEF StoreInv, JobsInv
<1>14. CallsInv'
  <2>1. Pending(y)
    BY <1>8 DEF Pending
  <2>2. ASSUME NEW i \in Jobs \ {j}, Pending(job[i])
        PROVE  PendingOK(job[i], Own(i, db), calls'[job[i].at][Command(i)])
    <3>1. PendingOK(job[i], Own(i, db), calls[job[i].at][Command(i)])
          /\ job[i].at \in Orders /\ Command(i) \in Commands
      BY <2>2 DEF StoreInv, CallsInv, JobsInv, JobOK, Pending, Command, Commands
    <3>2. job[i].at = o => Command(i) # k
      BY <1>3, <2>2 DEF StoreInv, CallsInv, o, k, x
    <3> QED
      BY <1>7, <3>1, <3>2
  <2>3. PendingOK(y, CommandOf(db[o].log, k), calls'[o][k])
    BY <1>4, <1>6, <1>7, <1>8 DEF PendingOK, was
  <2>4. \A i \in Jobs : Pending(job'[i]) =>
          /\ Pending(job[i]) /\ job'[i].at = job[i].at
    BY <1>3, <1>8, <1>9 DEF o, x
  <2> QED
    BY <1>2, <1>8, <1>9, <2>2, <2>3, <2>4 DEF StoreInv, CallsInv, Own, k
<1>15. DraftInv'
  BY <1>2, <1>9 DEF StoreInv, Shapes, DraftInv, x
<1> QED
  BY <1>2, <1>11, <1>12, <1>13, <1>14, <1>15, QuietIsGood DEF StoreInv

LEMMA ReceiptGood ==
    ASSUME StoreInv, NEW j \in Jobs, Receipt(j)
    PROVE  Good
<1> DEFINE x == job[j]
           o == x.at
           k == Command(j)
           r == db[o]
           was == CommandOf(r.log, k)
           s == Answered(r, k, x.answer)
           rows == [db EXCEPT ![o] = s]
           mine == [x EXCEPT !.pc = "sent", !.answer = NoReceipt]
           n == was.attempts + 1
<1>1. x.pc = "receipt" /\ Commit(j, rows, mine)
  BY DEF Receipt
<1>2. /\ JobOK(x) /\ PageOK(x, db) /\ o \in Orders /\ k \in Commands /\ Pending(x)
      /\ x.answer \in Receipts
  BY <1>1 DEF StoreInv, JobsInv, JobOK, Pending, Command, Commands
<1>3. /\ was.state \in {"PREPARED", "CONFIRMED"} /\ was.attempts < MaxAttempts
      /\ calls[o][k] = n
  BY <1>1, <1>2 DEF StoreInv, CallsInv, Own, PendingOK
<1>4. r \in Row /\ LogOK(r.log, Commands) /\ RowInv(r, calls[o])
  BY <1>2, RowFacts DEF StoreInv, RowsInv
<1>5. was.attempts \in Nat
  BY <1>2, <1>4, CommandType
<1>6. /\ s \in Row /\ LogOK(s.log, Commands) /\ VerKeeps(r, s)
      /\ CommandOf(s.log, k).attempts = n
      /\ CommandOf(s.log, k).state = state_after_receipt(x.answer, n)
      /\ \A c \in Commands \ {k} : CommandOf(s.log, c) = CommandOf(r.log, c)
      /\ LedgerStep(r, s)
  <2>1. was.state # "NONE"
    BY <1>3
  <2> HIDE DEF s, r, k, x
  <2> QED
    BY <1>2, <1>3, <1>4, <2>1, AnsweredStep DEF s
<1> HIDE DEF s, was
<1>7. RowInv(s, calls[o])
  <2>1. ASSUME NEW c \in Commands
        PROVE  Asked(CommandOf(s.log, c), calls[o][c])
    <3>1. CASE c = k
      <4> DEFINE now == CommandOf(s.log, k)
      <4>1. now.attempts = n /\ now.state = state_after_receipt(x.answer, n)
        BY <1>6
      <4> HIDE DEF now
      <4>2. now.state # "PREPARED" /\ (now.state = "RETRY_WAIT" => n < MaxAttempts)
        BY <1>2, <4>1 DEF state_after_receipt, Receipts, Rejects
      <4>3. Asked(now, n)
        BY <1>3, <1>5, <4>1, <4>2, AttemptsAssumption DEF Asked
      <4> QED
        BY <1>3, <3>1, <4>3 DEF now
    <3>2. CASE c # k
      BY <1>4, <1>6, <3>2 DEF RowInv
    <3> QED
      BY <3>1, <3>2
  <2> QED
    BY <1>4, <1>6, <2>1 DEF RowInv
<1>8. rows = [p \in Orders |-> rows[p]]
      /\ \A p \in Orders : rows[p] = IF p = o THEN s ELSE db[p]
  BY RowFacts DEF StoreInv
<1> HIDE DEF rows
<1>9. \A p \in Orders : /\ rows[p] \in Row /\ VerKeeps(db[p], rows[p])
                         /\ RowInv(rows[p], calls[p])
                         /\ LedgerStep(db[p], rows[p])
  BY <1>6, <1>7, <1>8, RowFacts, SameIsKept DEF StoreInv, RowsInv, Kept
<1>10. ASSUME NEW i \in Jobs \ {j}, job[i].pc = "call"
       PROVE  PendingOK(job[i], Own(i, rows), calls[job[i].at][Command(i)])
  <2>1. /\ Pending(job[i]) /\ job[i].at \in Orders /\ Command(i) \in Commands
        /\ PendingOK(job[i], Own(i, db), calls[job[i].at][Command(i)])
    BY <1>10 DEF StoreInv, JobsInv, JobOK, CallsInv, Pending, Command, Commands
  <2>2. job[i].at = o => Command(i) # k
    BY <1>2, <2>1 DEF StoreInv, CallsInv
  <2>3. Own(i, rows) = Own(i, db)
    BY <1>6, <1>8, <2>1, <2>2 DEF Own
  <2> QED
    BY <2>1, <2>3
<1>11. /\ JobOK(mine) /\ ~Pending(mine) /\ PageOK(mine, rows)
  <2>1. \A p \in Orders : /\ db[p].ver \in Nat /\ rows[p].ver \in Nat
                          /\ VerKeeps(db[p], rows[p])
    BY <1>9, RowFacts DEF StoreInv, Row
  <2>2. x.at \in Orders
    BY <1>2
  <2> HIDE DEF x, o, k, r
  <2>3. /\ mine \in [pc : Phases, page : {x.page}, todo : SUBSET Orders,
                     at : Orders \cup {0}, answer : Receipts \cup {NoReceipt}]
        /\ mine.pc = "sent" /\ mine.page = x.page /\ mine.todo = x.todo
        /\ mine.at = x.at
    BY <1>2 DEF JobOK, Phases
  <2> HIDE DEF mine
  <2>4. JobOK(mine)
    BY <2>2, <2>3 DEF JobOK
  <2>5. PageOK(x, rows)
    BY <1>2, <2>1, PageKept DEF JobOK
  <2>6. PageOK(mine, rows)
    BY <2>3, <2>5 DEF PageOK
  <2> QED
    BY <2>3, <2>4, <2>6 DEF Pending
<1> HIDE DEF mine
<1>12. /\ db' = rows /\ lock' = NoJob /\ job' = Overtaken(j, mine)
       /\ UNCHANGED <<calls, clock>>
  BY <1>1 DEF Commit
<1>13. rows \in [Orders -> Row]
  BY <1>8, <1>9
<1>14. StoreInv'
  BY <1>9, <1>10, <1>11, <1>12, <1>13, CommittedInv
<1> QED
  BY <1>9, <1>12, <1>14 DEF Good

LEMMA RereadGood ==
    ASSUME StoreInv, NEW j \in Jobs, Reread(j)
    PROVE  Good
<1> DEFINE x == job[j]
           mine == [x EXCEPT !.pc = "back"]
<1>1. x.pc = "sent" /\ Stay(j, mine)
  BY DEF Reread
<1>2. JobOK(x) /\ PageOK(x, db)
  BY DEF StoreInv, JobsInv
<1>3. lock # j
  BY <1>1, StoreAssumption DEF StoreInv, DraftInv
<1> HIDE DEF x
<1>4. /\ mine \in [pc : Phases, page : {x.page}, todo : SUBSET Orders,
                   at : Orders \cup {0}, answer : Receipts \cup {NoReceipt}]
      /\ mine.pc = "back" /\ mine.page = x.page /\ mine.todo = x.todo
      /\ mine.at = x.at
  BY <1>2 DEF JobOK, Phases
<1> HIDE DEF mine
<1>5. JobOK(mine)
  BY <1>1, <1>2, <1>4 DEF JobOK
<1>6. PageOK(mine, db) /\ ~Pending(mine)
  BY <1>2, <1>4 DEF PageOK, Pending
<1>7. StoreInv'
  BY <1>1, <1>3, <1>5, <1>6, StayedInv
<1> QED
  BY <1>1, <1>7, QuietIsGood DEF Stay

LEMMA FinishGood ==
    ASSUME StoreInv, NEW j \in Jobs, Finish(j)
    PROVE  Good
<1> DEFINE o == job[j].at
           mine == Visited(j, o)
           s == Projected(db[o], "HOLD_FAILED")
           rows == [db EXCEPT ![o] = s]
<1>1. job[j].pc = "back" /\ lock # j
  BY StoreAssumption DEF Finish, StoreInv, DraftInv
<1>2. Sees(j) = db
  BY <1>1 DEF Sees
<1>3. /\ o \in Orders /\ db[o] \in Row /\ LogOK(db[o].log, Commands) /\ clock \in Nat
      /\ db = [p \in Orders |-> db[p]]
  BY <1>1, RowFacts DEF StoreInv, JobsInv, JobOK
<1>4. /\ JobOK(mine) /\ PageOK(mine, db) /\ mine.pc = "pass" /\ ~Pending(mine)
  BY <1>1, VisitedOK
<1>5. \/ SetDecision(db[o]) = "HOLD_FAILED" /\ Write(j, rows, mine)
      \/ Stay(j, mine)
      \/ Write(j, db, mine)
  BY <1>2 DEF Finish
<1>6. \A p \in Orders : Derived(db[p], db[p])
  BY RowFacts, SameIsKept DEF StoreInv
<1>7. SetDecision(db[o]) = "HOLD_FAILED" => Derived(db[o], s)
  <2>1. CASE db[o].life = "OPEN"
    <3>1. "HOLD_FAILED" \in Works \ Closed
      BY DEF Works, Closed
    <3> QED
      BY <1>3, <2>1, <3>1, ProjectedIsDerived
  <2>2. CASE db[o].life # "OPEN"
    <3>1. SetDecision(db[o]) = db[o].work
      BY <2>2 DEF SetDecision
    <3>2. SetDecision(db[o]) = "HOLD_FAILED" => s = db[o]
      BY <3>1 DEF Projected
    <3> QED
      BY <1>3, <1>6, <3>2
  <2> QED
    BY <2>1, <2>2
<1> HIDE DEF mine, s
<1>8. CASE Stay(j, mine)
  BY <1>1, <1>4, <1>8, StayedInv, QuietIsGood DEF Stay
<1>9. CASE Write(j, db, mine)
  <2>1. StoreInv'
    BY <1>3, <1>4, <1>6, <1>9, WrittenInv
  <2> QED
    BY <1>9, <2>1, QuietIsGood DEF Write
<1>10. CASE SetDecision(db[o]) = "HOLD_FAILED" /\ Write(j, rows, mine)
  <2>1. rows = [p \in Orders |-> rows[p]]
        /\ \A p \in Orders : rows[p] = IF p = o THEN s ELSE db[p]
    BY <1>3
  <2> HIDE DEF rows
  <2>2. \A p \in Orders : Derived(db[p], rows[p])
    BY <1>6, <1>7, <1>10, <2>1
  <2>3. mine.todo = job[j].todo \ {o} /\ mine.todo \subseteq Orders
    BY <1>1, <1>4, VisitedOK DEF mine, JobOK
  <2>4. \A p \in mine.todo : rows[p] = db[p]
    BY <2>1, <2>3
  <2>5. StoreInv'
    BY <1>4, <1>10, <2>1, <2>2, <2>4, WrittenInv
  <2> QED
    BY <1>10, <2>5, QuietIsGood DEF Write
<1> QED
  BY <1>5, <1>8, <1>9, <1>10

\* The transaction that has written commits at the end of the pass.
LEMMA EndGood ==
    ASSUME StoreInv, NEW j \in Jobs, End(j)
    PROVE  Good
<1>1. CASE lock = j
  <2>1. /\ db' = draft /\ lock' = NoJob /\ job' = Overtaken(j, Idle)
        /\ UNCHANGED <<calls, clock>>
    BY <1>1 DEF End, Commit
  <2>2. /\ draft = [o \in Orders |-> draft[o]]
        /\ \A o \in Orders : Derived(db[o], draft[o])
    BY <1>1, StoreAssumption DEF StoreInv, DraftInv
  <2>3. \A o \in Orders : Kept(db[o], draft[o]) /\ LedgerStep(db[o], draft[o])
    BY <2>2, RowFacts, DerivedStep DEF StoreInv
  <2>4. StoreInv'
    BY <2>1, <2>2, <2>3, IdleOK, KeptRowsInv
  <2> QED
    BY <2>1, <2>3, <2>4 DEF Good
<1>2. CASE lock # j
  <2>1. Stay(j, Idle)
    BY <1>2 DEF End
  <2>2. StoreInv'
    BY <1>2, <2>1, IdleOK, StayedInv
  <2> QED
    BY <2>1, <2>2, QuietIsGood DEF Stay
<1> QED
  BY <1>1, <1>2

\* What was not committed is lost; the calls that were made are counted.
LEMMA FailGood ==
    ASSUME StoreInv, NEW j \in Jobs, Fail(j)
    PROVE  Good
<1>1. /\ UNCHANGED <<db, calls, clock>>
      /\ lock' = IF lock = j THEN NoJob ELSE lock
      /\ draft' = IF lock = j THEN <<>> ELSE draft
      /\ job' = [i \in Jobs |-> job'[i]]
      /\ \A i \in Jobs : job'[i] = IF i = j THEN Idle ELSE job[i]
  BY DEF Fail, StoreInv, Shapes
<1>2. Shapes' /\ RowsInv'
  BY <1>1 DEF StoreInv, Shapes, RowsInv
<1>3. JobsInv'
  BY <1>1, IdleOK DEF StoreInv, JobsInv
<1>4. CallsInv'
  BY <1>1, IdleOK DEF StoreInv, CallsInv, Own
<1>5. DraftInv'
  BY <1>1 DEF StoreInv, Shapes, DraftInv
<1> QED
  BY <1>1, <1>2, <1>3, <1>4, <1>5, QuietIsGood DEF StoreInv

LEMMA ConfirmGood ==
    ASSUME StoreInv, NEW j \in Confirmers, Confirm(j)
    PROVE  Good
<1> DEFINE verified(r) ==
        IF ~ConfirmWants(r) \/ ~LeaseFree(j, r) THEN {r}
        ELSE IF Release(r).state = "NONE" THEN HoldVerified(Claimed(j, r))
        ELSE ReleaseVerified(Claimed(j, r))
<1>1. PICK rows \in [Orders -> UNION {verified(db[o]) : o \in Orders}] :
         /\ \A o \in Orders : rows[o] \in verified(db[o])
         /\ Commit(j, rows, Idle)
  BY DEF Confirm
<1>2. j \in Jobs
  BY DEF Jobs
<1>3. rows = [o \in Orders |-> rows[o]]
  BY <1>1
<1>4. ASSUME NEW o \in Orders
      PROVE  Kept(db[o], rows[o]) /\ LedgerStep(db[o], rows[o])
  <2>1. db[o] \in Row /\ LogOK(db[o].log, Commands) /\ clock \in Nat
    BY RowFacts DEF StoreInv
  <2>2. rows[o] \in verified(db[o])
    BY <1>1
  <2>3. CASE rows[o] = db[o]
    BY <2>1, <2>3, SameIsKept
  <2>4. CASE ConfirmWants(db[o]) /\ rows[o] \in HoldVerified(Claimed(j, db[o]))
    BY <1>2, <2>1, <2>4, HoldVerifiedStep DEF ConfirmWants
  <2>5. CASE ConfirmWants(db[o]) /\ rows[o] \in ReleaseVerified(Claimed(j, db[o]))
    BY <1>2, <2>1, <2>5, ReleaseVerifiedStep DEF ConfirmWants
  <2> QED
    BY <2>2, <2>3, <2>4, <2>5
<1>5. /\ db' = rows /\ lock' = NoJob /\ job' = Overtaken(j, Idle)
      /\ UNCHANGED <<calls, clock>>
  BY <1>1 DEF Commit
<1> HIDE DEF verified
<1>6. StoreInv'
  BY <1>2, <1>3, <1>4, <1>5, IdleOK, KeptRowsInv
<1> QED
  BY <1>4, <1>5, <1>6 DEF Good

LEMMA CloseGood ==
    ASSUME StoreInv, NEW o \in Orders, ManualClose(o)
    PROVE  Good
<1> DEFINE s == [Updated(db[o]) EXCEPT !.life = "MANUAL_CLOSED",
                                       !.work = "MANUAL_CLOSED"]
           rows == [db EXCEPT ![o] = s]
<1>1. /\ db' = rows /\ lock' = NoJob /\ job' = Overtaken(NoJob, Idle)
      /\ UNCHANGED <<calls, clock>>
  BY DEF ManualClose
<1> HIDE DEF s
<1>2. rows = [p \in Orders |-> rows[p]]
      /\ \A p \in Orders : rows[p] = IF p = o THEN s ELSE db[p]
  BY RowFacts DEF StoreInv
<1> HIDE DEF rows
<1>3. ASSUME NEW p \in Orders
      PROVE  Kept(db[p], rows[p]) /\ LedgerStep(db[p], rows[p])
  <2>1. db[p] \in Row /\ LogOK(db[p].log, Commands)
    BY RowFacts DEF StoreInv
  <2>2. CASE p = o
    BY <1>2, <2>1, <2>2, ClosedStep DEF s
  <2>3. CASE p # o
    BY <1>2, <2>1, <2>3, SameIsKept
  <2> QED
    BY <2>2, <2>3
<1>4. StoreInv'
  BY <1>1, <1>2, <1>3, IdleOK, KeptRowsInv
<1> QED
  BY <1>1, <1>3, <1>4 DEF Good

LEMMA TickGood ==
    ASSUME StoreInv, Tick
    PROVE  Good
<1>1. /\ UNCHANGED <<db, lock, draft, job, calls>>
      /\ clock' \in 0..MaxClock
  BY StoreAssumption DEF Tick, StoreInv, Shapes
<1>2. StoreInv'
  BY <1>1 DEF StoreInv, Shapes, RowsInv, JobsInv, CallsInv, DraftInv, Own
<1> QED
  BY <1>1, <1>2, QuietIsGood

LEMMA StoreStep ==
    ASSUME StoreInv, [Next]_vars
    PROVE  Good
<1>1. CASE UNCHANGED vars
  <2>1. StoreInv'
    BY <1>1 DEF vars, StoreInv, Shapes, RowsInv, JobsInv, CallsInv, DraftInv, Own
  <2> QED
    BY <1>1, <2>1, QuietIsGood DEF vars
<1>2. ASSUME NEW j \in Setters \cup Checkers, Pass(j)
      PROVE  Good
  <2>1. j \in Jobs
    BY DEF Jobs
  <2>2. CASE Goes(j)
    BY <2>1, <2>2, SkipGood, SendGood, DeriveGood, CallGood, ReceiptGood,
       RereadGood, FinishGood, EndGood, FailGood DEF Goes
  <2> QED
    BY <1>2, <2>1, <2>2, DiscoverGood, BeginGood DEF Pass
<1> QED
  BY <1>1, <1>2, ConfirmGood, CloseGood, TickGood DEF Next

-----------------------------------------------------------------------------
(* The rows that are found *)

LEMMA EmptyLog ==
    /\ LogOK(<<>>, Commands)
    /\ \A k \in Commands : /\ CommandOf(<<>>, k).state = "NONE"
                          /\ CommandOf(<<>>, k).attempts = 0
<1>1. \A k \in Commands : Rows(<<>>, k) = {}
  BY DEF Rows
<1>2. \A k \in Commands : Numbered(<<>>, k, 0)
  BY <1>1 DEF Numbered
<1>3. <<>> \in Seq(Attempts(Commands))
  OBVIOUS
<1>4. LogOK(<<>>, Commands)
  BY <1>2, <1>3, AttemptsAssumption DEF LogOK
<1> QED
  BY <1>1, <1>4, CommandType

LEMMA OnlyAttempt ==
    ASSUME NEW log \in Seq(Attempts(Commands)), NEW k, Numbered(log, k, 1),
           Rows(log, k) = {1},
           log[1].outcome # NoReceipt
    PROVE  CommandOf(log, k) =
             [state |-> log[1].state, outcome |-> log[1].outcome, attempts |-> 1]
<1> DEFINE m == 1
<1>1. m \in Nat \ {0} /\ Numbered(log, k, m)
  OBVIOUS
<1> HIDE DEF m
<1>2. /\ Latest(log, k) \in Rows(log, k)
      /\ attempts_for(log, k) =
           IF log[Latest(log, k)].outcome = NoReceipt THEN m - 1 ELSE m
      /\ CommandOf(log, k) =
           [state |-> log[Latest(log, k)].state, outcome |-> log[Latest(log, k)].outcome,
            attempts |-> attempts_for(log, k)]
  BY <1>1, LastAttempt
<1>3. Latest(log, k) = 1
  BY <1>2
<1> QED
  BY <1>2, <1>3 DEF m

\* one attempt to set the hold, answered
LEMMA OneAttempt ==
    ASSUME NEW state \in ActionStates \ {"NONE"}, NEW outcome \in Receipts,
           NEW log, log = <<[command |-> "SET_HOLD", no |-> 1,
                             state |-> state, outcome |-> outcome]>>
    PROVE  /\ LogOK(log, Commands)
           /\ CommandOf(log, "SET_HOLD").state = state
           /\ CommandOf(log, "SET_HOLD").attempts = 1
           /\ CommandOf(log, "SET_RELEASE").state = "NONE"
           /\ CommandOf(log, "SET_RELEASE").attempts = 0
<1> DEFINE e == [command |-> "SET_HOLD", no |-> 1, state |-> state, outcome |-> outcome]
<1>1. e \in Attempts(Commands) /\ e.command = "SET_HOLD" /\ e.no = 1 /\ e.state = state
      /\ e.outcome = outcome
  BY DEF Attempts, Commands
<1>2. log = <<e>>
  OBVIOUS
<1> HIDE DEF e
<1>3. log \in Seq(Attempts(Commands)) /\ log[1] = e /\ DOMAIN log = {1}
  BY <1>1, <1>2
<1>4. Rows(log, "SET_HOLD") = {1} /\ Rows(log, "SET_RELEASE") = {}
  BY <1>1, <1>3 DEF Rows
<1>5. outcome # NoReceipt /\ state # "NONE"
  BY NoReceiptIsNone
<1>6. Numbered(log, "SET_HOLD", 1)
  BY <1>1, <1>3, <1>4, <1>5 DEF Numbered
<1>7. Numbered(log, "SET_RELEASE", 0)
  BY <1>4 DEF Numbered
<1>8. LogOK(log, Commands)
  BY <1>3, <1>6, <1>7, AttemptsAssumption DEF LogOK, Commands
<1>9. CommandOf(log, "SET_HOLD") =
        [state |-> state, outcome |-> outcome, attempts |-> 1]
  <2>1. log[1].state = state /\ log[1].outcome = outcome
    BY <1>1, <1>3
  <2>2. CommandOf(log, "SET_HOLD") =
          [state |-> log[1].state, outcome |-> log[1].outcome, attempts |-> 1]
    BY <1>3, <1>4, <1>5, <1>6, <2>1, OnlyAttempt
  <2> QED
    BY <2>1, <2>2
<1>10. "SET_RELEASE" \in Commands
  BY DEF Commands
<1>11. CommandOf(log, "SET_RELEASE").state = "NONE"
       /\ CommandOf(log, "SET_RELEASE").attempts = 0
  BY <1>4, <1>8, <1>10, CommandType
<1> QED
  BY <1>8, <1>9, <1>11

AfterOne(ver, work, bind, state, outcome) ==
    [NewRow EXCEPT !.ver = ver, !.work = work, !.bind = bind,
                   !.log = <<[command |-> "SET_HOLD", no |-> 1,
                              state |-> state, outcome |-> outcome]>>]

LedgerAfterOne(work, bind, state) ==
    [Ledger!Discovered EXCEPT !.work = work, !.bind = bind,
        !.cmd["SET_HOLD"] = [state |-> state, attempts |-> 1]]

LEMMA AfterOneRow ==
    ASSUME NEW state \in ActionStates \ {"NONE", "PREPARED"}, NEW outcome \in Receipts,
           NEW ver \in Nat \ {0}, NEW work \in Works, NEW bind \in BindingStates,
           state = "RETRY_WAIT" => 1 < MaxAttempts,
           NEW r, r = AfterOne(ver, work, bind, state, outcome)
    PROVE  /\ r \in Row /\ LogOK(r.log, Commands)
           /\ Summary(r) = LedgerAfterOne(work, bind, state)
           /\ \A k \in Commands :
                CommandOf(r.log, k).state \in {"PREPARED", "RETRY_WAIT"} =>
                    CommandOf(r.log, k).attempts < MaxAttempts
<1> DEFINE log == <<[command |-> "SET_HOLD", no |-> 1,
                     state |-> state, outcome |-> outcome]>>
           R == Summary(r)
           D == Ledger!Discovered
           new == [D.cmd EXCEPT !["SET_HOLD"] = [state |-> state, attempts |-> 1]]
<1>1. /\ LogOK(log, Commands)
      /\ CommandOf(log, "SET_HOLD").state = state
      /\ CommandOf(log, "SET_HOLD").attempts = 1
      /\ CommandOf(log, "SET_RELEASE").state = "NONE"
      /\ CommandOf(log, "SET_RELEASE").attempts = 0
  BY OneAttempt
<1>2. r = [NewRow EXCEPT !.ver = ver, !.work = work, !.bind = bind, !.log = log]
  BY DEF AfterOne
<1> HIDE DEF log
<1>3. NewRow \in Row /\ NewRow.life = "OPEN"
  <2>1. NoJob \in Ids \cup {NoJob} /\ <<>> \in Seq(Attempts(Commands))
    OBVIOUS
  <2> QED
    BY <2>1 DEF NewRow, Row, Lives, Works, BindingStates
<1>4. r \in Row /\ r.log = log /\ r.life = "OPEN" /\ r.work = work /\ r.bind = bind
  BY <1>1, <1>2, <1>3 DEF Row, LogOK
<1>5. /\ R.cmd = [k \in Commands |->
                    IF k = "SET_HOLD" THEN [state |-> state, attempts |-> 1]
                    ELSE [state |-> "NONE", attempts |-> 0]]
  BY <1>1, <1>4 DEF Summary, Commands
<1>6. R \in Summaries /\ R.life = "OPEN" /\ R.work = work /\ R.bind = bind
  BY <1>1, <1>4, SummaryType
<1>7. D \in Summaries /\ D.life = "OPEN"
  BY AttemptsAssumption
     DEF Ledger!Discovered, Ledger!Commands, Commands, Summaries, Lives, Works,
         BindingStates, ActionStates
<1>8. R.cmd = new
  BY <1>5 DEF Ledger!Discovered, Ledger!Commands, Commands
<1>9. LedgerAfterOne(work, bind, state) =
      [D EXCEPT !.work = work, !.bind = bind, !.cmd = new]
  BY Zenon DEF LedgerAfterOne
<1> HIDE DEF R, D, new
<1>10. R = [D EXCEPT !.work = work, !.bind = bind, !.cmd = new]
  BY <1>6, <1>7, <1>8 DEF Summaries
<1>11. \A k \in Commands :
         CommandOf(log, k).state \in {"PREPARED", "RETRY_WAIT"} =>
             CommandOf(log, k).attempts < MaxAttempts
  BY <1>1 DEF Commands
<1> QED
  BY <1>1, <1>4, <1>9, <1>10, <1>11 DEF R

LEMMA FoundRows ==
    ASSUME NEW r \in Found
    PROVE  /\ r \in Row /\ LogOK(r.log, Commands) /\ Summary(r) \in Ledger!Found
           /\ \A k \in Commands :
                CommandOf(r.log, k).state \in {"PREPARED", "RETRY_WAIT"} =>
                    CommandOf(r.log, k).attempts < MaxAttempts
<1>1. CASE r = NewRow
  <2>1. NoJob \in Ids \cup {NoJob} /\ <<>> \in Seq(Attempts(Commands))
    OBVIOUS
  <2>2. /\ r \in Row /\ r.log = <<>> /\ r.life = "OPEN" /\ r.work = "NEED_HOLD"
        /\ r.bind = "NONE"
    BY <1>1, <2>1 DEF NewRow, Row, Lives, Works, BindingStates
  <2>3. LogOK(r.log, Commands)
        /\ \A k \in Commands : /\ CommandOf(r.log, k).state = "NONE"
                              /\ CommandOf(r.log, k).attempts = 0
    BY <2>2, EmptyLog
  <2>4. Summary(r) = Ledger!Discovered
    <3>1. Summary(r).cmd = [k \in Commands |-> [state |-> "NONE", attempts |-> 0]]
      BY <2>3 DEF Summary
    <3> QED
      BY <2>2, <3>1 DEF Summary, Ledger!Discovered, Ledger!Commands, Commands
  <2> QED
    BY <2>2, <2>3, <2>4 DEF Ledger!Found
<1>2. CASE r = HeldRow
  <2>1. r = AfterOne(5, "WAIT_AI", "CONFIRMED", "CONFIRMED", "ACCEPTED")
    BY <1>2, Zenon DEF HeldRow, AfterOne
  <2>2. Ledger!Protected = LedgerAfterOne("WAIT_AI", "CONFIRMED", "CONFIRMED")
    BY Zenon DEF Ledger!Protected, LedgerAfterOne
  <2>3. /\ r \in Row /\ LogOK(r.log, Commands)
        /\ Summary(r) = LedgerAfterOne("WAIT_AI", "CONFIRMED", "CONFIRMED")
        /\ \A k \in Commands :
             CommandOf(r.log, k).state \in {"PREPARED", "RETRY_WAIT"} =>
                 CommandOf(r.log, k).attempts < MaxAttempts
    <3>1. /\ "CONFIRMED" \in ActionStates \ {"NONE", "PREPARED"}
          /\ "ACCEPTED" \in Receipts /\ 5 \in Nat \ {0} /\ "WAIT_AI" \in Works
          /\ "CONFIRMED" \in BindingStates
      BY DEF ActionStates, Receipts, Works, BindingStates
    <3> QED
      BY <2>1, <3>1, AfterOneRow
  <2> QED
    BY <2>2, <2>3 DEF Ledger!Found
<1>3. CASE r = RefusedRow /\ 1 < MaxAttempts
  <2>1. r = AfterOne(3, "HOLD_VERIFY_PENDING", "PENDING", "RETRY_WAIT", "TRANSIENT")
    BY <1>3, Zenon DEF RefusedRow, AfterOne
  <2>2. Ledger!Refused = LedgerAfterOne("HOLD_VERIFY_PENDING", "PENDING", "RETRY_WAIT")
    BY Zenon DEF Ledger!Refused, LedgerAfterOne
  <2>3. /\ r \in Row /\ LogOK(r.log, Commands)
        /\ Summary(r) = LedgerAfterOne("HOLD_VERIFY_PENDING", "PENDING", "RETRY_WAIT")
        /\ \A k \in Commands :
             CommandOf(r.log, k).state \in {"PREPARED", "RETRY_WAIT"} =>
                 CommandOf(r.log, k).attempts < MaxAttempts
    <3>1. /\ "RETRY_WAIT" \in ActionStates \ {"NONE", "PREPARED"}
          /\ "TRANSIENT" \in Receipts /\ 3 \in Nat \ {0}
          /\ "HOLD_VERIFY_PENDING" \in Works /\ "PENDING" \in BindingStates
      BY DEF ActionStates, Receipts, Rejects, Works, BindingStates
    <3> QED
      BY <1>3, <2>1, <3>1, AfterOneRow
  <2> QED
    BY <1>3, <2>2, <2>3 DEF Ledger!Found
<1> QED
  BY <1>1, <1>2, <1>3 DEF Found

-----------------------------------------------------------------------------
LEMMA StoreInit ==
    ASSUME Init
    PROVE  StoreInv /\ (\A o \in Orders : Summary(db[o]) \in Ledger!Found)
<1>1. /\ db \in [Orders -> Found] /\ lock = NoJob /\ clock = 0
      /\ job = [j \in Jobs |-> Idle]
      /\ calls = [o \in Orders |-> [k \in Commands |-> attempts_for(db[o].log, k)]]
  BY DEF Init
<1>2. Shapes
  <2>1. db \in [Orders -> Row]
    BY <1>1, FoundRows
  <2> QED
    BY <1>1, <2>1, StoreAssumption DEF Shapes
<1>3. RowsInv
  <2> SUFFICES ASSUME NEW o \in Orders
               PROVE  RowInv(db[o], calls[o])
    BY DEF RowsInv
  <2> DEFINE r == db[o]
  <2>1. /\ LogOK(r.log, Commands)
        /\ \A k \in Commands :
             CommandOf(r.log, k).state \in {"PREPARED", "RETRY_WAIT"} =>
                 CommandOf(r.log, k).attempts < MaxAttempts
    BY <1>1, FoundRows
  <2> HIDE DEF r
  <2>2. \A k \in Commands : /\ attempts_for(r.log, k) = CommandOf(r.log, k).attempts
                            /\ CommandOf(r.log, k).attempts \in 0..MaxAttempts
    BY <2>1, CommandType
  <2>3. calls[o] = [k \in Commands |-> attempts_for(r.log, k)]
    BY <1>1 DEF r
  <2>4. calls[o] \in [Commands -> Nat]
    BY <2>2, <2>3
  <2>5. ASSUME NEW k \in Commands
        PROVE  Asked(CommandOf(r.log, k), calls[o][k])
    BY <2>1, <2>2, <2>3, AttemptsAssumption DEF Asked
  <2> QED
    BY <2>1, <2>4, <2>5 DEF RowInv, r
<1>4. JobsInv
  BY <1>1, IdleOK DEF JobsInv
<1>5. CallsInv
  BY <1>1, IdleOK DEF CallsInv
<1>6. DraftInv
  BY <1>1 DEF DraftInv
<1> QED
  BY <1>1, <1>2, <1>3, <1>4, <1>5, <1>6, FoundRows DEF StoreInv

LEMMA StoreIsKept == Spec => []StoreInv
<1>1. Init => StoreInv
  BY StoreInit
<1>2. StoreInv /\ [Next]_vars => StoreInv'
  BY StoreStep DEF Good
<1> QED
  BY <1>1, <1>2, PTL DEF Spec

\* Every variable keeps its shape, and the lock is held only by a transaction
\* that runs and has written (sqlite/uow.py).
THEOREM StoreTypes == Spec => []TypeOK
<1>1. StoreInv => TypeOK
  <2> SUFFICES ASSUME StoreInv
               PROVE  TypeOK
    OBVIOUS
  <2>1. db \in [Orders -> Row] /\ lock \in Jobs \cup {NoJob} /\ clock \in 0..MaxClock
    BY DEF StoreInv, Shapes
  <2>2. lock # NoJob => job[lock].pc = "pass" /\ draft \in [Orders -> Row]
    BY DEF StoreInv, DraftInv, Derived
  <2>3. ASSUME NEW j \in Jobs
        PROVE  /\ job[j].pc \in Phases
               /\ job[j].pc \in {"call", "receipt", "sent", "back"} =>
                    job[j].at \in Orders
               /\ job[j].todo \subseteq Orders
    BY DEF StoreInv, JobsInv, JobOK
  <2> QED
    BY <2>1, <2>2, <2>3 DEF TypeOK
<1> QED
  BY <1>1, StoreIsKept, PTL

\* The attempts of a command are numbered in the order they were made, all but
\* the last have an answer, and there are at most MaxAttempts of them, whatever
\* copies insert_prepared, add_attempt and save_command were given.
THEOREM JournalIsKept == Spec => []JournalOK
<1>1. StoreInv => JournalOK
  BY Shape DEF StoreInv, RowsInv, RowInv, JournalOK
<1> QED
  BY <1>1, StoreIsKept, PTL

\* MES is never asked more than MaxAttempts times for a command, nor more than
\* once for an attempt, and never for a command that was not committed.
THEOREM CallsAreLimited == Spec => []CallsAreBounded
<1>1. StoreInv => CallsAreBounded
  <2> SUFFICES ASSUME StoreInv, NEW o \in Orders, NEW k \in Commands
               PROVE  /\ calls[o][k] <= MaxAttempts
                      /\ attempts_for(db[o].log, k) <= calls[o][k]
                      /\ calls[o][k] <= attempts_for(db[o].log, k) + 1
                      /\ calls[o][k] > 0 => Rows(db[o].log, k) # {}
    BY DEF CallsAreBounded
  <2> DEFINE c == CommandOf(db[o].log, k)
             n == calls[o][k]
  <2>1. LogOK(db[o].log, Commands) /\ Asked(c, n)
    BY DEF StoreInv, RowsInv, RowInv
  <2>2. /\ attempts_for(db[o].log, k) = c.attempts /\ c.attempts \in 0..MaxAttempts
        /\ Rows(db[o].log, k) = {} => c.state = "NONE" /\ c.attempts = 0
    BY <2>1, CommandType
  <2> HIDE DEF c, n
  <2>3. n \in 0..MaxAttempts /\ c.attempts <= n /\ n <= c.attempts + 1
        /\ (c.state = "NONE" => n = c.attempts)
    BY <2>1 DEF Asked
  <2> QED
    BY <2>2, <2>3, AttemptsAssumption DEF n
<1> QED
  BY <1>1, StoreIsKept, PTL

\* The rows are a table that changes in whole steps, each decided on the row as
\* it stood: pages, snapshots, leases and the list of attempts do not show.
THEOREM StoreImplementsLedger == Spec => Implements
<1> DEFINE table == [o \in Orders |-> Summary(db[o])]
<1>1. Init => Ledger!Init
  <2> SUFFICES ASSUME Init
               PROVE  table \in [Orders -> Ledger!Found]
    BY DEF Ledger!Init
  <2> QED
    BY StoreInit
<1>2. StoreInv /\ [Next]_vars => [Ledger!Next]_table
  <2> SUFFICES ASSUME StoreInv, [Next]_vars
               PROVE  Ledger!Next
    OBVIOUS
  <2>1. ASSUME NEW o \in Orders
        PROVE  LedgerStep(db[o], db'[o])
    BY StoreStep DEF Good
  <2> QED
    BY <2>1 DEF Ledger!Next, LedgerStep
<1>3. Spec => []StoreInv
  BY StoreIsKept
<1> QED
  BY <1>1, <1>2, <1>3, PTL DEF Spec, Implements, Ledger!Spec
=============================================================================
