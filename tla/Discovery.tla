------------------------------ MODULE Discovery ------------------------------
(***************************************************************************)
(* How orders come to be and how the jobs find them again: SET_DEFAULT_HOLD *)
(* reads the operation starts SMM lists and makes an order for each        *)
(* execution, every job then walks through the open orders page by page,   *)
(* and DEFENSE compares the two lists.                                     *)
(*                                                                         *)
(* The events of one pass are one transaction, which takes the write lock  *)
(* with its first statement (touch_heartbeat) and holds it to its commit;  *)
(* an exception, or the end of the process, takes all of it back.          *)
(***************************************************************************)
EXTENDS Integers, Sequences, FiniteSets

CONSTANTS Lots, Scope,   \* the lots of the line, and those of settings.lot_ids
          Starts,        \* the lot, round and wafer list an event may carry
          Tails,         \* what follows the second in an order id
          Lookback,      \* candidate_lookback_hours
          PageSize,      \* limit
          MaxEvents, MaxClock, MaxCrashes      \* bounds

VARIABLES smm,      \* the operation starts, as list_start_events gives them
          clock,    \* in seconds, the grain of every time that is stored
          db,       \* what is committed
          pass,     \* the transaction of SET_DEFAULT_HOLD over the events
          walk,     \* iter_scoped_open_orders in some job
          crashes

vars == <<smm, clock, db, pass, walk, crashes>>

\* An execution is a lot and its round (origin operation and rework count),
\* which the event may not know.
Rounds == {"first"}
NoRound == "unknown"
Keys == Lots \X Rounds

ASSUME DiscoveryAssumption ==
    /\ Scope \subseteq Lots
    /\ \A s \in Starts : s.lot \in Lots /\ s.round \in Rounds \cup {NoRound}
    /\ IsFiniteSet(Lots)
    /\ Tails \subseteq Nat
    /\ Lookback \in Nat
    /\ PageSize \in Nat \ {0}
    /\ MaxEvents \in Nat /\ MaxClock \in Nat

StartsAt(now) == {[lot |-> s.lot, round |-> s.round, roster |-> s.roster, at |-> now] :
                     s \in Starts}
Rosters == {s.roster : s \in Starts}
KeyOf(e) == <<e.lot, e.round>>

\* order ids sort as created_at does, then by their random digits and tool
OrderIds == (0 .. MaxClock) \X Tails
Before(a, b) == a[1] < b[1] \/ (a[1] = b[1] /\ a[2] < b[2])
NoId == <<-1, -1>>

NoOrder == [id |-> NoId, started |-> -1, life |-> "NONE", work |-> "NONE",
            roster |-> {}]

Incidents == ({"DISCOVERY_IDENTITY"} \X Lots) \cup ({"MANUAL_REVIEW"} \X OrderIds)
             \cup {<<"COVERAGE_MISMATCH", "system">>}

NoPass == [on |-> FALSE, todo |-> <<>>, now |-> 0, draft |-> 0]
NoWalk == [on |-> FALSE, cutoff |-> 0, cursor |-> NoId, seen |-> <<>>,
           began |-> {}]

recent_cutoff(now) == now - Lookback
InWindow(at, cutoff) == at >= cutoff

Numbers == DOMAIN smm
Made(d) == {k \in Keys : d.order[k] # NoOrder}

-----------------------------------------------------------------------------
Init ==
    /\ smm = <<>> /\ clock = 0 /\ crashes = 0
    /\ db = [order |-> [k \in Keys |-> NoOrder], inbound |-> <<>>, incidents |-> {}]
    /\ pass = NoPass
    /\ walk = NoWalk

\* A lot starts an operation, and SMM lists it.  A pass has read
\* the clock and the events when it begins, so that what happens while it runs
\* is no different from what happens after it.
Publish ==
    /\ ~pass.on
    /\ Len(smm) < MaxEvents
    /\ \E e \in StartsAt(clock) : smm' = Append(smm, e)
    /\ UNCHANGED <<clock, db, pass, walk, crashes>>

Tick ==
    /\ ~pass.on
    /\ clock < MaxClock
    /\ clock' = clock + 1
    /\ UNCHANGED <<smm, db, pass, walk, crashes>>

-----------------------------------------------------------------------------
\* SET_DEFAULT_HOLD: the events.  There is no cursor; every pass is given all
\* events of the window.
\* slip: the edge of the window is outside
ListAfter(since) == SelectSeq([i \in Numbers |-> i], LAMBDA i : smm[i].at > since)

list_start_events(since) ==
    SelectSeq([i \in Numbers |-> i], LAMBDA i : InWindow(smm[i].at, since))

\* A pass over events that are all of other lots, recorded or told of changes
\* nothing, and is left out.
News(i) ==
    /\ smm[i].lot \in Scope
    /\ IF smm[i].round = NoRound
       THEN <<"DISCOVERY_IDENTITY", smm[i].lot>> \notin db.incidents
       ELSE i \notin DOMAIN db.inbound

BeginPass ==
    /\ ~pass.on
    /\ LET todo == list_start_events(recent_cutoff(clock)) IN
       /\ \E j \in DOMAIN todo : News(todo[j])
       /\ pass' = [on |-> TRUE, todo |-> todo, now |-> clock, draft |-> db]
    /\ UNCHANGED <<smm, clock, db, walk, crashes>>

Given(i) == pass.on /\ pass.todo # <<>> /\ i = Head(pass.todo)

Taken(draft) ==
    /\ pass' = [pass EXCEPT !.todo = Tail(@), !.draft = draft]
    /\ UNCHANGED <<smm, clock, db, walk, crashes>>

open_incident(d, type, subject) == [d EXCEPT !.incidents = @ \cup {<<type, subject>>}]

\* an event of another lot, or one that an earlier pass has recorded
PassOver(i) ==
    /\ Given(i)
    /\ smm[i].lot \notin Scope
       \/ (smm[i].round # NoRound /\ i \in DOMAIN pass.draft.inbound)
    /\ Taken(pass.draft)

\* It is not recorded, and so met again by the next pass.
NoIdentity(i) ==
    /\ Given(i)
    /\ smm[i].lot \in Scope /\ smm[i].round = NoRound
    /\ Taken(open_incident(pass.draft, "DISCOVERY_IDENTITY", smm[i].lot))

New(i) ==
    /\ Given(i)
    /\ smm[i].lot \in Scope /\ smm[i].round # NoRound
    /\ i \notin DOMAIN pass.draft.inbound

\* try_record, and mark_consumed with the order's id or None
record(d, i, id) ==
    [d EXCEPT !.inbound = [j \in DOMAIN @ \cup {i} |-> IF j = i THEN id ELSE @[j]]]

get_by_key(d, k) == d.order[k]

\* slip: the order is left for another job to open
Unopened(e, id) ==
    [id |-> id, started |-> e.at, life |-> "NEW", work |-> "NEED_HOLD",
     roster |-> e.roster]

_new_order(e, id) ==
    [id |-> id, started |-> e.at, life |-> "OPEN", work |-> "NEED_HOLD",
     roster |-> e.roster]

Refused(d, k, id) ==
    d.order[k] # NoOrder \/ \E other \in Keys : d.order[other].id = id

\* slip: INSERT OR REPLACE
Replace(d, k, row) ==
    [d EXCEPT !.order = [other \in Keys |->
         IF other = k THEN row
         ELSE IF d.order[other].id = row.id THEN NoOrder ELSE d.order[other]]]

\* DuplicateOrderError stands for a key that is taken and for an id that is
insert(d, k, row) ==
    IF Refused(d, k, row.id) THEN d ELSE [d EXCEPT !.order[k] = row]

\* The event goes down with the order its key has then, if it has one.
Create(i) ==
    /\ New(i)
    /\ LET k == KeyOf(smm[i]) IN
       /\ get_by_key(pass.draft, k) = NoOrder
       /\ \E tail \in Tails :
            LET d == insert(pass.draft, k, _new_order(smm[i], <<pass.now, tail>>)) IN
            Taken(record(d, i, get_by_key(d, k).id))

\* slip: only wafers that came to the lot count
Grown(old, new) == old # {} /\ ~(new \subseteq old)

Differ(old, new) == old # {} /\ new # {} /\ old # new

\* The execution has its order already, which may be closed.
Meet(i) ==
    /\ New(i)
    /\ LET d == pass.draft
           k == KeyOf(smm[i])
           row == get_by_key(d, k) IN
       /\ row # NoOrder
       /\ Taken(record(IF Differ(row.roster, smm[i].roster)
                       THEN open_incident([d EXCEPT !.order[k].work = "MANUAL_REVIEW"],
                                          "MANUAL_REVIEW", row.id)
                       ELSE d, i, row.id))

CommitPass ==
    /\ pass.on /\ pass.todo = <<>>
    /\ db' = pass.draft
    /\ pass' = NoPass
    /\ UNCHANGED <<smm, clock, walk, crashes>>

\* slip: what was recorded stays recorded
KeepsRecords ==
    /\ pass.on /\ crashes < MaxCrashes
    /\ crashes' = crashes + 1
    /\ db' = [db EXCEPT !.inbound = pass.draft.inbound]
    /\ pass' = NoPass
    /\ UNCHANGED <<smm, clock, walk>>

\* any exception, or the process ends
Crash ==
    /\ pass.on /\ crashes < MaxCrashes
    /\ crashes' = crashes + 1
    /\ pass' = NoPass
    /\ UNCHANGED <<smm, clock, db, walk>>

Event(i) == PassOver(i) \/ NoIdentity(i) \/ Create(i) \/ Meet(i)

-----------------------------------------------------------------------------
\* The other jobs, between transactions of SET_DEFAULT_HOLD.

\* A release, a skip or an operator ends an order.  CONFIRM_RELEASE and the
\* operator do not look at its work state, and end one under review like another;
\* MANUAL_CLOSE also one that is closed.
Close(k) ==
    /\ ~pass.on
    /\ db.order[k] # NoOrder
    /\ db' = [db EXCEPT !.order[k].life = "CLOSED", !.order[k].work = "CLOSED"]
    /\ UNCHANGED <<smm, clock, pass, walk, crashes>>

\* CONFIRM_RELEASE looks after the release of an order, one under review too, and
\* leaves it open.  Commands are not part of this module: a release of any order
\* may have been asked for.  RELEASE_VERIFY_PENDING stands for the three states
\* that are written; over any other than MANUAL_REVIEW they make no difference
\* here, and such a step is left out.
VerifyRelease(k) ==
    /\ ~pass.on
    /\ db.order[k].life = "OPEN" /\ db.order[k].work = "MANUAL_REVIEW"
    /\ db' = [db EXCEPT !.order[k].work = "RELEASE_VERIFY_PENDING"]
    /\ UNCHANGED <<smm, clock, pass, walk, crashes>>

OpenSince(cutoff) ==
    {k \in Keys : db.order[k].life = "OPEN" /\ InWindow(db.order[k].started, cutoff)}

BeginWalk ==
    /\ ~pass.on
    /\ walk = NoWalk /\ Len(smm) = MaxEvents    \* bound: one walk, which leaves
                                               \* nothing behind, when all is listed
    /\ LET cutoff == recent_cutoff(clock) IN
       walk' = [on |-> TRUE, cutoff |-> cutoff, cursor |-> NoId, seen |-> <<>>,
                began |-> {k \in OpenSince(cutoff) : k[1] \in Scope}]
    /\ UNCHANGED <<smm, clock, db, pass, crashes>>

\* slip: the cursor is the second only
AfterSecond(id, cursor) == id[1] > cursor[1]

After(id, cursor) == Before(cursor, id)

\* list_open_since
list_open_since(cutoff, cursor) ==
    LET rest == {k \in OpenSince(cutoff) : After(db.order[k].id, cursor)}
        Rank(k) == Cardinality({j \in rest : Before(db.order[j].id, db.order[k].id)}) IN
    {k \in rest : Rank(k) < PageSize}

\* A page; the caller handles its orders, and may commit before the next one.
\* A page that is not full is the last.
WalkPage ==
    /\ ~pass.on
    /\ walk.on
    /\ LET page == list_open_since(walk.cutoff, walk.cursor)
           last == {k \in page : ~\E j \in page : Before(db.order[k].id, db.order[j].id)} IN
       walk' = [walk EXCEPT
                  !.on = Cardinality(page) >= PageSize,
                  !.cursor = IF page = {} THEN @ ELSE db.order[CHOOSE k \in last : TRUE].id,
                  !.seen = Append(@, {k \in page : k[1] \in Scope})]
    /\ UNCHANGED <<smm, clock, db, pass, crashes>>

expected_keys(since) ==
    {KeyOf(smm[i]) : i \in {j \in Numbers : InWindow(smm[j].at, since)
                                            /\ smm[j].round # NoRound
                                            /\ smm[j].lot \in Scope}}

\* slip: only orders too many are told
TooMany(expected, actual) == actual \ expected # {}

Mismatch(expected, actual) == expected # actual

\* DEFENSE, D-03: the executions of the window against the open orders
Coverage ==
    /\ ~pass.on
    /\ LET cutoff == recent_cutoff(clock)
           actual == {k \in OpenSince(cutoff) : k[1] \in Scope} IN
       /\ Mismatch(expected_keys(cutoff), actual)
       /\ db' = open_incident(db, "COVERAGE_MISMATCH", "system")
    /\ UNCHANGED <<smm, clock, pass, walk, crashes>>

-----------------------------------------------------------------------------
Discover == BeginPass \/ (\E i \in Numbers : Event(i)) \/ CommitPass

Next ==
    \/ Publish \/ Tick \/ Crash
    \/ BeginPass \/ CommitPass
    \/ \E i \in Numbers : PassOver(i) \/ NoIdentity(i) \/ Create(i) \/ Meet(i)
    \/ \E k \in Keys : Close(k) \/ VerifyRelease(k)
    \/ BeginWalk \/ WalkPage
    \/ Coverage

Spec == Init /\ [][Next]_vars

\* The scheduler starts SET_DEFAULT_HOLD and DEFENSE again and again.
FairSpec == Spec /\ WF_vars(Discover) /\ WF_vars(Coverage)

-----------------------------------------------------------------------------
Rows ==
    [id : OrderIds \cup {NoId}, started : -1 .. MaxClock,
     life : {"NONE", "OPEN", "CLOSED"},
     work : {"NONE", "NEED_HOLD", "CLOSED", "MANUAL_REVIEW",
             "RELEASE_VERIFY_PENDING"},
     roster : Rosters \cup {{}}]

DbType ==
    [order : [Keys -> Rows],
     inbound : UNION {[ids -> OrderIds \cup {NoId}] : ids \in SUBSET Numbers},
     incidents : SUBSET Incidents]

\* The tables keep their types, and so does a transaction not yet committed.
TypeOK ==
    /\ Len(smm) <= MaxEvents /\ clock \in 0 .. MaxClock
    /\ db \in DbType
    /\ pass.on => pass.draft \in DbType
    /\ pass.on \in BOOLEAN /\ walk.on \in BOOLEAN
    /\ walk.cursor \in OrderIds \cup {NoId}

\* An event is recorded in the transaction that makes its order: whatever
\* breaks a pass off, no event is set down as done whose order was not kept
\* (set_default_hold 52-96).
RecordedIsKept ==
    \A i \in DOMAIN db.inbound :
        db.inbound[i] # NoId => db.order[KeyOf(smm[i])].id = db.inbound[i]

\* A change of wafers is not lost, whatever breaks a pass off: with the commit
\* that records an event with another list than its order's, the order is under
\* review, also a closed one, and its incident stays as long as the record does
\* (86-96).  The review itself does not stay: the release of the order, if one
\* was asked for, and an operator write over it.
RosterChangeIsKept ==
    [][\A i \in DOMAIN db'.inbound :
         LET row == db'.order[KeyOf(smm[i])] IN
         /\ db'.inbound[i] # NoId
         /\ row.roster # smm[i].roster /\ {} \notin {row.roster, smm[i].roster}
         =>
             /\ <<"MANUAL_REVIEW", row.id>> \in db'.incidents
             /\ i \notin DOMAIN db.inbound => row.work = "MANUAL_REVIEW"]_db

\* A job meets every order: each one in the window when the walk began and
\* still open is on one page, none is on two, however orders are closed or
\* made between the pages (services 67-91).
WalkMissesNone ==
    /\ \A i, j \in DOMAIN walk.seen : i # j => walk.seen[i] \cap walk.seen[j] = {}
    /\ ~walk.on /\ walk.seen # <<>> =>
          \A k \in walk.began :
              db.order[k].life = "OPEN" => \E i \in DOMAIN walk.seen : k \in walk.seen[i]

\* An execution has one order: once made it is neither made again nor opened
\* again, however often its events are listed (A1-06).
OrderIsMadeOnce ==
    [][\A k \in Keys :
         LET row == db.order[k] IN
         row # NoOrder => /\ db'.order[k].id = row.id
                          /\ db'.order[k].roster = row.roster
                          /\ row.life = "CLOSED" => db'.order[k].life = "CLOSED"]_db

TooOld(i) == ~InWindow(smm[i].at, recent_cutoff(clock))

TakenUp(i) ==
    \/ i \in DOMAIN db.inbound
    \/ <<"DISCOVERY_IDENTITY", smm[i].lot>> \in db.incidents
    \/ TooOld(i)

\* Every start in scope is recorded, or told of when it has no identity, or
\* has left the window, though passes break off between.  None of the three is
\* ever undone.
EventsAreTakenUp == []<>(\A i \in Numbers : smm[i].lot \in Scope => TakenUp(i))

Lost(i) ==
    i \in DOMAIN db.inbound /\ db.inbound[i] = NoId /\ db.order[KeyOf(smm[i])] = NoOrder

\* An execution that was recorded without an order is found by DEFENSE, unless
\* it leaves the window first or its next event makes the order.
LostIsNoticed ==
    []<>(\A i \in Numbers :
            Lost(i) => <<"COVERAGE_MISMATCH", "system">> \in db.incidents \/ TooOld(i))

\* What the documents say of a recorded event: its order is in the database.
\* (Design/Vision_AI_Hold_Agent_State_Spec_v1.md, section 5.2.)
RecordedHasOrder == \A i \in DOMAIN db.inbound : ~Lost(i)
=============================================================================
