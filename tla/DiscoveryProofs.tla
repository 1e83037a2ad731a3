--------------------------- MODULE DiscoveryProofs ---------------------------
(***************************************************************************)
(* What SET_DEFAULT_HOLD keeps, for any lots, starts, window and number of *)
(* broken passes.  The committed database and the draft of the transaction *)
(* under way satisfy the same invariant, DataInv; the draft moreover only   *)
(* adds to what is committed, so that its commit loses nothing.  What the  *)
(* walk of another job has left to read is behind its cursor, WalkInv.     *)
(***************************************************************************)
EXTENDS Discovery, FiniteSetTheorems, WellFoundedInduction, TLAPS

\* what one version of the tables satisfies
Shape(d) ==
    /\ d = [order |-> d.order, inbound |-> d.inbound, incidents |-> d.incidents]
    /\ d.order \in [Keys -> Rows]
    /\ DOMAIN d.inbound \subseteq Numbers
    /\ \A i \in DOMAIN d.inbound : KeyOf(smm[i]) \in Keys

Recorded(d) ==
    \A i \in DOMAIN d.inbound :
        d.inbound[i] # NoId => d.order[KeyOf(smm[i])].id = d.inbound[i]

\* an event that was recorded with another list than its order's
Outdated(d, i) ==
    LET row == d.order[KeyOf(smm[i])] IN
    /\ d.inbound[i] # NoId
    /\ row.roster # smm[i].roster /\ {} \notin {row.roster, smm[i].roster}

Told(d) ==
    \A i \in DOMAIN d.inbound :
        Outdated(d, i) => <<"MANUAL_REVIEW", d.order[KeyOf(smm[i])].id>> \in d.incidents

\* the orders that the events recorded since then have put under review
Reviewed(d, since) ==
    \A i \in DOMAIN d.inbound \ since :
        Outdated(d, i) => d.order[KeyOf(smm[i])].work = "MANUAL_REVIEW"

\* an order that was made has an id of its own, and so a place among the others
Named(d) ==
    /\ \A k \in Keys : d.order[k] # NoOrder =>
          d.order[k].id \in OrderIds /\ d.order[k].life \in {"OPEN", "CLOSED"}
    /\ \A j, k \in Keys :
          d.order[j] # NoOrder /\ d.order[k] # NoOrder
          /\ d.order[j].id = d.order[k].id => j = k

Noted(d) ==
    /\ d.inbound \in [DOMAIN d.inbound -> OrderIds \cup {NoId}]
    /\ d.incidents \subseteq Incidents

DataInv(d) == Shape(d) /\ Recorded(d) /\ Told(d) /\ Named(d) /\ Noted(d)

\* what a later version keeps of the orders of an earlier one
Keeps(d, e) ==
    \A k \in Keys :
        d.order[k] # NoOrder =>
            /\ e.order[k] # NoOrder
            /\ e.order[k].id = d.order[k].id
            /\ e.order[k].roster = d.order[k].roster
            /\ e.order[k].started = d.order[k].started
            /\ d.order[k].life = "CLOSED" => e.order[k].life = "CLOSED"

EventType ==
    [lot : Lots, round : Rounds \cup {NoRound}, roster : Rosters, at : 0 .. MaxClock]

PassType ==
    pass = [on |-> pass.on, todo |-> pass.todo, now |-> pass.now, draft |-> pass.draft]

DiscoveryInv ==
    /\ smm \in Seq(EventType) /\ Len(smm) <= MaxEvents
    /\ clock \in 0 .. MaxClock
    /\ PassType /\ pass.on \in BOOLEAN
    /\ DataInv(db)
    /\ pass.on => /\ pass.now \in 0 .. MaxClock
                  /\ DataInv(pass.draft)
                  /\ Keeps(db, pass.draft)
                  /\ Reviewed(pass.draft, DOMAIN db.inbound)

-----------------------------------------------------------------------------
(* The tables *)

LEMMA NoOrderIsRow == NoOrder \in Rows /\ NoOrder.id = NoId
<1>1. MaxClock \in Nat
  BY DiscoveryAssumption
<1> QED
  BY <1>1 DEF NoOrder, Rows

\* an event of a known round names an execution
LEMMA EventKey ==
    ASSUME smm \in Seq(EventType), NEW i \in Numbers, smm[i].round # NoRound
    PROVE  /\ KeyOf(smm[i]) \in Keys
           /\ smm[i] \in EventType
<1>1. smm[i] \in EventType
  BY DEF Numbers
<1> QED
  BY <1>1 DEF EventType, KeyOf, Keys

\* Recording an event under an id keeps the invariant when the event fits the
\* order of its key.
LEMMA RecordKeeps ==
    ASSUME NEW d, DataInv(d), NEW i \in Numbers, KeyOf(smm[i]) \in Keys,
           NEW id \in OrderIds \cup {NoId}, NEW since, Reviewed(d, since),
           id # NoId => /\ d.order[KeyOf(smm[i])].id = id
                        /\ LET row == d.order[KeyOf(smm[i])] IN
                           /\ row.roster # smm[i].roster
                           /\ {} \notin {row.roster, smm[i].roster}
                           => /\ row.work = "MANUAL_REVIEW"
                              /\ <<"MANUAL_REVIEW", row.id>> \in d.incidents
    PROVE  /\ DataInv(record(d, i, id))
           /\ record(d, i, id).order = d.order
           /\ Reviewed(record(d, i, id), since)
<1> DEFINE e == record(d, i, id)
<1>1. /\ e.order = d.order /\ e.incidents = d.incidents
      /\ e = [order |-> e.order, inbound |-> e.inbound, incidents |-> e.incidents]
      /\ DOMAIN e.inbound = DOMAIN d.inbound \cup {i}
      /\ e.inbound = [j \in DOMAIN e.inbound |-> e.inbound[j]]
      /\ \A j \in DOMAIN e.inbound : e.inbound[j] = IF j = i THEN id ELSE d.inbound[j]
  BY DEF record, DataInv, Shape
<1> HIDE DEF e
<1>2. Shape(e)
  BY <1>1 DEF DataInv, Shape
<1>3. Recorded(e)
  BY <1>1 DEF DataInv, Recorded
<1>4. Told(e) /\ Reviewed(e, since)
  BY <1>1 DEF DataInv, Told, Reviewed, Outdated
<1>5. Noted(e) /\ Named(e)
  BY <1>1 DEF DataInv, Noted, Named
<1> QED
  BY <1>1, <1>2, <1>3, <1>4, <1>5 DEF DataInv, e

\* An incident more disturbs nothing.
LEMMA IncidentKeeps ==
    ASSUME NEW d, DataInv(d), NEW type, NEW subject,
           <<type, subject>> \in Incidents
    PROVE  /\ DataInv(open_incident(d, type, subject))
           /\ open_incident(d, type, subject).order = d.order
           /\ open_incident(d, type, subject).inbound = d.inbound
           /\ <<type, subject>> \in open_incident(d, type, subject).incidents
<1> DEFINE e == open_incident(d, type, subject)
<1>1. /\ e.order = d.order /\ e.inbound = d.inbound
      /\ e.incidents = d.incidents \cup {<<type, subject>>}
      /\ e = [order |-> e.order, inbound |-> e.inbound, incidents |-> e.incidents]
  BY DEF open_incident, DataInv, Shape
<1> HIDE DEF e
<1>2. Shape(e) /\ Recorded(e) /\ Told(e) /\ Named(e) /\ Noted(e)
  BY SMTT(30), <1>1 DEF DataInv, Shape, Recorded, Told, Outdated, Named, Noted
<1> QED
  BY <1>1, <1>2 DEF DataInv, e

\* A new row goes where no order was; no event was recorded with its key.
LEMMA InsertKeeps ==
    ASSUME NEW d, DataInv(d), NEW k \in Keys, d.order[k] = NoOrder,
           NEW row \in Rows, row.id \in OrderIds, row.life = "OPEN",
           NEW since, Reviewed(d, since)
    PROVE  /\ DataInv(insert(d, k, row))
           /\ Reviewed(insert(d, k, row), since)
           /\ Keeps(d, insert(d, k, row))
           /\ \/ insert(d, k, row).order[k] = NoOrder
              \/ insert(d, k, row).order[k] = row
<1> DEFINE e == insert(d, k, row)
<1>1. CASE Refused(d, k, row.id)
  <2>1. e = d
    BY <1>1 DEF insert
  <2> QED
    BY <2>1 DEF Keeps
<1>2. CASE ~Refused(d, k, row.id)
  <2>1. /\ e.inbound = d.inbound /\ e.incidents = d.incidents
        /\ e = [order |-> e.order, inbound |-> e.inbound, incidents |-> e.incidents]
        /\ e.order = [d.order EXCEPT ![k] = row]
    BY <1>2 DEF insert, DataInv, Shape
  <2> HIDE DEF e
  <2>2. /\ e.order \in [Keys -> Rows] /\ e.order[k] = row
        /\ \A j \in Keys : j # k => e.order[j] = d.order[j]
    BY <2>1 DEF DataInv, Shape
  <2>3. \A i \in DOMAIN d.inbound : d.inbound[i] # NoId => KeyOf(smm[i]) # k
    BY NoOrderIsRow DEF DataInv, Recorded
  <2>4. \A i \in DOMAIN d.inbound :
            KeyOf(smm[i]) # k => e.order[KeyOf(smm[i])] = d.order[KeyOf(smm[i])]
    BY <2>2 DEF DataInv, Shape
  <2>5. Shape(e) /\ Recorded(e) /\ Told(e) /\ Reviewed(e, since)
    BY <2>1, <2>2, <2>3, <2>4 DEF DataInv, Shape, Recorded, Told, Reviewed, Outdated
  <2>6. Keeps(d, e)
    BY <2>2 DEF Keeps
  <2>7. Noted(e)
    BY <2>1 DEF DataInv, Noted
  <2>8. \A j \in Keys : d.order[j].id # row.id
    BY <1>2 DEF Refused
  <2>9. Named(e)
    BY <2>2, <2>8 DEF DataInv, Named
  <2> QED
    BY <2>2, <2>5, <2>6, <2>7, <2>9 DEF DataInv, e
<1> QED
  BY <1>1, <1>2

\* An order that keeps its id keeps its name.
LEMMA NameKept ==
    ASSUME NEW d, NEW e, Named(d),
           \A j \in Keys : e.order[j] # NoOrder =>
               /\ d.order[j] # NoOrder /\ e.order[j].id = d.order[j].id
               /\ e.order[j].life \in {d.order[j].life, "CLOSED"}
    PROVE  Named(e)
<1>1. \A j \in Keys : e.order[j] # NoOrder =>
          e.order[j].id \in OrderIds /\ e.order[j].life \in {"OPEN", "CLOSED"}
  BY SMTT(30) DEF Named
<1>2. \A i, j \in Keys : e.order[i] # NoOrder /\ e.order[j] # NoOrder
                         /\ e.order[i].id = e.order[j].id => i = j
  BY SMTT(30) DEF Named
<1> QED
  BY <1>1, <1>2 DEF Named

\* An order that goes to review stays the order it was.
LEMMA ReviewKeeps ==
    ASSUME NEW d, DataInv(d), NEW k \in Keys, d.order[k] # NoOrder,
           NEW since, Reviewed(d, since),
           NEW e, e = open_incident([d EXCEPT !.order[k].work = "MANUAL_REVIEW"],
                                    "MANUAL_REVIEW", d.order[k].id)
    PROVE  /\ DataInv(e) /\ Keeps(d, e) /\ Reviewed(e, since)
           /\ e.order[k].id = d.order[k].id
           /\ e.order[k].work = "MANUAL_REVIEW"
           /\ <<"MANUAL_REVIEW", e.order[k].id>> \in e.incidents
<1>1. /\ e.inbound = d.inbound
      /\ e.incidents = d.incidents \cup {<<"MANUAL_REVIEW", d.order[k].id>>}
      /\ e = [order |-> e.order, inbound |-> e.inbound, incidents |-> e.incidents]
      /\ e.order = [d.order EXCEPT ![k].work = "MANUAL_REVIEW"]
  BY DEF open_incident, DataInv, Shape
<1> DEFINE row == d.order[k]
           new == [row EXCEPT !.work = "MANUAL_REVIEW"]
<1>0. row \in Rows /\ d.order \in [Keys -> Rows]
  BY DEF DataInv, Shape
<1>3. /\ new \in Rows
      /\ new.id = row.id /\ new.roster = row.roster /\ new.life = row.life
      /\ new.started = row.started
      /\ new.work = "MANUAL_REVIEW"
  BY <1>0 DEF Rows
<1> HIDE DEF new
<1>2. /\ e.order \in [Keys -> Rows]
      /\ e.order[k] = new
      /\ \A j \in Keys : j # k => e.order[j] = d.order[j]
  <2>1. e.order = [d.order EXCEPT ![k] = new]
    BY <1>1 DEF new
  <2> QED
    BY <1>0, <1>3, <2>1
<1>4. e.order[k] # NoOrder
  BY <1>2, <1>3 DEF NoOrder
<1>6. Shape(e)
  BY <1>1, <1>2 DEF DataInv, Shape
<1>7. Recorded(e)
  <2>1. \A i \in DOMAIN d.inbound : KeyOf(smm[i]) \in Keys
    BY DEF DataInv, Shape
  <2>2. \A j \in Keys : e.order[j].id = d.order[j].id
    BY <1>2, <1>3
  <2>3. Recorded(d)
    BY DEF DataInv
  <2> QED
    BY <1>1, <2>1, <2>2, <2>3 DEF Recorded
<1>8. Told(e) /\ Reviewed(e, since)
  <2> SUFFICES ASSUME NEW i \in DOMAIN d.inbound, Outdated(e, i)
               PROVE  /\ <<"MANUAL_REVIEW", e.order[KeyOf(smm[i])].id>> \in e.incidents
                      /\ i \notin since => e.order[KeyOf(smm[i])].work = "MANUAL_REVIEW"
    BY <1>1 DEF Told, Reviewed
  <2>1. KeyOf(smm[i]) \in Keys
    BY DEF DataInv, Shape
  <2>2. CASE KeyOf(smm[i]) = k
    BY <1>1, <1>2, <1>3, <2>2
  <2>3. CASE KeyOf(smm[i]) # k
    <3>1. e.order[KeyOf(smm[i])] = d.order[KeyOf(smm[i])]
      BY <1>2, <2>1, <2>3
    <3>2. Outdated(d, i)
      BY <1>1, <3>1 DEF Outdated
    <3> QED
      BY <1>1, <3>1, <3>2 DEF DataInv, Told, Reviewed
  <2> QED
    BY <2>2, <2>3
<1>9. Keeps(d, e)
  BY <1>2, <1>3, <1>4 DEF Keeps
<1>10. Named(e)
  <2>1. \A j \in Keys : e.order[j] # NoOrder =>
            /\ d.order[j] # NoOrder /\ e.order[j].id = d.order[j].id
            /\ e.order[j].life \in {d.order[j].life, "CLOSED"}
    BY <1>2, <1>3
  <2>2. Named(d)
    BY DEF DataInv
  <2> QED
    BY <2>1, <2>2, NameKept
<1>11. Noted(e)
  <2>1. row.id \in OrderIds
    BY DEF DataInv, Named
  <2> QED
    BY <1>1, <2>1 DEF DataInv, Noted, Incidents
<1> QED
  BY <1>1, <1>2, <1>3, <1>6, <1>7, <1>8, <1>9, <1>10, <1>11 DEF DataInv

LEMMA KeepsOnward ==
    ASSUME NEW c, NEW d, NEW e, Keeps(c, d), Keeps(d, e)
    PROVE  Keeps(c, e)
  BY DEF Keeps

-----------------------------------------------------------------------------
(* The steps *)

LEMMA DiscoveryInit == Init => DiscoveryInv
<1> SUFFICES ASSUME Init PROVE DiscoveryInv
  OBVIOUS
<1>1. smm \in Seq(EventType) /\ Len(smm) <= MaxEvents /\ clock \in 0 .. MaxClock
  BY DiscoveryAssumption DEF Init
<1>2. Shape(db)
  BY NoOrderIsRow DEF Init, Shape
<1>3. Recorded(db) /\ Told(db) /\ Named(db) /\ Noted(db)
  BY DEF Init, Recorded, Told, Named, Noted
<1>4. PassType /\ pass.on = FALSE
  BY DEF Init, NoPass, PassType
<1> QED
  BY <1>1, <1>2, <1>3, <1>4 DEF DiscoveryInv, DataInv

\* One event of a pass: the draft grows, and nothing else changes.
LEMMA EventStep ==
    ASSUME DiscoveryInv, NEW i \in Numbers, Event(i)
    PROVE  /\ DiscoveryInv'
           /\ db' = db
<1> DEFINE since == DOMAIN db.inbound
<1>1. /\ pass.on /\ PassType /\ DataInv(pass.draft) /\ Keeps(db, pass.draft)
      /\ Reviewed(pass.draft, since)
  BY DEF DiscoveryInv, Event, PassOver, NoIdentity, Create, Meet, New, Given
<1>2. \A draft : Taken(draft) => /\ pass'.draft = draft /\ PassType'
                                 /\ pass'.on = pass.on /\ pass'.now = pass.now
                                 /\ UNCHANGED <<smm, clock, db>>
  BY <1>1 DEF Taken, PassType
<1> HIDE DEF since
<1>3. SUFFICES ASSUME NEW draft, Taken(draft), DataInv(draft), Keeps(pass.draft, draft),
                      Reviewed(draft, since)
               PROVE  DiscoveryInv' /\ db' = db
  <2>1. CASE PassOver(i)
    BY <1>1, <1>3, <2>1 DEF PassOver, Keeps
  <2>2. CASE NoIdentity(i)
    <3>1. Taken(open_incident(pass.draft, "DISCOVERY_IDENTITY", smm[i].lot))
      BY <2>2 DEF NoIdentity
    <3> DEFINE e == open_incident(pass.draft, "DISCOVERY_IDENTITY", smm[i].lot)
    <3>5. <<"DISCOVERY_IDENTITY", smm[i].lot>> \in Incidents
      <4>1. smm[i] \in EventType
        BY DEF DiscoveryInv, Numbers
      <4> QED
        BY <4>1 DEF EventType, Incidents
    <3>2. DataInv(e) /\ e.order = pass.draft.order /\ e.inbound = pass.draft.inbound
      BY <1>1, <3>5, IncidentKeeps
    <3> HIDE DEF e
    <3>3. Keeps(pass.draft, e) /\ Reviewed(e, since)
      BY <1>1, <3>2 DEF Keeps, Reviewed, Outdated
    <3> QED
      BY <1>3, <3>1, <3>2, <3>3 DEF e
  <2>3. CASE Create(i)
    <3> DEFINE k == KeyOf(smm[i])
    <3>1. k \in Keys /\ smm[i] \in EventType /\ smm[i].round # NoRound
      BY <2>3, EventKey DEF Create, New, DiscoveryInv
    <3>2. PICK tail \in Tails :
            LET d == insert(pass.draft, k, _new_order(smm[i], <<pass.now, tail>>)) IN
            Taken(record(d, i, get_by_key(d, k).id))
      BY <2>3 DEF Create
    <3>3. pass.draft.order[k] = NoOrder
      BY <2>3 DEF Create, get_by_key
    <3> DEFINE row == _new_order(smm[i], <<pass.now, tail>>)
               d == insert(pass.draft, k, row)
    <3>4. /\ row \in Rows /\ row.roster = smm[i].roster
          /\ row.id \in OrderIds /\ row.life = "OPEN"
      <4>1. pass.now \in 0 .. MaxClock
        BY <1>1 DEF DiscoveryInv
      <4>2. <<pass.now, tail>> \in OrderIds
        BY <4>1 DEF OrderIds
      <4>3. smm[i].at \in -1 .. MaxClock /\ smm[i].roster \in Rosters
        BY <3>1, DiscoveryAssumption DEF EventType
      <4> QED
        BY <4>2, <4>3 DEF _new_order, Rows
    <3> HIDE DEF row, k
    <3>5. /\ DataInv(d) /\ Keeps(pass.draft, d) /\ Reviewed(d, since)
          /\ d.order[k] = NoOrder \/ d.order[k] = row
      BY <1>1, <3>1, <3>3, <3>4, InsertKeeps
    <3> HIDE DEF d
    <3> DEFINE id == d.order[k].id
    <3>6. id # NoId => d.order[k].roster = smm[i].roster
      BY <3>4, <3>5, NoOrderIsRow
    <3>7. /\ DataInv(record(d, i, id)) /\ record(d, i, id).order = d.order
          /\ Reviewed(record(d, i, id), since)
      <4>1. KeyOf(smm[i]) \in Keys
        BY <3>1 DEF k
      <4>3. id \in OrderIds \cup {NoId}
        BY <3>1, <3>5 DEF DataInv, Shape, Rows, k
      <4>2. id # NoId => /\ d.order[KeyOf(smm[i])].id = id
                         /\ d.order[KeyOf(smm[i])].roster = smm[i].roster
        BY <3>6 DEF k
      <4> HIDE DEF id
      <4> QED
        BY <3>5, <4>1, <4>2, <4>3, RecordKeeps
    <3>8. Keeps(pass.draft, record(d, i, id))
      BY <3>5, <3>7 DEF Keeps
    <3> QED
      BY <1>3, <3>2, <3>7, <3>8 DEF get_by_key, d, row
  <2>4. CASE Meet(i)
    <3> DEFINE k == KeyOf(smm[i])
               row == pass.draft.order[k]
               e == IF Differ(row.roster, smm[i].roster)
                    THEN open_incident([pass.draft EXCEPT !.order[k].work = "MANUAL_REVIEW"],
                                       "MANUAL_REVIEW", row.id)
                    ELSE pass.draft
    <3>1. k \in Keys /\ i \in Numbers
      BY <2>4, EventKey DEF Meet, New, DiscoveryInv
    <3>2. row # NoOrder /\ Taken(record(e, i, row.id))
      BY <2>4 DEF Meet, get_by_key
    <3>3. /\ DataInv(e) /\ Keeps(pass.draft, e) /\ e.order[k].id = row.id
          /\ Reviewed(e, since)
          /\ Differ(row.roster, smm[i].roster) =>
                /\ e.order[k].work = "MANUAL_REVIEW"
                /\ <<"MANUAL_REVIEW", e.order[k].id>> \in e.incidents
      <4>1. CASE Differ(row.roster, smm[i].roster)
        <5>1. e = open_incident([pass.draft EXCEPT !.order[k].work = "MANUAL_REVIEW"],
                                "MANUAL_REVIEW", pass.draft.order[k].id)
          BY <4>1
        <5> HIDE DEF e, k
        <5>2. /\ DataInv(e) /\ Keeps(pass.draft, e) /\ Reviewed(e, since)
              /\ e.order[k].id = pass.draft.order[k].id
              /\ e.order[k].work = "MANUAL_REVIEW"
              /\ <<"MANUAL_REVIEW", e.order[k].id>> \in e.incidents
          BY <1>1, <3>1, <3>2, <5>1, ReviewKeeps
        <5> QED
          BY <5>2
      <4>2. CASE ~Differ(row.roster, smm[i].roster)
        BY <1>1, <4>2 DEF Keeps
      <4> QED
        BY <4>1, <4>2
    <3>4. e.order[k].roster = row.roster
      BY <3>1, <3>2, <3>3 DEF Keeps
    <3> HIDE DEF e
    <3>7. row.id \in OrderIds
      BY <1>1, <3>1, <3>2 DEF DataInv, Named
    <3>5. /\ DataInv(record(e, i, row.id)) /\ record(e, i, row.id).order = e.order
          /\ Reviewed(record(e, i, row.id), since)
      BY <3>1, <3>3, <3>4, <3>7, RecordKeeps DEF Differ
    <3>6. Keeps(pass.draft, record(e, i, row.id))
      BY <3>3, <3>5 DEF Keeps
    <3> QED
      BY <1>3, <3>2, <3>5, <3>6
  <2> QED
    BY <2>1, <2>2, <2>3, <2>4 DEF Event
<1>4. Keeps(db, draft)
  BY <1>1, <1>3, KeepsOnward
<1>5. pass'.draft = draft /\ PassType' /\ pass'.on = pass.on /\ pass'.now = pass.now
  BY <1>2, <1>3
<1>6. smm' = smm /\ clock' = clock /\ db' = db
  BY <1>2, <1>3
<1>7. DataInv(db)'
  BY <1>6 DEF DiscoveryInv, DataInv, Shape, Recorded, Told, Outdated, Named, Noted, Numbers
<1>8. DataInv(pass.draft)'
  BY <1>3, <1>5, <1>6 DEF DataInv, Shape, Recorded, Told, Outdated, Named, Noted, Numbers
<1>9. Keeps(db, pass.draft)'
  BY <1>4, <1>5, <1>6 DEF Keeps
<1>10. Reviewed(pass.draft, DOMAIN db.inbound)'
  BY <1>3, <1>5, <1>6 DEF Reviewed, Outdated, since
<1> QED
  BY <1>1, <1>5, <1>6, <1>7, <1>8, <1>9, <1>10 DEF DiscoveryInv

\* A start that is new to SMM leaves what was recorded of the others.
LEMMA PublishStep ==
    ASSUME DiscoveryInv, Publish
    PROVE  DiscoveryInv'
<1>1. PICK e \in StartsAt(clock) : smm' = Append(smm, e)
  BY DEF Publish
<1>2. e \in EventType
  BY DiscoveryAssumption DEF StartsAt, EventType, Rosters, DiscoveryInv
<1>3. /\ smm' \in Seq(EventType) /\ Len(smm)' <= MaxEvents
      /\ Numbers \subseteq Numbers'
      /\ \A i \in Numbers : smm'[i] = smm[i]
  BY <1>1, <1>2, DiscoveryAssumption DEF Publish, DiscoveryInv, Numbers
<1>4. db' = db /\ clock' = clock /\ pass' = pass /\ ~pass.on
  BY DEF Publish
<1>5. Shape(db)'
  BY <1>3, <1>4 DEF DiscoveryInv, DataInv, Shape
<1>6. \A i \in DOMAIN db.inbound : smm'[i] = smm[i]
  BY <1>3 DEF DiscoveryInv, DataInv, Shape
<1>7. Recorded(db)' /\ Told(db)' /\ Named(db)' /\ Noted(db)'
  BY <1>4, <1>6 DEF DiscoveryInv, DataInv, Recorded, Told, Outdated, Named, Noted, KeyOf
<1> QED
  BY <1>3, <1>4, <1>5, <1>7 DEF DiscoveryInv, DataInv, PassType

\* What another job writes into an order, closed or not, leaves what is known of
\* the events: no more is asked of the work state than its type.
LEMMA WrittenStep ==
    ASSUME DiscoveryInv, NEW k \in Keys, NEW new \in Rows,
           db.order[k] # NoOrder, new.life \in {db.order[k].life, "CLOSED"},
           new.id = db.order[k].id, new.roster = db.order[k].roster,
           new.started = db.order[k].started,
           ~pass.on, UNCHANGED <<smm, clock, pass>>,
           db' = [db EXCEPT !.order[k] = new]
    PROVE  DiscoveryInv' /\ Keeps(db, db')
<1>2. /\ db'.inbound = db.inbound /\ db'.incidents = db.incidents
      /\ db' = [order |-> db'.order, inbound |-> db'.inbound, incidents |-> db'.incidents]
      /\ db'.order = [db.order EXCEPT ![k] = new]
  BY DEF DiscoveryInv, DataInv, Shape
<1>10. /\ db.order \in [Keys -> Rows]
       /\ db.order[k].life \in {"OPEN", "CLOSED"}
  BY DEF DiscoveryInv, DataInv, Shape, Named
<1>3. /\ db'.order \in [Keys -> Rows]
      /\ db'.order[k] = new
      /\ \A j \in Keys : j # k => db'.order[j] = db.order[j]
  BY <1>2, <1>10
<1>4. \A j \in Keys : /\ db'.order[j].id = db.order[j].id
                      /\ db'.order[j].roster = db.order[j].roster
  BY <1>3
<1>5. new # NoOrder
  BY <1>10 DEF NoOrder
<1>6. Shape(db)'
  BY <1>2, <1>3 DEF DiscoveryInv, DataInv, Shape, Numbers
<1>7. Recorded(db)'
  BY <1>2, <1>4 DEF DiscoveryInv, DataInv, Shape, Recorded
<1>8. Told(db)'
  <2>1. \A i \in DOMAIN db.inbound :
          LET j == KeyOf(smm[i]) IN
          j \in Keys /\ (Outdated(db, i) => <<"MANUAL_REVIEW", db.order[j].id>> \in db.incidents)
    BY DEF DiscoveryInv, DataInv, Shape, Told
  <2>2. \A i \in DOMAIN db.inbound : Outdated(db, i)' => Outdated(db, i)
    BY <1>2, <1>4, <2>1 DEF Outdated
  <2> QED
    BY <1>2, <1>4, <2>1, <2>2 DEF Told
<1>9. Keeps(db, db')
  BY <1>3, <1>5 DEF Keeps
<1>15. Named(db)' /\ Noted(db)'
  <2>1. \A j \in Keys : db'.order[j] # NoOrder =>
            /\ db.order[j] # NoOrder /\ db'.order[j].id = db.order[j].id
            /\ db'.order[j].life \in {db.order[j].life, "CLOSED"}
    BY <1>3, <1>10
  <2>2. Named(db) /\ Noted(db)
    BY DEF DiscoveryInv, DataInv
  <2>3. Named(db')
    <3> DEFINE d == db
               e == db'
    <3>1. /\ Named(d)
          /\ \A j \in Keys : e.order[j] # NoOrder =>
               /\ d.order[j] # NoOrder /\ e.order[j].id = d.order[j].id
               /\ e.order[j].life \in {d.order[j].life, "CLOSED"}
      BY <2>1, <2>2
    <3> HIDE DEF d, e
    <3>2. Named(e)
      BY <3>1, NameKept
    <3> QED
      BY <3>2 DEF e
  <2>4. Named(db)'
    BY <2>3 DEF Named
  <2> QED
    BY <1>2, <2>2, <2>4 DEF Noted
<1> QED
  BY <1>6, <1>7, <1>8, <1>9, <1>15 DEF DiscoveryInv, DataInv, PassType

LEMMA CloseStep ==
    ASSUME DiscoveryInv, NEW k \in Keys, Close(k)
    PROVE  DiscoveryInv' /\ Keeps(db, db')
<1> DEFINE row == db.order[k]
           new == [row EXCEPT !.life = "CLOSED", !.work = "CLOSED"]
<1>1. /\ ~pass.on /\ UNCHANGED <<smm, clock, pass>> /\ row # NoOrder
      /\ db' = [db EXCEPT !.order[k].life = "CLOSED", !.order[k].work = "CLOSED"]
  BY DEF Close
<1>2. row \in Rows /\ db.order \in [Keys -> Rows]
      /\ db = [order |-> db.order, inbound |-> db.inbound, incidents |-> db.incidents]
  BY DEF DiscoveryInv, DataInv, Shape
<1>3. /\ new \in Rows
      /\ new.id = row.id /\ new.roster = row.roster /\ new.life = "CLOSED"
      /\ new.started = row.started
  BY <1>2 DEF Rows
<1>4. db' = [db EXCEPT !.order[k] = new]
  BY <1>1, <1>2
<1> HIDE DEF new
<1> QED
  BY <1>1, <1>3, <1>4, WrittenStep

LEMMA VerifyReleaseStep ==
    ASSUME DiscoveryInv, NEW k \in Keys, VerifyRelease(k)
    PROVE  DiscoveryInv' /\ Keeps(db, db')
<1> DEFINE row == db.order[k]
           new == [row EXCEPT !.work = "RELEASE_VERIFY_PENDING"]
<1>1. /\ ~pass.on /\ UNCHANGED <<smm, clock, pass>> /\ row.life = "OPEN"
      /\ db' = [db EXCEPT !.order[k].work = "RELEASE_VERIFY_PENDING"]
  BY DEF VerifyRelease
<1>2. row \in Rows
  BY DEF DiscoveryInv, DataInv, Shape
<1>3. /\ new \in Rows /\ row # NoOrder
      /\ new.id = row.id /\ new.roster = row.roster /\ new.life = row.life
      /\ new.started = row.started
  BY <1>1, <1>2 DEF Rows, NoOrder
<1>4. db' = [db EXCEPT !.order[k] = new]
  BY <1>1
<1> HIDE DEF new
<1> QED
  BY <1>1, <1>3, <1>4, WrittenStep

\* What is left alone stays right.
LEMMA DiscoveryKept ==
    ASSUME DiscoveryInv, UNCHANGED <<smm, db, pass>>, clock' \in 0 .. MaxClock
    PROVE  DiscoveryInv' /\ (db' = db \/ Keeps(db, db'))
<1>1. DataInv(db)'
  <2>1. DataInv(db)
    BY DEF DiscoveryInv
  <2> QED
    BY <2>1 DEF DataInv, Shape, Recorded, Told, Outdated, Named, Noted, Numbers
<1>2. pass.on => DataInv(pass.draft)'
  <2>1. pass.on => DataInv(pass.draft)
    BY DEF DiscoveryInv
  <2> QED
    BY <2>1 DEF DataInv, Shape, Recorded, Told, Outdated, Named, Noted, Numbers
<1>3. pass.on => /\ Keeps(db', pass'.draft)
                 /\ Reviewed(pass.draft, DOMAIN db.inbound)'
  BY DEF DiscoveryInv, Keeps, Reviewed, Outdated
<1> QED
  BY <1>1, <1>2, <1>3 DEF DiscoveryInv, PassType, Keeps

LEMMA DiscoveryStep ==
    ASSUME DiscoveryInv, [Next]_vars
    PROVE  DiscoveryInv' /\ (db' = db \/ Keeps(db, db'))
<1>1. CASE Publish
  BY <1>1, PublishStep DEF Publish
<1>2. ASSUME NEW i \in Numbers, Event(i)
      PROVE  DiscoveryInv' /\ db' = db
  BY <1>2, EventStep
<1>3. ASSUME NEW k \in Keys, Close(k)
      PROVE  DiscoveryInv' /\ Keeps(db, db')
  BY <1>3, CloseStep
<1>11. ASSUME NEW k \in Keys, VerifyRelease(k)
       PROVE  DiscoveryInv' /\ Keeps(db, db')
  BY <1>11, VerifyReleaseStep
<1>4. CASE CommitPass
  <2>1. db' = pass.draft /\ pass' = NoPass /\ UNCHANGED <<smm, clock>> /\ pass.on
    BY <1>4 DEF CommitPass
  <2>2. PassType' /\ pass'.on = FALSE
    BY <2>1 DEF PassType, NoPass
  <2>3. DataInv(db)'
    BY <2>1 DEF DiscoveryInv, DataInv, Shape, Recorded, Told, Outdated, Named, Noted, Numbers
  <2>4. Keeps(db, db')
    BY <2>1 DEF DiscoveryInv
  <2> QED
    BY <2>1, <2>2, <2>3, <2>4 DEF DiscoveryInv
<1>5. CASE BeginPass
  <2>1. /\ pass'.on /\ pass'.now = clock /\ pass'.draft = db /\ PassType'
        /\ UNCHANGED <<smm, clock, db>>
    BY <1>5 DEF BeginPass, PassType
  <2>2. DataInv(db)'
    BY <2>1 DEF DiscoveryInv, DataInv, Shape, Recorded, Told, Outdated, Named, Noted, Numbers
  <2>3. Keeps(db, db)
    BY DEF Keeps
  <2>4. Reviewed(db, DOMAIN db.inbound)
    BY DEF Reviewed
  <2> QED
    BY <2>1, <2>2, <2>3, <2>4 DEF DiscoveryInv, Keeps, Reviewed, Outdated
<1>6. CASE Coverage
  <2>1. /\ db' = open_incident(db, "COVERAGE_MISMATCH", "system")
        /\ ~pass.on /\ UNCHANGED <<smm, clock, pass>>
    BY <1>6 DEF Coverage
  <2>2. DataInv(db') /\ db'.order = db.order
    BY <2>1, IncidentKeeps DEF DiscoveryInv, Incidents
  <2>3. DataInv(db)'
    BY <2>1, <2>2 DEF DataInv, Shape, Recorded, Told, Outdated, Named, Noted, Numbers
  <2> QED
    BY <2>1, <2>2, <2>3 DEF DiscoveryInv, Keeps, PassType
<1>7. CASE Crash
  <2>1. pass' = NoPass /\ UNCHANGED <<smm, clock, db>>
    BY <1>7 DEF Crash
  <2>2. PassType' /\ pass'.on = FALSE
    BY <2>1 DEF PassType, NoPass
  <2>3. DataInv(db)'
    BY <2>1 DEF DiscoveryInv, DataInv, Shape, Recorded, Told, Outdated, Named, Noted, Numbers
  <2> QED
    BY <2>1, <2>2, <2>3 DEF DiscoveryInv
<1>8. CASE Tick
  <2>1. /\ clock' \in 0 .. MaxClock
        /\ UNCHANGED <<smm, db, pass>> /\ ~pass.on
    BY <1>8, DiscoveryAssumption DEF Tick, DiscoveryInv
  <2> QED
    BY <2>1, DiscoveryKept
<1>9. CASE UNCHANGED <<smm, clock, db, pass>>
  BY <1>9, DiscoveryKept DEF DiscoveryInv
<1>10. CASE BeginWalk \/ WalkPage \/ UNCHANGED vars
  BY <1>9, <1>10 DEF BeginWalk, WalkPage, vars
<1> QED
  BY <1>1, <1>2, <1>3, <1>4, <1>5, <1>6, <1>7, <1>8, <1>10, <1>11 DEF Next, Event

-----------------------------------------------------------------------------
(* The walk.  Ids are ordered; a page holds the orders of lowest rank.      *)

LEMMA BeforeIsOrder ==
    /\ \A a \in OrderIds : Before(NoId, a) /\ ~Before(a, a)
    /\ \A a, b \in OrderIds : a = b \/ Before(a, b) \/ Before(b, a)
    /\ \A a, b, c \in OrderIds \cup {NoId} : Before(a, b) /\ Before(b, c) => Before(a, c)
<1>1. \A a \in OrderIds : a[1] \in Int /\ a[2] \in Int /\ a[1] >= 0
  <2>1. Tails \subseteq Nat /\ MaxClock \in Nat
    BY DiscoveryAssumption
  <2> TAKE a \in OrderIds
  <2>2. a[1] \in 0 .. MaxClock /\ a[2] \in Tails
    BY DEF OrderIds
  <2>3. a[2] \in Nat
    BY <2>1, <2>2
  <2> QED
    BY <2>1, <2>2, <2>3
<1>2. \A a, b \in OrderIds : a[1] = b[1] /\ a[2] = b[2] => a = b
  BY DEF OrderIds
<1>3. NoId[1] = -1 /\ NoId[2] = -1
  BY DEF NoId
<1> QED
  BY <1>1, <1>2, <1>3 DEF Before

LEMMA LeastNatural ==
    ASSUME NEW T \in SUBSET Nat, T # {}
    PROVE  \E n \in T : \A m \in T : n <= m
<1>1. PICK n \in T : \A m \in T : <<m, n>> \notin OpToRel(<, Nat)
  BY NatLessThanWellFounded, WFMin
<1>2. \A m \in T : ~(m < n)
  BY <1>1 DEF OpToRel
<1>3. \A m \in T : m \in Nat
  OBVIOUS
<1> QED
  BY <1>2, <1>3

LEMMA KeysAreFinite == IsFiniteSet(Keys)
<1>1. IsFiniteSet(Rounds)
  BY FS_Singleton DEF Rounds
<1> QED
  BY <1>1, DiscoveryAssumption, FS_Product DEF Keys

\* what is left to read, and an order's place in it
Rest(cutoff, cursor) == {k \in OpenSince(cutoff) : After(db.order[k].id, cursor)}
Below(S, k) == {j \in S : Before(db.order[j].id, db.order[k].id)}
Rank(S, k) == Cardinality(Below(S, k))

LEMMA RestIsMade ==
    ASSUME DataInv(db), NEW cutoff, NEW cursor
    PROVE  /\ Rest(cutoff, cursor) \subseteq Keys
           /\ \A k \in Rest(cutoff, cursor) :
                 db.order[k] # NoOrder /\ db.order[k].id \in OrderIds
<1>1. \A k \in Keys : db.order[k].life = "OPEN" => db.order[k] # NoOrder
  BY DEF NoOrder
<1> QED
  BY <1>1 DEF Rest, OpenSince, DataInv, Named

LEMMA RankGrows ==
    ASSUME NEW S \in SUBSET Keys, \A k \in S : db.order[k].id \in OrderIds,
           NEW j \in S, NEW k \in S
    PROVE  /\ Rank(S, j) \in Nat
           /\ Before(db.order[j].id, db.order[k].id) => Rank(S, j) < Rank(S, k)
<1>1. IsFiniteSet(Below(S, j)) /\ IsFiniteSet(Below(S, k))
  BY KeysAreFinite, FS_Subset DEF Below
<1>2. Rank(S, j) \in Nat /\ Rank(S, k) \in Nat
  BY <1>1, FS_CardinalityType DEF Rank
<1>3. ASSUME Before(db.order[j].id, db.order[k].id)
      PROVE  Rank(S, j) < Rank(S, k)
  <2>1. j \notin Below(S, j)
    BY BeforeIsOrder DEF Below
  <2>2. Below(S, j) \cup {j} \subseteq Below(S, k)
    BY <1>3, BeforeIsOrder DEF Below
  <2>3. Cardinality(Below(S, j) \cup {j}) = Rank(S, j) + 1
    BY <1>1, <2>1, FS_AddElement DEF Rank
  <2>4. Cardinality(Below(S, j) \cup {j}) <= Rank(S, k)
    BY <1>1, <2>2, FS_Subset DEF Rank
  <2> QED
    BY <1>2, <2>3, <2>4
<1> QED
  BY <1>2, <1>3

\* A page has a last order, what it leaves comes after it, and it leaves
\* nothing when it is not full.
LEMMA PageIsNext ==
    ASSUME DataInv(db), NEW cutoff, NEW cursor
    PROVE  LET page == list_open_since(cutoff, cursor)
               rest == Rest(cutoff, cursor) IN
           /\ page \subseteq rest
           /\ \A k \in rest \ page, j \in page : Before(db.order[j].id, db.order[k].id)
           /\ Cardinality(page) < PageSize => page = rest
           /\ page # {} => \E last \in page : \A j \in page :
                 ~Before(db.order[last].id, db.order[j].id)
<1> DEFINE page == list_open_since(cutoff, cursor)
           rest == Rest(cutoff, cursor)
<1>1. rest \in SUBSET Keys /\ \A k \in rest : db.order[k].id \in OrderIds
  BY RestIsMade
<1>2. page = {k \in rest : Rank(rest, k) < PageSize}
  BY DEF list_open_since, Rest, Rank, Below
<1>3. \A j, k \in rest : /\ Rank(rest, j) \in Nat
                         /\ Before(db.order[j].id, db.order[k].id) =>
                               Rank(rest, j) < Rank(rest, k)
  <2> HIDE DEF rest
  <2> QED
    BY <1>1, RankGrows
<1>4. IsFiniteSet(page)
  BY <1>1, <1>2, KeysAreFinite, FS_Subset
<1>5. \A j, k \in rest : db.order[j].id = db.order[k].id => j = k
  BY RestIsMade DEF DataInv, Named
<1>6. PageSize \in Nat
  BY DiscoveryAssumption
<1> HIDE DEF page, rest
<1>7. \A k \in rest \ page, j \in page : Before(db.order[j].id, db.order[k].id)
  <2> TAKE k \in rest \ page, j \in page
  <2>1. j \in rest /\ k \in rest /\ Rank(rest, j) < PageSize /\ ~(Rank(rest, k) < PageSize)
    BY <1>2
  <2>2. ~Before(db.order[k].id, db.order[j].id)
    BY <1>3, <1>6, <2>1
  <2>3. db.order[j].id # db.order[k].id
    BY <1>5, <2>1
  <2> QED
    BY <1>1, <2>1, <2>2, <2>3, BeforeIsOrder
<1>8. ASSUME Cardinality(page) < PageSize, page # rest
      PROVE  FALSE
  <2> DEFINE T == {Rank(rest, k) : k \in rest \ page}
  <2>1. T \in SUBSET Nat /\ T # {}
    BY <1>2, <1>3, <1>8
  <2>2. PICK n \in T : \A m \in T : n <= m
    <3> HIDE DEF T
    <3> QED
      BY <2>1, LeastNatural
  <2>3. PICK k \in rest \ page : n = Rank(rest, k)
    BY <2>2
  <2>4. \A j \in Below(rest, k) : j \in page
    <3> SUFFICES ASSUME NEW j \in Below(rest, k), j \notin page
                 PROVE  FALSE
      OBVIOUS
    <3>1. j \in rest /\ Rank(rest, j) < n
      BY <1>3, <2>3 DEF Below
    <3>2. Rank(rest, j) \in T /\ n \in Nat
      BY <3>1, <2>1, <2>2
    <3> QED
      BY <1>3, <2>2, <3>1, <3>2
  <2>5. Rank(rest, k) <= Cardinality(page)
    BY <1>4, <2>4, FS_Subset DEF Rank
  <2>6. Cardinality(page) \in Nat
    BY <1>4, FS_CardinalityType
  <2>7. Rank(rest, k) < PageSize
    BY <1>3, <1>6, <1>8, <2>3, <2>5, <2>6
  <2> QED
    BY <1>2, <2>3, <2>7
<1>9. ASSUME page # {}
      PROVE  \E last \in page : \A j \in page : ~Before(db.order[last].id, db.order[j].id)
  <2> DEFINE T == {PageSize - Rank(rest, k) : k \in page}
  <2>1. T \in SUBSET Nat /\ T # {}
    BY <1>2, <1>3, <1>6, <1>9
  <2>2. PICK n \in T : \A m \in T : n <= m
    <3> HIDE DEF T
    <3> QED
      BY <2>1, LeastNatural
  <2>3. PICK last \in page : n = PageSize - Rank(rest, last)
    BY <2>2
  <2>4. \A j \in page : n <= PageSize - Rank(rest, j)
    BY <2>2
  <2>5. \A j \in page : ~Before(db.order[last].id, db.order[j].id)
    BY <1>2, <1>3, <1>6, <2>3, <2>4
  <2> QED
    BY <2>5
<1>10. page \subseteq rest
  BY <1>2
<1> QED
  BY <1>7, <1>8, <1>9, <1>10 DEF page, rest

\* What the walk has read is at its cursor or before; an order that was there
\* when it began and is still open has been read or comes after it.
WalkInv ==
    /\ walk = [on |-> walk.on, cutoff |-> walk.cutoff, cursor |-> walk.cursor,
               seen |-> walk.seen, began |-> walk.began]
    /\ walk.on \in BOOLEAN
    /\ walk.cursor \in OrderIds \cup {NoId}
    /\ walk.seen \in Seq(SUBSET Keys)
    /\ \A i \in DOMAIN walk.seen : \A k \in walk.seen[i] :
          db.order[k] # NoOrder /\ ~Before(walk.cursor, db.order[k].id)
    /\ \A i, j \in DOMAIN walk.seen : i # j => walk.seen[i] \cap walk.seen[j] = {}
    /\ walk.began \subseteq Keys
    /\ \A k \in walk.began :
          /\ db.order[k] # NoOrder /\ k[1] \in Scope
          /\ InWindow(db.order[k].started, walk.cutoff)
          /\ db.order[k].life = "OPEN" =>
                \/ \E i \in DOMAIN walk.seen : k \in walk.seen[i]
                \/ walk.on /\ Before(walk.cursor, db.order[k].id)

LEMMA WalkInit == Init => WalkInv
  BY DEF Init, NoWalk, WalkInv

\* Orders that are closed or made between the pages disturb nothing.
LEMMA WalkIsKept ==
    ASSUME WalkInv, DataInv(db), db' = db \/ Keeps(db, db'),
           walk' = walk
    PROVE  WalkInv'
<1>1. CASE db' = db
  BY <1>1 DEF WalkInv
<1>2. CASE Keeps(db, db')
  <2>1. \A k \in Keys : db.order[k] # NoOrder =>
           /\ db'.order[k] # NoOrder
           /\ db'.order[k].id = db.order[k].id
           /\ db'.order[k].started = db.order[k].started
           /\ db'.order[k].life = "OPEN" => db.order[k].life = "OPEN"
    BY <1>2 DEF Keeps, DataInv, Named
  <2>2. \A i \in DOMAIN walk.seen : walk.seen[i] \subseteq Keys
    BY DEF WalkInv
  <2>3. \A i \in DOMAIN walk.seen : \A k \in walk.seen[i] :
           db'.order[k] # NoOrder /\ ~Before(walk.cursor, db'.order[k].id)
    BY <2>1, <2>2 DEF WalkInv
  <2>4. \A k \in walk.began :
          /\ db'.order[k] # NoOrder /\ k[1] \in Scope
          /\ InWindow(db'.order[k].started, walk.cutoff)
          /\ db'.order[k].life = "OPEN" =>
                \/ \E i \in DOMAIN walk.seen : k \in walk.seen[i]
                \/ walk.on /\ Before(walk.cursor, db'.order[k].id)
    BY <2>1 DEF WalkInv
  <2> QED
    BY <2>3, <2>4 DEF WalkInv
<1> QED
  BY <1>1, <1>2

LEMMA BeginWalkStep ==
    ASSUME DataInv(db), BeginWalk
    PROVE  WalkInv'
<1> DEFINE cutoff == recent_cutoff(clock)
           began == {k \in OpenSince(cutoff) : k[1] \in Scope}
<1>1. /\ walk' = [on |-> TRUE, cutoff |-> cutoff, cursor |-> NoId, seen |-> <<>>,
                  began |-> began]
      /\ db' = db
  BY DEF BeginWalk
<1>2. \A k \in began :
         /\ k \in Keys /\ k[1] \in Scope /\ InWindow(db.order[k].started, cutoff)
         /\ db.order[k] # NoOrder /\ Before(NoId, db.order[k].id)
  <2>1. \A k \in Keys : db.order[k].life = "OPEN" => db.order[k] # NoOrder
    BY DEF NoOrder
  <2> QED
    BY <2>1, BeforeIsOrder DEF OpenSince, DataInv, Named
<1> HIDE DEF began, cutoff
<1> QED
  BY <1>1, <1>2 DEF WalkInv

LEMMA WalkPageStep ==
    ASSUME DataInv(db), WalkInv, WalkPage
    PROVE  WalkInv'
<1> DEFINE page == list_open_since(walk.cutoff, walk.cursor)
           rest == Rest(walk.cutoff, walk.cursor)
           last == {k \in page : ~\E j \in page : Before(db.order[k].id, db.order[j].id)}
           end == CHOOSE k \in last : TRUE
           cursor == IF page = {} THEN walk.cursor ELSE db.order[end].id
           read == {k \in page : k[1] \in Scope}
<1>1. /\ walk' = [walk EXCEPT !.on = Cardinality(page) >= PageSize, !.cursor = cursor,
                              !.seen = Append(@, read)]
      /\ db' = db /\ walk.on
  BY DEF WalkPage
<1>2. /\ page \subseteq rest
      /\ \A k \in rest \ page, j \in page : Before(db.order[j].id, db.order[k].id)
      /\ Cardinality(page) < PageSize => page = rest
      /\ page # {} => last # {}
  BY PageIsNext
<1>3. rest \subseteq Keys /\ \A k \in rest : db.order[k] # NoOrder /\ db.order[k].id \in OrderIds
  BY RestIsMade
<1>4. page # {} => end \in page /\ \A j \in page : ~Before(db.order[end].id, db.order[j].id)
  BY <1>2
<1>5. \A k \in rest : Before(walk.cursor, db.order[k].id)
  BY DEF Rest, After
<1>6. \A k \in walk.began : db.order[k].life = "OPEN" /\ Before(walk.cursor, db.order[k].id)
                            => k \in rest
  BY DEF Rest, OpenSince, After, WalkInv
<1>7. IsFiniteSet(page)
  BY <1>2, <1>3, KeysAreFinite, FS_Subset
<1>8. Cardinality(page) \in Nat /\ PageSize \in Nat
  BY <1>7, FS_CardinalityType, DiscoveryAssumption
<1> HIDE DEF page, rest, last, end
<1>9. /\ cursor \in OrderIds \cup {NoId}
      /\ \A k \in Keys : db.order[k] # NoOrder /\ ~Before(walk.cursor, db.order[k].id)
                         => ~Before(cursor, db.order[k].id)
      /\ \A k \in page : ~Before(cursor, db.order[k].id)
      /\ \A k \in rest \ page : Before(cursor, db.order[k].id)
  <2>1. CASE page = {}
    BY <1>5, <2>1 DEF WalkInv
  <2>2. CASE page # {}
    <3>1. /\ cursor = db.order[end].id /\ end \in page /\ end \in rest
          /\ cursor \in OrderIds /\ Before(walk.cursor, cursor)
      BY <1>2, <1>3, <1>4, <1>5, <2>2
    <3>2. \A k \in Keys : db.order[k] # NoOrder => db.order[k].id \in OrderIds
      BY DEF DataInv, Named
    <3>3. walk.cursor \in OrderIds \cup {NoId}
      BY DEF WalkInv
    <3>4. \A k \in Keys : db.order[k] # NoOrder /\ ~Before(walk.cursor, db.order[k].id)
                         => ~Before(cursor, db.order[k].id)
      <4> HIDE DEF cursor
      <4> QED
        BY <3>1, <3>2, <3>3, BeforeIsOrder
    <3> QED
      BY <1>2, <1>4, <3>1, <3>4
  <2> QED
    BY <2>1, <2>2
<1> HIDE DEF cursor
<1>10. read \subseteq page /\ read \in SUBSET Keys
  BY <1>2, <1>3
<1>11. /\ walk'.on = (Cardinality(page) >= PageSize) /\ walk'.cursor = cursor
       /\ walk'.cutoff = walk.cutoff /\ walk'.began = walk.began
       /\ walk'.seen = Append(walk.seen, read)
       /\ walk' = [on |-> walk'.on, cutoff |-> walk'.cutoff, cursor |-> walk'.cursor,
                   seen |-> walk'.seen, began |-> walk'.began]
  BY <1>1 DEF WalkInv
<1> DEFINE n == Len(walk.seen) + 1
<1>12. /\ walk.seen \in Seq(SUBSET Keys) /\ walk'.seen \in Seq(SUBSET Keys)
       /\ DOMAIN walk.seen = 1 .. Len(walk.seen)
       /\ DOMAIN walk'.seen = DOMAIN walk.seen \cup {n} /\ n \notin DOMAIN walk.seen
       /\ walk'.seen[n] = read
       /\ \A i \in DOMAIN walk.seen : walk'.seen[i] = walk.seen[i]
  BY <1>10, <1>11 DEF WalkInv
<1> HIDE DEF n, read
<1>13. \A i \in DOMAIN walk.seen : \A k \in walk.seen[i] :
          k \in Keys /\ db.order[k] # NoOrder /\ ~Before(walk.cursor, db.order[k].id)
  BY <1>12 DEF WalkInv
<1>14. \A i \in DOMAIN walk'.seen : \A k \in walk'.seen[i] :
          db.order[k] # NoOrder /\ ~Before(cursor, db.order[k].id)
  BY <1>2, <1>3, <1>9, <1>10, <1>12, <1>13
<1>15. \A i \in DOMAIN walk.seen : walk.seen[i] \cap read = {}
  BY <1>2, <1>5, <1>10, <1>13
<1>16. \A i, j \in DOMAIN walk'.seen : i # j => walk'.seen[i] \cap walk'.seen[j] = {}
  <2>1. \A i, j \in DOMAIN walk.seen : i # j => walk.seen[i] \cap walk.seen[j] = {}
    BY DEF WalkInv
  <2> QED
    BY <1>12, <1>15, <2>1
<1>17. \A k \in walk.began :
          db.order[k].life = "OPEN" =>
             \/ \E i \in DOMAIN walk'.seen : k \in walk'.seen[i]
             \/ walk'.on /\ Before(cursor, db.order[k].id)
  <2> SUFFICES ASSUME NEW k \in walk.began, db.order[k].life = "OPEN"
               PROVE  \/ \E i \in DOMAIN walk'.seen : k \in walk'.seen[i]
                      \/ walk'.on /\ Before(cursor, db.order[k].id)
    OBVIOUS
  <2>1. k[1] \in Scope
    BY DEF WalkInv
  <2>2. CASE \E i \in DOMAIN walk.seen : k \in walk.seen[i]
    BY <1>12, <2>2
  <2>3. CASE k \in page
    BY <1>12, <2>1, <2>3 DEF read
  <2>4. CASE k \in rest \ page
    <3>1. ~(Cardinality(page) < PageSize)
      BY <1>2, <2>4
    <3>2. Cardinality(page) >= PageSize
      BY <1>8, <3>1
    <3> QED
      BY <1>9, <1>11, <2>4, <3>2
  <2>5. (\E i \in DOMAIN walk.seen : k \in walk.seen[i]) \/ k \in rest
    BY <1>6 DEF WalkInv
  <2> QED
    BY <2>2, <2>3, <2>4, <2>5
<1>18. /\ walk'.began \subseteq Keys
       /\ \A k \in walk'.began : /\ db.order[k] # NoOrder /\ k[1] \in Scope
                                 /\ InWindow(db.order[k].started, walk'.cutoff)
  BY <1>11 DEF WalkInv
<1>19. walk'.on \in BOOLEAN
  BY <1>8, <1>11
<1> QED
  BY <1>1, <1>9, <1>11, <1>12, <1>14, <1>16, <1>17, <1>18, <1>19 DEF WalkInv

LEMMA WalkStep ==
    ASSUME DiscoveryInv, WalkInv, [Next]_vars
    PROVE  WalkInv'
<1>1. DataInv(db) /\ (db' = db \/ Keeps(db, db'))
  BY DiscoveryStep DEF DiscoveryInv
<1>2. CASE BeginWalk
  BY <1>1, <1>2, BeginWalkStep
<1>3. CASE WalkPage
  BY <1>1, <1>3, WalkPageStep
<1>4. CASE walk' = walk
  BY <1>1, <1>4, WalkIsKept
<1> QED
  BY <1>2, <1>3, <1>4
     DEF Next, vars, Publish, Tick, Crash, BeginPass, CommitPass, PassOver,
         NoIdentity, Create, Meet, Taken, Close, VerifyRelease, Coverage

-----------------------------------------------------------------------------
LEMMA DiscoverySafe == Spec => []DiscoveryInv
  BY DiscoveryInit, DiscoveryStep, PTL DEF Spec

LEMMA WalkSafe == Spec => []WalkInv
  BY DiscoverySafe, WalkInit, WalkStep, PTL DEF Spec

\* The tables keep their types, in the draft of a pass as in what is committed,
\* and a walk stands at an order's id.
THEOREM DiscoveryTypes == Spec => []TypeOK
<1>1. \A d : DataInv(d) => d \in DbType
  <2> SUFFICES ASSUME NEW d, DataInv(d) PROVE d \in DbType
    OBVIOUS
  <2>1. /\ d = [order |-> d.order, inbound |-> d.inbound, incidents |-> d.incidents]
        /\ d.order \in [Keys -> Rows]
        /\ DOMAIN d.inbound \in SUBSET Numbers
        /\ d.inbound \in [DOMAIN d.inbound -> OrderIds \cup {NoId}]
        /\ d.incidents \in SUBSET Incidents
    BY DEF DataInv, Shape, Noted
  <2>2. d.inbound \in UNION {[ids -> OrderIds \cup {NoId}] : ids \in SUBSET Numbers}
    BY <2>1
  <2> QED
    BY <2>1, <2>2 DEF DbType
<1>2. DiscoveryInv /\ WalkInv => TypeOK
  BY <1>1 DEF DiscoveryInv, WalkInv, TypeOK
<1> QED
  BY <1>2, DiscoverySafe, WalkSafe, PTL

\* Whatever is closed or made between its pages, a walk reads each order that
\* was there when it began and is still open, and none twice (services 67-91).
THEOREM WalksMissNone == Spec => []WalkMissesNone
<1>1. WalkInv => WalkMissesNone
  BY DEF WalkInv, WalkMissesNone
<1> QED
  BY <1>1, WalkSafe, PTL

\* No event is set down as done whose order was not kept, whatever breaks the
\* pass off (set_default_hold 52-96).
THEOREM RecordsAreKept == Spec => []RecordedIsKept
<1>1. DiscoveryInv => RecordedIsKept
  BY DEF DiscoveryInv, DataInv, Recorded, RecordedIsKept
<1> QED
  BY <1>1, DiscoverySafe, PTL

\* Only the commit of a pass records events, and its draft has put under review
\* what they change.
LEMMA CommittedReview ==
    ASSUME DiscoveryInv, [Next]_vars, db' # db,
           NEW i \in DOMAIN db'.inbound, i \notin DOMAIN db.inbound,
           Outdated(db', i)
    PROVE  db'.order[KeyOf(smm[i])].work = "MANUAL_REVIEW"
<1>1. CASE CommitPass
  BY <1>1 DEF CommitPass, DiscoveryInv, Reviewed
<1>2. CASE Coverage
  BY <1>2 DEF Coverage, open_incident, DiscoveryInv, DataInv, Shape
<1>3. ASSUME NEW k \in Keys, Close(k) \/ VerifyRelease(k)
      PROVE  db'.inbound = db.inbound
  BY <1>3 DEF Close, VerifyRelease, DiscoveryInv, DataInv, Shape
<1> QED
  BY <1>1, <1>2, <1>3
     DEF Next, vars, Publish, Tick, Crash, BeginPass, PassOver, NoIdentity, Create,
         Meet, Taken, BeginWalk, WalkPage

\* With the commit that records another wafer list the order is under review,
\* and its incident is there from then on, whatever becomes of the review
\* (set_default_hold 86-96).
THEOREM RosterChangesAreKept == Spec => RosterChangeIsKept
<1>1. ASSUME DiscoveryInv, [Next]_vars, db' # db,
             NEW i \in DOMAIN db'.inbound, Outdated(db', i)
      PROVE  /\ <<"MANUAL_REVIEW", db'.order[KeyOf(smm[i])].id>> \in db'.incidents
             /\ i \notin DOMAIN db.inbound =>
                   db'.order[KeyOf(smm[i])].work = "MANUAL_REVIEW"
  <2>1. smm' = smm
    BY <1>1 DEF Next, vars, Publish, Tick, Crash, BeginPass, CommitPass, PassOver,
                NoIdentity, Create, Meet, Taken, Close, VerifyRelease, BeginWalk,
                WalkPage, Coverage
  <2>2. DataInv(db)'
    BY <1>1, DiscoveryStep DEF DiscoveryInv
  <2>3. Told(db')
    BY <2>1, <2>2 DEF DataInv, Told, Outdated
  <2> QED
    BY <1>1, <2>3, CommittedReview DEF Told
<1>2. DiscoveryInv /\ [Next]_vars =>
        [\A i \in DOMAIN db'.inbound :
           LET row == db'.order[KeyOf(smm[i])] IN
           /\ db'.inbound[i] # NoId
           /\ row.roster # smm[i].roster /\ {} \notin {row.roster, smm[i].roster}
           =>
               /\ <<"MANUAL_REVIEW", row.id>> \in db'.incidents
               /\ i \notin DOMAIN db.inbound => row.work = "MANUAL_REVIEW"]_db
  BY <1>1 DEF Outdated
<1> QED
  BY <1>2, DiscoverySafe, PTL DEF Spec, RosterChangeIsKept

\* An execution is never made twice and never opened again (A1-06).
THEOREM OrdersAreMadeOnce == Spec => OrderIsMadeOnce
<1>1. DiscoveryInv /\ [Next]_vars =>
        [\A k \in Keys :
           LET row == db.order[k] IN
           row # NoOrder => /\ db'.order[k].id = row.id
                            /\ db'.order[k].roster = row.roster
                            /\ row.life = "CLOSED" => db'.order[k].life = "CLOSED"]_db
  BY DiscoveryStep DEF Keeps
<1> QED
  BY <1>1, DiscoverySafe, PTL DEF Spec, OrderIsMadeOnce
=============================================================================
