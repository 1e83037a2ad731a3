--------------------------- MODULE TwinStoresProofs ---------------------------
(***************************************************************************)
(* The two stores have the same content and answer every call alike, for   *)
(* any number of orders, wafers, incidents, attempts and generations, and  *)
(* any number of calls in a unit: TwinInv is inductive, and the properties *)
(* of TwinStores follow from it.                                           *)
(***************************************************************************)
EXTENDS TwinStoresInv, JournalProofs

-----------------------------------------------------------------------------
(* Dictionaries and rows *)

\* d is the database c in which order o has the row s
Wrote(c, d, o, s) ==
    /\ IsDb(d)
    /\ DOMAIN d.rows = DOMAIN c.rows \cup {o}
    /\ d.rows[o] = s
    /\ \A p \in DOMAIN c.rows \ {o} : d.rows[p] = c.rows[p]
    /\ d.incidents = c.incidents /\ d.inbound = c.inbound
    /\ d.mode = c.mode /\ d.ver = c.ver /\ d.beat = c.beat

\* The calls of SQLite that write an order write its row and no other.
LEMMA RowsWritten ==
    ASSUME NEW c, IsDb(c), NEW o \in DOMAIN c.rows, c.rows[o] \in OrderRows
    PROVE  LET r == c.rows[o] IN
           /\ \A life : Wrote(c, sql_update(c, o, life), o,
                              [r EXCEPT !.life = life, !.ver = @ + 1])
           /\ \A w : Wrote(c, sql_try_claim(c, o, w), o,
                           [r EXCEPT !.owner = w, !.ver = @ + 1])
           /\ \A ws : Wrote(c, sql_replace_roster(c, o, ws), o,
                            [r EXCEPT !.wafers = [w \in ws |-> ""]])
           /\ \A w, result : Wrote(c, sql_upsert_ai_result(c, o, w, result), o,
                                   [r EXCEPT !.wafers = Put(@, w, result)])
           /\ \A gen, status : Wrote(c, sql_write_binding(c, o, gen, status), o,
                                     [r EXCEPT !.gen = gen, !.bind = status])
           /\ \A log : Wrote(c, sql_actions(c, o, log), o, [r EXCEPT !.log = log])
<1> DEFINE r == c.rows[o]
<1>1. ASSUME NEW life
      PROVE  Wrote(c, sql_update(c, o, life), o, [r EXCEPT !.life = life, !.ver = @ + 1])
  BY DEF Wrote, IsDb, OrderRows, sql_update
<1>2. ASSUME NEW w
      PROVE  Wrote(c, sql_try_claim(c, o, w), o, [r EXCEPT !.owner = w, !.ver = @ + 1])
  BY DEF Wrote, IsDb, OrderRows, sql_try_claim
<1>3. ASSUME NEW ws
      PROVE  Wrote(c, sql_replace_roster(c, o, ws), o,
                   [r EXCEPT !.wafers = [w \in ws |-> ""]])
  BY DEF Wrote, IsDb, OrderRows, sql_replace_roster
<1>4. ASSUME NEW w, NEW result
      PROVE  Wrote(c, sql_upsert_ai_result(c, o, w, result), o,
                   [r EXCEPT !.wafers = Put(@, w, result)])
  BY DEF Wrote, IsDb, OrderRows, sql_upsert_ai_result
<1>5. ASSUME NEW gen, NEW status
      PROVE  Wrote(c, sql_write_binding(c, o, gen, status), o,
                   [r EXCEPT !.gen = gen, !.bind = status])
  BY DEF Wrote, IsDb, OrderRows, sql_write_binding
<1>6. ASSUME NEW log
      PROVE  Wrote(c, sql_actions(c, o, log), o, [r EXCEPT !.log = log])
  BY DEF Wrote, IsDb, OrderRows, sql_actions
<1> QED
  BY <1>1, <1>2, <1>3, <1>4, <1>5, <1>6

\* The rows stay well formed when a well-formed row is written.
LEMMA RowWritten ==
    ASSUME NEW c, DbOK(c), NEW o \in Ids, NEW s, RowOK(s), NEW d, Wrote(c, d, o, s)
    PROVE  DbOK(d)
  BY DEF DbOK, RowsOK, IncidentsOK, Wrote

-----------------------------------------------------------------------------
(* What a call leaves alone *)

\* A part of the content that neither store changes stays the same in both.
LEMMA Untold ==
    ASSUME NEW c, NEW m, Twin(c, m), NEW o \in DOMAIN c.rows, NEW s, NEW d,
           Wrote(c, d, o, s), NEW n
    PROVE  LET r == c.rows[o] IN
           /\ /\ Brief(s) = Brief(r)
              /\ n.orders = m.orders /\ n.orders_by_key = m.orders_by_key
              => SameOrders(d, n) /\ KeysExact(n)
           /\ s.wafers = r.wafers /\ n.wafers = m.wafers => SameWafers(d, n)
           /\ s.gen = r.gen /\ s.bind = r.bind /\ n.bindings = m.bindings
              => SameBindings(d, n)
           /\ s.log = r.log /\ n.commands = m.commands => SameCommands(d, n)
           /\ s.log = r.log /\ n.history = m.history => SameAttempts(d, n)
           /\ n.incidents = m.incidents /\ n.outbox = m.outbox => SameIncidents(d, n)
           /\ /\ n.inbound = m.inbound /\ n.mode = m.mode
              /\ n.ver = m.ver /\ n.beat = m.beat
              => SameRest(d, n)
<1> DEFINE r == c.rows[o]
<1>1. DOMAIN d.rows = DOMAIN c.rows
  BY DEF Wrote
<1>2. ASSUME Brief(s) = Brief(r),
             n.orders = m.orders, n.orders_by_key = m.orders_by_key
      PROVE  SameOrders(d, n) /\ KeysExact(n)
  <2>1. \A p \in DOMAIN c.rows : Brief(d.rows[p]) = Brief(c.rows[p])
    BY <1>2 DEF Wrote, Brief
  <2>2. SameOrders(d, n)
    BY <1>1, <1>2, <2>1 DEF Twin, SameOrders
  <2>3. KeysExact(n)
    BY <1>2 DEF Twin, KeysExact
  <2> QED
    BY <2>2, <2>3
<1>3. ASSUME s.wafers = r.wafers, n.wafers = m.wafers
      PROVE  SameWafers(d, n)
  BY <1>1, <1>3 DEF Twin, SameWafers, mem_wafers, Wrote
<1>4. ASSUME s.gen = r.gen, s.bind = r.bind, n.bindings = m.bindings
      PROVE  SameBindings(d, n)
  BY <1>1, <1>4 DEF Twin, SameBindings, Wrote
<1>5. ASSUME s.log = r.log
      PROVE  \A p \in DOMAIN c.rows : d.rows[p].log = c.rows[p].log
  BY <1>5 DEF Wrote
<1>6. ASSUME s.log = r.log, n.commands = m.commands
      PROVE  SameCommands(d, n)
  BY <1>1, <1>5, <1>6 DEF Twin, SameCommands
<1>7. ASSUME s.log = r.log, n.history = m.history
      PROVE  SameAttempts(d, n)
  BY <1>1, <1>5, <1>7 DEF Twin, SameAttempts, mem_attempts_for
<1>8. n.incidents = m.incidents /\ n.outbox = m.outbox => SameIncidents(d, n)
  BY DEF Twin, SameIncidents, Wrote
<1>9. /\ n.inbound = m.inbound /\ n.mode = m.mode
      /\ n.ver = m.ver /\ n.beat = m.beat
      => SameRest(d, n)
  BY DEF Twin, SameRest, Wrote
<1> QED
  BY <1>2, <1>3, <1>4, <1>6, <1>7, <1>8, <1>9

-----------------------------------------------------------------------------
(* Orders and their wafers *)

\* A new list of attempts has no command.
LEMMA NothingSent ==
    /\ LogOK(<<>>, CommandIds)
    /\ \A k : CommandOf(<<>>, k) = [state |-> "NONE", outcome |-> NoReceipt, attempts |-> 0]
<1>1. \A k : Rows(<<>>, k) = {}
  BY DEF Rows
<1>2. \A k : Numbered(<<>>, k, 0)
  BY <1>1 DEF Numbered
<1>3. <<>> \in Seq(Attempts(CommandIds)) /\ 0 \in 0..MaxAttempts
  BY AttemptsAssumption
<1> QED
  BY <1>1, <1>2, <1>3 DEF LogOK, CommandOf

\* An order is a duplicate in both stores or in none.
LEMMA SameDuplicates ==
    ASSUME NEW c, NEW m, Twin(c, m), NEW o, NEW k
    PROVE  sql_insert_fails(c, o, k) <=> mem_insert_fails(m, o, k)
<1>1. DOMAIN m.orders = DOMAIN c.rows
      /\ \A p \in DOMAIN c.rows : m.orders[p].key = c.rows[p].key
  BY DEF Twin, SameOrders, Brief
<1> QED
  BY <1>1 DEF Twin, KeysExact, sql_insert_fails, mem_insert_fails

\* orders.insert of an order neither store has
LEMMA InsertedAlike ==
    ASSUME NEW c, NEW m, DbOK(c), Twin(c, m), NEW o \in Ids, NEW k \in Keys,
           ~sql_insert_fails(c, o, k)
    PROVE  DbOK(sql_insert(c, o, k)) /\ Twin(sql_insert(c, o, k), mem_insert(m, o, k))
<1> DEFINE r == [key |-> k, ver |-> 1, owner |-> None, life |-> "OPEN",
                 gen |-> 0, bind |-> "NONE", log |-> <<>>, wafers |-> Empty]
           d == sql_insert(c, o, k)
           n == mem_insert(m, o, k)
<1>1. /\ o \notin DOMAIN c.rows
      /\ o \notin DOMAIN m.orders /\ k \notin DOMAIN m.orders_by_key
  <2>1. ~mem_insert_fails(m, o, k)
    BY SameDuplicates
  <2>2. o \notin DOMAIN c.rows
    BY DEF sql_insert_fails
  <2> QED
    BY <2>1, <2>2 DEF mem_insert_fails
<1>2. Wrote(c, d, o, r)
  <2>1. IsDb(d) /\ d.rows = Put(c.rows, o, r)
        /\ d.incidents = c.incidents /\ d.inbound = c.inbound
        /\ d.mode = c.mode /\ d.ver = c.ver /\ d.beat = c.beat
    BY DEF sql_insert, DbOK, IsDb
  <2> HIDE DEF d, r
  <2> QED
    BY <2>1 DEF Wrote, Put
<1>3. /\ IsMemory(n)
      /\ n.orders = Put(m.orders, o, Brief(r)) /\ n.orders_by_key = Put(m.orders_by_key, k, o)
      /\ n.wafers = m.wafers /\ n.bindings = m.bindings
      /\ n.commands = m.commands /\ n.history = m.history
      /\ n.incidents = m.incidents /\ n.outbox = m.outbox
      /\ n.inbound = m.inbound /\ n.mode = m.mode /\ n.ver = m.ver /\ n.beat = m.beat
  BY DEF mem_insert, Twin, IsMemory, Brief
<1>4. RowOK(r)
  <2>1. Empty \in Rosters
    <3>1. Empty \in [{} -> {"", "OK", "DEFECT"}] /\ {} \in SUBSET Wafers
      BY DEF Empty
    <3> QED
      BY <3>1 DEF Rosters
  <2>2. <<>> \in Seq(Attempts(CommandIds))
    OBVIOUS
  <2>3. 0 \in 0..MaxGen
    BY TwinAssumption
  <2>4. r \in OrderRows
    BY <2>1, <2>2, <2>3 DEF OrderRows, BindingStates
  <2>5. CommandsOK(r.log, r.gen)
    BY NothingSent DEF CommandsOK
  <2> QED
    BY <2>4, <2>5 DEF RowOK
<1> HIDE DEF d, n, r
<1>5. DbOK(d)
  BY <1>2, <1>4, RowWritten
<1>6. SameOrders(d, n)
  <2>1. DOMAIN n.orders = DOMAIN d.rows
    BY <1>2, <1>3 DEF Twin, SameOrders, Wrote, Put
  <2>2. ASSUME NEW p \in DOMAIN d.rows
        PROVE  n.orders[p] = Brief(d.rows[p])
    BY <1>1, <1>2, <1>3 DEF Twin, SameOrders, Wrote, Put
  <2>3. n.orders = [p \in DOMAIN n.orders |-> n.orders[p]]
    BY <1>3 DEF Put
  <2> QED
    BY <2>1, <2>2, <2>3 DEF SameOrders
<1>7. KeysExact(n)
  <2>1. /\ DOMAIN n.orders = DOMAIN m.orders \cup {o} /\ n.orders[o].key = k
        /\ \A p \in DOMAIN m.orders : n.orders[p] = m.orders[p]
    BY <1>1, <1>3 DEF Brief, Put, r
  <2>2. /\ DOMAIN n.orders_by_key = DOMAIN m.orders_by_key \cup {k}
        /\ n.orders_by_key[k] = o
        /\ \A l \in DOMAIN m.orders_by_key : n.orders_by_key[l] = m.orders_by_key[l]
    BY <1>1, <1>3 DEF Put
  <2> QED
    BY <1>1, <2>1, <2>2 DEF Twin, KeysExact
<1>8. SameWafers(d, n)
  <2>1. r.wafers = Empty /\ o \notin DOMAIN m.wafers
    BY <1>1 DEF Twin, SameWafers, r
  <2> QED
    BY <1>2, <1>3, <2>1 DEF Twin, SameWafers, mem_wafers, Wrote
<1>9. SameBindings(d, n)
  <2>1. d.rows[o].gen = 0
    BY <1>2 DEF Wrote, r
  <2> QED
    BY <1>1, <1>2, <1>3, <2>1 DEF Twin, SameBindings, Wrote
<1>10. \A l : CommandOf(d.rows[o].log, l) =
                [state |-> "NONE", outcome |-> NoReceipt, attempts |-> 0]
  BY <1>2, NothingSent DEF Wrote, r
<1>11. SameCommands(d, n)
  BY <1>1, <1>2, <1>3, <1>10 DEF Twin, SameCommands, Wrote
<1>12. SameAttempts(d, n)
  <2>1. \A p, l : mem_attempts_for(n, p, l) = mem_attempts_for(m, p, l)
    BY <1>3 DEF mem_attempts_for
  <2>2. IsFiniteSet(n.history)
    BY <1>3 DEF Twin, SameAttempts
  <2>3. \A p \in Ids, l \in CommandIds :
          mem_attempts_for(n, p, l) =
            IF p \in DOMAIN d.rows THEN CommandOf(d.rows[p].log, l).attempts ELSE 0
    BY <1>1, <1>2, <1>10, <2>1 DEF Twin, SameAttempts, Wrote
  <2>4. \A h \in n.history :
          /\ h.order \in Ids /\ h.command \in CommandIds
          /\ h.no \in 1..mem_attempts_for(n, h.order, h.command)
    BY <1>3, <2>1 DEF Twin, SameAttempts
  <2> QED
    BY <2>2, <2>3, <2>4 DEF SameAttempts
<1>13. SameIncidents(d, n) /\ SameRest(d, n)
  BY <1>2, <1>3 DEF Twin, SameIncidents, SameRest, Wrote
<1> QED
  BY <1>3, <1>5, <1>6, <1>7, <1>8, <1>9, <1>11, <1>12, <1>13 DEF Twin, d, n

\* What is written to the order itself, but its key, is written in both.
LEMMA OrderTold ==
    ASSUME NEW c, NEW m, Twin(c, m), NEW o \in DOMAIN c.rows, NEW s, NEW d,
           Wrote(c, d, o, s), s.key = c.rows[o].key,
           NEW n, n.orders = [m.orders EXCEPT ![o] = Brief(s)],
           n.orders_by_key = m.orders_by_key
    PROVE  SameOrders(d, n) /\ KeysExact(n)
<1>1. DOMAIN m.orders = DOMAIN c.rows /\ \A p \in DOMAIN c.rows : m.orders[p] = Brief(c.rows[p])
  BY DEF Twin, SameOrders
<1>2. DOMAIN n.orders = DOMAIN c.rows /\ n.orders[o] = Brief(s)
      /\ \A p \in DOMAIN c.rows \ {o} : n.orders[p] = m.orders[p]
  BY <1>1
<1>3. SameOrders(d, n)
  <2>1. \A p \in DOMAIN d.rows : n.orders[p] = Brief(d.rows[p])
    BY <1>1, <1>2 DEF Wrote
  <2>2. DOMAIN d.rows = DOMAIN c.rows
    BY DEF Wrote
  <2>3. n.orders = [p \in DOMAIN n.orders |-> n.orders[p]]
    OBVIOUS
  <2> QED
    BY <1>2, <2>1, <2>2, <2>3 DEF SameOrders
<1>4. KeysExact(n)
  <2>1. \A p \in DOMAIN c.rows : n.orders[p].key = m.orders[p].key
    <3>1. \A r : Brief(r).key = r.key
      BY DEF Brief
    <3>2. n.orders[o].key = m.orders[o].key
      BY <1>1, <1>2, <3>1
    <3> QED
      BY <1>2, <3>2
  <2> QED
    BY <1>1, <1>2, <2>1 DEF Twin, KeysExact
<1> QED
  BY <1>3, <1>4

\* A row with these fields is a row.
LEMMA RowFields ==
    ASSUME NEW r, r \in OrderRows, NEW s, DOMAIN s = DOMAIN r, s = [x \in DOMAIN s |-> s[x]],
           s.key \in Keys, s.ver \in Nat \ {0}, s.owner \in Workers \cup {None},
           s.life \in {"OPEN", "CLOSED"}, s.gen \in 0..MaxGen, s.bind \in BindingStates,
           s.log \in Seq(Attempts(CommandIds)), s.wafers \in Rosters
    PROVE  s \in OrderRows
  BY DEF OrderRows

\* What may be written into a row.
LEMMA VersionWritten ==
    ASSUME NEW r, RowOK(r)
    PROVE  /\ \A life \in {"OPEN", "CLOSED"} :
                LET s == [r EXCEPT !.life = life, !.ver = @ + 1] IN
                /\ RowOK(s) /\ s.key = r.key /\ s.wafers = r.wafers /\ s.gen = r.gen
                /\ s.bind = r.bind /\ s.log = r.log
                /\ Brief(s) = [Brief(r) EXCEPT !.life = life, !.ver = @ + 1]
           /\ \A w \in Workers :
                LET s == [r EXCEPT !.owner = w, !.ver = @ + 1] IN
                /\ RowOK(s) /\ s.key = r.key /\ s.wafers = r.wafers /\ s.gen = r.gen
                /\ s.bind = r.bind /\ s.log = r.log
                /\ Brief(s) = [Brief(r) EXCEPT !.owner = w, !.ver = @ + 1]
<1>1. r \in OrderRows /\ r.ver \in Nat \ {0} /\ CommandsOK(r.log, r.gen)
      /\ (r.gen = 0 => r.bind = "NONE")
  BY DEF RowOK, OrderRows
<1>2. ASSUME NEW life \in {"OPEN", "CLOSED"}, NEW s,
             s = [r EXCEPT !.life = life, !.ver = @ + 1]
      PROVE  /\ RowOK(s) /\ s.key = r.key /\ s.wafers = r.wafers /\ s.gen = r.gen
             /\ s.bind = r.bind /\ s.log = r.log
             /\ Brief(s) = [Brief(r) EXCEPT !.life = life, !.ver = @ + 1]
  <2>1. s.key = r.key /\ s.wafers = r.wafers /\ s.gen = r.gen
        /\ s.bind = r.bind /\ s.log = r.log /\ s.owner = r.owner
        /\ s.life = life /\ s.ver = r.ver + 1
    BY <1>1, <1>2 DEF OrderRows
  <2>2. s \in OrderRows
    <3>1. DOMAIN s = DOMAIN r /\ s = [x \in DOMAIN s |-> s[x]]
      BY <1>2
    <3>2. s.ver \in Nat \ {0}
      BY <1>1, <2>1
    <3>3. /\ s.key \in Keys /\ s.owner \in Workers \cup {None}
          /\ s.life \in {"OPEN", "CLOSED"} /\ s.gen \in 0..MaxGen
          /\ s.bind \in BindingStates /\ s.log \in Seq(Attempts(CommandIds))
          /\ s.wafers \in Rosters
      BY <1>1, <2>1 DEF OrderRows
    <3> QED
      BY <1>1, <3>1, <3>2, <3>3, RowFields
  <2>3. RowOK(s)
    BY <1>1, <2>1, <2>2 DEF RowOK
  <2>4. Brief(s) = [Brief(r) EXCEPT !.life = life, !.ver = @ + 1]
    <3>1. Brief(s) = [key |-> r.key, ver |-> r.ver + 1, owner |-> r.owner, life |-> life]
      BY <2>1 DEF Brief
    <3>2. [Brief(r) EXCEPT !.life = life] = [key |-> r.key, ver |-> r.ver, owner |-> r.owner, life |-> life]
      BY DEF Brief
    <3>3. [[key |-> r.key, ver |-> r.ver, owner |-> r.owner, life |-> life] EXCEPT !.ver = @ + 1] = [key |-> r.key, ver |-> r.ver + 1, owner |-> r.owner, life |-> life]
      OBVIOUS
    <3>4. [Brief(r) EXCEPT !.life = life, !.ver = @ + 1] =
            [[Brief(r) EXCEPT !.life = life] EXCEPT !.ver = @ + 1]
      BY DEF Brief
    <3> QED
      BY <3>1, <3>2, <3>3, <3>4
  <2> QED
    BY <2>1, <2>3, <2>4
<1>3. ASSUME NEW w \in Workers, NEW s, s = [r EXCEPT !.owner = w, !.ver = @ + 1]
      PROVE  /\ RowOK(s) /\ s.key = r.key /\ s.wafers = r.wafers /\ s.gen = r.gen
             /\ s.bind = r.bind /\ s.log = r.log
             /\ Brief(s) = [Brief(r) EXCEPT !.owner = w, !.ver = @ + 1]
  <2>1. s.key = r.key /\ s.wafers = r.wafers /\ s.gen = r.gen
        /\ s.bind = r.bind /\ s.log = r.log /\ s.owner = w
        /\ s.life = r.life /\ s.ver = r.ver + 1
    BY <1>1, <1>3 DEF OrderRows
  <2>2. s \in OrderRows
    <3>1. DOMAIN s = DOMAIN r /\ s = [x \in DOMAIN s |-> s[x]]
      BY <1>3
    <3>2. s.ver \in Nat \ {0}
      BY <1>1, <2>1
    <3>3. /\ s.key \in Keys /\ s.owner \in Workers \cup {None}
          /\ s.life \in {"OPEN", "CLOSED"} /\ s.gen \in 0..MaxGen
          /\ s.bind \in BindingStates /\ s.log \in Seq(Attempts(CommandIds))
          /\ s.wafers \in Rosters
      BY <1>1, <2>1 DEF OrderRows
    <3> QED
      BY <1>1, <3>1, <3>2, <3>3, RowFields
  <2>3. RowOK(s)
    BY <1>1, <2>1, <2>2 DEF RowOK
  <2>4. Brief(s) = [Brief(r) EXCEPT !.owner = w, !.ver = @ + 1]
    <3>1. Brief(s) = [key |-> r.key, ver |-> r.ver + 1, owner |-> w, life |-> r.life]
      BY <2>1 DEF Brief
    <3>2. [Brief(r) EXCEPT !.owner = w] = [key |-> r.key, ver |-> r.ver, owner |-> w, life |-> r.life]
      BY DEF Brief
    <3>3. [[key |-> r.key, ver |-> r.ver, owner |-> w, life |-> r.life] EXCEPT !.ver = @ + 1] = [key |-> r.key, ver |-> r.ver + 1, owner |-> w, life |-> r.life]
      OBVIOUS
    <3>4. [Brief(r) EXCEPT !.owner = w, !.ver = @ + 1] =
            [[Brief(r) EXCEPT !.owner = w] EXCEPT !.ver = @ + 1]
      BY DEF Brief
    <3> QED
      BY <3>1, <3>2, <3>3, <3>4
  <2> QED
    BY <2>1, <2>3, <2>4
<1>4. \A life \in {"OPEN", "CLOSED"} :
         LET s == [r EXCEPT !.life = life, !.ver = @ + 1] IN
         /\ RowOK(s) /\ s.key = r.key /\ s.wafers = r.wafers /\ s.gen = r.gen
         /\ s.bind = r.bind /\ s.log = r.log
         /\ Brief(s) = [Brief(r) EXCEPT !.life = life, !.ver = @ + 1]
  BY <1>2, Zenon
<1>5. \A w \in Workers :
         LET s == [r EXCEPT !.owner = w, !.ver = @ + 1] IN
         /\ RowOK(s) /\ s.key = r.key /\ s.wafers = r.wafers /\ s.gen = r.gen
         /\ s.bind = r.bind /\ s.log = r.log
         /\ Brief(s) = [Brief(r) EXCEPT !.owner = w, !.ver = @ + 1]
  BY <1>3, Zenon
<1> QED
  BY <1>4, <1>5, Zenon

LEMMA WafersWritten ==
    ASSUME NEW r, RowOK(r), NEW ws \in Rosters
    PROVE  LET s == [r EXCEPT !.wafers = ws] IN
           /\ RowOK(s) /\ Brief(s) = Brief(r) /\ s.wafers = ws
           /\ s.gen = r.gen /\ s.bind = r.bind /\ s.log = r.log
  BY DEF RowOK, OrderRows, Brief

\* A roster with one more result.
LEMMA ResultWritten ==
    ASSUME NEW ws \in Rosters, NEW w \in DOMAIN ws, NEW result \in {"OK", "DEFECT"}
    PROVE  Put(ws, w, result) \in Rosters
<1>1. PICK S \in SUBSET Wafers : ws \in [S -> {"", "OK", "DEFECT"}]
  BY DEF Rosters
<1>2. Put(ws, w, result) \in [S -> {"", "OK", "DEFECT"}]
  BY <1>1 DEF Put
<1> QED
  BY <1>2 DEF Rosters

\* orders.update and orders.try_claim: the versions are the same, and so are the
\* orders after the call.
LEMMA OrdersAlike ==
    ASSUME NEW c, NEW m, DbOK(c), Twin(c, m), NEW o \in DOMAIN c.rows
    PROVE  /\ o \in DOMAIN m.orders
           /\ m.orders[o].ver = c.rows[o].ver /\ m.orders[o].owner = c.rows[o].owner
           /\ \A life \in {"OPEN", "CLOSED"} :
                /\ DbOK(sql_update(c, o, life))
                /\ Twin(sql_update(c, o, life), mem_update(m, o, life))
           /\ \A w \in Workers :
                /\ DbOK(sql_try_claim(c, o, w))
                /\ Twin(sql_try_claim(c, o, w), mem_try_claim(m, o, w))
<1> DEFINE r == c.rows[o]
<1>1. IsDb(c) /\ RowOK(r) /\ r \in OrderRows /\ o \in Ids
  BY DEF DbOK, RowsOK, RowOK
<1>2. DOMAIN m.orders = DOMAIN c.rows /\ m.orders[o] = Brief(r)
  BY DEF Twin, SameOrders
<1>3. ASSUME NEW d, NEW s, Wrote(c, d, o, s), RowOK(s), NEW n, IsMemory(n),
             s.key = r.key, s.wafers = r.wafers, s.gen = r.gen, s.bind = r.bind,
             s.log = r.log, n.orders = [m.orders EXCEPT ![o] = Brief(s)],
             n.orders_by_key = m.orders_by_key,
             n.wafers = m.wafers, n.bindings = m.bindings,
             n.commands = m.commands, n.history = m.history,
             n.incidents = m.incidents, n.outbox = m.outbox,
             n.inbound = m.inbound, n.mode = m.mode, n.ver = m.ver, n.beat = m.beat
      PROVE  DbOK(d) /\ Twin(d, n)
  <2>1. DbOK(d)
    BY <1>1, <1>3, RowWritten
  <2>2. SameOrders(d, n) /\ KeysExact(n)
    BY <1>3, OrderTold
  <2>3. /\ SameWafers(d, n) /\ SameBindings(d, n) /\ SameCommands(d, n)
        /\ SameAttempts(d, n) /\ SameIncidents(d, n) /\ SameRest(d, n)
    BY <1>3, Untold
  <2> QED
    BY <1>3, <2>1, <2>2, <2>3 DEF Twin
<1>4. ASSUME NEW life \in {"OPEN", "CLOSED"}
      PROVE  DbOK(sql_update(c, o, life)) /\ Twin(sql_update(c, o, life), mem_update(m, o, life))
  <2> DEFINE s == [r EXCEPT !.life = life, !.ver = @ + 1]
             d == sql_update(c, o, life)
             n == mem_update(m, o, life)
  <2>1. Wrote(c, d, o, s)
    BY <1>1, RowsWritten
  <2>2. /\ RowOK(s) /\ s.key = r.key /\ s.wafers = r.wafers /\ s.gen = r.gen
        /\ s.bind = r.bind /\ s.log = r.log
        /\ Brief(s) = [Brief(r) EXCEPT !.life = life, !.ver = @ + 1]
    BY <1>1, VersionWritten
  <2>3. Brief(s) = [m.orders[o] EXCEPT !.life = life, !.ver = @ + 1]
    BY <1>2, <2>2
  <2>4. /\ IsMemory(n)
        /\ n.orders = [m.orders EXCEPT ![o] = Brief(s)]
        /\ n.orders_by_key = m.orders_by_key
        /\ n.wafers = m.wafers /\ n.bindings = m.bindings
        /\ n.commands = m.commands /\ n.history = m.history
        /\ n.incidents = m.incidents /\ n.outbox = m.outbox
        /\ n.inbound = m.inbound /\ n.mode = m.mode /\ n.ver = m.ver /\ n.beat = m.beat
    <3> HIDE DEF s
    <3> QED
      BY <1>2, <2>3 DEF mem_update, Twin, IsMemory
  <2> HIDE DEF d, n, s
  <2> QED
    BY <1>3, <2>1, <2>2, <2>4 DEF d, n
<1>5. ASSUME NEW w \in Workers
      PROVE  DbOK(sql_try_claim(c, o, w)) /\ Twin(sql_try_claim(c, o, w), mem_try_claim(m, o, w))
  <2> DEFINE s == [r EXCEPT !.owner = w, !.ver = @ + 1]
             d == sql_try_claim(c, o, w)
             n == mem_try_claim(m, o, w)
  <2>1. Wrote(c, d, o, s)
    BY <1>1, RowsWritten
  <2>2. /\ RowOK(s) /\ s.key = r.key /\ s.wafers = r.wafers /\ s.gen = r.gen
        /\ s.bind = r.bind /\ s.log = r.log
        /\ Brief(s) = [Brief(r) EXCEPT !.owner = w, !.ver = @ + 1]
    BY <1>1, VersionWritten
  <2>3. Brief(s) = [m.orders[o] EXCEPT !.owner = w, !.ver = @ + 1]
    BY <1>2, <2>2
  <2>4. /\ IsMemory(n)
        /\ n.orders = [m.orders EXCEPT ![o] = Brief(s)]
        /\ n.orders_by_key = m.orders_by_key
        /\ n.wafers = m.wafers /\ n.bindings = m.bindings
        /\ n.commands = m.commands /\ n.history = m.history
        /\ n.incidents = m.incidents /\ n.outbox = m.outbox
        /\ n.inbound = m.inbound /\ n.mode = m.mode /\ n.ver = m.ver /\ n.beat = m.beat
    <3> HIDE DEF s
    <3> QED
      BY <1>2, <2>3 DEF mem_try_claim, Twin, IsMemory
  <2> HIDE DEF d, n, s
  <2> QED
    BY <1>3, <2>1, <2>2, <2>4 DEF d, n
<1>6. m.orders[o].ver = r.ver /\ m.orders[o].owner = r.owner
  BY <1>2 DEF Brief
<1> QED
  BY <1>2, <1>4, <1>5, <1>6

\* wafers.replace_roster, and wafers.upsert_ai_result of a wafer of the roster
LEMMA WafersAlike ==
    ASSUME NEW c, NEW m, DbOK(c), Twin(c, m), NEW o \in DOMAIN c.rows
    PROVE  /\ \A ws \in SUBSET Wafers :
                /\ DbOK(sql_replace_roster(c, o, ws))
                /\ Twin(sql_replace_roster(c, o, ws), mem_replace_roster(m, o, ws))
           /\ \A w \in DOMAIN c.rows[o].wafers : \A result \in {"OK", "DEFECT"} :
                /\ DbOK(sql_upsert_ai_result(c, o, w, result))
                /\ Twin(sql_upsert_ai_result(c, o, w, result),
                        mem_upsert_ai_result(m, o, w, result))
<1> DEFINE r == c.rows[o]
<1>1. IsDb(c) /\ RowOK(r) /\ r \in OrderRows /\ o \in Ids
  BY DEF DbOK, RowsOK, RowOK
<1>2. ASSUME NEW d, NEW s, NEW ws \in Rosters, s = [r EXCEPT !.wafers = ws],
             Wrote(c, d, o, s), NEW n, IsMemory(n),
             n.orders = m.orders, n.orders_by_key = m.orders_by_key,
             n.wafers = Put(m.wafers, o, ws), n.bindings = m.bindings,
             n.commands = m.commands, n.history = m.history,
             n.incidents = m.incidents, n.outbox = m.outbox,
             n.inbound = m.inbound, n.mode = m.mode, n.ver = m.ver, n.beat = m.beat
      PROVE  DbOK(d) /\ Twin(d, n)
  <2>1. RowOK(s) /\ Brief(s) = Brief(r)
        /\ s.wafers = ws /\ s.gen = r.gen /\ s.bind = r.bind /\ s.log = r.log
    BY <1>1, <1>2, WafersWritten
  <2>2. DbOK(d)
    BY <1>1, <1>2, <2>1, RowWritten
  <2>3. /\ SameOrders(d, n) /\ KeysExact(n) /\ SameBindings(d, n) /\ SameCommands(d, n)
        /\ SameAttempts(d, n) /\ SameIncidents(d, n) /\ SameRest(d, n)
    <3> HIDE DEF r
    <3>1. /\ Brief(s) = Brief(c.rows[o]) /\ s.gen = c.rows[o].gen
          /\ s.bind = c.rows[o].bind /\ s.log = c.rows[o].log
      BY <2>1 DEF r
    <3>2. Twin(c, m) /\ Wrote(c, d, o, s)
      BY <1>2
    <3>3. /\ n.orders = m.orders /\ n.orders_by_key = m.orders_by_key
          /\ n.bindings = m.bindings
          /\ n.commands = m.commands /\ n.history = m.history
          /\ n.incidents = m.incidents /\ n.outbox = m.outbox
          /\ n.inbound = m.inbound /\ n.mode = m.mode /\ n.ver = m.ver /\ n.beat = m.beat
      BY <1>2
    <3> QED
      BY <3>1, <3>2, <3>3, Untold
  <2>4. SameWafers(d, n)
    <3>1. DOMAIN n.wafers = DOMAIN m.wafers \cup {o}
          /\ n.wafers[o] = ws
          /\ \A p \in DOMAIN m.wafers \ {o} : n.wafers[p] = m.wafers[p]
      BY <1>2 DEF Put
    <3>2. mem_wafers(n, o) = ws
          /\ \A p \in DOMAIN c.rows \ {o} : mem_wafers(n, p) = mem_wafers(m, p)
      BY <3>1 DEF mem_wafers
    <3>3. d.rows[o].wafers = ws
      BY <1>2, <2>1 DEF Wrote
    <3>4. DOMAIN d.rows = DOMAIN c.rows
          /\ \A p \in DOMAIN c.rows \ {o} : d.rows[p] = c.rows[p]
      BY <1>2 DEF Wrote
    <3> QED
      BY <3>1, <3>2, <3>3, <3>4 DEF Twin, SameWafers
  <2> QED
    BY <1>2, <2>2, <2>3, <2>4 DEF Twin
<1>3. ASSUME NEW ws \in SUBSET Wafers
      PROVE  /\ DbOK(sql_replace_roster(c, o, ws))
             /\ Twin(sql_replace_roster(c, o, ws), mem_replace_roster(m, o, ws))
  <2> DEFINE d == sql_replace_roster(c, o, ws)
             n == mem_replace_roster(m, o, ws)
             new == [w \in ws |-> ""]
  <2>1. new \in Rosters
    BY DEF Rosters
  <2>2. Wrote(c, d, o, [r EXCEPT !.wafers = new])
    BY <1>1, RowsWritten
  <2>3. /\ IsMemory(n) /\ n.orders = m.orders /\ n.orders_by_key = m.orders_by_key
        /\ n.wafers = Put(m.wafers, o, new) /\ n.bindings = m.bindings
        /\ n.commands = m.commands /\ n.history = m.history
        /\ n.incidents = m.incidents /\ n.outbox = m.outbox
        /\ n.inbound = m.inbound /\ n.mode = m.mode /\ n.ver = m.ver /\ n.beat = m.beat
    BY DEF mem_replace_roster, Twin, IsMemory
  <2> HIDE DEF d, n, new
  <2> QED
    BY <1>2, <2>1, <2>2, <2>3 DEF d, n
<1>4. ASSUME NEW w \in DOMAIN r.wafers, NEW result \in {"OK", "DEFECT"}
      PROVE  /\ DbOK(sql_upsert_ai_result(c, o, w, result))
             /\ Twin(sql_upsert_ai_result(c, o, w, result),
                     mem_upsert_ai_result(m, o, w, result))
  <2> DEFINE d == sql_upsert_ai_result(c, o, w, result)
             n == mem_upsert_ai_result(m, o, w, result)
             new == Put(r.wafers, w, result)
  <2>1. new \in Rosters
    BY <1>1, ResultWritten DEF OrderRows
  <2>2. Wrote(c, d, o, [r EXCEPT !.wafers = new])
    BY <1>1, RowsWritten
  <2>3. o \in DOMAIN m.wafers /\ m.wafers[o] = r.wafers
    BY DEF Twin, SameWafers, mem_wafers, Empty
  <2>4. [m.wafers EXCEPT ![o] = new] = Put(m.wafers, o, new)
    BY <2>3 DEF Put
  <2>5. /\ IsMemory(n) /\ n.orders = m.orders /\ n.orders_by_key = m.orders_by_key
        /\ n.wafers = Put(m.wafers, o, new) /\ n.bindings = m.bindings
        /\ n.commands = m.commands /\ n.history = m.history
        /\ n.incidents = m.incidents /\ n.outbox = m.outbox
        /\ n.inbound = m.inbound /\ n.mode = m.mode /\ n.ver = m.ver /\ n.beat = m.beat
    BY <2>3, <2>4 DEF mem_upsert_ai_result, Twin, IsMemory
  <2> HIDE DEF d, n, new
  <2> QED
    BY <1>2, <2>1, <2>2, <2>5 DEF d, n
<1> QED
  BY <1>3, <1>4

-----------------------------------------------------------------------------
(* Bindings, commands and attempts *)

\* The binding of a row is written, the one it has or the next.
LEMMA BindingTold ==
    ASSUME NEW c, NEW m, DbOK(c), Twin(c, m), NEW o \in DOMAIN c.rows, NEW s, NEW d,
           Wrote(c, d, o, s), s.gen \in {c.rows[o].gen, c.rows[o].gen + 1},
           s.gen \in CommandIds \ {0},
           NEW n, n.bindings = Put(m.bindings, <<o, s.gen>>, s.bind)
    PROVE  SameBindings(d, n)
<1> DEFINE r == c.rows[o]
           e == <<o, s.gen>>
<1>1. o \in Ids /\ r.gen \in Nat /\ s.gen \in Nat \ {0} /\ s.gen \in 1..s.gen
  BY TwinAssumption DEF DbOK, RowsOK, RowOK, OrderRows, CommandIds
<1>2. /\ DOMAIN n.bindings = DOMAIN m.bindings \cup {e}
      /\ n.bindings[e] = s.bind
      /\ \A b \in DOMAIN m.bindings \ {e} : n.bindings[b] = m.bindings[b]
  BY DEF Put
<1>3. /\ DOMAIN d.rows = DOMAIN c.rows /\ d.rows[o] = s
      /\ \A p \in DOMAIN c.rows \ {o} : d.rows[p] = c.rows[p]
  BY DEF Wrote
<1>4. DOMAIN n.bindings \subseteq Ids \X CommandIds
  BY <1>1, <1>2 DEF Twin, SameBindings
<1>5. ASSUME NEW p \in Ids, NEW g \in CommandIds
      PROVE  <<p, g>> \in DOMAIN n.bindings <=> p \in DOMAIN d.rows /\ g \in 1..d.rows[p].gen
  <2>1. <<p, g>> \in DOMAIN m.bindings <=> p \in DOMAIN c.rows /\ g \in 1..c.rows[p].gen
    BY DEF Twin, SameBindings
  <2>2. CASE p = o
    <3>1. g \in 1..s.gen <=> g \in 1..r.gen \/ g = s.gen
      BY <1>1 DEF CommandIds
    <3>2. <<p, g>> = e <=> g = s.gen
      BY <2>2
    <3> HIDE DEF e
    <3> QED
      BY <1>2, <1>3, <2>1, <2>2, <3>1, <3>2
  <2>3. CASE p # o
    <3>1. <<p, g>> # e
      BY <2>3
    <3> HIDE DEF e
    <3> QED
      BY <1>2, <1>3, <2>1, <2>3, <3>1
  <2> QED
    BY <2>2, <2>3
<1>6. ASSUME NEW p \in DOMAIN d.rows, d.rows[p].gen > 0
      PROVE  n.bindings[<<p, d.rows[p].gen>>] = d.rows[p].bind
  <2>1. CASE p = o
    BY <1>2, <1>3, <2>1
  <2>2. CASE p # o
    <3>1. d.rows[p] = c.rows[p] /\ p \in DOMAIN c.rows /\ p \in Ids /\ c.rows[p].gen \in CommandIds
      BY <1>3, <2>2 DEF DbOK, RowsOK, RowOK, OrderRows, CommandIds
    <3>2. m.bindings[<<p, c.rows[p].gen>>] = c.rows[p].bind
      BY <1>6, <3>1 DEF Twin, SameBindings
    <3>3. c.rows[p].gen \in 1..c.rows[p].gen
      BY <1>6, <3>1, TwinAssumption DEF CommandIds
    <3>4. <<p, c.rows[p].gen>> \in DOMAIN m.bindings
      BY <3>1, <3>3 DEF Twin, SameBindings
    <3>5. <<p, c.rows[p].gen>> # e
      BY <2>2
    <3> HIDE DEF e
    <3> QED
      BY <1>2, <3>1, <3>2, <3>4, <3>5
  <2> QED
    BY <2>1, <2>2
<1> QED
  BY <1>4, <1>5, <1>6 DEF SameBindings

\* A command of a row is written, the others are the same.
LEMMA CommandTold ==
    ASSUME NEW c, NEW m, DbOK(c), Twin(c, m), NEW o \in DOMAIN c.rows, NEW s, NEW d,
           Wrote(c, d, o, s), NEW k \in CommandIds,
           \A l \in CommandIds \ {k} : CommandOf(s.log, l) = CommandOf(c.rows[o].log, l),
           CommandOf(s.log, k).state # "NONE",
           NEW n, n.commands = Put(m.commands, <<o, k>>,
                                   [state |-> CommandOf(s.log, k).state,
                                    outcome |-> CommandOf(s.log, k).outcome])
    PROVE  SameCommands(d, n)
<1> DEFINE e == <<o, k>>
           v == [state |-> CommandOf(s.log, k).state, outcome |-> CommandOf(s.log, k).outcome]
<1>1. o \in Ids
  BY DEF DbOK, RowsOK
<1>2. /\ DOMAIN n.commands = DOMAIN m.commands \cup {e}
      /\ n.commands[e] = v
      /\ \A b \in DOMAIN m.commands \ {e} : n.commands[b] = m.commands[b]
  <2> HIDE DEF e, v
  <2>1. n.commands = Put(m.commands, e, v)
    BY DEF e, v
  <2> QED
    BY <2>1 DEF Put
<1>3. /\ DOMAIN d.rows = DOMAIN c.rows /\ d.rows[o] = s
      /\ \A p \in DOMAIN c.rows \ {o} : d.rows[p] = c.rows[p]
  BY DEF Wrote
<1>4. DOMAIN n.commands \subseteq Ids \X CommandIds
  BY <1>1, <1>2 DEF Twin, SameCommands
<1>5. ASSUME NEW p \in DOMAIN d.rows, NEW l \in CommandIds
      PROVE  /\ (p = o /\ l = k) \/ CommandOf(d.rows[p].log, l) = CommandOf(c.rows[p].log, l)
             /\ <<p, l>> = e <=> p = o /\ l = k
  BY <1>3
<1>6. ASSUME NEW p \in Ids, NEW l \in CommandIds
      PROVE  <<p, l>> \in DOMAIN n.commands <=>
                p \in DOMAIN d.rows /\ CommandOf(d.rows[p].log, l).state # "NONE"
  <2>1. <<p, l>> \in DOMAIN m.commands <=>
          p \in DOMAIN c.rows /\ CommandOf(c.rows[p].log, l).state # "NONE"
    BY DEF Twin, SameCommands
  <2>2. CASE <<p, l>> = e
    BY <1>2, <1>3, <2>2
  <2>3. CASE <<p, l>> # e
    <3> HIDE DEF e
    <3> QED
      BY <1>2, <1>3, <1>5, <2>1, <2>3
  <2> QED
    BY <2>2, <2>3
<1>7. ASSUME NEW p \in DOMAIN d.rows, NEW l \in CommandIds,
             CommandOf(d.rows[p].log, l).state # "NONE"
      PROVE  n.commands[<<p, l>>] = [state |-> CommandOf(d.rows[p].log, l).state,
                                     outcome |-> CommandOf(d.rows[p].log, l).outcome]
  <2>1. CASE p = o /\ l = k
    BY <1>2, <1>3, <2>1
  <2>2. CASE ~(p = o /\ l = k)
    <3>1. p \in Ids /\ p \in DOMAIN c.rows /\ <<p, l>> # e
          /\ CommandOf(d.rows[p].log, l) = CommandOf(c.rows[p].log, l)
      BY <1>3, <1>5, <2>2 DEF DbOK, RowsOK
    <3>2. <<p, l>> \in DOMAIN m.commands
      BY <1>7, <3>1 DEF Twin, SameCommands
    <3>3. m.commands[<<p, l>>] = [state |-> CommandOf(c.rows[p].log, l).state,
                                  outcome |-> CommandOf(c.rows[p].log, l).outcome]
      BY <1>7, <3>1 DEF Twin, SameCommands
    <3> HIDE DEF e
    <3> QED
      BY <1>2, <3>1, <3>2, <3>3
  <2> QED
    BY <2>1, <2>2
<1> QED
  BY <1>4, <1>6, <1>7 DEF SameCommands

\* A command is written and none was sent.
LEMMA AttemptsKept ==
    ASSUME NEW c, NEW m, Twin(c, m), NEW o \in DOMAIN c.rows, NEW s, NEW d,
           Wrote(c, d, o, s),
           \A l \in CommandIds :
                CommandOf(s.log, l).attempts = CommandOf(c.rows[o].log, l).attempts,
           NEW n, n.history = m.history
    PROVE  SameAttempts(d, n)
<1>1. \A p, l : mem_attempts_for(n, p, l) = mem_attempts_for(m, p, l)
  BY DEF mem_attempts_for
<1>2. DOMAIN d.rows = DOMAIN c.rows
      /\ \A p \in DOMAIN c.rows : \A l \in CommandIds :
            CommandOf(d.rows[p].log, l).attempts = CommandOf(c.rows[p].log, l).attempts
  BY DEF Wrote
<1> QED
  BY <1>1, <1>2 DEF Twin, SameAttempts

\* A command was sent: the attempt has the next number.
LEMMA AttemptTold ==
    ASSUME NEW c, NEW m, DbOK(c), Twin(c, m), NEW o \in DOMAIN c.rows, NEW s, NEW d,
           Wrote(c, d, o, s), NEW k \in CommandIds,
           \A l \in CommandIds \ {k} : CommandOf(s.log, l) = CommandOf(c.rows[o].log, l),
           CommandOf(s.log, k).attempts = CommandOf(c.rows[o].log, k).attempts + 1,
           NEW h, h.order = o, h.command = k, h.no = mem_next_attempt_no(m, o, k),
           NEW n, n.history = m.history \cup {h}
    PROVE  SameAttempts(d, n)
<1> DEFINE Of(x, p, l) == {g \in x.history : g.order = p /\ g.command = l}
<1>1. o \in Ids
  BY DEF DbOK, RowsOK
<1>2. IsFiniteSet(m.history)
      /\ \A g \in m.history : /\ g.order \in Ids /\ g.command \in CommandIds
                              /\ g.no \in 1..mem_attempts_for(m, g.order, g.command)
  BY DEF Twin, SameAttempts
<1>3. /\ h.order = o /\ h.command = k /\ h.no = 1 + mem_attempts_for(m, o, k)
      /\ n.history = m.history \cup {h}
  BY DEF mem_next_attempt_no
<1>4. \A x, p, l : mem_attempts_for(x, p, l) = Cardinality(Of(x, p, l))
  BY DEF mem_attempts_for
<1>5. ASSUME NEW p, NEW l
      PROVE  IsFiniteSet(Of(m, p, l)) /\ mem_attempts_for(m, p, l) \in Nat
  <2>1. Of(m, p, l) \in SUBSET m.history
    OBVIOUS
  <2> HIDE DEF Of
  <2> QED
    BY <1>2, <1>4, <2>1, FS_Subset, FS_CardinalityType
<1>6. h \notin m.history
  <2>1. SUFFICES ASSUME h \in m.history PROVE FALSE
    OBVIOUS
  <2>2. h.no \in 1..mem_attempts_for(m, o, k)
    BY <1>2, <1>3, <2>1
  <2>3. mem_attempts_for(m, o, k) \in Nat
    BY <1>5
  <2> QED
    BY <1>3, <2>2, <2>3
<1>7. mem_attempts_for(n, o, k) = mem_attempts_for(m, o, k) + 1
  <2>1. Of(n, o, k) = Of(m, o, k) \cup {h} /\ h \notin Of(m, o, k)
    BY <1>3, <1>6
  <2> HIDE DEF Of
  <2> QED
    BY <1>4, <1>5, <2>1, FS_AddElement
<1>8. ASSUME NEW p, NEW l, ~(p = o /\ l = k)
      PROVE  mem_attempts_for(n, p, l) = mem_attempts_for(m, p, l)
  <2>1. Of(n, p, l) = Of(m, p, l)
    BY <1>3, <1>8
  <2> HIDE DEF Of
  <2> QED
    BY <1>4, <2>1
<1> HIDE DEF Of
<1>9. /\ DOMAIN d.rows = DOMAIN c.rows /\ d.rows[o] = s
      /\ \A p \in DOMAIN c.rows \ {o} : d.rows[p] = c.rows[p]
  BY DEF Wrote
<1>10. IsFiniteSet(n.history)
  BY <1>2, <1>3, FS_AddElement
<1>11. ASSUME NEW p \in Ids, NEW l \in CommandIds
       PROVE  mem_attempts_for(n, p, l) =
                IF p \in DOMAIN d.rows THEN CommandOf(d.rows[p].log, l).attempts ELSE 0
  <2>1. mem_attempts_for(m, p, l) =
          IF p \in DOMAIN c.rows THEN CommandOf(c.rows[p].log, l).attempts ELSE 0
    BY DEF Twin, SameAttempts
  <2>2. CASE p = o /\ l = k
    BY <1>7, <1>9, <2>1, <2>2
  <2>3. CASE p = o /\ l # k
    BY <1>8, <1>9, <2>1, <2>3
  <2>4. CASE p # o
    BY <1>8, <1>9, <2>1, <2>4
  <2> QED
    BY <2>2, <2>3, <2>4
<1>12. ASSUME NEW g \in n.history
       PROVE  /\ g.order \in Ids /\ g.command \in CommandIds
              /\ g.no \in 1..mem_attempts_for(n, g.order, g.command)
  <2>1. CASE g = h
    <3>1. h.no \in 1..(mem_attempts_for(m, o, k) + 1)
      BY <1>3, <1>5
    <3> QED
      BY <1>1, <1>3, <1>7, <2>1, <3>1
  <2>2. CASE g \in m.history
    <3>1. /\ g.order \in Ids /\ g.command \in CommandIds
          /\ g.no \in 1..mem_attempts_for(m, g.order, g.command)
      BY <1>2, <2>2
    <3>2. CASE g.order = o /\ g.command = k
      <4>1. g.no \in 1..mem_attempts_for(m, o, k)
        BY <3>1, <3>2
      <4> QED
        BY <1>5, <1>7, <3>1, <3>2, <4>1
    <3>3. CASE ~(g.order = o /\ g.command = k)
      BY <1>8, <3>1, <3>3
    <3> QED
      BY <3>2, <3>3
  <2> QED
    BY <1>3, <2>1, <2>2
<1> QED
  BY <1>10, <1>11, <1>12 DEF SameAttempts

\* A row of the order with other commands and another binding.
Told(r, gen, bind, log) ==
    [key |-> r.key, ver |-> r.ver, owner |-> r.owner, life |-> r.life,
     gen |-> gen, bind |-> bind, log |-> log, wafers |-> r.wafers]

LEMMA ToldRow ==
    ASSUME NEW r, RowOK(r), NEW gen \in 0..MaxGen, NEW bind \in BindingStates, NEW log,
           CommandsOK(log, gen), gen = 0 => bind = "NONE"
    PROVE  RowOK(Told(r, gen, bind, log))
<1>1. r \in OrderRows /\ log \in Seq(Attempts(CommandIds))
  BY DEF RowOK, CommandsOK, LogOK
<1>2. Told(r, gen, bind, log) \in OrderRows
  BY <1>1 DEF OrderRows, Told
<1> QED
  BY <1>2 DEF RowOK, Told

\* The calls that write the commands of an order or its binding.
LEMMA ToldWrites ==
    ASSUME NEW c, DbOK(c), NEW o \in DOMAIN c.rows
    PROVE  LET r == c.rows[o] IN
           /\ \A k, gen, status : Wrote(c, sql_request(c, o, k, gen, status), o,
                                        Told(r, gen, status, insert_prepared(r.log, k)))
           /\ \A log : Wrote(c, sql_actions(c, o, log), o, Told(r, r.gen, r.bind, log))
           /\ \A gen, status : Wrote(c, sql_write_binding(c, o, gen, status), o,
                                     Told(r, gen, status, r.log))
<1> DEFINE r == c.rows[o]
<1>1. IsDb(c) /\ r \in OrderRows
  BY DEF DbOK, RowsOK, RowOK
<1>2. ASSUME NEW log
      PROVE  /\ Wrote(c, sql_actions(c, o, log), o, Told(r, r.gen, r.bind, log))
             /\ IsDb(sql_actions(c, o, log))
  BY <1>1 DEF Wrote, IsDb, OrderRows, sql_actions, Told
<1>3. ASSUME NEW x, IsDb(x), DOMAIN x.rows = DOMAIN c.rows, NEW log,
             x.rows[o] = Told(r, r.gen, r.bind, log),
             NEW gen, NEW status
      PROVE  Wrote(x, sql_write_binding(x, o, gen, status), o, Told(r, gen, status, log))
  <2>1. [Told(r, r.gen, r.bind, log) EXCEPT !.gen = gen] = Told(r, gen, r.bind, log)
    BY DEF Told
  <2>2. [Told(r, gen, r.bind, log) EXCEPT !.bind = status] = Told(r, gen, status, log)
    BY DEF Told
  <2>3. o \in DOMAIN x.rows
    BY <1>3
  <2> HIDE DEF r
  <2> QED
    BY <1>3, <2>1, <2>2, <2>3 DEF Wrote, IsDb, sql_write_binding
<1>4. r = Told(r, r.gen, r.bind, r.log)
  BY <1>1 DEF OrderRows, Told
<1>5. ASSUME NEW gen, NEW status
      PROVE  Wrote(c, sql_write_binding(c, o, gen, status), o, Told(r, gen, status, r.log))
  <2> HIDE DEF r
  <2>1. c.rows[o] = Told(r, r.gen, r.bind, r.log)
    BY <1>4 DEF r
  <2> QED
    BY <1>1, <1>3, <2>1
<1>6. ASSUME NEW k, NEW gen, NEW status
      PROVE  Wrote(c, sql_request(c, o, k, gen, status), o,
                   Told(r, gen, status, insert_prepared(r.log, k)))
  <2> DEFINE log == insert_prepared(r.log, k)
             x == sql_actions(c, o, log)
  <2>1. Wrote(c, x, o, Told(r, r.gen, r.bind, log)) /\ IsDb(x)
    BY <1>2
  <2> HIDE DEF log, x
  <2>2. Wrote(x, sql_write_binding(x, o, gen, status), o, Told(r, gen, status, log))
    <3>1. DOMAIN x.rows = DOMAIN c.rows /\ x.rows[o] = Told(r, r.gen, r.bind, log)
      BY <2>1 DEF Wrote
    <3> HIDE DEF r
    <3> QED
      BY <1>3, <2>1, <3>1
  <2>3. Wrote(c, sql_write_binding(x, o, gen, status), o, Told(r, gen, status, log))
    <3> HIDE DEF r
    <3> QED
      BY <2>1, <2>2 DEF Wrote
  <2> QED
    BY <2>3 DEF sql_request, x, log
<1> QED
  BY <1>2, <1>5, <1>6

\* Bindings, commands and attempts are the same, and the rest was left alone.
LEMMA PartsAlike ==
    ASSUME NEW c, NEW m, DbOK(c), Twin(c, m), NEW o \in DOMAIN c.rows,
           NEW gen, NEW bind, NEW log, RowOK(Told(c.rows[o], gen, bind, log)),
           NEW d, Wrote(c, d, o, Told(c.rows[o], gen, bind, log)), NEW n, IsMemory(n),
           n.orders = m.orders, n.orders_by_key = m.orders_by_key, n.wafers = m.wafers,
           SameBindings(d, n), SameCommands(d, n), SameAttempts(d, n),
           n.incidents = m.incidents, n.outbox = m.outbox,
           n.inbound = m.inbound, n.mode = m.mode, n.ver = m.ver, n.beat = m.beat
    PROVE  DbOK(d) /\ Twin(d, n)
<1> DEFINE s == Told(c.rows[o], gen, bind, log)
<1>1. Brief(s) = Brief(c.rows[o]) /\ s.wafers = c.rows[o].wafers
  BY DEF Brief, Told
<1>2. DbOK(d)
  <2>1. o \in Ids
    BY DEF DbOK, RowsOK
  <2> QED
    BY <2>1, RowWritten
<1> HIDE DEF s
<1>3. SameOrders(d, n) /\ KeysExact(n) /\ SameWafers(d, n) /\ SameIncidents(d, n) /\ SameRest(d, n)
  <2>1. Wrote(c, d, o, s)
    BY DEF s
  <2> QED
    BY <1>1, <2>1, Untold
<1> QED
  BY <1>2, <1>3 DEF Twin

\* The number of a command and the attempts it has left.
LEMMA CommandsKept ==
    ASSUME NEW log, NEW gen \in Nat, CommandsOK(log, gen), NEW k \in CommandIds,
           NEW new, LogOK(new, CommandIds), NEW next \in {gen, gen + 1}, k <= next,
           \A l \in CommandIds \ {k} : CommandOf(new, l) = CommandOf(log, l),
           CommandOf(new, k).state = "PREPARED" => CommandOf(new, k).attempts < MaxAttempts
    PROVE  CommandsOK(new, next)
<1>1. ASSUME NEW l \in CommandIds
      PROVE  /\ CommandOf(new, l).state # "NONE" => l <= next
             /\ CommandOf(new, l).state = "PREPARED" => CommandOf(new, l).attempts < MaxAttempts
  <2>1. CASE l = k
    BY <2>1
  <2>2. CASE l # k
    <3>1. l \in Nat /\ CommandOf(new, l) = CommandOf(log, l)
      BY <2>2, TwinAssumption DEF CommandIds
    <3>2. CommandOf(log, l).state # "NONE" => l <= gen
      BY DEF CommandsOK
    <3>3. CommandOf(log, l).state = "PREPARED" => CommandOf(log, l).attempts < MaxAttempts
      BY DEF CommandsOK
    <3> QED
      BY <3>1, <3>2, <3>3
  <2> QED
    BY <2>1, <2>2
<1> QED
  BY <1>1 DEF CommandsOK

\* request_hold and request_release: a new command, with its binding
LEMMA RequestAlike ==
    ASSUME NEW c, NEW m, DbOK(c), Twin(c, m), NEW o \in DOMAIN c.rows,
           NEW k \in CommandIds, CommandOf(c.rows[o].log, k).state = "NONE",
           NEW gen \in {c.rows[o].gen, c.rows[o].gen + 1}, gen \in CommandIds \ {0}, k <= gen,
           NEW status \in BindingStates
    PROVE  /\ DbOK(sql_request(c, o, k, gen, status))
           /\ Twin(sql_request(c, o, k, gen, status), mem_request(m, o, k, gen, status))
<1> DEFINE r == c.rows[o]
           log == insert_prepared(r.log, k)
           s == Told(r, gen, status, log)
           d == sql_request(c, o, k, gen, status)
           n == mem_request(m, o, k, gen, status)
<1>1. RowOK(r) /\ LogOK(r.log, CommandIds) /\ CommandsOK(r.log, r.gen) /\ r.gen \in Nat
  BY TwinAssumption DEF DbOK, RowsOK, RowOK, CommandsOK, OrderRows
<1>2. Rows(r.log, k) = {} /\ CommandOf(r.log, k).attempts = 0
  BY <1>1, CommandType
<1>3. /\ LogOK(log, CommandIds)
      /\ CommandOf(log, k) = [state |-> "PREPARED", outcome |-> NoReceipt, attempts |-> 0]
      /\ \A l \in CommandIds \ {k} : CommandOf(log, l) = CommandOf(r.log, l)
  BY <1>1, <1>2, Inserted
<1>4. Wrote(c, d, o, s)
  BY ToldWrites
<1>5. /\ IsMemory(n) /\ n.orders = m.orders /\ n.orders_by_key = m.orders_by_key
      /\ n.wafers = m.wafers /\ n.history = m.history
      /\ n.bindings = Put(m.bindings, <<o, gen>>, status)
      /\ n.commands = Put(m.commands, <<o, k>>, [state |-> "PREPARED", outcome |-> NoReceipt])
      /\ n.incidents = m.incidents /\ n.outbox = m.outbox
      /\ n.inbound = m.inbound /\ n.mode = m.mode /\ n.ver = m.ver /\ n.beat = m.beat
  BY DEF mem_request, mem_write_binding, mem_insert_prepared, Twin, IsMemory
<1> HIDE DEF d, n, log
<1>6. s.gen = gen /\ s.bind = status /\ s.log = log
  BY DEF Told
<1>7. RowOK(s)
  <2>1. CommandsOK(log, gen)
    <3>1. CommandOf(log, k).state = "PREPARED" => CommandOf(log, k).attempts < MaxAttempts
      BY <1>3, AttemptsAssumption
    <3> HIDE DEF r
    <3>2. gen \in {r.gen, r.gen + 1}
      BY DEF r
    <3> QED
      BY <1>1, <1>3, <3>1, <3>2, CommandsKept
  <2> QED
    BY <1>1, <2>1, ToldRow DEF CommandIds
<1> HIDE DEF s
<1>8. SameBindings(d, n)
  BY <1>4, <1>5, <1>6, BindingTold
<1>9. SameCommands(d, n)
  <2>1. n.commands = Put(m.commands, <<o, k>>, [state |-> CommandOf(s.log, k).state,
                                                outcome |-> CommandOf(s.log, k).outcome])
    BY <1>3, <1>5, <1>6
  <2>2. /\ \A l \in CommandIds \ {k} : CommandOf(s.log, l) = CommandOf(c.rows[o].log, l)
        /\ CommandOf(s.log, k).state # "NONE"
    BY <1>3, <1>6
  <2> QED
    BY <1>4, <2>1, <2>2, CommandTold
<1>10. SameAttempts(d, n)
  <2>1. \A l \in CommandIds : CommandOf(s.log, l).attempts = CommandOf(c.rows[o].log, l).attempts
    BY <1>2, <1>3, <1>6
  <2> QED
    BY <1>4, <1>5, <2>1, AttemptsKept
<1>11. DbOK(d) /\ Twin(d, n)
  BY <1>4, <1>5, <1>7, <1>8, <1>9, <1>10, PartsAlike DEF s
<1> QED
  BY <1>11 DEF d, n

\* save_command, of a command that is there
LEMMA SaveAlike ==
    ASSUME NEW c, NEW m, DbOK(c), Twin(c, m), NEW o \in DOMAIN c.rows,
           NEW k \in CommandIds, CommandOf(c.rows[o].log, k).state # "NONE",
           NEW state \in ActionStates \ {"NONE"},
           state = "PREPARED" => CommandOf(c.rows[o].log, k).attempts < MaxAttempts
    PROVE  /\ DbOK(sql_save_command(c, o, k, state))
           /\ Twin(sql_save_command(c, o, k, state), mem_save_command(m, o, k, state))
<1> DEFINE r == c.rows[o]
           command == CommandOf(r.log, k)
           log == save_command(r.log, k, state, command.outcome)
           s == Told(r, r.gen, r.bind, log)
           d == sql_save_command(c, o, k, state)
           n == mem_save_command(m, o, k, state)
<1>1. /\ RowOK(r) /\ LogOK(r.log, CommandIds) /\ CommandsOK(r.log, r.gen) /\ o \in Ids
      /\ r.gen \in Nat /\ r.gen \in 0..MaxGen /\ r.bind \in BindingStates
      /\ r.gen = 0 => r.bind = "NONE"
  BY TwinAssumption DEF DbOK, RowsOK, RowOK, CommandsOK, OrderRows
<1>2. Rows(r.log, k) # {} /\ DOMAIN command = {"state", "outcome", "attempts"}
  BY <1>1, CommandType
<1>3. /\ LogOK(log, CommandIds)
      /\ CommandOf(log, k) = [command EXCEPT !.state = state]
      /\ \A l \in CommandIds \ {k} : CommandOf(log, l) = CommandOf(r.log, l)
  BY <1>1, <1>2, Saved
<1>4. Wrote(c, d, o, s)
  BY ToldWrites DEF sql_save_command
<1>5. /\ <<o, k>> \in DOMAIN m.commands
      /\ m.commands[<<o, k>>] = [state |-> command.state, outcome |-> command.outcome]
  BY <1>1 DEF Twin, SameCommands
<1>6. /\ IsMemory(n) /\ n.orders = m.orders /\ n.orders_by_key = m.orders_by_key
      /\ n.wafers = m.wafers /\ n.history = m.history /\ n.bindings = m.bindings
      /\ n.commands = [m.commands EXCEPT ![<<o, k>>].state = state]
      /\ n.incidents = m.incidents /\ n.outbox = m.outbox
      /\ n.inbound = m.inbound /\ n.mode = m.mode /\ n.ver = m.ver /\ n.beat = m.beat
  BY DEF mem_save_command, Twin, IsMemory
<1>7. /\ CommandOf(log, k).state = state
      /\ CommandOf(log, k).outcome = command.outcome
      /\ CommandOf(log, k).attempts = command.attempts
  BY <1>2, <1>3
<1> HIDE DEF d, n, log, command
<1>8. n.commands = Put(m.commands, <<o, k>>, [state |-> state, outcome |-> command.outcome])
  <2> DEFINE e == <<o, k>>
             v == [state |-> state, outcome |-> command.outcome]
  <2>1. [m.commands[e] EXCEPT !.state = state] = v
    BY <1>5
  <2> HIDE DEF e, v
  <2>2. n.commands = [m.commands EXCEPT ![e] = v] /\ e \in DOMAIN m.commands
    BY <1>5, <1>6, <2>1 DEF e
  <2>3. n.commands = Put(m.commands, e, v)
    BY <2>2 DEF Put
  <2> QED
    BY <2>3 DEF e, v
<1>9. s.gen = r.gen /\ s.bind = r.bind /\ s.log = log
  BY DEF Told
<1>10. RowOK(s)
  <2>1. CommandsOK(log, r.gen)
    <3>1. CommandOf(log, k).state = "PREPARED" => CommandOf(log, k).attempts < MaxAttempts
      BY <1>7 DEF command
    <3>2. k <= r.gen
      BY <1>1 DEF CommandsOK
    <3> HIDE DEF r
    <3>3. r.gen \in {r.gen, r.gen + 1}
      OBVIOUS
    <3> QED
      BY <1>1, <1>3, <3>1, <3>2, <3>3, CommandsKept
  <2> QED
    BY <1>1, <2>1, ToldRow
<1> HIDE DEF s
<1>11. SameBindings(d, n)
  BY <1>4, <1>6, <1>9, Untold
<1>12. SameCommands(d, n)
  <2>1. n.commands = Put(m.commands, <<o, k>>, [state |-> CommandOf(s.log, k).state,
                                                outcome |-> CommandOf(s.log, k).outcome])
    BY <1>7, <1>8, <1>9
  <2>2. /\ \A l \in CommandIds \ {k} : CommandOf(s.log, l) = CommandOf(c.rows[o].log, l)
        /\ CommandOf(s.log, k).state # "NONE"
    BY <1>3, <1>7, <1>9
  <2> QED
    BY <1>4, <2>1, <2>2, CommandTold
<1>13. SameAttempts(d, n)
  <2>1. \A l \in CommandIds : CommandOf(s.log, l).attempts = CommandOf(c.rows[o].log, l).attempts
    BY <1>3, <1>7, <1>9 DEF command
  <2> QED
    BY <1>4, <1>6, <2>1, AttemptsKept
<1>14. DbOK(d) /\ Twin(d, n)
  BY <1>4, <1>6, <1>10, <1>11, <1>12, <1>13, PartsAlike DEF s
<1> QED
  BY <1>14 DEF d, n

\* record_receipt: both stores give the attempt the same number.
LEMMA ReceiptAlike ==
    ASSUME NEW c, NEW m, DbOK(c), Twin(c, m), NEW o \in DOMAIN c.rows,
           NEW k \in CommandIds, CommandOf(c.rows[o].log, k).state = "PREPARED",
           NEW receipt \in Receipts
    PROVE  /\ DbOK(sql_record_receipt(c, o, k, receipt))
           /\ Twin(sql_record_receipt(c, o, k, receipt), mem_record_receipt(m, o, k, receipt))
           /\ next_attempt_no(c.rows[o].log, k) = mem_next_attempt_no(m, o, k)
<1> DEFINE r == c.rows[o]
           no == CommandOf(r.log, k).attempts + 1
           log == record_receipt(r.log, k, receipt)
           state == state_after_receipt(receipt, no)
           s == Told(r, r.gen, r.bind, log)
           d == sql_record_receipt(c, o, k, receipt)
           n == mem_record_receipt(m, o, k, receipt)
<1>1. /\ RowOK(r) /\ LogOK(r.log, CommandIds) /\ CommandsOK(r.log, r.gen) /\ o \in Ids
      /\ r.gen \in Nat /\ r.gen \in 0..MaxGen /\ r.bind \in BindingStates
      /\ r.gen = 0 => r.bind = "NONE"
  BY TwinAssumption DEF DbOK, RowsOK, RowOK, CommandsOK, OrderRows
<1>2. /\ Rows(r.log, k) # {}
      /\ CommandOf(r.log, k).attempts \in Nat
      /\ attempts_for(r.log, k) = CommandOf(r.log, k).attempts
  BY <1>1, CommandType, AttemptsAssumption
<1>3. CommandOf(r.log, k).attempts < MaxAttempts /\ k <= r.gen
  BY <1>1 DEF CommandsOK
<1>4. /\ LogOK(log, CommandIds)
      /\ CommandOf(log, k) = [state |-> state, outcome |-> receipt, attempts |-> no]
      /\ \A l \in CommandIds \ {k} : CommandOf(log, l) = CommandOf(r.log, l)
  BY <1>1, <1>2, <1>3, Recorded
<1>5. Wrote(c, d, o, s)
  BY ToldWrites DEF sql_record_receipt
<1>6. mem_attempts_for(m, o, k) = CommandOf(r.log, k).attempts
  BY <1>1 DEF Twin, SameAttempts
<1>7. mem_next_attempt_no(m, o, k) = no /\ next_attempt_no(r.log, k) = no
  BY <1>2, <1>6 DEF mem_next_attempt_no, next_attempt_no
<1>8. <<o, k>> \in DOMAIN m.commands
  BY <1>1 DEF Twin, SameCommands
<1>9. state # "NONE" /\ state # "PREPARED"
  BY DEF state_after_receipt
<1> HIDE DEF no, log, state
<1>10. /\ IsMemory(n) /\ n.orders = m.orders /\ n.orders_by_key = m.orders_by_key
       /\ n.wafers = m.wafers /\ n.bindings = m.bindings
       /\ n.history = m.history \cup
            {[order |-> o, command |-> k, no |-> mem_next_attempt_no(m, o, k),
              outcome |-> receipt]}
       /\ n.commands = [m.commands EXCEPT ![<<o, k>>] = [state |-> state, outcome |-> receipt]]
       /\ n.incidents = m.incidents /\ n.outbox = m.outbox
       /\ n.inbound = m.inbound /\ n.mode = m.mode /\ n.ver = m.ver /\ n.beat = m.beat
  BY <1>7 DEF mem_record_receipt, Twin, IsMemory, state
<1> HIDE DEF d, n
<1>11. n.commands = Put(m.commands, <<o, k>>, [state |-> state, outcome |-> receipt])
  <2> DEFINE e == <<o, k>>
             v == [state |-> state, outcome |-> receipt]
  <2> HIDE DEF e, v
  <2>1. n.commands = [m.commands EXCEPT ![e] = v] /\ e \in DOMAIN m.commands
    BY <1>8, <1>10 DEF e, v
  <2>2. n.commands = Put(m.commands, e, v)
    BY <2>1 DEF Put
  <2> QED
    BY <2>2 DEF e, v
<1>12. s.gen = r.gen /\ s.bind = r.bind /\ s.log = log
  BY DEF Told
<1>13. RowOK(s)
  <2>1. CommandsOK(log, r.gen)
    <3>1. CommandOf(log, k).state = "PREPARED" => CommandOf(log, k).attempts < MaxAttempts
      BY <1>4, <1>9
    <3> HIDE DEF r
    <3>2. r.gen \in {r.gen, r.gen + 1}
      OBVIOUS
    <3> QED
      BY <1>1, <1>3, <1>4, <3>1, <3>2, CommandsKept
  <2> QED
    BY <1>1, <2>1, ToldRow
<1> HIDE DEF s
<1>14. SameBindings(d, n)
  BY <1>5, <1>10, <1>12, Untold
<1>15. SameCommands(d, n)
  <2>1. n.commands = Put(m.commands, <<o, k>>, [state |-> CommandOf(s.log, k).state,
                                                outcome |-> CommandOf(s.log, k).outcome])
    BY <1>4, <1>11, <1>12
  <2>2. /\ \A l \in CommandIds \ {k} : CommandOf(s.log, l) = CommandOf(c.rows[o].log, l)
        /\ CommandOf(s.log, k).state # "NONE"
    BY <1>4, <1>9, <1>12
  <2> QED
    BY <1>5, <2>1, <2>2, CommandTold
<1>16. SameAttempts(d, n)
  <2>1. /\ \A l \in CommandIds \ {k} : CommandOf(s.log, l) = CommandOf(c.rows[o].log, l)
        /\ CommandOf(s.log, k).attempts = CommandOf(c.rows[o].log, k).attempts + 1
    BY <1>4, <1>12 DEF no
  <2> DEFINE h == [order |-> o, command |-> k, no |-> mem_next_attempt_no(m, o, k),
                   outcome |-> receipt]
  <2>2. /\ h.order = o /\ h.command = k /\ h.no = mem_next_attempt_no(m, o, k)
        /\ n.history = m.history \cup {h}
    BY <1>10
  <2> HIDE DEF h
  <2> QED
    BY <1>5, <2>1, <2>2, AttemptTold
<1>17. DbOK(d) /\ Twin(d, n)
  BY <1>5, <1>10, <1>13, <1>14, <1>15, <1>16, PartsAlike DEF s
<1> QED
  BY <1>7, <1>17 DEF d, n

\* The binding of the last generation is written, and one order's bindings are
\* all written as one.
LEMMA BindingAlike ==
    ASSUME NEW c, NEW m, DbOK(c), Twin(c, m), NEW o \in DOMAIN c.rows,
           c.rows[o].bind # "NONE", NEW status \in BindingStates,
           NEW n, \/ n = mem_write_binding(m, o, c.rows[o].gen, status)
                  \/ status = "RELEASED" /\ n = mem_release_bindings(m, o)
    PROVE  /\ DbOK(sql_write_binding(c, o, c.rows[o].gen, status))
           /\ Twin(sql_write_binding(c, o, c.rows[o].gen, status), n)
<1> DEFINE r == c.rows[o]
           s == Told(r, r.gen, status, r.log)
           d == sql_write_binding(c, o, r.gen, status)
           new == [b \in DOMAIN m.bindings |->
                     IF b \in mem_bindings(m, o) THEN status ELSE m.bindings[b]]
<1>1. /\ RowOK(r) /\ CommandsOK(r.log, r.gen) /\ o \in Ids
      /\ r.gen \in CommandIds \ {0} /\ r.gen \in 1..r.gen
  BY TwinAssumption DEF DbOK, RowsOK, RowOK, OrderRows, CommandIds
<1>2. Wrote(c, d, o, s)
  BY ToldWrites
<1>3. /\ IsMemory(n) /\ n.orders = m.orders /\ n.orders_by_key = m.orders_by_key
      /\ n.wafers = m.wafers /\ n.history = m.history /\ n.commands = m.commands
      /\ n.bindings = Put(m.bindings, <<o, r.gen>>, status) \/ n.bindings = new
      /\ n.incidents = m.incidents /\ n.outbox = m.outbox
      /\ n.inbound = m.inbound /\ n.mode = m.mode /\ n.ver = m.ver /\ n.beat = m.beat
  <2>1. CASE n = mem_write_binding(m, o, r.gen, status)
    BY <2>1 DEF mem_write_binding, Twin, IsMemory
  <2>2. CASE n # mem_write_binding(m, o, r.gen, status)
    <3>1. n = [m EXCEPT !.bindings = new]
      BY <2>2 DEF mem_release_bindings, Twin, IsMemory
    <3> HIDE DEF new
    <3> QED
      BY <3>1 DEF Twin, IsMemory
  <2> QED
    BY <2>1, <2>2
<1>4. s.gen = r.gen /\ s.bind = status /\ s.log = r.log
  BY DEF Told
<1>5. RowOK(s)
  BY <1>1, ToldRow DEF CommandIds
<1> HIDE DEF d, s
<1>6. SameBindings(d, n)
  <2>1. CASE n.bindings = Put(m.bindings, <<o, r.gen>>, status)
    BY <1>1, <1>2, <1>4, <2>1, BindingTold
  <2>2. CASE n.bindings = new
    <3>1. /\ DOMAIN d.rows = DOMAIN c.rows /\ d.rows[o] = s
          /\ \A p \in DOMAIN c.rows \ {o} : d.rows[p] = c.rows[p]
      BY <1>2 DEF Wrote
    <3>2. \A p \in DOMAIN c.rows : d.rows[p].gen = c.rows[p].gen
      BY <1>4, <3>1
    <3>3. DOMAIN n.bindings = DOMAIN m.bindings
      BY <2>2
    <3>4. ASSUME NEW p \in DOMAIN d.rows, d.rows[p].gen > 0
          PROVE  n.bindings[<<p, d.rows[p].gen>>] = d.rows[p].bind
      <4>1. p \in Ids /\ c.rows[p].gen \in CommandIds /\ c.rows[p].gen \in 1..c.rows[p].gen
        BY <3>1, <3>2, <3>4, TwinAssumption DEF DbOK, RowsOK, RowOK, OrderRows, CommandIds
      <4>2. <<p, c.rows[p].gen>> \in DOMAIN m.bindings
        BY <3>1, <4>1 DEF Twin, SameBindings
      <4>3. CASE p = o
        BY <1>4, <2>2, <3>1, <3>2, <4>2, <4>3 DEF mem_bindings
      <4>4. CASE p # o
        <5>1. m.bindings[<<p, c.rows[p].gen>>] = c.rows[p].bind
          BY <3>1, <3>2, <3>4 DEF Twin, SameBindings
        <5>2. <<p, c.rows[p].gen>> \notin mem_bindings(m, o)
          BY <4>4 DEF mem_bindings
        <5> QED
          BY <2>2, <3>1, <3>2, <4>2, <4>4, <5>1, <5>2
      <4> QED
        BY <4>3, <4>4
    <3>5. /\ DOMAIN n.bindings \subseteq Ids \X CommandIds
          /\ \A p \in Ids, g \in CommandIds :
               <<p, g>> \in DOMAIN n.bindings <=> p \in DOMAIN d.rows /\ g \in 1..d.rows[p].gen
      BY <3>1, <3>2, <3>3 DEF Twin, SameBindings
    <3> QED
      BY <3>4, <3>5 DEF SameBindings
  <2> QED
    BY <1>3, <2>1, <2>2
<1>7. SameCommands(d, n) /\ SameAttempts(d, n)
  BY <1>2, <1>3, <1>4, Untold
<1>8. DbOK(d) /\ Twin(d, n)
  BY <1>2, <1>3, <1>5, <1>6, <1>7, PartsAlike DEF s
<1> QED
  BY <1>8 DEF d

-----------------------------------------------------------------------------
(* Incidents, inbound events, the control row and the heartbeat *)

\* What no order is about.
LEMMA RestAlike ==
    ASSUME NEW c, NEW m, DbOK(c), Twin(c, m),
           NEW d, IsDb(d), d.rows = c.rows, IncidentsOK(d),
           NEW n, IsMemory(n), n.orders = m.orders, n.orders_by_key = m.orders_by_key,
           n.wafers = m.wafers, n.bindings = m.bindings, n.commands = m.commands,
           n.history = m.history, SameIncidents(d, n), SameRest(d, n)
    PROVE  DbOK(d) /\ Twin(d, n)
<1>1. DbOK(d)
  BY DEF DbOK, RowsOK
<1>2. SameOrders(d, n) /\ KeysExact(n) /\ SameBindings(d, n) /\ SameCommands(d, n)
  <2>1. SameOrders(d, n)
    BY DEF Twin, SameOrders
  <2>2. KeysExact(n)
    BY DEF Twin, KeysExact
  <2>3. SameBindings(d, n)
    BY DEF Twin, SameBindings
  <2>4. SameCommands(d, n)
    BY DEF Twin, SameCommands
  <2> QED
    BY <2>1, <2>2, <2>3, <2>4
<1>3. SameWafers(d, n)
  BY DEF Twin, SameWafers, mem_wafers
<1>4. SameAttempts(d, n)
  BY DEF Twin, SameAttempts, mem_attempts_for
<1> QED
  BY <1>1, <1>2, <1>3, <1>4 DEF Twin

\* An incident is written, with its mail.
LEMMA IncidentTold ==
    ASSUME NEW c, NEW m, IncidentsOK(c), SameIncidents(c, m), NEW a, NEW i \in Incidents,
           NEW d, d.incidents = Put(c.incidents, a, i),
           NEW n, n.incidents = Put(m.incidents, a, i.status),
           n.outbox = Put(m.outbox, a, [mail |-> i.mail, tries |-> i.tries])
    PROVE  IncidentsOK(d) /\ SameIncidents(d, n)
<1> DEFINE mail == [mail |-> i.mail, tries |-> i.tries]
<1>1. /\ DOMAIN d.incidents = DOMAIN c.incidents \cup {a} /\ d.incidents[a] = i
      /\ \A b \in DOMAIN c.incidents \ {a} : d.incidents[b] = c.incidents[b]
  BY DEF Put
<1>2. IncidentsOK(d)
  BY DEF IncidentsOK, Put
<1>3. n.incidents = [b \in DOMAIN d.incidents |-> d.incidents[b].status]
  <2>1. DOMAIN m.incidents = DOMAIN c.incidents
        /\ \A b \in DOMAIN c.incidents : m.incidents[b] = c.incidents[b].status
    BY DEF SameIncidents
  <2>2. n.incidents = [b \in DOMAIN m.incidents \cup {a} |->
                         IF b = a THEN i.status ELSE m.incidents[b]]
    BY DEF Put
  <2> QED
    BY <1>1, <2>1, <2>2
<1>4. n.outbox = [b \in DOMAIN d.incidents |->
                    [mail |-> d.incidents[b].mail, tries |-> d.incidents[b].tries]]
  <2>1. DOMAIN m.outbox = DOMAIN c.incidents
        /\ \A b \in DOMAIN c.incidents :
             m.outbox[b] = [mail |-> c.incidents[b].mail, tries |-> c.incidents[b].tries]
    BY DEF SameIncidents
  <2>2. n.outbox = [b \in DOMAIN m.outbox \cup {a} |-> IF b = a THEN mail ELSE m.outbox[b]]
    BY DEF Put
  <2> HIDE DEF mail
  <2>3. \A b \in DOMAIN d.incidents :
          n.outbox[b] = [mail |-> d.incidents[b].mail, tries |-> d.incidents[b].tries]
    BY <1>1, <2>1, <2>2 DEF mail
  <2>4. DOMAIN n.outbox = DOMAIN d.incidents /\ n.outbox = [b \in DOMAIN n.outbox |-> n.outbox[b]]
    BY <1>1, <2>1, <2>2
  <2> QED
    BY <2>3, <2>4
<1> QED
  BY <1>2, <1>3, <1>4 DEF SameIncidents

\* open_or_touch with enqueue, resolve, mark_sent and mark_failed
LEMMA IncidentsAlike ==
    ASSUME NEW c, NEW m, DbOK(c), Twin(c, m), NEW a
    PROVE  /\ a \in DOMAIN m.incidents <=> a \in DOMAIN c.incidents
           /\ DbOK(sql_open_incident(c, a))
           /\ Twin(sql_open_incident(c, a), mem_open_incident(m, a))
           /\ a \in DOMAIN c.incidents =>
                /\ m.outbox[a].tries = c.incidents[a].tries
                /\ DbOK(sql_resolve(c, a)) /\ Twin(sql_resolve(c, a), mem_resolve(m, a))
                /\ \A mail \in {"SENT", "FAILED"} : \A tries \in 0..MaxAttempts :
                    /\ DbOK(sql_mail(c, a, mail, tries))
                    /\ Twin(sql_mail(c, a, mail, tries), mem_mail(m, a, mail, tries))
<1>1. /\ IsDb(c) /\ IncidentsOK(c) /\ IsMemory(m) /\ SameIncidents(c, m) /\ SameRest(c, m)
      /\ DOMAIN m.incidents = DOMAIN c.incidents /\ DOMAIN m.outbox = DOMAIN c.incidents
      /\ \A b \in DOMAIN c.incidents :
           /\ c.incidents[b] \in Incidents
           /\ m.incidents[b] = c.incidents[b].status
           /\ m.outbox[b] = [mail |-> c.incidents[b].mail, tries |-> c.incidents[b].tries]
  BY DEF DbOK, Twin, SameIncidents, IncidentsOK
<1>2. ASSUME NEW i \in Incidents,
             NEW d, IsDb(d), d.rows = c.rows, d.inbound = c.inbound, d.mode = c.mode,
             d.ver = c.ver, d.beat = c.beat, d.incidents = Put(c.incidents, a, i),
             NEW n, IsMemory(n), n.orders = m.orders, n.orders_by_key = m.orders_by_key,
             n.wafers = m.wafers, n.bindings = m.bindings, n.commands = m.commands,
             n.history = m.history, n.inbound = m.inbound, n.mode = m.mode,
             n.ver = m.ver, n.beat = m.beat, n.incidents = Put(m.incidents, a, i.status),
             n.outbox = Put(m.outbox, a, [mail |-> i.mail, tries |-> i.tries])
      PROVE  DbOK(d) /\ Twin(d, n)
  <2>1. IncidentsOK(d) /\ SameIncidents(d, n)
    BY <1>1, <1>2, IncidentTold
  <2>2. SameRest(d, n)
    BY <1>1, <1>2 DEF SameRest
  <2> QED
    BY <1>2, <2>1, <2>2, RestAlike
<1>3. DbOK(sql_open_incident(c, a)) /\ Twin(sql_open_incident(c, a), mem_open_incident(m, a))
  <2>1. CASE a \in DOMAIN c.incidents
    BY <1>1, <2>1 DEF sql_open_incident, mem_open_incident
  <2>2. CASE a \notin DOMAIN c.incidents
    <3> DEFINE i == [status |-> "OPEN", mail |-> "PENDING", tries |-> 0]
               d == sql_open_incident(c, a)
               n == mem_open_incident(m, a)
    <3>1. i \in Incidents /\ i.status = "OPEN" /\ i.mail = "PENDING" /\ i.tries = 0
      BY AttemptsAssumption DEF Incidents
    <3>2. /\ IsDb(d) /\ d.rows = c.rows /\ d.inbound = c.inbound /\ d.mode = c.mode
          /\ d.ver = c.ver /\ d.beat = c.beat /\ d.incidents = Put(c.incidents, a, i)
      BY <1>1, <2>2 DEF sql_open_incident, IsDb
    <3> HIDE DEF i
    <3>3. /\ IsMemory(n) /\ n.orders = m.orders /\ n.orders_by_key = m.orders_by_key
          /\ n.wafers = m.wafers /\ n.bindings = m.bindings /\ n.commands = m.commands
          /\ n.history = m.history /\ n.inbound = m.inbound /\ n.mode = m.mode
          /\ n.ver = m.ver /\ n.beat = m.beat /\ n.incidents = Put(m.incidents, a, i.status)
          /\ n.outbox = Put(m.outbox, a, [mail |-> i.mail, tries |-> i.tries])
      BY <1>1, <2>2, <3>1 DEF mem_open_incident, IsMemory
    <3> HIDE DEF d, n
    <3>4. DbOK(d) /\ Twin(d, n)
      BY <1>2, <3>1, <3>2, <3>3
    <3> QED
      BY <3>4 DEF d, n
  <2> QED
    BY <2>1, <2>2
<1>4. ASSUME a \in DOMAIN c.incidents
      PROVE  DbOK(sql_resolve(c, a)) /\ Twin(sql_resolve(c, a), mem_resolve(m, a))
  <2> DEFINE i == [c.incidents[a] EXCEPT !.status = "RESOLVED"]
             d == sql_resolve(c, a)
             n == mem_resolve(m, a)
  <2>1. /\ i \in Incidents /\ i.status = "RESOLVED"
        /\ i.mail = c.incidents[a].mail /\ i.tries = c.incidents[a].tries
    BY <1>1, <1>4 DEF Incidents
  <2>2. [c.incidents EXCEPT ![a] = i] = Put(c.incidents, a, i)
        /\ [m.incidents EXCEPT ![a] = "RESOLVED"] = Put(m.incidents, a, "RESOLVED")
    <3> HIDE DEF i
    <3> QED
      BY <1>1, <1>4 DEF Put
  <2>3. /\ IsDb(d) /\ d.rows = c.rows /\ d.inbound = c.inbound /\ d.mode = c.mode
        /\ d.ver = c.ver /\ d.beat = c.beat /\ d.incidents = [c.incidents EXCEPT ![a] = i]
    BY <1>1 DEF sql_resolve, IsDb
  <2> HIDE DEF i
  <2>4. m.outbox = Put(m.outbox, a, [mail |-> i.mail, tries |-> i.tries])
    <3> DEFINE mail == [mail |-> i.mail, tries |-> i.tries]
    <3>1. m.outbox[a] = mail
      BY <1>1, <1>4, <2>1
    <3> HIDE DEF mail
    <3>2. m.outbox = [b \in DOMAIN m.outbox |-> m.outbox[b]]
      BY <1>1 DEF SameIncidents
    <3>3. m.outbox = Put(m.outbox, a, mail)
      BY <1>1, <1>4, <3>1, <3>2 DEF Put
    <3> QED
      BY <3>3 DEF mail
  <2>5. /\ IsMemory(n) /\ n.orders = m.orders /\ n.orders_by_key = m.orders_by_key
        /\ n.wafers = m.wafers /\ n.bindings = m.bindings /\ n.commands = m.commands
        /\ n.history = m.history /\ n.inbound = m.inbound /\ n.mode = m.mode
        /\ n.ver = m.ver /\ n.beat = m.beat /\ n.outbox = m.outbox
        /\ n.incidents = [m.incidents EXCEPT ![a] = "RESOLVED"]
    BY <1>1 DEF mem_resolve, IsMemory
  <2> HIDE DEF d, n
  <2>6. d.incidents = Put(c.incidents, a, i) /\ n.incidents = Put(m.incidents, a, i.status)
        /\ n.outbox = Put(m.outbox, a, [mail |-> i.mail, tries |-> i.tries])
    BY <2>1, <2>2, <2>3, <2>4, <2>5
  <2>7. DbOK(d) /\ Twin(d, n)
    BY <1>2, <2>1, <2>3, <2>5, <2>6
  <2> QED
    BY <2>7 DEF d, n
<1>5. ASSUME a \in DOMAIN c.incidents, NEW mail \in {"SENT", "FAILED"},
             NEW tries \in 0..MaxAttempts
      PROVE  /\ DbOK(sql_mail(c, a, mail, tries))
             /\ Twin(sql_mail(c, a, mail, tries), mem_mail(m, a, mail, tries))
  <2> DEFINE i == [c.incidents[a] EXCEPT !.mail = mail, !.tries = tries]
             d == sql_mail(c, a, mail, tries)
             n == mem_mail(m, a, mail, tries)
  <2>1. /\ i \in Incidents /\ i.status = c.incidents[a].status
        /\ i.mail = mail /\ i.tries = tries
    BY <1>1, <1>5 DEF Incidents
  <2>2. /\ IsDb(d) /\ d.rows = c.rows /\ d.inbound = c.inbound /\ d.mode = c.mode
        /\ d.ver = c.ver /\ d.beat = c.beat
        /\ d.incidents = [c.incidents EXCEPT ![a].mail = mail, ![a].tries = tries]
    BY <1>1 DEF sql_mail, IsDb
  <2>3. d.incidents = [c.incidents EXCEPT ![a] = i]
    BY <1>1, <1>5, <2>2
  <2> HIDE DEF i
  <2>4. d.incidents = Put(c.incidents, a, i)
    BY <1>1, <1>5, <2>3 DEF Put
  <2>5. m.incidents = Put(m.incidents, a, i.status)
    <3>1. m.incidents[a] = i.status
      BY <1>1, <1>5, <2>1
    <3>2. m.incidents = [b \in DOMAIN m.incidents |-> m.incidents[b]]
      BY <1>1 DEF SameIncidents
    <3> QED
      BY <1>1, <1>5, <3>1, <3>2 DEF Put
  <2>6. /\ IsMemory(n) /\ n.orders = m.orders /\ n.orders_by_key = m.orders_by_key
        /\ n.wafers = m.wafers /\ n.bindings = m.bindings /\ n.commands = m.commands
        /\ n.history = m.history /\ n.inbound = m.inbound /\ n.mode = m.mode
        /\ n.ver = m.ver /\ n.beat = m.beat /\ n.incidents = m.incidents
        /\ n.outbox = Put(m.outbox, a, [mail |-> mail, tries |-> tries])
    BY <1>1 DEF mem_mail, IsMemory
  <2> HIDE DEF d, n
  <2>7. /\ n.incidents = Put(m.incidents, a, i.status)
        /\ n.outbox = Put(m.outbox, a, [mail |-> i.mail, tries |-> i.tries])
    BY <2>1, <2>5, <2>6
  <2>8. DbOK(d) /\ Twin(d, n)
    BY <1>2, <2>1, <2>2, <2>4, <2>6, <2>7
  <2> QED
    BY <2>8 DEF d, n
<1>6. ASSUME a \in DOMAIN c.incidents
      PROVE  m.outbox[a].tries = c.incidents[a].tries
  <2>1. m.outbox[a] = [mail |-> c.incidents[a].mail, tries |-> c.incidents[a].tries]
    BY <1>1, <1>6
  <2> QED
    BY <2>1
<1> QED
  BY <1>1, <1>3, <1>4, <1>5, <1>6

\* control.save, heartbeat.touch, inbound.try_record and inbound.mark_consumed
LEMMA SettingsAlike ==
    ASSUME NEW c, NEW m, DbOK(c), Twin(c, m)
    PROVE  /\ m.ver = c.ver /\ m.inbound = c.inbound
           /\ \A mode, ver :
                /\ DbOK([c EXCEPT !.mode = mode, !.ver = ver])
                /\ Twin([c EXCEPT !.mode = mode, !.ver = ver],
                        [m EXCEPT !.mode = mode, !.ver = ver])
           /\ \A beat :
                /\ DbOK([c EXCEPT !.beat = beat])
                /\ Twin([c EXCEPT !.beat = beat], [m EXCEPT !.beat = beat])
           /\ \A inbound :
                /\ DbOK([c EXCEPT !.inbound = inbound])
                /\ Twin([c EXCEPT !.inbound = inbound], [m EXCEPT !.inbound = inbound])
<1>1. /\ IsDb(c) /\ IncidentsOK(c) /\ IsMemory(m) /\ SameIncidents(c, m) /\ SameRest(c, m)
  BY DEF DbOK, Twin
<1>2. ASSUME NEW d, IsDb(d), d.rows = c.rows, d.incidents = c.incidents,
             NEW n, IsMemory(n), n.orders = m.orders, n.orders_by_key = m.orders_by_key,
             n.wafers = m.wafers, n.bindings = m.bindings, n.commands = m.commands,
             n.history = m.history, n.incidents = m.incidents, n.outbox = m.outbox,
             SameRest(d, n)
      PROVE  DbOK(d) /\ Twin(d, n)
  <2>1. IncidentsOK(d) /\ SameIncidents(d, n)
    BY <1>1, <1>2 DEF IncidentsOK, SameIncidents
  <2> QED
    BY <1>2, <2>1, RestAlike
<1>3. ASSUME NEW mode, NEW ver
      PROVE  /\ DbOK([c EXCEPT !.mode = mode, !.ver = ver])
             /\ Twin([c EXCEPT !.mode = mode, !.ver = ver], [m EXCEPT !.mode = mode, !.ver = ver])
  <2> DEFINE d == [c EXCEPT !.mode = mode, !.ver = ver]
             n == [m EXCEPT !.mode = mode, !.ver = ver]
  <2>1. IsDb(d) /\ d.rows = c.rows /\ d.incidents = c.incidents
        /\ d.inbound = c.inbound /\ d.mode = mode /\ d.ver = ver /\ d.beat = c.beat
    BY <1>1 DEF IsDb
  <2>2. /\ IsMemory(n) /\ n.orders = m.orders /\ n.orders_by_key = m.orders_by_key
        /\ n.wafers = m.wafers /\ n.bindings = m.bindings /\ n.commands = m.commands
        /\ n.history = m.history /\ n.incidents = m.incidents /\ n.outbox = m.outbox
        /\ n.inbound = m.inbound /\ n.mode = mode /\ n.ver = ver /\ n.beat = m.beat
    BY <1>1 DEF IsMemory
  <2> HIDE DEF d, n
  <2>3. SameRest(d, n)
    BY <1>1, <2>1, <2>2 DEF SameRest
  <2>4. DbOK(d) /\ Twin(d, n)
    BY <1>2, <2>1, <2>2, <2>3
  <2> QED
    BY <2>4 DEF d, n
<1>4. ASSUME NEW beat
      PROVE  /\ DbOK([c EXCEPT !.beat = beat])
             /\ Twin([c EXCEPT !.beat = beat], [m EXCEPT !.beat = beat])
  <2> DEFINE d == [c EXCEPT !.beat = beat]
             n == [m EXCEPT !.beat = beat]
  <2>1. IsDb(d) /\ d.rows = c.rows /\ d.incidents = c.incidents
        /\ d.inbound = c.inbound /\ d.mode = c.mode /\ d.ver = c.ver /\ d.beat = beat
    BY <1>1 DEF IsDb
  <2>2. /\ IsMemory(n) /\ n.orders = m.orders /\ n.orders_by_key = m.orders_by_key
        /\ n.wafers = m.wafers /\ n.bindings = m.bindings /\ n.commands = m.commands
        /\ n.history = m.history /\ n.incidents = m.incidents /\ n.outbox = m.outbox
        /\ n.inbound = m.inbound /\ n.mode = m.mode /\ n.ver = m.ver /\ n.beat = beat
    BY <1>1 DEF IsMemory
  <2> HIDE DEF d, n
  <2>3. SameRest(d, n)
    BY <1>1, <2>1, <2>2 DEF SameRest
  <2>4. DbOK(d) /\ Twin(d, n)
    BY <1>2, <2>1, <2>2, <2>3
  <2> QED
    BY <2>4 DEF d, n
<1>5. ASSUME NEW inbound
      PROVE  /\ DbOK([c EXCEPT !.inbound = inbound])
             /\ Twin([c EXCEPT !.inbound = inbound], [m EXCEPT !.inbound = inbound])
  <2> DEFINE d == [c EXCEPT !.inbound = inbound]
             n == [m EXCEPT !.inbound = inbound]
  <2>1. IsDb(d) /\ d.rows = c.rows /\ d.incidents = c.incidents
        /\ d.inbound = inbound /\ d.mode = c.mode /\ d.ver = c.ver /\ d.beat = c.beat
    BY <1>1 DEF IsDb
  <2>2. /\ IsMemory(n) /\ n.orders = m.orders /\ n.orders_by_key = m.orders_by_key
        /\ n.wafers = m.wafers /\ n.bindings = m.bindings /\ n.commands = m.commands
        /\ n.history = m.history /\ n.incidents = m.incidents /\ n.outbox = m.outbox
        /\ n.inbound = inbound /\ n.mode = m.mode /\ n.ver = m.ver /\ n.beat = m.beat
    BY <1>1 DEF IsMemory
  <2> HIDE DEF d, n
  <2>3. SameRest(d, n)
    BY <1>1, <2>1, <2>2 DEF SameRest
  <2>4. DbOK(d) /\ Twin(d, n)
    BY <1>2, <2>1, <2>2, <2>3
  <2> QED
    BY <2>4 DEF d, n
<1>6. m.ver = c.ver /\ m.inbound = c.inbound
  BY <1>1 DEF SameRest
<1> QED
  BY <1>3, <1>4, <1>5, <1>6

-----------------------------------------------------------------------------
(* The stores a run begins with *)

LEMMA EmptyAlike == DbOK(EmptyDb) /\ Twin(EmptyDb, EmptyMemory)
<1>1. DOMAIN Empty = {}
  BY DEF Empty
<1>2. /\ IsDb(EmptyDb) /\ EmptyDb.rows = Empty /\ EmptyDb.incidents = Empty
      /\ EmptyDb.inbound = Empty /\ EmptyDb.mode = "ENABLED" /\ EmptyDb.ver = 1
      /\ EmptyDb.beat = FALSE
  BY DEF EmptyDb, IsDb
<1>3. /\ IsMemory(EmptyMemory)
      /\ EmptyMemory.orders = Empty /\ EmptyMemory.orders_by_key = Empty
      /\ EmptyMemory.wafers = Empty /\ EmptyMemory.bindings = Empty
      /\ EmptyMemory.commands = Empty /\ EmptyMemory.history = {}
      /\ EmptyMemory.incidents = Empty /\ EmptyMemory.outbox = Empty
      /\ EmptyMemory.inbound = Empty /\ EmptyMemory.mode = "ENABLED"
      /\ EmptyMemory.ver = 1 /\ EmptyMemory.beat = FALSE
  BY DEF EmptyMemory, IsMemory
<1>4. DbOK(EmptyDb)
  BY <1>1, <1>2 DEF DbOK, RowsOK, IncidentsOK
<1>5. SameOrders(EmptyDb, EmptyMemory)
  <2>1. Empty = [p \in DOMAIN Empty |-> Brief(Empty[p])]
    BY <1>1 DEF Empty
  <2> QED
    BY <1>2, <1>3, <2>1 DEF SameOrders
<1>6. KeysExact(EmptyMemory)
  BY <1>1, <1>3 DEF KeysExact
<1>7. SameWafers(EmptyDb, EmptyMemory)
  BY <1>1, <1>2, <1>3 DEF SameWafers
<1>8. SameBindings(EmptyDb, EmptyMemory)
  BY <1>1, <1>2, <1>3 DEF SameBindings
<1>9. SameCommands(EmptyDb, EmptyMemory)
  BY <1>1, <1>2, <1>3 DEF SameCommands
<1>10. SameAttempts(EmptyDb, EmptyMemory)
  <2>1. \A p, l : {h \in EmptyMemory.history : h.order = p /\ h.command = l} = {}
    BY <1>3
  <2>2. \A p, l : mem_attempts_for(EmptyMemory, p, l) = 0
    BY <2>1, FS_EmptySet DEF mem_attempts_for
  <2> QED
    BY <1>1, <1>2, <1>3, <2>2, FS_EmptySet DEF SameAttempts
<1>11. SameIncidents(EmptyDb, EmptyMemory)
  <2>1. Empty = [a \in DOMAIN Empty |-> Empty[a].status]
        /\ Empty = [a \in DOMAIN Empty |-> [mail |-> Empty[a].mail, tries |-> Empty[a].tries]]
    BY <1>1 DEF Empty
  <2> QED
    BY <1>2, <1>3, <2>1 DEF SameIncidents
<1>12. SameRest(EmptyDb, EmptyMemory)
  BY <1>2, <1>3 DEF SameRest
<1> QED
  BY <1>3, <1>4, <1>5, <1>6, <1>7, <1>8, <1>9, <1>10, <1>11, <1>12 DEF Twin

\* What the calls that write commands and bindings leave in the row.
LEMMA RowBefore ==
    ASSUME NEW c, DbOK(c), NEW o \in DOMAIN c.rows, NEW k \in CommandIds
    PROVE  LET r == c.rows[o] IN
           /\ LogOK(r.log, CommandIds) /\ CommandsOK(r.log, r.gen)
           /\ CommandOf(r.log, k).state = "NONE" <=> Rows(r.log, k) = {}
  BY CommandType DEF DbOK, RowsOK, RowOK, CommandsOK

LEMMA AfterRequest ==
    ASSUME NEW c, DbOK(c), NEW o \in DOMAIN c.rows, NEW k \in CommandIds,
           CommandOf(c.rows[o].log, k).state = "NONE", NEW gen, NEW status,
           NEW d, d = sql_request(c, o, k, gen, status)
    PROVE  /\ o \in DOMAIN d.rows /\ d.rows[o].gen = gen /\ d.rows[o].bind = status
           /\ CommandOf(d.rows[o].log, k).state = "PREPARED"
           /\ \A l \in CommandIds \ {k} :
                CommandOf(d.rows[o].log, l) = CommandOf(c.rows[o].log, l)
<1> DEFINE r == c.rows[o]
           log == insert_prepared(r.log, k)
<1>1. Wrote(c, d, o, Told(r, gen, status, log))
  BY ToldWrites
<1>2. /\ CommandOf(log, k).state = "PREPARED"
      /\ \A l \in CommandIds \ {k} : CommandOf(log, l) = CommandOf(r.log, l)
  BY RowBefore, Inserted
<1> HIDE DEF log
<1> QED
  BY <1>1, <1>2 DEF Wrote, Told

LEMMA AfterReceipt ==
    ASSUME NEW c, DbOK(c), NEW o \in DOMAIN c.rows, NEW k \in CommandIds,
           CommandOf(c.rows[o].log, k).state = "PREPARED",
           NEW receipt \in {"CODE_CONFLICT", "UNKNOWN"},
           NEW d, d = sql_record_receipt(c, o, k, receipt)
    PROVE  /\ o \in DOMAIN d.rows
           /\ d.rows[o].gen = c.rows[o].gen /\ d.rows[o].bind = c.rows[o].bind
           /\ CommandOf(d.rows[o].log, k).state # "NONE"
           /\ \A l \in CommandIds \ {k} :
                CommandOf(d.rows[o].log, l) = CommandOf(c.rows[o].log, l)
<1> DEFINE r == c.rows[o]
           log == record_receipt(r.log, k, receipt)
<1>1. Wrote(c, d, o, Told(r, r.gen, r.bind, log))
  BY ToldWrites DEF sql_record_receipt
<1>2. /\ LogOK(r.log, CommandIds) /\ Rows(r.log, k) # {}
      /\ CommandOf(r.log, k).attempts < MaxAttempts
  BY RowBefore DEF CommandsOK
<1>3. receipt \in Receipts /\ \A no : state_after_receipt(receipt, no) # "NONE"
  BY DEF Receipts, Rejects, state_after_receipt
<1>4. /\ CommandOf(log, k).state # "NONE"
      /\ \A l \in CommandIds \ {k} : CommandOf(log, l) = CommandOf(r.log, l)
  BY <1>2, <1>3, Recorded
<1> HIDE DEF log
<1> QED
  BY <1>1, <1>4 DEF Wrote, Told

LEMMA AfterSave ==
    ASSUME NEW c, DbOK(c), NEW o \in DOMAIN c.rows, NEW k \in CommandIds,
           NEW state, NEW d, d = sql_save_command(c, o, k, state)
    PROVE  /\ o \in DOMAIN d.rows
           /\ d.rows[o].gen = c.rows[o].gen /\ d.rows[o].bind = c.rows[o].bind
<1> DEFINE r == c.rows[o]
           log == save_command(r.log, k, state, CommandOf(r.log, k).outcome)
<1>1. Wrote(c, d, o, Told(r, r.gen, r.bind, log))
  BY ToldWrites DEF sql_save_command
<1> HIDE DEF log
<1> QED
  BY <1>1 DEF Wrote, Told

LEMMA AfterBinding ==
    ASSUME NEW c, DbOK(c), NEW o \in DOMAIN c.rows, NEW gen, NEW status,
           NEW d, d = sql_write_binding(c, o, gen, status)
    PROVE  /\ o \in DOMAIN d.rows /\ d.rows[o].gen = gen /\ d.rows[o].bind = status
           /\ d.rows[o].log = c.rows[o].log
<1>1. Wrote(c, d, o, Told(c.rows[o], gen, status, c.rows[o].log))
  BY ToldWrites
<1> QED
  BY <1>1 DEF Wrote, Told

LEMMA SecondHoldAlike ==
    ASSUME NEW o \in Ids, NEW k \in Keys, MaxGen >= 2
    PROVE  LET p == SecondHold(o, k) IN
           /\ DbOK(p[1]) /\ Twin(p[1], p[2]) /\ o \in DOMAIN p[1].rows
           /\ p[1].rows[o].gen = 2 /\ p[1].rows[o].bind = "PENDING"
           /\ CommandOf(p[1].rows[o].log, 2).state # "NONE"
<1> DEFINE c0 == sql_insert(EmptyDb, o, k)
           m0 == mem_insert(EmptyMemory, o, k)
           c1 == sql_request(c0, o, 1, 1, "PENDING")
           m1 == mem_request(m0, o, 1, 1, "PENDING")
           c2 == sql_record_receipt(c1, o, 1, "CODE_CONFLICT")
           m2 == mem_record_receipt(m1, o, 1, "CODE_CONFLICT")
           c3 == sql_write_binding(c2, o, 1, "FAILED")
           m3 == mem_write_binding(m2, o, 1, "FAILED")
           c4 == sql_request(c3, o, 2, 2, "PENDING")
           m4 == mem_request(m3, o, 2, 2, "PENDING")
           c5 == sql_record_receipt(c4, o, 2, "UNKNOWN")
           m5 == mem_record_receipt(m4, o, 2, "UNKNOWN")
<1>1. SecondHold(o, k) = <<c5, m5>>
  BY DEF SecondHold
<1>2. 1 \in CommandIds /\ 2 \in CommandIds
  BY TwinAssumption DEF CommandIds
<1>3. /\ "PENDING" \in BindingStates /\ "FAILED" \in BindingStates
      /\ "CODE_CONFLICT" \in Receipts /\ "UNKNOWN" \in Receipts
  BY DEF BindingStates, Receipts, Rejects
<1>4. DbOK(c0) /\ Twin(c0, m0)
  <2>1. ~sql_insert_fails(EmptyDb, o, k)
    BY DEF sql_insert_fails, EmptyDb, Empty
  <2> QED
    BY <2>1, EmptyAlike, InsertedAlike
<1>5. /\ o \in DOMAIN c0.rows /\ c0.rows[o].gen = 0
      /\ \A l : CommandOf(c0.rows[o].log, l).state = "NONE"
  <2>1. o \in DOMAIN c0.rows /\ c0.rows[o].gen = 0 /\ c0.rows[o].log = <<>>
    BY DEF sql_insert, EmptyDb, Put
  <2> QED
    BY <2>1, NothingSent
<1> HIDE DEF c0, m0
<1>6. DbOK(c1) /\ Twin(c1, m1)
  BY <1>2, <1>3, <1>4, <1>5, RequestAlike
<1>7. /\ o \in DOMAIN c1.rows /\ c1.rows[o].gen = 1 /\ c1.rows[o].bind = "PENDING"
      /\ CommandOf(c1.rows[o].log, 1).state = "PREPARED"
      /\ CommandOf(c1.rows[o].log, 2).state = "NONE"
  BY <1>2, <1>4, <1>5, AfterRequest
<1> HIDE DEF c1, m1
<1>8. DbOK(c2) /\ Twin(c2, m2)
  BY <1>2, <1>3, <1>6, <1>7, ReceiptAlike
<1>9. /\ o \in DOMAIN c2.rows /\ c2.rows[o].gen = 1 /\ c2.rows[o].bind = "PENDING"
      /\ CommandOf(c2.rows[o].log, 2).state = "NONE"
  BY <1>2, <1>6, <1>7, AfterReceipt
<1> HIDE DEF c2, m2
<1>10. DbOK(c3) /\ Twin(c3, m3)
  BY <1>3, <1>8, <1>9, BindingAlike
<1>11. /\ o \in DOMAIN c3.rows /\ c3.rows[o].gen = 1
       /\ CommandOf(c3.rows[o].log, 2).state = "NONE"
  BY <1>8, <1>9, AfterBinding
<1> HIDE DEF c3, m3
<1>12. DbOK(c4) /\ Twin(c4, m4)
  BY <1>2, <1>3, <1>10, <1>11, RequestAlike
<1>13. /\ o \in DOMAIN c4.rows /\ c4.rows[o].gen = 2 /\ c4.rows[o].bind = "PENDING"
       /\ CommandOf(c4.rows[o].log, 2).state = "PREPARED"
  BY <1>2, <1>10, <1>11, AfterRequest
<1> HIDE DEF c4, m4
<1>14. DbOK(c5) /\ Twin(c5, m5)
  BY <1>2, <1>3, <1>12, <1>13, ReceiptAlike
<1>15. /\ o \in DOMAIN c5.rows /\ c5.rows[o].gen = 2 /\ c5.rows[o].bind = "PENDING"
       /\ CommandOf(c5.rows[o].log, 2).state # "NONE"
  BY <1>2, <1>12, <1>13, AfterReceipt
<1> HIDE DEF c5, m5
<1> QED
  BY <1>1, <1>14, <1>15

LEMMA BegunAlike ==
    ASSUME NEW p \in Begun, MaxGen >= 2
    PROVE  DbOK(p[1]) /\ Twin(p[1], p[2])
<1>1. PICK o \in Ids, k \in Keys : p = SecondHold(o, k) \/ p = Held(o, k)
  BY DEF Begun
<1> DEFINE c0 == SecondHold(o, k)[1]
           m0 == SecondHold(o, k)[2]
<1>2. /\ DbOK(c0) /\ Twin(c0, m0) /\ o \in DOMAIN c0.rows
      /\ c0.rows[o].gen = 2 /\ c0.rows[o].bind = "PENDING"
      /\ CommandOf(c0.rows[o].log, 2).state # "NONE"
  BY SecondHoldAlike
<1>3. CASE p = SecondHold(o, k)
  BY <1>2, <1>3
<1>4. CASE p = Held(o, k)
  <2> DEFINE c1 == sql_save_command(c0, o, 2, "CONFIRMED")
             m1 == mem_save_command(m0, o, 2, "CONFIRMED")
             c2 == sql_write_binding(c1, o, 2, "CONFIRMED")
             m2 == mem_write_binding(m1, o, 2, "CONFIRMED")
  <2>1. p = <<c2, m2>>
    BY <1>4 DEF Held
  <2> HIDE DEF c0, m0
  <2>2. /\ 2 \in CommandIds /\ "CONFIRMED" \in ActionStates \ {"NONE"}
        /\ "CONFIRMED" \in BindingStates
    BY TwinAssumption DEF CommandIds, ActionStates, BindingStates
  <2>3. DbOK(c1) /\ Twin(c1, m1)
    BY <1>2, <2>2, SaveAlike
  <2>4. o \in DOMAIN c1.rows /\ c1.rows[o].gen = 2 /\ c1.rows[o].bind = "PENDING"
    BY <1>2, <2>2, AfterSave
  <2> HIDE DEF c1, m1
  <2>5. DbOK(c2) /\ Twin(c2, m2)
    BY <2>2, <2>3, <2>4, BindingAlike
  <2> HIDE DEF c2, m2
  <2> QED
    BY <2>1, <2>5
<1> QED
  BY <1>1, <1>3, <1>4

-----------------------------------------------------------------------------
(* The units of work *)

\* A call that keeps the twins twins and is answered alike keeps the invariant.
LEMMA CallKeeps ==
    ASSUME TwinInv, NEW c, NEW m, NEW a, NEW raises \in BOOLEAN, Called(c, m, a, raises),
           DbOK(c), Twin(c, m), a[1] = a[2]
    PROVE  TwinInv'
<1>1. /\ unit = "in" /\ unit' \in {"in", "failed"}
      /\ draft' = c /\ working' = m /\ answers' = a
      /\ live' = IF committed THEN m ELSE live
      /\ db' = db /\ committed' = committed /\ leaked' = leaked
  BY DEF Called, WrittenThrough
<1>2. ~leaked
  BY <1>1 DEF TwinInv
<1>3. IF committed' THEN live' = working' ELSE Twin(db', live')
  BY <1>1, <1>2 DEF TwinInv
<1>4. Twin(draft', working') /\ DbOK(draft') /\ DbOK(db')
  BY <1>1 DEF TwinInv
<1> QED
  BY <1>1, <1>2, <1>3, <1>4 DEF TwinInv

LEMMA DoesKeeps ==
    ASSUME TwinInv, NEW c, NEW m, Does(c, m), DbOK(c), Twin(c, m)
    PROVE  TwinInv'
<1>1. Called(c, m, <<"", "">>, FALSE)
  BY DEF Does, Answered
<1> DEFINE a == <<"", "">>
<1>2. a[1] = a[2]
  OBVIOUS
<1> HIDE DEF a
<1>3. Called(c, m, a, FALSE)
  BY <1>1 DEF a
<1> QED
  BY <1>2, <1>3, CallKeeps

\* Inside a unit the stores are twins.
LEMMA InUnit ==
    ASSUME TwinInv, unit = "in"
    PROVE  DbOK(draft) /\ Twin(draft, working) /\ ~leaked
  BY DEF TwinInv

LEMMA OrderCallKeeps ==
    ASSUME TwinInv, NEW o \in DOMAIN draft.rows, OrderCall(o)
    PROVE  TwinInv'
<1>1. unit = "in"
  BY DEF OrderCall, Update, TryClaim, ReplaceRoster, UpsertAiResult, RequestHold,
         RequestRelease, SaveCommand, RecordReceipt, SetBinding, ReleaseBindings,
         Does, Answered, Called
<1>2. DbOK(draft) /\ Twin(draft, working)
  BY <1>1, InUnit
<1> DEFINE r == draft.rows[o]
<1>3. /\ RowOK(r) /\ r \in OrderRows /\ LogOK(r.log, CommandIds) /\ CommandsOK(r.log, r.gen)
      /\ r.gen \in Nat
  BY <1>2, TwinAssumption DEF DbOK, RowsOK, RowOK, CommandsOK, OrderRows
<1>4. /\ o \in DOMAIN working.orders
      /\ working.orders[o].ver = r.ver /\ working.orders[o].owner = r.owner
  BY <1>2, OrdersAlike
<1>5. ASSUME NEW life \in {"OPEN", "CLOSED"}, NEW v, Update(o, life, v)
      PROVE  TwinInv'
  <2>1. CASE r.ver = v
    <3>1. Called(sql_update(draft, o, life), mem_update(working, o, life), <<TRUE, TRUE>>, FALSE)
      BY <1>4, <1>5, <2>1 DEF Update
    <3>2. DbOK(sql_update(draft, o, life))
          /\ Twin(sql_update(draft, o, life), mem_update(working, o, life))
      BY <1>2, OrdersAlike
    <3> QED
      BY <3>1, <3>2, CallKeeps
  <2>2. CASE r.ver # v
    <3>1. Called(draft, working, <<FALSE, FALSE>>, TRUE)
      BY <1>4, <1>5, <2>2 DEF Update
    <3> QED
      BY <1>2, <3>1, CallKeeps
  <2> QED
    BY <2>1, <2>2
<1>6. ASSUME NEW w \in Workers, NEW v, NEW over \in BOOLEAN, TryClaim(o, w, v, over)
      PROVE  TwinInv'
  <2>1. sql_claimable(o, w, v, over) <=> mem_claimable(o, w, v, over)
    BY <1>4 DEF sql_claimable, mem_claimable
  <2>2. CASE sql_claimable(o, w, v, over)
    <3>1. Called(sql_try_claim(draft, o, w), mem_try_claim(working, o, w),
                 <<sql_claimable(o, w, v, over), mem_claimable(o, w, v, over)>>, FALSE)
      BY <1>6, <2>1, <2>2 DEF TryClaim, Answered
    <3>2. DbOK(sql_try_claim(draft, o, w))
          /\ Twin(sql_try_claim(draft, o, w), mem_try_claim(working, o, w))
      BY <1>2, OrdersAlike
    <3>3. sql_claimable(o, w, v, over) = mem_claimable(o, w, v, over)
      BY <2>1 DEF sql_claimable, mem_claimable
    <3> QED
      BY <3>1, <3>2, <3>3, CallKeeps
  <2>3. CASE ~sql_claimable(o, w, v, over)
    <3>1. Called(draft, working,
                 <<sql_claimable(o, w, v, over), mem_claimable(o, w, v, over)>>, FALSE)
      BY <1>6, <2>1, <2>3 DEF TryClaim, Answered
    <3>2. sql_claimable(o, w, v, over) = mem_claimable(o, w, v, over)
      BY <2>1 DEF sql_claimable, mem_claimable
    <3> QED
      BY <1>2, <3>1, <3>2, CallKeeps
  <2> QED
    BY <2>2, <2>3
<1>7. ASSUME NEW ws \in SUBSET Wafers, ReplaceRoster(o, ws)
      PROVE  TwinInv'
  <2>1. Does(sql_replace_roster(draft, o, ws), mem_replace_roster(working, o, ws))
    BY <1>7 DEF ReplaceRoster
  <2>2. DbOK(sql_replace_roster(draft, o, ws))
        /\ Twin(sql_replace_roster(draft, o, ws), mem_replace_roster(working, o, ws))
    BY <1>2, WafersAlike
  <2> QED
    BY <2>1, <2>2, DoesKeeps
<1>8. ASSUME NEW w \in Wafers, NEW result \in {"OK", "DEFECT"}, UpsertAiResult(o, w, result)
      PROVE  TwinInv'
  <2>1. /\ w \in DOMAIN r.wafers
        /\ Does(sql_upsert_ai_result(draft, o, w, result),
                mem_upsert_ai_result(working, o, w, result))
    BY <1>8 DEF UpsertAiResult
  <2>2. DbOK(sql_upsert_ai_result(draft, o, w, result))
        /\ Twin(sql_upsert_ai_result(draft, o, w, result),
                mem_upsert_ai_result(working, o, w, result))
    BY <1>2, <2>1, WafersAlike
  <2> QED
    BY <2>1, <2>2, DoesKeeps
<1>9. ASSUME RequestHold(o)
      PROVE  TwinInv'
  <2> DEFINE g == r.gen + 1
  <2>1. /\ g <= MaxGen
        /\ Does(sql_request(draft, o, g, g, "PENDING"),
                mem_request(working, o, g, g, "PENDING"))
    BY <1>9 DEF RequestHold
  <2>2. "PENDING" \in BindingStates
    BY DEF BindingStates
  <2>3. g \in Nat \ {0} /\ MaxGen \in Nat
    BY <1>3, TwinAssumption
  <2>4. g \in CommandIds \ {0} /\ g \in {r.gen, r.gen + 1} /\ g <= g
    BY <2>1, <2>3 DEF CommandIds
  <2>5. CommandOf(r.log, g).state = "NONE"
    BY <1>3, <2>3, <2>4 DEF CommandsOK
  <2> HIDE DEF g
  <2>6. DbOK(sql_request(draft, o, g, g, "PENDING"))
        /\ Twin(sql_request(draft, o, g, g, "PENDING"), mem_request(working, o, g, g, "PENDING"))
    BY <1>2, <2>2, <2>4, <2>5, RequestAlike
  <2> QED
    BY <2>1, <2>6, DoesKeeps
<1>10. ASSUME RequestRelease(o)
       PROVE  TwinInv'
  <2>1. /\ r.bind = "CONFIRMED" /\ CommandOf(r.log, 0).state = "NONE"
        /\ Does(sql_request(draft, o, 0, r.gen, "RELEASE_PENDING"),
                mem_request(working, o, 0, r.gen, "RELEASE_PENDING"))
    BY <1>10 DEF RequestRelease, State
  <2>2. "RELEASE_PENDING" \in BindingStates
    BY DEF BindingStates
  <2>3. r.gen \in 0..MaxGen /\ r.gen # 0 /\ MaxGen \in Nat
    BY <1>3, <2>1, TwinAssumption DEF RowOK, OrderRows
  <2>4. /\ 0 \in CommandIds /\ r.gen \in CommandIds \ {0} /\ 0 <= r.gen
        /\ r.gen \in {r.gen, r.gen + 1}
    BY <2>3 DEF CommandIds
  <2>5. DbOK(sql_request(draft, o, 0, r.gen, "RELEASE_PENDING"))
        /\ Twin(sql_request(draft, o, 0, r.gen, "RELEASE_PENDING"),
                mem_request(working, o, 0, r.gen, "RELEASE_PENDING"))
    BY <1>2, <2>2, <2>1, <2>4, RequestAlike
  <2> QED
    BY <2>1, <2>5, DoesKeeps
<1>11. ASSUME NEW k \in CommandIds, NEW state \in ActionStates, SaveCommand(o, k, state)
       PROVE  TwinInv'
  <2>1. /\ Moves(o, k, state)
        /\ Does(sql_save_command(draft, o, k, state), mem_save_command(working, o, k, state))
    BY <1>11 DEF SaveCommand
  <2>2. /\ CommandOf(r.log, k).state # "NONE" /\ state # "NONE"
        /\ state = "PREPARED" => CommandOf(r.log, k).attempts < MaxAttempts
    BY <2>1 DEF Moves, State, InFlightStates
  <2>3. DbOK(sql_save_command(draft, o, k, state))
        /\ Twin(sql_save_command(draft, o, k, state), mem_save_command(working, o, k, state))
    BY <1>2, <2>2, SaveAlike
  <2> QED
    BY <2>1, <2>3, DoesKeeps
<1>12. ASSUME NEW k \in CommandIds,
              NEW receipt \in {"ACCEPTED", "UNKNOWN", "TRANSIENT", "CODE_CONFLICT"},
              RecordReceipt(o, k, receipt)
       PROVE  TwinInv'
  <2> DEFINE a == <<next_attempt_no(r.log, k), mem_next_attempt_no(working, o, k)>>
  <2>1. /\ CommandOf(r.log, k).state = "PREPARED"
        /\ Called(sql_record_receipt(draft, o, k, receipt),
                  mem_record_receipt(working, o, k, receipt), a, FALSE)
    BY <1>12 DEF RecordReceipt, State, Answered
  <2>2. receipt \in Receipts
    BY DEF Receipts, Rejects
  <2>3. /\ DbOK(sql_record_receipt(draft, o, k, receipt))
        /\ Twin(sql_record_receipt(draft, o, k, receipt),
                mem_record_receipt(working, o, k, receipt))
        /\ a[1] = a[2]
    BY <1>2, <2>1, <2>2, ReceiptAlike
  <2> HIDE DEF a
  <2> QED
    BY <2>1, <2>3, CallKeeps
<1>13. ASSUME NEW status \in {"CONFIRMED", "FAILED"}, SetBinding(o, status)
       PROVE  TwinInv'
  <2>1. status \in BindingStates
    BY DEF BindingStates
  <2>2. /\ r.bind = "PENDING"
        /\ Does(sql_write_binding(draft, o, r.gen, status),
                mem_write_binding(working, o, r.gen, status))
    BY <1>13 DEF SetBinding
  <2>3. DbOK(sql_write_binding(draft, o, r.gen, status))
        /\ Twin(sql_write_binding(draft, o, r.gen, status),
                mem_write_binding(working, o, r.gen, status))
    BY <1>2, <2>1, <2>2, BindingAlike
  <2> QED
    BY <2>2, <2>3, DoesKeeps
<1>14. ASSUME ReleaseBindings(o)
       PROVE  TwinInv'
  <2>1. "RELEASED" \in BindingStates
    BY DEF BindingStates
  <2>2. /\ r.bind = "RELEASE_PENDING"
        /\ Does(sql_write_binding(draft, o, r.gen, "RELEASED"), mem_release_bindings(working, o))
    BY <1>14 DEF ReleaseBindings
  <2>3. DbOK(sql_write_binding(draft, o, r.gen, "RELEASED"))
        /\ Twin(sql_write_binding(draft, o, r.gen, "RELEASED"), mem_release_bindings(working, o))
    BY <1>2, <2>1, <2>2, BindingAlike
  <2> QED
    BY <2>2, <2>3, DoesKeeps
<1> QED
  BY <1>5, <1>6, <1>7, <1>8, <1>9, <1>10, <1>11, <1>12, <1>13, <1>14 DEF OrderCall

LEMMA InsertKeeps ==
    ASSUME TwinInv, NEW o \in Ids, NEW k \in Keys, Insert(o, k)
    PROVE  TwinInv'
<1> DEFINE a == <<sql_insert_fails(draft, o, k), mem_insert_fails(working, o, k)>>
<1>1. unit = "in" /\ DbOK(draft) /\ Twin(draft, working)
  <2>1. unit = "in"
    BY DEF Insert, Answered, Called
  <2> QED
    BY <2>1, InUnit
<1>2. sql_insert_fails(draft, o, k) <=> mem_insert_fails(working, o, k)
  BY <1>1, SameDuplicates
<1>3. a[1] = a[2]
  BY <1>2 DEF sql_insert_fails, mem_insert_fails
<1>4. CASE sql_insert_fails(draft, o, k)
  <2>1. Called(draft, working, a, FALSE)
    BY <1>2, <1>4 DEF Insert, Answered
  <2> HIDE DEF a
  <2> QED
    BY <1>1, <1>3, <2>1, CallKeeps
<1>5. CASE ~sql_insert_fails(draft, o, k)
  <2>1. Called(sql_insert(draft, o, k), mem_insert(working, o, k), a, FALSE)
    BY <1>2, <1>5 DEF Insert, Answered
  <2>2. DbOK(sql_insert(draft, o, k)) /\ Twin(sql_insert(draft, o, k), mem_insert(working, o, k))
    BY <1>1, <1>5, InsertedAlike
  <2> HIDE DEF a
  <2> QED
    BY <1>3, <2>1, <2>2, CallKeeps
<1> QED
  BY <1>4, <1>5

LEMMA AlarmCallKeeps ==
    ASSUME TwinInv, NEW a, AlarmCall(a)
    PROVE  TwinInv'
<1>1. DbOK(draft) /\ Twin(draft, working)
  <2>1. unit = "in"
    BY DEF AlarmCall, OpenIncident, ResolveIncident, MarkMail, Does, Answered, Called
  <2> QED
    BY <2>1, InUnit
<1>2. ASSUME OpenIncident(a)
      PROVE  TwinInv'
  <2> DEFINE known == <<a \in DOMAIN draft.incidents, a \in DOMAIN working.incidents>>
  <2>1. known[1] = known[2]
    BY <1>1, IncidentsAlike
  <2>2. Called(sql_open_incident(draft, a), mem_open_incident(working, a), known, FALSE)
    BY <1>2 DEF OpenIncident, Answered
  <2>3. DbOK(sql_open_incident(draft, a))
        /\ Twin(sql_open_incident(draft, a), mem_open_incident(working, a))
    BY <1>1, IncidentsAlike
  <2> HIDE DEF known
  <2> QED
    BY <2>1, <2>2, <2>3, CallKeeps
<1>3. ASSUME ResolveIncident(a)
      PROVE  TwinInv'
  <2>1. /\ a \in DOMAIN draft.incidents
        /\ Does(sql_resolve(draft, a), mem_resolve(working, a))
    BY <1>3 DEF ResolveIncident
  <2>2. DbOK(sql_resolve(draft, a)) /\ Twin(sql_resolve(draft, a), mem_resolve(working, a))
    BY <1>1, <2>1, IncidentsAlike
  <2> QED
    BY <2>1, <2>2, DoesKeeps
<1>4. ASSUME NEW mail \in {"SENT", "FAILED"}, MarkMail(a, mail)
      PROVE  TwinInv'
  <2> DEFINE more == IF mail = "FAILED" THEN 1 ELSE 0
             tries == draft.incidents[a].tries + more
  <2>1. a \in DOMAIN draft.incidents /\ draft.incidents[a].tries < MaxAttempts
    BY <1>4 DEF MarkMail
  <2>2. working.outbox[a].tries = draft.incidents[a].tries
    BY <1>1, <2>1, IncidentsAlike
  <2>3. Does(sql_mail(draft, a, mail, tries), mem_mail(working, a, mail, tries))
    BY <1>4, <2>2 DEF MarkMail
  <2>4. tries \in 0..MaxAttempts
    <3>1. draft.incidents[a].tries \in 0..MaxAttempts
      BY <1>1, <2>1 DEF DbOK, IncidentsOK, Incidents
    <3> QED
      BY <2>1, <3>1, AttemptsAssumption
  <2> HIDE DEF tries
  <2>5. /\ DbOK(sql_mail(draft, a, mail, tries))
        /\ Twin(sql_mail(draft, a, mail, tries), mem_mail(working, a, mail, tries))
    BY <1>1, <2>1, <2>4, IncidentsAlike
  <2> QED
    BY <2>3, <2>5, DoesKeeps
<1> QED
  BY <1>2, <1>3, <1>4 DEF AlarmCall

LEMMA SettingsCallKeeps ==
    ASSUME TwinInv,
           \/ \E mode \in {"ENABLED", "DISABLED_NEW_HOLD"} : \E v \in 1..draft.ver :
                SaveControl(mode, v)
           \/ TouchHeartbeat
           \/ \E e \in Events : TryRecord(e)
           \/ \E e \in Events : \E o \in DOMAIN draft.rows \cup {None} : MarkConsumed(e, o)
    PROVE  TwinInv'
<1>1. DbOK(draft) /\ Twin(draft, working)
  <2>1. unit = "in"
    BY DEF SaveControl, TouchHeartbeat, TryRecord, MarkConsumed, Does, Answered, Called
  <2> QED
    BY <2>1, InUnit
<1>2. working.ver = draft.ver /\ working.inbound = draft.inbound
  BY <1>1, SettingsAlike
<1>3. ASSUME NEW mode, NEW v, SaveControl(mode, v)
      PROVE  TwinInv'
  <2> DEFINE c == [draft EXCEPT !.mode = mode, !.ver = v + 1]
             m == [working EXCEPT !.mode = mode, !.ver = v + 1]
  <2>1. DbOK(c) /\ Twin(c, m)
    BY <1>1, SettingsAlike
  <2>2. CASE draft.ver = v
    <3>1. Called(c, m, <<TRUE, TRUE>>, FALSE)
      BY <1>2, <1>3, <2>2 DEF SaveControl
    <3> HIDE DEF c, m
    <3> QED
      BY <2>1, <3>1, CallKeeps
  <2>3. CASE draft.ver # v
    <3>1. Called(draft, working, <<FALSE, FALSE>>, TRUE)
      BY <1>2, <1>3, <2>3 DEF SaveControl
    <3> QED
      BY <1>1, <3>1, CallKeeps
  <2> QED
    BY <2>2, <2>3
<1>4. ASSUME TouchHeartbeat
      PROVE  TwinInv'
  <2> DEFINE c == [draft EXCEPT !.beat = TRUE]
             m == [working EXCEPT !.beat = TRUE]
  <2>1. DbOK(c) /\ Twin(c, m)
    BY <1>1, SettingsAlike
  <2>2. Does(c, m)
    BY <1>4 DEF TouchHeartbeat
  <2> HIDE DEF c, m
  <2> QED
    BY <2>1, <2>2, DoesKeeps
<1>5. ASSUME NEW e, TryRecord(e)
      PROVE  TwinInv'
  <2> DEFINE inbound == Put(draft.inbound, e, "new")
             c == [draft EXCEPT !.inbound = inbound]
             m == [working EXCEPT !.inbound = inbound]
  <2>1. DbOK(c) /\ Twin(c, m)
    BY <1>1, SettingsAlike
  <2>2. CASE e \notin DOMAIN draft.inbound
    <3>1. Called(c, m, <<TRUE, TRUE>>, FALSE)
      BY <1>2, <1>5, <2>2 DEF TryRecord, Answered
    <3> HIDE DEF c, m
    <3> QED
      BY <2>1, <3>1, CallKeeps
  <2>3. CASE e \in DOMAIN draft.inbound
    <3>1. Called(draft, working, <<FALSE, FALSE>>, FALSE)
      BY <1>2, <1>5, <2>3 DEF TryRecord, Answered
    <3> QED
      BY <1>1, <3>1, CallKeeps
  <2> QED
    BY <2>2, <2>3
<1>6. ASSUME NEW e, NEW o, MarkConsumed(e, o)
      PROVE  TwinInv'
  <2> DEFINE inbound == [draft.inbound EXCEPT ![e] = o]
             c == [draft EXCEPT !.inbound = inbound]
             m == [working EXCEPT !.inbound = inbound]
  <2>1. DbOK(c) /\ Twin(c, m)
    BY <1>1, SettingsAlike
  <2>2. Does(c, m)
    BY <1>2, <1>6 DEF MarkConsumed
  <2> HIDE DEF c, m
  <2> QED
    BY <2>1, <2>2, DoesKeeps
<1> QED
  BY <1>3, <1>4, <1>5, <1>6

LEMMA TwinInit ==
    ASSUME Init
    PROVE  TwinInv
<1>1. PICK p \in {<<EmptyDb, EmptyMemory>>} \cup {b \in Begun : MaxGen >= 2} :
        db = p[1] /\ draft = p[1] /\ live = p[2] /\ working = p[2]
  BY DEF Init
<1>2. DbOK(p[1]) /\ Twin(p[1], p[2])
  <2>1. CASE p = <<EmptyDb, EmptyMemory>>
    BY <2>1, EmptyAlike
  <2>2. CASE p \in Begun /\ MaxGen >= 2
    BY <2>2, BegunAlike
  <2> QED
    BY <2>1, <2>2
<1> QED
  BY <1>1, <1>2 DEF Init, TwinInv

LEMMA TwinStep ==
    ASSUME TwinInv, [Next]_vars
    PROVE  TwinInv'
<1>1. ASSUME Enter
      PROVE  TwinInv'
  BY <1>1 DEF Enter, TwinInv
<1>2. ASSUME Commit
      PROVE  TwinInv'
  BY <1>2 DEF Commit, TwinInv
<1>3. ASSUME Leave
      PROVE  TwinInv'
  BY <1>3 DEF Leave, TwinInv
<1>4. ASSUME BreakOff
      PROVE  TwinInv'
  <2>1. ~leaked /\ DbOK(db) /\ Twin(draft, working) /\ committed \in BOOLEAN
        /\ answers[1] = answers[2]
        /\ IF committed THEN live = working ELSE Twin(db, live)
    BY <1>4 DEF BreakOff, TwinInv
  <2>2. db' = db /\ draft' = db /\ live' = live /\ working' = live /\ unit' = "out"
        /\ committed' = FALSE /\ answers' = answers /\ leaked' = (committed /\ draft # db)
    BY <1>4 DEF BreakOff
  <2>3. CASE committed /\ draft # db
    <3>1. KeysExact(live)
      BY <2>1, <2>3 DEF Twin
    <3> QED
      BY <2>1, <2>2, <2>3, <3>1 DEF TwinInv
  <2>4. CASE ~(committed /\ draft # db)
    <3>1. Twin(db, live)
      BY <2>1, <2>4
    <3> QED
      BY <2>1, <2>2, <2>4, <3>1 DEF TwinInv
  <2> QED
    BY <2>3, <2>4
<1>5. ASSUME Call
      PROVE  TwinInv'
  BY <1>5, InsertKeeps, OrderCallKeeps, AlarmCallKeeps, SettingsCallKeeps DEF Call
<1>6. ASSUME UNCHANGED vars
      PROVE  TwinInv'
  BY <1>6 DEF vars, TwinInv
<1> QED
  BY <1>1, <1>2, <1>3, <1>4, <1>5, <1>6 DEF Next

-----------------------------------------------------------------------------
(* What the jobs read back *)

\* The last binding of an order is the one of the row's generation.
LEMMA LastBinding ==
    ASSUME NEW c, NEW m, DbOK(c), Twin(c, m), NEW o \in DOMAIN c.rows
    PROVE  mem_last_binding(m, o) = c.rows[o].gen
<1> DEFINE gen == c.rows[o].gen
           S == {0} \cup {b[2] : b \in mem_bindings(m, o)}
<1>1. o \in Ids /\ gen \in 0..MaxGen /\ MaxGen \in Nat
  BY TwinAssumption DEF DbOK, RowsOK, RowOK, OrderRows
<1>2. \A b \in DOMAIN m.bindings : b = <<b[1], b[2]>> /\ b[1] \in Ids /\ b[2] \in CommandIds
  BY DEF Twin, SameBindings
<1>3. \A g \in CommandIds : <<o, g>> \in DOMAIN m.bindings <=> g \in 1..gen
  BY <1>1 DEF Twin, SameBindings
<1>4. \A g \in S : g \in 0..gen
  <2>1. ASSUME NEW b \in mem_bindings(m, o)
        PROVE  b[2] \in 1..gen
    <3>1. b = <<o, b[2]>> /\ b[2] \in CommandIds /\ b \in DOMAIN m.bindings
      BY <1>2 DEF mem_bindings
    <3> QED
      BY <1>3, <3>1
  <2> QED
    BY <1>1, <2>1
<1>5. gen \in S
  <2>1. CASE gen = 0
    BY <2>1
  <2>2. CASE gen # 0
    <3>1. gen \in CommandIds /\ gen \in 1..gen
      BY <1>1, <2>2 DEF CommandIds
    <3>2. <<o, gen>> \in mem_bindings(m, o)
      BY <1>3, <3>1 DEF mem_bindings
    <3> QED
      BY <3>2
  <2> QED
    BY <2>1, <2>2
<1> HIDE DEF S
<1>6. Max(S) = gen
  BY <1>1, <1>4, <1>5 DEF Max
<1> QED
  BY <1>6 DEF mem_last_binding, S

\* The commands of an order are listed alike.
LEMMA SameCommandLists ==
    ASSUME NEW c, NEW m, DbOK(c), Twin(c, m), NEW o \in DOMAIN c.rows
    PROVE  mem_commands(m, o) = sql_commands(c.rows[o].log)
<1> DEFINE log == c.rows[o].log
           M == {e[2] : e \in {d \in DOMAIN m.commands : d[1] = o}}
           S == {log[i].command : i \in DOMAIN log}
<1>1. o \in Ids /\ LogOK(log, CommandIds) /\ log \in Seq(Attempts(CommandIds))
  BY DEF DbOK, RowsOK, RowOK, CommandsOK, LogOK
<1>2. \A k \in CommandIds :
        /\ CommandOf(log, k) \in [state : ActionStates, outcome : Receipts \cup {NoReceipt},
                                  attempts : 0..MaxAttempts]
        /\ CommandOf(log, k).state = "NONE" <=> Rows(log, k) = {}
  BY <1>1, CommandType
<1>3. \A k : k \in S <=> k \in CommandIds /\ CommandOf(log, k).state # "NONE"
  <2>1. S \subseteq CommandIds
    <3>1. ASSUME NEW i \in DOMAIN log
          PROVE  log[i].command \in CommandIds
      <4>1. log[i] \in Attempts(CommandIds)
        BY <1>1
      <4> QED
        BY <4>1 DEF Attempts
    <3> HIDE DEF log
    <3> QED
      BY <3>1
  <2>2. \A k : k \in S <=> Rows(log, k) # {}
    BY DEF Rows
  <2> HIDE DEF S, log
  <2> QED
    BY <1>2, <2>1, <2>2
<1>4. \A k : k \in M <=> <<o, k>> \in DOMAIN m.commands
  BY DEF Twin, SameCommands
<1>5. \A k \in CommandIds :
        <<o, k>> \in DOMAIN m.commands <=> CommandOf(log, k).state # "NONE"
  BY <1>1 DEF Twin, SameCommands
<1>6. \A k : <<o, k>> \in DOMAIN m.commands => k \in CommandIds
  BY DEF Twin, SameCommands
<1> HIDE DEF S, M
<1>7. M = S
  BY <1>3, <1>4, <1>5, <1>6
<1>8. ASSUME NEW k \in S
      PROVE  [state |-> m.commands[<<o, k>>].state, outcome |-> m.commands[<<o, k>>].outcome,
              attempts |-> mem_attempts_for(m, o, k)] = CommandOf(log, k)
  <2>1. k \in CommandIds /\ CommandOf(log, k).state # "NONE"
    BY <1>3
  <2>2. m.commands[<<o, k>>] = [state |-> CommandOf(log, k).state,
                                outcome |-> CommandOf(log, k).outcome]
    BY <2>1 DEF Twin, SameCommands
  <2>3. mem_attempts_for(m, o, k) = CommandOf(log, k).attempts
    BY <1>1, <2>1 DEF Twin, SameAttempts
  <2>4. CommandOf(log, k) \in [state : ActionStates, outcome : Receipts \cup {NoReceipt},
                               attempts : 0..MaxAttempts]
    BY <1>2, <2>1
  <2> HIDE DEF log
  <2> QED
    BY <2>2, <2>3, <2>4
<1>9. mem_commands(m, o) =
        [k \in M |-> [state |-> m.commands[<<o, k>>].state,
                      outcome |-> m.commands[<<o, k>>].outcome,
                      attempts |-> mem_attempts_for(m, o, k)]]
  BY DEF mem_commands, M
<1>10. sql_commands(log) = [k \in S |-> CommandOf(log, k)]
  BY DEF sql_commands, S
<1> QED
  BY <1>7, <1>8, <1>9, <1>10

\* Twins have the same lists.
LEMMA SameLists ==
    ASSUME NEW c, NEW m, DbOK(c), Twin(c, m)
    PROVE  sql_lists(c) = mem_lists(m)
<1> DEFINE sql(o) == LET r == c.rows[o] IN
                     [key |-> r.key, ver |-> r.ver, owner |-> r.owner, life |-> r.life,
                      wafers |-> r.wafers, gen |-> r.gen, bind |-> r.bind,
                      commands |-> sql_commands(r.log)]
           mem(o) == LET r == m.orders[o]
                         gen == mem_last_binding(m, o) IN
                     [key |-> r.key, ver |-> r.ver, owner |-> r.owner, life |-> r.life,
                      wafers |-> mem_wafers(m, o), gen |-> gen,
                      bind |-> IF gen = 0 THEN "NONE" ELSE m.bindings[<<o, gen>>],
                      commands |-> mem_commands(m, o)]
           incident(a) == [status |-> m.incidents[a], mail |-> m.outbox[a].mail,
                           tries |-> m.outbox[a].tries]
<1>1. ASSUME NEW o \in DOMAIN c.rows
      PROVE  sql(o) = mem(o)
  <2> DEFINE r == c.rows[o]
             gen == mem_last_binding(m, o)
  <2>1. /\ m.orders[o].key = r.key /\ m.orders[o].ver = r.ver
        /\ m.orders[o].owner = r.owner /\ m.orders[o].life = r.life
    BY DEF Twin, SameOrders, Brief
  <2>2. mem_wafers(m, o) = r.wafers
    BY DEF Twin, SameWafers
  <2>3. gen = r.gen
    BY LastBinding
  <2>4. (IF gen = 0 THEN "NONE" ELSE m.bindings[<<o, gen>>]) = r.bind
    <3>1. CASE r.gen = 0
      BY <2>3, <3>1 DEF DbOK, RowsOK, RowOK
    <3>2. CASE r.gen > 0
      <4>1. m.bindings[<<o, r.gen>>] = r.bind
        BY <3>2 DEF Twin, SameBindings
      <4> HIDE DEF gen
      <4> QED
        BY <2>3, <3>2, <4>1
    <3>3. r.gen = 0 \/ r.gen > 0
      BY TwinAssumption DEF DbOK, RowsOK, RowOK, OrderRows
    <3> QED
      BY <3>1, <3>2, <3>3
  <2>5. mem_commands(m, o) = sql_commands(r.log)
    BY SameCommandLists
  <2> HIDE DEF gen
  <2> QED
    BY <2>1, <2>2, <2>3, <2>4, <2>5 DEF gen
<1>2. DOMAIN m.orders = DOMAIN c.rows
  BY DEF Twin, SameOrders
<1>3. c.incidents = [a \in DOMAIN m.incidents |-> incident(a)]
  <2>1. /\ DOMAIN m.incidents = DOMAIN c.incidents
        /\ \A a \in DOMAIN c.incidents :
             /\ c.incidents[a] \in Incidents
             /\ m.incidents[a] = c.incidents[a].status
             /\ m.outbox[a] = [mail |-> c.incidents[a].mail, tries |-> c.incidents[a].tries]
        /\ c.incidents = [a \in DOMAIN c.incidents |-> c.incidents[a]]
    BY DEF DbOK, IncidentsOK, Twin, SameIncidents
  <2>2. ASSUME NEW a \in DOMAIN c.incidents
        PROVE  incident(a) = c.incidents[a]
    <3>1. /\ c.incidents[a] \in Incidents
          /\ m.incidents[a] = c.incidents[a].status
          /\ m.outbox[a].mail = c.incidents[a].mail
          /\ m.outbox[a].tries = c.incidents[a].tries
      <4>1. m.outbox[a] = [mail |-> c.incidents[a].mail, tries |-> c.incidents[a].tries]
        BY <2>1
      <4> QED
        BY <2>1, <4>1
    <3> QED
      BY <3>1 DEF Incidents
  <2> HIDE DEF incident
  <2> QED
    BY <2>1, <2>2
<1>4. c.inbound = m.inbound /\ c.mode = m.mode /\ c.ver = m.ver /\ c.beat = m.beat
  BY DEF Twin, SameRest
<1>5. sql_lists(c) = [orders |-> [o \in DOMAIN c.rows |-> sql(o)],
                      incidents |-> c.incidents, inbound |-> c.inbound,
                      mode |-> c.mode, ver |-> c.ver, beat |-> c.beat]
  BY DEF sql_lists
<1>6. mem_lists(m) = [orders |-> [o \in DOMAIN m.orders |-> mem(o)],
                      incidents |-> [a \in DOMAIN m.incidents |-> incident(a)],
                      inbound |-> m.inbound, mode |-> m.mode, ver |-> m.ver, beat |-> m.beat]
  BY DEF mem_lists
<1> HIDE DEF sql, mem, incident
<1>7. [o \in DOMAIN c.rows |-> sql(o)] = [o \in DOMAIN m.orders |-> mem(o)]
  BY <1>1, <1>2
<1> QED
  BY <1>3, <1>4, <1>5, <1>6, <1>7

\* The columns have their types.
LEMMA DbTypes ==
    ASSUME NEW c, DbOK(c)
    PROVE  /\ DOMAIN c.rows \subseteq Ids
           /\ \A o \in DOMAIN c.rows :
                LET r == c.rows[o] IN
                /\ r.key \in Keys /\ r.ver \in Nat \ {0} /\ r.owner \in Workers \cup {None}
                /\ r.life \in {"OPEN", "CLOSED"} /\ r.gen \in 0..MaxGen
                /\ r.bind \in BindingStates
                /\ \A i \in DOMAIN r.log : /\ r.log[i].command \in CommandIds
                                           /\ r.log[i].no \in 1..MaxAttempts
                                           /\ r.log[i].state \in ActionStates
                                           /\ r.log[i].outcome \in Receipts \cup {""}
           /\ \A a \in DOMAIN c.incidents :
                /\ c.incidents[a].status \in {"OPEN", "RESOLVED"}
                /\ c.incidents[a].mail \in {"PENDING", "SENT", "FAILED"}
                /\ c.incidents[a].tries \in 0..MaxAttempts
<1>1. ASSUME NEW o \in DOMAIN c.rows, NEW r, r = c.rows[o]
      PROVE  /\ r.key \in Keys /\ r.ver \in Nat \ {0} /\ r.owner \in Workers \cup {None}
             /\ r.life \in {"OPEN", "CLOSED"} /\ r.gen \in 0..MaxGen
             /\ r.bind \in BindingStates
             /\ \A i \in DOMAIN r.log : /\ r.log[i].command \in CommandIds
                                        /\ r.log[i].no \in 1..MaxAttempts
                                        /\ r.log[i].state \in ActionStates
                                        /\ r.log[i].outcome \in Receipts \cup {""}
  <2>1. r \in OrderRows /\ LogOK(r.log, CommandIds)
    BY <1>1 DEF DbOK, RowsOK, RowOK, CommandsOK
  <2>2. ASSUME NEW i \in DOMAIN r.log
        PROVE  /\ r.log[i].command \in CommandIds /\ r.log[i].no \in 1..MaxAttempts
               /\ r.log[i].state \in ActionStates
               /\ r.log[i].outcome \in Receipts \cup {""}
    <3>1. r.log[i] \in Attempts(CommandIds)
      BY <2>1 DEF LogOK
    <3>2. r.log[i].no \in 1..MaxAttempts
      <4> DEFINE k == r.log[i].command
      <4>1. k \in CommandIds /\ i \in Rows(r.log, k)
        BY <3>1 DEF Attempts, Rows
      <4>2. PICK n \in 0..MaxAttempts : Numbered(r.log, k, n)
        BY <2>1, <4>1 DEF LogOK
      <4>3. r.log[i].no \in 1..n
        BY <4>1, <4>2 DEF Numbered
      <4> QED
        BY <4>2, <4>3, AttemptsAssumption
    <3> QED
      BY <3>1, <3>2 DEF Attempts, NoReceipt
  <2> QED
    BY <2>1, <2>2 DEF OrderRows
<1>2. \A a \in DOMAIN c.incidents :
        /\ c.incidents[a].status \in {"OPEN", "RESOLVED"}
        /\ c.incidents[a].mail \in {"PENDING", "SENT", "FAILED"}
        /\ c.incidents[a].tries \in 0..MaxAttempts
  BY DEF DbOK, IncidentsOK, Incidents
<1> QED
  BY <1>1, <1>2, Zenon DEF DbOK, RowsOK

-----------------------------------------------------------------------------
(* The theorems *)

\* What every reachable pair of stores satisfies: inside a unit, and between
\* units unless one broke off after a commit, the store in memory is the
\* database spread over its dictionaries.
THEOREM TwinsHold == Spec => []TwinInv
<1>1. Init => TwinInv
  BY TwinInit
<1>2. TwinInv /\ [Next]_vars => TwinInv'
  BY TwinStep
<1> QED
  BY <1>1, <1>2, PTL DEF Spec

\* TypeOK: the columns of SQLite have their types, a mail is waiting, sent or
\* failed with at most MaxAttempts tries, and no attempt has a number beyond.
THEOREM TwinTypes == Spec => []TypeOK
<1>1. TwinInv => TypeOK
  <2> SUFFICES ASSUME TwinInv PROVE TypeOK
    OBVIOUS
  <2>1. /\ DbOK(db) /\ DbOK(draft) /\ unit \in {"out", "in", "failed"}
        /\ committed \in BOOLEAN /\ leaked \in BOOLEAN
    BY DEF TwinInv
  <2> QED
    BY <2>1, DbTypes, Zenon DEF TypeOK
<1> QED
  BY <1>1, TwinsHold, PTL

\* SameContent: the jobs read the same from both stores, whatever calls were
\* made, as long as no unit broke off between a commit and its next write; and
\* nothing a unit writes reaches the live store before its first commit.
THEOREM TwinsAgree == Spec => []SameContent
<1>1. TwinInv => SameContent
  <2> SUFFICES ASSUME TwinInv, ~leaked
               PROVE  /\ sql_lists(draft) = mem_lists(working)
                      /\ ~committed => sql_lists(db) = mem_lists(live)
    BY DEF SameContent
  <2>1. /\ DbOK(db) /\ DbOK(draft) /\ Twin(draft, working)
        /\ ~committed => Twin(db, live)
    BY DEF TwinInv
  <2> QED
    BY <2>1, SameLists
<1> QED
  BY <1>1, TwinsHold, PTL

\* SameAnswers: both stores answer every call alike: duplicates, stale versions,
\* claims, known incidents, and the number of an attempt.
THEOREM TwinsAnswerAlike == Spec => []SameAnswers
<1>1. TwinInv => SameAnswers
  BY DEF TwinInv, SameAnswers
<1> QED
  BY <1>1, TwinsHold, PTL

\* KeyIndexIsExact: in memory the keys lead to exactly the orders there are, even
\* after a unit broke off with a commit half done.
THEOREM KeysAreExact == Spec => []KeyIndexIsExact
<1>1. TwinInv => KeyIndexIsExact
  <2> SUFFICES ASSUME TwinInv PROVE KeysExact(live) /\ KeysExact(working)
    BY DEF KeyIndexIsExact
  <2>1. CASE leaked
    BY <2>1 DEF TwinInv
  <2>2. CASE ~leaked
    <3>1. Twin(draft, working) /\ (live = working \/ Twin(db, live))
      BY <2>2 DEF TwinInv
    <3> QED
      BY <3>1 DEF Twin
  <2> QED
    BY <2>1, <2>2
<1> QED
  BY <1>1, TwinsHold, PTL
=============================================================================
