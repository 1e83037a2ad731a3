----------------------------- MODULE TwinStores -----------------------------
(***************************************************************************)
(* The two stores behind one set of ports: SQLite, which production uses,  *)
(* and the store in memory, which the tests and the scenarios run the same *)
(* jobs on.  Both are driven here by the same calls, one unit of work at a *)
(* time, and compared by what their lists return.                          *)
(*                                                                         *)
(* They keep the same facts differently.  SQLite has everything of an      *)
(* order in one row: one binding, one list of command attempts, the        *)
(* wafers; the mail of an incident is in the incident's row.  The store in *)
(* memory has a dictionary of each, and a second one from keys to orders.  *)
(*                                                                         *)
(* They also end a unit differently.  SQLite commits or rolls back the     *)
(* transaction.  In memory a unit works on a deep copy; its first commit   *)
(* makes the copy's dictionaries the live ones, so what it writes after    *)
(* that is live at once, and no rollback takes it back.                    *)
(***************************************************************************)
EXTENDS Journal, FiniteSetsExt

CONSTANTS Ids,        \* order_id
          Keys,       \* (lot, step, rework count)
          Workers, Wafers, Events,
          Alarms,     \* (subject, incident type)
          MaxGen,     \* how many SET commands one order may get
          None,
          MaxWrites   \* bound of the checked instance: calls that write

ASSUME TwinAssumption ==
    /\ MaxWrites \in Nat /\ MaxGen \in Nat
    /\ None \notin Ids \cup Workers

VARIABLES
    db,        \* SQLite: the committed rows
    draft,     \* the rows as the open transaction sees them
    live,      \* in memory: the store of the factory
    working,   \* the store the open unit works on
    unit,      \* "out", "in", or "failed" once a call has raised
    committed, \* the open unit has committed, its dictionaries are the live ones
    answers,   \* what the last call returned, of SQLite and in memory
    leaked,    \* a unit broke off with writes made after its first commit
    writes

vars == <<db, draft, live, working, unit, committed, answers, leaked, writes>>

Empty == [x \in {} |-> None]

\* d[k] = v
Put(d, k, v) == [x \in DOMAIN d \cup {k} |-> IF x = k THEN v ELSE d[x]]

\* commands are numbered: 0 is the release, the others are generations of SET
CommandIds == 0..MaxGen

EmptyDb == [rows |-> Empty, incidents |-> Empty, inbound |-> Empty,
            mode |-> "ENABLED", ver |-> 1, beat |-> FALSE]

EmptyMemory == [orders |-> Empty, orders_by_key |-> Empty, wafers |-> Empty,
                bindings |-> Empty, commands |-> Empty, history |-> {},
                incidents |-> Empty, outbox |-> Empty, inbound |-> Empty,
                mode |-> "ENABLED", ver |-> 1, beat |-> FALSE]

-----------------------------------------------------------------------------
(* SQLite *)

sql_insert_fails(c, o, k) ==
    \E p \in DOMAIN c.rows : p = o \/ c.rows[p].key = k

sql_insert(c, o, k) ==
    [c EXCEPT !.rows =
        Put(@, o, [key |-> k, ver |-> 1, owner |-> None, life |-> "OPEN",
                   gen |-> 0, bind |-> "NONE", log |-> <<>>, wafers |-> Empty])]

sql_update(c, o, life) ==
    [c EXCEPT !.rows[o].life = life, !.rows[o].ver = @ + 1]

sql_try_claim(c, o, w) ==
    [c EXCEPT !.rows[o].owner = w, !.rows[o].ver = @ + 1]

sql_replace_roster(c, o, ws) ==
    [c EXCEPT !.rows[o].wafers = [w \in ws |-> ""]]

sql_upsert_ai_result(c, o, w, result) ==
    [c EXCEPT !.rows[o].wafers = Put(@, w, result)]

\* one binding per row: a new one takes the place of the one before
sql_write_binding(c, o, gen, status) ==
    [c EXCEPT !.rows[o].gen = gen, !.rows[o].bind = status]

sql_actions(c, o, log) == [c EXCEPT !.rows[o].log = log]

\* a new command, with the binding it is about
sql_request(c, o, k, gen, status) ==
    sql_write_binding(sql_actions(c, o, insert_prepared(c.rows[o].log, k)), o, gen, status)

sql_save_command(c, o, k, state) ==
    LET log == c.rows[o].log IN
    sql_actions(c, o, save_command(log, k, state, CommandOf(log, k).outcome))

sql_record_receipt(c, o, k, receipt) ==
    sql_actions(c, o, record_receipt(c.rows[o].log, k, receipt))

sql_mail(c, a, mail, tries) ==
    [c EXCEPT !.incidents[a].mail = mail, !.incidents[a].tries = tries]

\* slip: the incident is inserted and its mail columns are left empty
sql_open_only(c, a) ==
    IF a \in DOMAIN c.incidents THEN c
    ELSE [c EXCEPT !.incidents =
             Put(@, a, [status |-> "OPEN", mail |-> "", tries |-> 0])]

\* open_or_touch, and enqueue when the incident is new
sql_open_incident(c, a) ==
    IF a \in DOMAIN c.incidents THEN c
    ELSE [c EXCEPT !.incidents =
             Put(@, a, [status |-> "OPEN", mail |-> "PENDING", tries |-> 0])]

sql_resolve(c, a) == [c EXCEPT !.incidents[a].status = "RESOLVED"]

-----------------------------------------------------------------------------
(* In memory *)

\* slip: the same order_id under another key is not refused
mem_key_taken(m, o, k) == k \in DOMAIN m.orders_by_key

mem_insert_fails(m, o, k) ==
    k \in DOMAIN m.orders_by_key \/ o \in DOMAIN m.orders

mem_insert(m, o, k) ==
    [m EXCEPT !.orders = Put(@, o, [key |-> k, ver |-> 1, owner |-> None,
                                    life |-> "OPEN"]),
              !.orders_by_key = Put(@, k, o)]

mem_update(m, o, life) ==
    [m EXCEPT !.orders[o].life = life, !.orders[o].ver = @ + 1]

mem_try_claim(m, o, w) ==
    [m EXCEPT !.orders[o].owner = w, !.orders[o].ver = @ + 1]

mem_replace_roster(m, o, ws) ==
    [m EXCEPT !.wafers = Put(@, o, [w \in ws |-> ""])]

mem_upsert_ai_result(m, o, w, result) ==
    [m EXCEPT !.wafers[o] = Put(@, w, result)]

\* one binding per generation
mem_write_binding(m, o, gen, status) ==
    [m EXCEPT !.bindings = Put(@, <<o, gen>>, status)]

mem_bindings(m, o) == {b \in DOMAIN m.bindings : b[1] = o}

\* verify_release writes every binding it has listed
mem_release_bindings(m, o) ==
    [m EXCEPT !.bindings =
        [b \in DOMAIN @ |-> IF b \in mem_bindings(m, o) THEN "RELEASED" ELSE @[b]]]

mem_insert_prepared(m, o, k) ==
    [m EXCEPT !.commands =
        Put(@, <<o, k>>, [state |-> "PREPARED", outcome |-> NoReceipt])]

mem_request(m, o, k, gen, status) ==
    mem_write_binding(mem_insert_prepared(m, o, k), o, gen, status)

mem_save_command(m, o, k, state) ==
    [m EXCEPT !.commands[<<o, k>>].state = state]

\* slip: the attempts of the order's other commands are counted too
mem_attempts_of_order(m, o, k) == Cardinality({h \in m.history : h.order = o})

mem_attempts_for(m, o, k) ==
    Cardinality({h \in m.history : h.order = o /\ h.command = k})

mem_next_attempt_no(m, o, k) == 1 + mem_attempts_for(m, o, k)

mem_record_receipt(m, o, k, receipt) ==
    LET n == mem_next_attempt_no(m, o, k) IN
    [m EXCEPT !.history = @ \cup {[order |-> o, command |-> k, no |-> n,
                                   outcome |-> receipt]},
              !.commands[<<o, k>>] = [state |-> state_after_receipt(receipt, n),
                                      outcome |-> receipt]]

mem_mail(m, a, mail, tries) ==
    [m EXCEPT !.outbox = Put(@, a, [mail |-> mail, tries |-> tries])]

mem_open_incident(m, a) ==
    IF a \in DOMAIN m.incidents THEN m
    ELSE [m EXCEPT !.incidents = Put(@, a, "OPEN"),
                   !.outbox = Put(@, a, [mail |-> "PENDING", tries |-> 0])]

mem_resolve(m, a) == [m EXCEPT !.incidents[a] = "RESOLVED"]

-----------------------------------------------------------------------------
(* What the jobs read back *)

\* the state and outcome of a command, and how often it was sent
sql_commands(log) ==
    [k \in {log[i].command : i \in DOMAIN log} |-> CommandOf(log, k)]

mem_commands(m, o) ==
    [k \in {c[2] : c \in {d \in DOMAIN m.commands : d[1] = o}} |->
        [state |-> m.commands[<<o, k>>].state,
         outcome |-> m.commands[<<o, k>>].outcome,
         attempts |-> mem_attempts_for(m, o, k)]]

mem_wafers(m, o) == IF o \in DOMAIN m.wafers THEN m.wafers[o] ELSE Empty

\* the last binding stands for the list: the ones before it have failed, or
\* were released with it
mem_last_binding(m, o) == Max({0} \cup {b[2] : b \in mem_bindings(m, o)})

sql_lists(c) ==
    [orders |-> [o \in DOMAIN c.rows |->
        LET r == c.rows[o] IN
        [key |-> r.key, ver |-> r.ver, owner |-> r.owner, life |-> r.life,
         wafers |-> r.wafers, gen |-> r.gen, bind |-> r.bind,
         commands |-> sql_commands(r.log)]],
     incidents |-> c.incidents, inbound |-> c.inbound,
     mode |-> c.mode, ver |-> c.ver, beat |-> c.beat]

mem_lists(m) ==
    [orders |-> [o \in DOMAIN m.orders |->
        LET r == m.orders[o]
            gen == mem_last_binding(m, o) IN
        [key |-> r.key, ver |-> r.ver, owner |-> r.owner, life |-> r.life,
         wafers |-> mem_wafers(m, o), gen |-> gen,
         bind |-> IF gen = 0 THEN "NONE" ELSE m.bindings[<<o, gen>>],
         commands |-> mem_commands(m, o)]],
     incidents |-> [a \in DOMAIN m.incidents |->
        [status |-> m.incidents[a], mail |-> m.outbox[a].mail,
         tries |-> m.outbox[a].tries]],
     inbound |-> m.inbound, mode |-> m.mode, ver |-> m.ver, beat |-> m.beat]

-----------------------------------------------------------------------------
(* Where a run of units begins *)

\* an order whose first hold MES refused and whose second one it did not answer
SecondHold(o, k) ==
    LET c1 == sql_request(sql_insert(EmptyDb, o, k), o, 1, 1, "PENDING")
        m1 == mem_request(mem_insert(EmptyMemory, o, k), o, 1, 1, "PENDING")
        c2 == sql_write_binding(sql_record_receipt(c1, o, 1, "CODE_CONFLICT"), o, 1, "FAILED")
        m2 == mem_write_binding(mem_record_receipt(m1, o, 1, "CODE_CONFLICT"), o, 1, "FAILED")
    IN <<sql_record_receipt(sql_request(c2, o, 2, 2, "PENDING"), o, 2, "UNKNOWN"),
         mem_record_receipt(mem_request(m2, o, 2, 2, "PENDING"), o, 2, "UNKNOWN")>>

\* and whose second hold was then seen in MES
Held(o, k) ==
    LET p == SecondHold(o, k) IN
    <<sql_write_binding(sql_save_command(p[1], o, 2, "CONFIRMED"), o, 2, "CONFIRMED"),
      mem_write_binding(mem_save_command(p[2], o, 2, "CONFIRMED"), o, 2, "CONFIRMED")>>

Begun == {SecondHold(o, k) : o \in Ids, k \in Keys} \cup
         {Held(o, k) : o \in Ids, k \in Keys}

Init ==
    /\ \E c \in {<<EmptyDb, EmptyMemory>>} \cup {b \in Begun : MaxGen >= 2} :
            /\ db = c[1] /\ draft = c[1]
            /\ live = c[2] /\ working = c[2]
    /\ unit = "out" /\ committed = FALSE /\ leaked = FALSE
    /\ answers = <<"", "">> /\ writes = 0

-----------------------------------------------------------------------------
(* Units of work *)

\* slip: the copy shares its dictionaries with the live store
SharedCopy(m) == m

\* MemoryStore.clone: a deep copy, so nothing reaches the live store before the
\* first commit; after it both have the same dictionaries
WrittenThrough(m) == IF committed THEN m ELSE live

Enter ==
    /\ unit = "out" /\ ~leaked /\ writes < MaxWrites
    /\ unit' = "in"
    /\ committed' = FALSE
    /\ answers' = <<"", "">>
    /\ UNCHANGED <<db, draft, live, working, leaked, writes>>

\* replace_from
Commit ==
    /\ unit = "in"
    /\ db' = draft
    /\ live' = working
    /\ committed' = TRUE
    /\ UNCHANGED <<draft, working, unit, answers, leaked, writes>>

\* The jobs leave a unit in which everything written was committed.  SQLite
\* would commit what is left, the store in memory would drop it.
Leave ==
    /\ unit = "in" /\ draft = db
    /\ unit' = "out"
    /\ working' = live
    /\ committed' = FALSE
    /\ UNCHANGED <<db, draft, live, answers, leaked, writes>>

\* an exception leaves the unit
BreakOff ==
    /\ unit \in {"in", "failed"}
    /\ unit' = "out"
    /\ draft' = db
    /\ working' = live
    /\ leaked' = (committed /\ draft # db)
    /\ committed' = FALSE
    /\ UNCHANGED <<db, live, answers, writes>>

\* a call to both stores: what they hold after it, and what they answer
Called(c, m, a, raises) ==
    /\ unit = "in" /\ writes < MaxWrites
    /\ draft' = c
    /\ working' = m
    /\ live' = WrittenThrough(m)
    /\ answers' = a
    /\ unit' = IF raises THEN "failed" ELSE "in"
    /\ writes' = writes + 1
    /\ UNCHANGED <<db, committed, leaked>>

Answered(c, m, a) == Called(c, m, a, FALSE)

Does(c, m) == Answered(c, m, <<"", "">>)

-----------------------------------------------------------------------------
(* The calls of the ports, with the arguments the jobs give them *)

\* DuplicateOrderError is caught by SET_DEFAULT_HOLD and the pass goes on
Insert(o, k) ==
    LET sql == sql_insert_fails(draft, o, k)
        mem == mem_insert_fails(working, o, k)
    IN Answered(IF sql THEN draft ELSE sql_insert(draft, o, k),
              IF mem THEN working ELSE mem_insert(working, o, k),
              <<sql, mem>>)

\* orders.update, with the version the caller has read
Update(o, life, seen) ==
    LET sql == draft.rows[o].ver = seen
        mem == working.orders[o].ver = seen
    IN Called(IF sql THEN sql_update(draft, o, life) ELSE draft,
              IF mem THEN mem_update(working, o, life) ELSE working,
              <<sql, mem>>, ~sql \/ ~mem)

mem_claimable(o, w, seen, over) ==
    /\ working.orders[o].ver = seen
    /\ working.orders[o].owner \in {None, w} \/ over

sql_claimable(o, w, seen, over) ==
    /\ draft.rows[o].ver = seen
    /\ draft.rows[o].owner \in {None, w} \/ over

\* over: the lease of whoever has the order is over
TryClaim(o, w, seen, over) ==
    LET sql == sql_claimable(o, w, seen, over)
        mem == mem_claimable(o, w, seen, over)
    IN Answered(IF sql THEN sql_try_claim(draft, o, w) ELSE draft,
              IF mem THEN mem_try_claim(working, o, w) ELSE working,
              <<sql, mem>>)

ReplaceRoster(o, ws) ==
    Does(sql_replace_roster(draft, o, ws), mem_replace_roster(working, o, ws))

\* snapshot: only a wafer of the roster is written, when its result is new
UpsertAiResult(o, w, result) ==
    /\ w \in DOMAIN draft.rows[o].wafers
    /\ draft.rows[o].wafers[w] # result
    /\ Does(sql_upsert_ai_result(draft, o, w, result),
            mem_upsert_ai_result(working, o, w, result))

State(o, k) == CommandOf(draft.rows[o].log, k).state

\* request_hold: a command and its binding, once the one before was rejected
RequestHold(o) ==
    LET r == draft.rows[o]
        g == r.gen + 1
    IN /\ g <= MaxGen
       /\ r.gen > 0 => r.bind = "FAILED"
       /\ Does(sql_request(draft, o, g, g, "PENDING"),
               mem_request(working, o, g, g, "PENDING"))

\* request_release
RequestRelease(o) ==
    LET r == draft.rows[o] IN
    /\ r.bind = "CONFIRMED"
    /\ State(o, 0) = "NONE"
    /\ Does(sql_request(draft, o, 0, r.gen, "RELEASE_PENDING"),
            mem_request(working, o, 0, r.gen, "RELEASE_PENDING"))

\* save_command as the jobs use it: a command in flight was seen in MES; a hold
\* without an answer is not there, so it waits for a retry or is given up; a
\* retry is sent
Moves(o, k, state) ==
    LET now == State(o, k)
        left == CommandOf(draft.rows[o].log, k).attempts < MaxAttempts
    IN \/ now \in InFlightStates /\ state = "CONFIRMED"
       \/ /\ now = "UNKNOWN" /\ k # 0
          /\ state = IF left THEN "RETRY_WAIT" ELSE "REJECTED"
       \/ now = "RETRY_WAIT" /\ left /\ state = "PREPARED"

SaveCommand(o, k, state) ==
    /\ Moves(o, k, state)
    /\ Does(sql_save_command(draft, o, k, state), mem_save_command(working, o, k, state))

\* record_receipt: both number the attempt from the history they list
RecordReceipt(o, k, receipt) ==
    /\ State(o, k) = "PREPARED"
    /\ Answered(sql_record_receipt(draft, o, k, receipt),
              mem_record_receipt(working, o, k, receipt),
              <<next_attempt_no(draft.rows[o].log, k),
                mem_next_attempt_no(working, o, k)>>)

\* the hold was seen in MES, or MES refused it
SetBinding(o, status) ==
    /\ draft.rows[o].bind = "PENDING"
    /\ Does(sql_write_binding(draft, o, draft.rows[o].gen, status),
            mem_write_binding(working, o, draft.rows[o].gen, status))

\* verify_release
ReleaseBindings(o) ==
    /\ draft.rows[o].bind = "RELEASE_PENDING"
    /\ Does(sql_write_binding(draft, o, draft.rows[o].gen, "RELEASED"),
            mem_release_bindings(working, o))

OpenIncident(a) ==
    Answered(sql_open_incident(draft, a), mem_open_incident(working, a),
           <<a \in DOMAIN draft.incidents, a \in DOMAIN working.incidents>>)

\* get_open first, so only an open one is resolved
ResolveIncident(a) ==
    /\ a \in DOMAIN draft.incidents /\ draft.incidents[a].status = "OPEN"
    /\ Does(sql_resolve(draft, a), mem_resolve(working, a))

\* mark_sent and mark_failed, of a mail list_pending has returned
MarkMail(a, mail) ==
    /\ a \in DOMAIN draft.incidents
    /\ draft.incidents[a].mail \in {"PENDING", "FAILED"}
    /\ draft.incidents[a].tries < MaxAttempts
    /\ LET more == IF mail = "FAILED" THEN 1 ELSE 0 IN
       Does(sql_mail(draft, a, mail, draft.incidents[a].tries + more),
            mem_mail(working, a, mail, working.outbox[a].tries + more))

SaveControl(mode, seen) ==
    LET sql == draft.ver = seen
        mem == working.ver = seen
    IN Called(IF sql THEN [draft EXCEPT !.mode = mode, !.ver = seen + 1] ELSE draft,
              IF mem THEN [working EXCEPT !.mode = mode, !.ver = seen + 1]
                     ELSE working,
              <<sql, mem>>, ~sql \/ ~mem)

TouchHeartbeat ==
    /\ ~draft.beat
    /\ Does([draft EXCEPT !.beat = TRUE], [working EXCEPT !.beat = TRUE])

TryRecord(e) ==
    LET sql == e \notin DOMAIN draft.inbound
        mem == e \notin DOMAIN working.inbound
    IN Answered(IF sql THEN [draft EXCEPT !.inbound = Put(@, e, "new")] ELSE draft,
              IF mem THEN [working EXCEPT !.inbound = Put(@, e, "new")] ELSE working,
              <<sql, mem>>)

\* an event of the pass, with the order it led to or with none
MarkConsumed(e, o) ==
    /\ e \in DOMAIN draft.inbound
    /\ Does([draft EXCEPT !.inbound[e] = o], [working EXCEPT !.inbound[e] = o])

OrderCall(o) ==
    \/ \E life \in {"OPEN", "CLOSED"} : \E v \in 1..draft.rows[o].ver :
            Update(o, life, v)
    \/ \E w \in Workers : \E v \in 1..draft.rows[o].ver : \E over \in BOOLEAN :
            TryClaim(o, w, v, over)
    \/ \E ws \in SUBSET Wafers : ReplaceRoster(o, ws)
    \/ \E w \in Wafers : \E result \in {"OK", "DEFECT"} : UpsertAiResult(o, w, result)
    \/ RequestHold(o)
    \/ RequestRelease(o)
    \/ \E k \in CommandIds :
            \/ \E state \in ActionStates : SaveCommand(o, k, state)
            \/ \E receipt \in {"ACCEPTED", "UNKNOWN", "TRANSIENT", "CODE_CONFLICT"} :
                    RecordReceipt(o, k, receipt)
    \/ \E status \in {"CONFIRMED", "FAILED"} : SetBinding(o, status)
    \/ ReleaseBindings(o)

AlarmCall(a) ==
    \/ OpenIncident(a)
    \/ ResolveIncident(a)
    \/ \E mail \in {"SENT", "FAILED"} : MarkMail(a, mail)

Call ==
    \/ \E o \in Ids : \E k \in Keys : Insert(o, k)
    \/ \E o \in DOMAIN draft.rows : OrderCall(o)
    \/ \E a \in Alarms : AlarmCall(a)
    \/ \E mode \in {"ENABLED", "DISABLED_NEW_HOLD"} : \E v \in 1..draft.ver :
            SaveControl(mode, v)
    \/ TouchHeartbeat
    \/ \E e \in Events : TryRecord(e)
    \/ \E e \in Events : \E o \in DOMAIN draft.rows \cup {None} : MarkConsumed(e, o)

Next == Enter \/ Commit \/ Leave \/ BreakOff \/ Call

Spec == Init /\ [][Next]_vars

-----------------------------------------------------------------------------
(* What should hold *)

\* The rows of a store have the types of the columns they stand for: a mail of
\* an incident waits, was sent or has failed.
TypeOK ==
    /\ \A c \in {db, draft} :
        /\ DOMAIN c.rows \subseteq Ids
        /\ \A o \in DOMAIN c.rows :
            LET r == c.rows[o] IN
            /\ r.key \in Keys /\ r.ver \in Nat \ {0} /\ r.owner \in Workers \cup {None}
            /\ r.life \in {"OPEN", "CLOSED"} /\ r.gen \in 0..MaxGen
            /\ r.bind \in BindingStates
            /\ \A i \in DOMAIN r.log : /\ r.log[i].command \in CommandIds
                                       /\ r.log[i].no \in 1..MaxAttempts
                                       /\ r.log[i].state \in ActionStates
                                       /\ r.log[i].outcome \in Receipts \cup {""}
        /\ \A a \in DOMAIN c.incidents :
            /\ c.incidents[a].status \in {"OPEN", "RESOLVED"}
            /\ c.incidents[a].mail \in {"PENDING", "SENT", "FAILED"}
            /\ c.incidents[a].tries \in 0..MaxAttempts
    /\ unit \in {"out", "in", "failed"}
    /\ committed \in BOOLEAN /\ leaked \in BOOLEAN

\* The jobs read the same from both stores, inside a unit and between units, as
\* long as no unit broke off between a commit and what it wrote after it; and
\* before its first commit nothing a unit writes is in the live store.
SameContent ==
    ~leaked => /\ sql_lists(draft) = mem_lists(working)
               /\ ~committed => sql_lists(db) = mem_lists(live)

\* Every call is answered alike: what is a duplicate, which version is stale,
\* who may claim an order, which incident is known, the number of an attempt.
SameAnswers == ~leaked => answers[1] = answers[2]

KeysExact(m) ==
    /\ \A o \in DOMAIN m.orders :
        /\ m.orders[o].key \in DOMAIN m.orders_by_key
        /\ m.orders_by_key[m.orders[o].key] = o
    /\ \A k \in DOMAIN m.orders_by_key :
        /\ m.orders_by_key[k] \in DOMAIN m.orders
        /\ m.orders[m.orders_by_key[k]].key = k

\* In memory the keys lead to exactly the orders there are, even after a unit
\* broke off: get_by_key and get never disagree.
KeyIndexIsExact == \A m \in {live, working} : KeysExact(m)

\* The document of the stores says that a rolled back unit leaves nothing.
RollbackLeavesNothing == unit = "out" => sql_lists(db) = mem_lists(live)
=============================================================================
