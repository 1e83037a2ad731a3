---------------------------- MODULE TwinStoresInv ----------------------------
(***************************************************************************)
(* The inductive invariant of TwinStores: how what SQLite keeps in an      *)
(* order's row is spread over the dictionaries of the store in memory, and *)
(* which pair of stores is related in this way at which time.              *)
(***************************************************************************)
EXTENDS TwinStores

-----------------------------------------------------------------------------
(* The rows of SQLite *)

Rosters == UNION {[S -> {"", "OK", "DEFECT"}] : S \in SUBSET Wafers}

OrderRows ==
    [key : Keys, ver : Nat \ {0}, owner : Workers \cup {None},
     life : {"OPEN", "CLOSED"}, gen : 0..MaxGen, bind : BindingStates,
     log : Seq(Attempts(CommandIds)), wafers : Rosters]

Incidents ==
    [status : {"OPEN", "RESOLVED"}, mail : {"PENDING", "SENT", "FAILED"},
     tries : 0..MaxAttempts]

\* The commands are numbered up to the binding's generation, and a command that
\* is to be sent has an attempt left.
CommandsOK(log, gen) ==
    /\ LogOK(log, CommandIds)
    /\ \A k \in CommandIds :
        /\ CommandOf(log, k).state # "NONE" => k <= gen
        /\ CommandOf(log, k).state = "PREPARED" => CommandOf(log, k).attempts < MaxAttempts

RowOK(r) ==
    /\ r \in OrderRows
    /\ CommandsOK(r.log, r.gen)
    /\ r.gen = 0 => r.bind = "NONE"

\* c has these columns and no others
IsDb(c) ==
    c \in [rows : {c.rows}, incidents : {c.incidents}, inbound : {c.inbound},
           mode : {c.mode}, ver : {c.ver}, beat : {c.beat}]

RowsOK(c) ==
    /\ DOMAIN c.rows \subseteq Ids
    /\ \A o \in DOMAIN c.rows : RowOK(c.rows[o])

IncidentsOK(c) == c.incidents \in [DOMAIN c.incidents -> Incidents]

DbOK(c) == IsDb(c) /\ RowsOK(c) /\ IncidentsOK(c)

-----------------------------------------------------------------------------
(* A store in memory with the same content *)

IsMemory(m) ==
    m \in [orders : {m.orders}, orders_by_key : {m.orders_by_key},
           wafers : {m.wafers}, bindings : {m.bindings},
           commands : {m.commands}, history : {m.history},
           incidents : {m.incidents}, outbox : {m.outbox},
           inbound : {m.inbound}, mode : {m.mode}, ver : {m.ver}, beat : {m.beat}]

\* what both keep in the order itself
Brief(r) == [key |-> r.key, ver |-> r.ver, owner |-> r.owner, life |-> r.life]

SameOrders(c, m) == m.orders = [o \in DOMAIN c.rows |-> Brief(c.rows[o])]

SameWafers(c, m) ==
    /\ DOMAIN m.wafers \subseteq DOMAIN c.rows
    /\ \A o \in DOMAIN c.rows : mem_wafers(m, o) = c.rows[o].wafers

\* the row has the last of the bindings
SameBindings(c, m) ==
    /\ DOMAIN m.bindings \subseteq Ids \X CommandIds
    /\ \A o \in Ids, g \in CommandIds :
        <<o, g>> \in DOMAIN m.bindings <=> o \in DOMAIN c.rows /\ g \in 1..c.rows[o].gen
    /\ \A o \in DOMAIN c.rows :
        LET g == c.rows[o].gen IN g > 0 => m.bindings[<<o, g>>] = c.rows[o].bind

SameCommands(c, m) ==
    /\ DOMAIN m.commands \subseteq Ids \X CommandIds
    /\ \A o \in Ids, k \in CommandIds :
        <<o, k>> \in DOMAIN m.commands <=>
            o \in DOMAIN c.rows /\ CommandOf(c.rows[o].log, k).state # "NONE"
    /\ \A o \in DOMAIN c.rows : \A k \in CommandIds :
        LET command == CommandOf(c.rows[o].log, k) IN
        command.state # "NONE" =>
            m.commands[<<o, k>>] = [state |-> command.state, outcome |-> command.outcome]

\* as many attempts of each command, and none with a later number
SameAttempts(c, m) ==
    /\ IsFiniteSet(m.history)
    /\ \A o \in Ids, k \in CommandIds :
        mem_attempts_for(m, o, k) =
            IF o \in DOMAIN c.rows THEN CommandOf(c.rows[o].log, k).attempts ELSE 0
    /\ \A h \in m.history :
        /\ h.order \in Ids /\ h.command \in CommandIds
        /\ h.no \in 1..mem_attempts_for(m, h.order, h.command)

\* the mail has a dictionary of its own
SameIncidents(c, m) ==
    /\ m.incidents = [a \in DOMAIN c.incidents |-> c.incidents[a].status]
    /\ m.outbox = [a \in DOMAIN c.incidents |->
                     [mail |-> c.incidents[a].mail, tries |-> c.incidents[a].tries]]

SameRest(c, m) ==
    m.inbound = c.inbound /\ m.mode = c.mode /\ m.ver = c.ver /\ m.beat = c.beat

Twin(c, m) ==
    /\ IsMemory(m)
    /\ SameOrders(c, m) /\ KeysExact(m)
    /\ SameWafers(c, m) /\ SameBindings(c, m)
    /\ SameCommands(c, m) /\ SameAttempts(c, m)
    /\ SameIncidents(c, m) /\ SameRest(c, m)

-----------------------------------------------------------------------------
(* The invariant *)

\* The open unit sees twins.  What is committed are twins until the unit's first
\* commit; after it what the unit writes in memory is live at once.  A unit that
\* broke off then leaves no twins behind, but keys that are exact.
TwinInv ==
    /\ DbOK(db) /\ DbOK(draft)
    /\ unit \in {"out", "in", "failed"}
    /\ committed \in BOOLEAN /\ leaked \in BOOLEAN
    /\ unit = "out" => ~committed
    /\ leaked => unit = "out" /\ working = live /\ KeysExact(live)
    /\ ~leaked => /\ Twin(draft, working)
                  /\ IF committed THEN live = working ELSE Twin(db, live)
                  /\ answers[1] = answers[2]
=============================================================================
