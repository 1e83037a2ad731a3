------------------------------ MODULE LotOnLine ------------------------------
(***************************************************************************)
(* A lot that moves along its flow, whose flow may be changed, and whose   *)
(* wafers are scanned, beside the order that is to catch it: SET chooses   *)
(* the step of the hold and calls MES, again if need be, and CHECK_AI reads *)
(* the scan results until the lot may go.                                  *)
(*                                                                         *)
(* What HoldOrder says of an order's command is reduced here to whether a  *)
(* call is still to be made; what it leaves open, the step of the hold and *)
(* the scan, is what this module is about.                                 *)
(***************************************************************************)
EXTENDS Target, ScanResults

CONSTANTS Flows,          \* the flows a lot may have
          Roster,         \* the wafers of the lot
          ListedWafers,   \* those the AI service may list
          Versions,       \* of the results
          Settle,         \* scan_settle_minutes
          MaxFlows, MaxRows, MaxAttempts, MaxClock    \* bounds

ASSUME LotAssumption ==
    /\ Roster \subseteq ListedWafers /\ Roster # {}
    /\ 0 \notin ListedWafers
    /\ Versions \subseteq 1 .. 99
    /\ \A flow \in Flows : flow \in Seq(Steps) /\ flow # <<>>
    /\ Settle \in Nat /\ MaxAttempts \in Nat \ {0}
    /\ MaxFlows \in Nat \ {0} /\ MaxClock \in Nat

VARIABLES flows,     \* the flows the lot had, the last one is valid; the version
                     \* of a flow is its place
          ope,       \* the step the lot is at
          order,     \* target, reason and flow_version of the row, the state of
                     \* its command; from: where the lot was when it was chosen
          passing,   \* SET has chosen and not yet taken its second snapshot
          call,      \* the last call: its step, number, what the pass had seen
          rows,      \* what the AI service shows
          clock,
          released   \* what CHECK_AI went by when it sent the release

lineVars == <<flows, ope>>
setVars == <<order, passing, call>>
vars == <<flows, ope, order, passing, call, rows, clock, released>>

Opes == UNION {{flow[i].ope : i \in DOMAIN flow} : flow \in Flows}
Flow == flows[Len(flows)]
Version == Len(flows)

AllRows == [wafer : ListedWafers, version : Versions, scan : -1 .. MaxClock,
            round : {"this", "other"}]

NoCall == [step |-> 0, no |-> 0, at |-> 0, version |-> 0]
NotReleased == [now |-> -1, rows |-> {}]

Init ==
    /\ \E flow \in Flows : flows = <<flow>> /\ ope = flow[1].ope
    /\ order = [target |-> NoTarget, version |-> 0, from |-> 0, cmd |-> "NONE",
                attempts |-> 0]
    /\ passing = FALSE /\ call = NoCall
    /\ rows = {} /\ clock = 0 /\ released = NotReleased

-----------------------------------------------------------------------------
\* The line.  A hold keeps the lot from leaving its step.
Held == order.cmd = "HELD" /\ released = NotReleased

Move ==
    /\ released = NotReleased /\ rows = {}     \* what follows is no concern of the order's
    /\ LET here == Position(Flow, ope) IN
       /\ here \in 1 .. Len(Flow) - 1
       /\ ~(Held /\ call.step = ope)
       /\ ope' = Flow[here + 1].ope
    /\ UNCHANGED <<flows, setVars, rows, clock, released>>

Reroute ==
    /\ Len(flows) < MaxFlows /\ ~Held /\ released = NotReleased
    /\ \E flow \in Flows \ {Flow} : flows' = Append(flows, flow)
    /\ UNCHANGED <<ope, setVars, rows, clock, released>>

-----------------------------------------------------------------------------
\* SET_DEFAULT_HOLD

\* slip: any target will do
Untargeted(o, version) == o.target = NoTarget

\* A1-02: no target yet, or chosen on another version of the flow
NeedsTarget(o, version) == o.target = NoTarget \/ o.version # version

\* No answer, or no step to choose: SET leaves the order from now on.
Stop ==
    /\ order.cmd = "NONE"
    /\ order' = [order EXCEPT !.cmd = "STOPPED"]
    /\ passing' = FALSE
    /\ UNCHANGED <<lineVars, call, rows, clock, released>>

Choose ==
    /\ order.cmd = "NONE" /\ ~passing
    /\ NeedsTarget(order, Version)
    /\ LET target == choose_hold_target("FOUND", Flow, ope) IN
       /\ target # NoTarget
       /\ order' = [order EXCEPT !.target = target, !.version = Version, !.from = ope]
    /\ passing' = TRUE
    /\ UNCHANGED <<lineVars, call, rows, clock, released>>

\* The second snapshot has a flow of another version: the pass ends.
Reconsider ==
    /\ order.cmd = "NONE" /\ passing
    /\ NeedsTarget(order, Version)
    /\ passing' = FALSE
    /\ UNCHANGED <<lineVars, order, call, rows, clock, released>>

\* The call and what became of it: the hold is set, or a retry is due while an
\* attempt is left.  The step is the one the command was frozen with.
CallsUpTo(last) ==
    \E held \in BOOLEAN :
        LET n == order.attempts + 1 IN
        /\ call' = [step |-> order.target.ope, no |-> n, at |-> ope, version |-> Version]
        /\ order' = [order EXCEPT !.attempts = n,
                                  !.cmd = IF held THEN "HELD"
                                          ELSE IF n < last THEN "RETRY_WAIT"
                                          ELSE "FAILED"]

\* slip: the limit is compared before the attempt is counted
OneCallMore == CallsUpTo(MaxAttempts + 1)

Calls == CallsUpTo(MaxAttempts)

\* A1-03
Send ==
    /\ order.cmd = "NONE"
    /\ ~NeedsTarget(order, Version)
    /\ Calls
    /\ passing' = FALSE
    /\ UNCHANGED <<lineVars, rows, clock, released>>

\* A1-09: the flow is not looked at
Retry ==
    /\ order.cmd = "RETRY_WAIT"
    /\ Calls
    /\ UNCHANGED <<lineVars, passing, rows, clock, released>>

-----------------------------------------------------------------------------
\* The AI service.  The scans are looked at when the lot is held where it started
\* by a first call (bound), for what came before has no part in them.
Scanning ==
    Held /\ call.no = 1 /\ Len(flows) = 1 /\ order.from = ope /\ ope = Flow[1].ope

\* A row shows from some moment on, its scan a moment away at
\* most and early enough for the settling time to pass (bound).
Show ==
    /\ Scanning
    /\ Cardinality(rows) < MaxRows
    /\ \E row \in AllRows \ rows :
         /\ row.scan \in {-1, clock, clock + 1} /\ row.scan + Settle <= MaxClock
         /\ rows' = rows \cup {row}
    /\ UNCHANGED <<lineVars, setVars, clock, released>>

Tick ==
    /\ Scanning /\ clock < MaxClock
    /\ clock' = clock + 1
    /\ UNCHANGED <<lineVars, setVars, rows, released>>

Listings(shown) ==
    {f \in [1 .. Cardinality(shown) -> shown] : ToSet(f) = shown}

\* CHECK_AI reads the rows in the order they are listed this time.
CheckAi ==
    /\ Scanning
    /\ \E listing \in Listings(rows) :
         /\ scan_settle_ready(Roster, listing, clock, Settle)
         /\ released' = [now |-> clock, rows |-> rows]
    /\ UNCHANGED <<lineVars, setVars, rows, clock>>

-----------------------------------------------------------------------------
Next == \/ Move \/ Reroute
        \/ Stop \/ Choose \/ Reconsider \/ Send \/ Retry
        \/ Show \/ Tick \/ CheckAi

Spec == Init /\ [][Next]_vars

\* Time passes, and CHECK_AI is started again and again.
FairSpec == Spec /\ WF_vars(Tick) /\ WF_vars(CheckAi)

-----------------------------------------------------------------------------
Orders == [target : [ope : Opes \cup {0}, reason : Reasons], version : 0 .. MaxFlows,
           from : Opes \cup {0},
           cmd : {"NONE", "STOPPED", "HELD", "RETRY_WAIT", "FAILED"},
           attempts : 0 .. MaxAttempts]

Calling == [step : Opes \cup {0}, no : 0 .. MaxAttempts, at : Opes \cup {0},
            version : 0 .. MaxFlows]

Releases == [now : -1 .. MaxClock, rows : SUBSET AllRows]

TypeOK ==
    /\ flows \in UNION {[1 .. n -> Flows] : n \in 1 .. MaxFlows} /\ ope \in Opes
    /\ order \in Orders /\ passing \in BOOLEAN /\ call \in Calling
    /\ rows \subseteq AllRows /\ clock \in 0 .. MaxClock /\ released \in Releases

\* Step i matches a station of higher priority than the other step, or it is
\* sooner and of the same one.
Better(flow, i, step) ==
    /\ flow[i].config # {}
    /\ \/ flow[step].config = {}
       \/ \E p \in flow[i].config :
            \A q \in flow[step].config : p < q \/ (p = q /\ i < step)

\* What a choice made at this step promises of its target.
Chosen(flow, target, from) ==
    LET here == Position(flow, from) IN
    /\ here # 0
    /\ \E step \in not_passed(flow, here) :
         /\ flow[step].ope = target.ope
         /\ \A i \in not_passed(flow, here) : ~Better(flow, i, step)

\* The step of the hold lies ahead of the lot, or under it, as it was when it was
\* chosen; no step ahead matches a station of higher priority, and none of the
\* same priority comes sooner (target 40-121).
ChoiceIsRight ==
    order.target # NoTarget => Chosen(flows[order.version], order.target, order.from)

\* A changed flow is seen before the first call: it is made for a step of the
\* flow the pass has seen, chosen on that flow.
FirstCallFitsFlow ==
    call.no = 1 => /\ call.version = order.version
                   /\ Position(flows[call.version], call.step) # 0

\* The lot goes only when every wafer of the roster was scanned, in this round as
\* far as the row says, and all scans shown by then lie the settling time back
\* (derive 301-333).
ReleaseIsSettled ==
    LET seen == {row \in released.rows : row.wafer \in Roster
                                                /\ row.round # "other" /\ row.scan >= 0} IN
    released # NotReleased =>
        /\ \A w \in Roster : \E row \in seen : row.wafer = w
        /\ \A row \in seen : row.scan + Settle <= released.now

AllScanned ==
    LET mine == {row \in rows : row.wafer \in Roster /\ row.round # "other"} IN
    /\ \A w \in Roster : \E row \in mine : row.wafer = w
    /\ \A row \in mine : row.scan >= 0

\* When nothing of this round is left unscanned, the lot goes, however often a
\* wafer is listed, in whatever order and with whatever version.
ScannedLotGoes ==
    Scanning /\ Cardinality(rows) = MaxRows /\ AllScanned ~> released # NotReleased

-----------------------------------------------------------------------------
(* The inductive invariant: LotOnLineProofs proves it. *)

\* The state of the command says how often MES was called.
CommandInv ==
    /\ order.cmd = "NONE" => order.attempts = 0 /\ call = NoCall
    /\ order.cmd = "RETRY_WAIT" => order.attempts \in 1 .. MaxAttempts - 1
    /\ call.no = 1 => /\ order.target # NoTarget
                      /\ call.version = order.version /\ call.step = order.target.ope

\* A target was chosen on a flow that the lot had.
ChoiceInv ==
    order.target # NoTarget => order.version \in 1 .. Len(flows) /\ ChoiceIsRight

ScanInv == IsFiniteSet(rows) /\ ReleaseIsSettled

LineInv == CommandInv /\ ChoiceInv /\ ScanInv

-----------------------------------------------------------------------------
\* What the documents say of a call: the position of the lot and the version of
\* its flow are those the target was chosen on, or it is chosen anew.
\* (Design/Vision_AI_Hold_Agent_State_Spec_v1.md:216.)
CallFitsPosition ==
    call # NoCall =>
        Position(flows[call.version], call.step) >= Position(flows[call.version], call.at)
=============================================================================
