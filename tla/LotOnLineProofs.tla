--------------------------- MODULE LotOnLineProofs ---------------------------
(***************************************************************************)
(* The choice of a target and the end of scanning, for all flows, rosters, *)
(* listings, versions and settling times: the target is the best step      *)
(* ahead, a first call is made for the flow the pass has seen, and a lot   *)
(* goes only when every wafer was scanned and the last scan is old enough. *)
(***************************************************************************)
EXTENDS LotOnLine, FiniteSetTheorems, WellFoundedInduction, TLAPS

-----------------------------------------------------------------------------
(* Numbers *)

LEMMA LeastNumber ==
    ASSUME NEW T \in SUBSET Nat, T # {}
    PROVE  Min(T) \in T /\ \A m \in T : Min(T) <= m
<1>1. PICK n \in T : \A m \in T : <<m, n>> \notin OpToRel(<, Nat)
  BY NatLessThanWellFounded, WFMin
<1>2. \A m \in T : ~(m < n)
  BY <1>1 DEF OpToRel
<1>3. \A m \in T : m \in Nat
  OBVIOUS
<1>4. n \in T /\ \A m \in T : n <= m
  BY <1>2, <1>3
<1> QED
  BY <1>4 DEF Min

\* A set of integers with a bound has a greatest one.
LEMMA GreatestNumber ==
    ASSUME NEW T \in SUBSET Int, T # {}, NEW b \in Int, \A m \in T : m <= b
    PROVE  Max(T) \in T /\ \A m \in T : m <= Max(T)
<1> DEFINE Gaps == {b - m : m \in T}
<1>1. Gaps \in SUBSET Nat /\ Gaps # {}
  <2>1. \A m \in T : m \in Int /\ b - m \in Nat
    OBVIOUS
  <2> QED
    BY <2>1
<1>2. PICK g \in Gaps : \A h \in Gaps : g <= h
  <2> HIDE DEF Gaps
  <2> QED
    BY <1>1, LeastNumber
<1>3. PICK n \in T : g = b - n
  BY <1>2
<1>4. n \in T /\ \A m \in T : n >= m
  <2>1. \A m \in T : m \in Int /\ g <= b - m
    BY <1>2
  <2> QED
    BY <1>3, <2>1
<1> QED
  BY <1>4 DEF Max

-----------------------------------------------------------------------------
(* The choice of the step *)

LEMMA PositionMeans ==
    ASSUME NEW flow \in Seq(Steps), NEW step
    PROVE  /\ Position(flow, step) \in 0 .. Len(flow)
           /\ Position(flow, step) # 0 => flow[Position(flow, step)].ope = step
           /\ \A i \in DOMAIN flow : flow[i].ope = step => Position(flow, step) # 0
<1> DEFINE here == {i \in DOMAIN flow : flow[i].ope = step}
<1>1. CASE here = {}
  BY <1>1 DEF Position
<1>2. CASE here # {}
  <2>1. here \in SUBSET Int /\ Len(flow) \in Int /\ \A i \in here : i <= Len(flow)
    OBVIOUS
  <2>2. Max(here) \in here
    BY <1>2, <2>1, GreatestNumber
  <2>3. Position(flow, step) = Max(here)
    BY <1>2 DEF Position
  <2>4. Position(flow, step) \in DOMAIN flow /\ flow[Position(flow, step)].ope = step
    BY <2>2, <2>3
  <2> QED
    BY <2>4
<1> QED
  BY <1>1, <1>2

LEMMA StepTypes ==
    ASSUME NEW flow \in Seq(Steps), NEW i \in DOMAIN flow
    PROVE  /\ i \in Nat \ {0}
           /\ flow[i] \in Steps /\ flow[i].ope \in Nat \ {0}
           /\ flow[i].config \in SUBSET Nat /\ flow[i].tool \in BOOLEAN
<1>1. i \in Nat \ {0} /\ flow[i] \in Steps
  OBVIOUS
<1> QED
  BY <1>1 DEF Steps

\* The first of some steps that match a station: none of them is better.
LEMMA FirstIsBest ==
    ASSUME NEW flow \in Seq(Steps), NEW steps \in SUBSET Configured(flow), steps # {}
    PROVE  /\ First(flow, steps) \in steps
           /\ \A i \in steps : ~Better(flow, i, First(flow, steps))
<1> DEFINE ranks == {Rank(flow, i) : i \in steps}
           best == Min(ranks)
           among == {i \in steps : best \in flow[i].config}
<1>1. \A i \in steps : /\ i \in DOMAIN flow /\ i \in Nat
                       /\ flow[i].config \in SUBSET Nat /\ flow[i].config # {}
  BY StepTypes DEF Configured
<1>2. \A i \in steps : /\ Rank(flow, i) \in flow[i].config
                       /\ \A p \in flow[i].config : Rank(flow, i) <= p
  BY <1>1, LeastNumber DEF Rank
<1>3. ranks \in SUBSET Nat /\ ranks # {}
  BY <1>1, <1>2
<1>4. best \in ranks /\ \A r \in ranks : best <= r
  <2> HIDE DEF ranks
  <2> QED
    BY <1>3, LeastNumber
<1>5. PICK j \in steps : best = Rank(flow, j)
  BY <1>4
<1>6. best \in Nat /\ among \in SUBSET Nat /\ j \in among
  BY <1>1, <1>2, <1>5
<1>7. Min(among) \in among /\ \A i \in among : Min(among) <= i
  <2> HIDE DEF among
  <2> QED
    BY <1>6, LeastNumber
<1>8. First(flow, steps) = Min(among)
  BY DEF First
<1>9. ASSUME NEW i \in steps, Better(flow, i, Min(among)) PROVE FALSE
  <2>1. PICK p \in flow[i].config :
          \A q \in flow[Min(among)].config : p < q \/ (p = q /\ i < Min(among))
    BY <1>1, <1>7, <1>9 DEF Better
  <2>2. p < best \/ (p = best /\ i < Min(among))
    BY <1>7, <2>1
  <2>3. best <= Rank(flow, i) /\ Rank(flow, i) <= p /\ p \in Nat /\ Rank(flow, i) \in Nat
    BY <1>1, <1>2, <1>4
  <2>4. p = best /\ i < Min(among)
    BY <1>6, <2>2, <2>3
  <2>5. i \in among
    BY <2>4
  <2>6. Min(among) <= i /\ Min(among) \in Nat /\ i \in Nat
    BY <1>1, <1>6, <1>7, <2>5
  <2> QED
    BY <2>4, <2>6
<1> QED
  BY <1>7, <1>8, <1>9

LEMMA ChoiceMeans ==
    ASSUME NEW flow \in Seq(Steps), NEW from,
           choose_hold_target("FOUND", flow, from) # NoTarget
    PROVE  /\ Chosen(flow, choose_hold_target("FOUND", flow, from), from)
           /\ \E i \in DOMAIN flow :
                choose_hold_target("FOUND", flow, from).ope = flow[i].ope
           /\ choose_hold_target("FOUND", flow, from)
                = [ope |-> choose_hold_target("FOUND", flow, from).ope,
                   reason |-> choose_hold_target("FOUND", flow, from).reason]
           /\ choose_hold_target("FOUND", flow, from).reason \in Reasons
<1> DEFINE here == Position(flow, from)
           ahead == not_passed(flow, here)
           target == choose_hold_target("FOUND", flow, from)
           At(i, reason) == [ope |-> flow[i].ope, reason |-> reason]
<1>1. here \in 1 .. Len(flow)
  BY PositionMeans DEF choose_hold_target
<1>2. here \in ahead /\ ahead \subseteq DOMAIN flow
  BY <1>1 DEF not_passed
<1> SUFFICES \E i \in ahead, reason \in Reasons :
               /\ target = At(i, reason)
               /\ \A j \in ahead : ~Better(flow, j, i)
  BY <1>1, <1>2 DEF Chosen
<1>3. \A i \in ahead : i \notin Configured(flow) => \A j : ~Better(flow, i, j)
  BY <1>2 DEF Configured, Better
<1>4. CASE ahead \cap Configured(flow) # {}
  <2> DEFINE first == First(flow, ahead \cap Configured(flow))
  <2>1. /\ first \in ahead
        /\ \A j \in ahead \cap Configured(flow) : ~Better(flow, j, first)
    BY <1>4, FirstIsBest
  <2>2. target = At(first, "config_priority")
    BY <1>1, <1>4 DEF choose_hold_target
  <2>3. \A j \in ahead : ~Better(flow, j, first)
    BY <1>3, <2>1
  <2> HIDE DEF first, target, ahead
  <2>4. "config_priority" \in Reasons
    BY DEF Reasons
  <2> QED
    BY <2>1, <2>2, <2>3, <2>4
<1>5. CASE ahead \cap Configured(flow) = {}
  <2>1. \A i, j \in ahead : ~Better(flow, j, i)
    BY <1>3, <1>5
  <2>2. CASE ahead \cap Tools(flow) # {} /\ Configured(flow) = {}
    <3>1. ahead \cap Tools(flow) \in SUBSET Nat
      BY <1>2
    <3>2. Min(ahead \cap Tools(flow)) \in ahead
      BY <2>2, <3>1, LeastNumber
    <3>3. target = At(Min(ahead \cap Tools(flow)), "first_process_tool")
      BY <1>1, <1>5, <2>2 DEF choose_hold_target
    <3>4. "first_process_tool" \in Reasons
      BY DEF Reasons
    <3> QED
      BY <2>1, <3>2, <3>3, <3>4
  <2>3. CASE ~(ahead \cap Tools(flow) # {} /\ Configured(flow) = {})
    <3>1. \/ target = At(here, "all_config_stations_passed_hold_current")
          \/ target = At(here, "fallback_current_station")
      BY <1>1, <1>5, <2>3 DEF choose_hold_target
    <3>2. /\ "all_config_stations_passed_hold_current" \in Reasons
          /\ "fallback_current_station" \in Reasons
      BY DEF Reasons
    <3> QED
      BY <1>2, <2>1, <3>1, <3>2
  <2> QED
    BY <2>2, <2>3
<1> QED
  BY <1>4, <1>5

-----------------------------------------------------------------------------
(* The rows that speak for the wafers *)

\* The rows taken after each of the first n of the list.
TakenUpTo(won, roster, list, n) ==
    won = [m \in 0 .. n |-> IF m = 0 THEN [w \in roster |-> NoRow]
                            ELSE Taken(won[m - 1], list[m])]

\* The recursion has a solution: the least n without one would get it from the
\* solution before.
LEMMA TakingGoesOn ==
    ASSUME NEW roster, NEW list, NEW n \in Nat
    PROVE  \E won : TakenUpTo(won, roster, list, n)
<1> DEFINE none == [w \in roster |-> NoRow]
           Stuck == {k \in Nat : ~\E won : TakenUpTo(won, roster, list, k)}
<1>1. SUFFICES ASSUME Stuck # {} PROVE FALSE
  OBVIOUS
<1>2. PICK k \in Stuck : \A j \in Stuck : k <= j
  <2>1. Stuck \in SUBSET Nat
    OBVIOUS
  <2> HIDE DEF Stuck
  <2> QED
    BY <1>1, <2>1, LeastNumber
<1>3. CASE k = 0
  <2> DEFINE won == [m \in 0 .. 0 |-> none]
  <2>1. won = [m \in 0 .. 0 |-> IF m = 0 THEN none ELSE Taken(won[m - 1], list[m])]
    OBVIOUS
  <2>2. TakenUpTo(won, roster, list, 0)
    BY <2>1 DEF TakenUpTo
  <2> QED
    BY <1>3, <2>2
<1>4. CASE k # 0
  <2>1. k \in Nat /\ k - 1 \in Nat /\ k - 1 < k
    BY <1>4
  <2>2. PICK won : TakenUpTo(won, roster, list, k - 1)
    BY <1>2, <2>1
  <2> DEFINE next == [m \in 0 .. k |-> IF m = k THEN Taken(won[k - 1], list[k])
                                       ELSE won[m]]
  <2>3. ASSUME NEW m \in 0 .. k
        PROVE  next[m] = IF m = 0 THEN none ELSE Taken(next[m - 1], list[m])
    <3>1. CASE m = k
      BY <1>4, <2>1, <3>1
    <3>2. CASE m # k
      <4>1. m \in 0 .. k - 1 /\ next[m] = won[m] /\ (m # 0 => next[m - 1] = won[m - 1])
        BY <2>1, <3>2
      <4>2. won[m] = IF m = 0 THEN none ELSE Taken(won[m - 1], list[m])
        BY <2>2, <4>1 DEF TakenUpTo
      <4> QED
        BY <4>1, <4>2
    <3> QED
      BY <3>1, <3>2
  <2>4. next = [m \in 0 .. k |-> IF m = 0 THEN none ELSE Taken(next[m - 1], list[m])]
    BY <2>3
  <2>5. TakenUpTo(next, roster, list, k)
    BY <2>4 DEF TakenUpTo
  <2> QED
    BY <2>5
<1> QED
  BY <1>3, <1>4

\* The row that speaks for a wafer is one of the list, of that wafer and, as far
\* as it says, of this round.
LEMMA WinnersAreListed ==
    ASSUME NEW roster, NEW list, Len(list) \in Nat, NEW w \in roster
    PROVE  \/ Winners(roster, list)[w] = NoRow
           \/ \E i \in 1 .. Len(list) :
                /\ Winners(roster, list)[w] = list[i]
                /\ list[i].wafer = w /\ Fits(list[i])
<1> DEFINE size == Len(list)
           won == CHOOSE f : TakenUpTo(f, roster, list, size)
           Listed(v, n) == \/ won[n][v] = NoRow
                           \/ \E i \in 1 .. n : /\ won[n][v] = list[i]
                                                /\ list[i].wafer = v /\ Fits(list[i])
           Fine(n) == DOMAIN won[n] = roster /\ \A v \in roster : Listed(v, n)
           Wrong == {n \in 0 .. size : ~Fine(n)}
<1>1. Winners(roster, list) = won[size]
  BY DEF Winners, TakenUpTo
<1>2. won = [m \in 0 .. size |-> IF m = 0 THEN [v \in roster |-> NoRow]
                                 ELSE Taken(won[m - 1], list[m])]
  <2>1. TakenUpTo(won, roster, list, size)
    BY TakingGoesOn
  <2> HIDE DEF won
  <2> QED
    BY <2>1 DEF TakenUpTo
<1> HIDE DEF won
<1>3. \A n \in 0 .. size : Fine(n)
  <2>1. SUFFICES ASSUME Wrong # {} PROVE FALSE
    OBVIOUS
  <2>2. PICK n \in Wrong : \A j \in Wrong : n <= j
    <3>1. Wrong \in SUBSET Nat
      OBVIOUS
    <3> HIDE DEF Wrong
    <3> QED
      BY <2>1, <3>1, LeastNumber
  <2>3. n # 0
    <3>1. won[0] = [v \in roster |-> NoRow]
      BY <1>2
    <3> QED
      BY <2>2, <3>1
  <2>4. n - 1 \in 0 .. size /\ n \in 0 .. size /\ Fine(n - 1)
    BY <2>2, <2>3
  <2>5. won[n] = Taken(won[n - 1], list[n])
    BY <1>2, <2>3, <2>4
  <2>6. DOMAIN won[n] = roster
    BY <2>4, <2>5 DEF Taken
  <2>7. ASSUME NEW v \in roster PROVE Listed(v, n)
    <3>1. \/ won[n][v] = won[n - 1][v]
          \/ won[n][v] = list[n] /\ list[n].wafer = v /\ Fits(list[n])
      BY <2>4, <2>5 DEF Taken
    <3>2. Listed(v, n - 1)
      BY <2>4
    <3> QED
      BY <2>4, <2>3, <3>1, <3>2
  <2> QED
    BY <2>2, <2>6, <2>7
<1> QED
  BY <1>1, <1>3

\* The scans of a listing, and the last of them.
LEMMA SettledMeans ==
    ASSUME NEW shown \in SUBSET AllRows, IsFiniteSet(shown),
           NEW list \in Listings(shown), NEW now \in Int,
           scan_settle_ready(Roster, list, now, Settle)
    PROVE  LET seen == {row \in shown : /\ row.wafer \in Roster
                                         /\ row.round # "other" /\ row.scan >= 0} IN
           /\ \A w \in Roster : \E row \in seen : row.wafer = w
           /\ \A row \in seen : row.scan + Settle <= now
<1> DEFINE seen == {row \in shown : /\ row.wafer \in Roster
                                     /\ row.round # "other" /\ row.scan >= 0}
           fit == {r \in ToSet(list) : r.wafer \in Roster /\ Fits(r)}
           scans == {row.scan : row \in fit}
<1>1. Cardinality(shown) \in Nat
  BY FS_CardinalityType
<1>2. /\ list \in [1 .. Cardinality(shown) -> shown] /\ ToSet(list) = shown
      /\ Len(list) = Cardinality(shown) /\ Len(list) \in Nat
  BY <1>1 DEF Listings
<1>3. \A row \in shown : row.scan \in -1 .. MaxClock /\ row.scan \in Int
  BY LotAssumption DEF AllRows
<1>4. ASSUME NEW w \in Roster PROVE \E row \in seen : row.wafer = w
  <2>1. Scanned(Winners(Roster, list)[w])
    BY DEF scan_settle_ready, expected_complete
  <2>2. Winners(Roster, list)[w] # NoRow
    BY <2>1 DEF Scanned, NoRow
  <2>3. PICK i \in 1 .. Len(list) : /\ Winners(Roster, list)[w] = list[i]
                                    /\ list[i].wafer = w /\ Fits(list[i])
    BY <1>2, <2>2, WinnersAreListed
  <2>4. list[i] \in seen
    BY <1>2, <2>1, <2>3 DEF Scanned, Fits
  <2> QED
    BY <2>3, <2>4
<1>5. ASSUME NEW row \in seen PROVE row.scan + Settle <= now
  <2>1. row.scan \in scans /\ row.scan \in Int
    BY <1>2, <1>3 DEF Fits
  <2>2. scans \in SUBSET Int /\ scans # {} /\ MaxClock \in Int /\ \A m \in scans : m <= MaxClock
    BY <1>2, <1>3, <2>1, LotAssumption
  <2>3. Max(scans) \in Int /\ row.scan <= Max(scans)
    <3> HIDE DEF scans
    <3> QED
      BY <2>1, <2>2, GreatestNumber
  <2>4. now >= Max(scans) + Settle
    BY DEF scan_settle_ready, max_scan_completed_at
  <2> QED
    BY <2>1, <2>3, <2>4, LotAssumption
<1> QED
  BY <1>4, <1>5

-----------------------------------------------------------------------------
(* The steps *)

LEMMA LineInit == Init => TypeOK /\ LineInv
<1> SUFFICES ASSUME Init PROVE TypeOK /\ LineInv
  OBVIOUS
<1>1. PICK flow \in Flows : flows = <<flow>> /\ ope = flow[1].ope
  BY DEF Init
<1>2. flow \in Seq(Steps) /\ flow # <<>>
  BY LotAssumption
<1>3. 1 \in DOMAIN flow
  BY <1>2
<1>4. ope \in Opes
  BY <1>1, <1>3 DEF Opes
<1>5. flows \in UNION {[1 .. n -> Flows] : n \in 1 .. MaxFlows}
  <2>1. flows \in [1 .. 1 -> Flows] /\ 1 \in 1 .. MaxFlows
    BY <1>1, LotAssumption
  <2> QED
    BY <2>1
<1>6. order \in Orders /\ call \in Calling /\ released \in Releases
  BY LotAssumption DEF Init, Orders, Calling, Releases, NoTarget, Reasons, NoCall, NotReleased
<1>7. TypeOK
  <2>1. passing = FALSE /\ rows = {} /\ clock = 0 /\ 0 \in 0 .. MaxClock
    BY LotAssumption DEF Init
  <2> QED
    BY <1>4, <1>5, <1>6, <2>1 DEF TypeOK
<1>8. LineInv
  <2>1. CommandInv
    BY DEF Init, CommandInv, NoCall
  <2>2. ChoiceInv
    BY DEF Init, ChoiceInv
  <2>3. ScanInv
    BY FS_EmptySet DEF Init, ScanInv, ReleaseIsSettled
  <2> QED
    BY <2>1, <2>2, <2>3 DEF LineInv
<1> QED
  BY <1>7, <1>8

LEMMA LineTypes ==
    ASSUME TypeOK
    PROVE  /\ flows \in Seq(Flows) /\ Len(flows) \in 1 .. MaxFlows
           /\ \A v \in 1 .. Len(flows) : flows[v] \in Flows /\ flows[v] \in Seq(Steps)
           /\ Flow \in Flows /\ Flow \in Seq(Steps)
           /\ \A v \in 1 .. Len(flows) : \A i \in DOMAIN flows[v] : flows[v][i].ope \in Opes
<1>1. PICK n \in 1 .. MaxFlows : flows \in [1 .. n -> Flows]
  BY DEF TypeOK
<1>2. n \in Nat /\ flows \in Seq(Flows) /\ Len(flows) = n
  BY <1>1, LotAssumption
<1>3. \A v \in 1 .. Len(flows) : flows[v] \in Flows /\ flows[v] \in Seq(Steps)
  BY <1>1, <1>2, LotAssumption
<1>4. Flow \in Flows /\ Flow \in Seq(Steps)
  BY <1>1, <1>2, <1>3 DEF Flow
<1>5. \A v \in 1 .. Len(flows) : \A i \in DOMAIN flows[v] : flows[v][i].ope \in Opes
  BY <1>3 DEF Opes
<1> QED
  BY <1>1, <1>2, <1>3, <1>4, <1>5

\* What is left alone stays right.
LEMMA OrderKept ==
    ASSUME CommandInv, UNCHANGED setVars
    PROVE  CommandInv'
  BY DEF CommandInv, setVars

LEMMA ChoiceKept ==
    ASSUME TypeOK, ChoiceInv, UNCHANGED order, Len(flows') \in Nat,
           Len(flows) <= Len(flows'),
           \A v \in 1 .. Len(flows) : flows'[v] = flows[v]
    PROVE  ChoiceInv'
<1> SUFFICES ASSUME order.target # NoTarget
             PROVE  order.version \in 1 .. Len(flows') /\ ChoiceIsRight'
  BY DEF ChoiceInv
<1>1. order.version \in 1 .. Len(flows) /\ ChoiceIsRight
  BY DEF ChoiceInv
<1>2. order.version \in 1 .. Len(flows')
  BY <1>1, LineTypes
<1>3. Chosen(flows[order.version], order.target, order.from)
  BY <1>1 DEF ChoiceIsRight
<1>4. Chosen(flows'[order.version], order'.target, order'.from)
  BY <1>1, <1>3
<1> QED
  BY <1>2, <1>4 DEF ChoiceIsRight

LEMMA ScanKept ==
    ASSUME ScanInv, UNCHANGED <<rows, released>>
    PROVE  ScanInv'
  BY DEF ScanInv, ReleaseIsSettled

LEMMA MoveStep ==
    ASSUME TypeOK, LineInv, Move
    PROVE  TypeOK' /\ LineInv'
<1>1. ope' \in Opes
  <2>1. /\ Position(Flow, ope) \in 1 .. Len(Flow) - 1
        /\ ope' = Flow[Position(Flow, ope) + 1].ope
    BY DEF Move
  <2>2. Position(Flow, ope) + 1 \in DOMAIN Flow
    BY <2>1, LineTypes
  <2> QED
    BY <2>1, <2>2, LineTypes DEF Opes
<1>2. TypeOK'
  BY <1>1 DEF Move, TypeOK, setVars
<1>3. CommandInv'
  BY OrderKept DEF Move, LineInv
<1>4. ChoiceInv'
  BY ChoiceKept, LineTypes DEF Move, LineInv, setVars
<1>5. ScanInv'
  BY ScanKept DEF Move, LineInv
<1> QED
  BY <1>2, <1>3, <1>4, <1>5 DEF LineInv

LEMMA RerouteStep ==
    ASSUME TypeOK, LineInv, Reroute
    PROVE  TypeOK' /\ LineInv'
<1>1. PICK flow \in Flows : flows' = Append(flows, flow)
  BY DEF Reroute
<1>2. /\ Len(flows') = Len(flows) + 1 /\ Len(flows') \in 1 .. MaxFlows
      /\ \A v \in 1 .. Len(flows) : flows'[v] = flows[v]
  BY <1>1, LineTypes, LotAssumption DEF Reroute
<1>3. flows' \in [1 .. Len(flows') -> Flows]
  <2>1. flows' \in Seq(Flows)
    BY <1>1, LineTypes
  <2> QED
    BY <2>1
<1>4. TypeOK'
  BY <1>2, <1>3 DEF Reroute, TypeOK, setVars
<1>5. CommandInv'
  BY OrderKept DEF Reroute, LineInv
<1>6. ChoiceInv'
  BY <1>2, ChoiceKept, LineTypes DEF Reroute, LineInv, setVars
<1>7. ScanInv'
  BY ScanKept DEF Reroute, LineInv
<1> QED
  BY <1>4, <1>5, <1>6, <1>7 DEF LineInv

LEMMA StopStep ==
    ASSUME TypeOK, LineInv, Stop
    PROVE  TypeOK' /\ LineInv'
<1>1. order' \in Orders
  BY DEF Stop, TypeOK, Orders
<1>2. TypeOK'
  BY <1>1 DEF Stop, TypeOK, lineVars
<1>3. CommandInv'
  BY DEF Stop, LineInv, CommandInv, TypeOK, Orders, NoCall
<1>4. ChoiceInv'
  BY DEF Stop, LineInv, ChoiceInv, ChoiceIsRight, TypeOK, Orders, lineVars
<1>5. ScanInv'
  BY ScanKept DEF Stop, LineInv
<1> QED
  BY <1>2, <1>3, <1>4, <1>5 DEF LineInv

LEMMA ChooseStep ==
    ASSUME TypeOK, LineInv, Choose
    PROVE  TypeOK' /\ LineInv'
<1> DEFINE target == choose_hold_target("FOUND", Flow, ope)
<1>1. /\ order' = [order EXCEPT !.target = target, !.version = Version, !.from = ope]
      /\ target # NoTarget /\ order.cmd = "NONE"
      /\ UNCHANGED <<flows, ope, call, rows, clock, released>> /\ passing' = TRUE
  BY DEF Choose, lineVars
<1>2. Flow \in Seq(Steps) /\ \A i \in DOMAIN Flow : Flow[i].ope \in Opes
  BY LineTypes DEF Opes
<1>3. Chosen(Flow, target, ope)
  BY <1>1, <1>2, ChoiceMeans
<1>4. target \in [ope : Opes \cup {0}, reason : Reasons]
  <2>1. PICK i \in DOMAIN Flow : target.ope = Flow[i].ope
    BY <1>1, <1>2, ChoiceMeans
  <2>2. target = [ope |-> target.ope, reason |-> target.reason] /\ target.reason \in Reasons
    BY <1>1, <1>2, ChoiceMeans
  <2>3. target.ope \in Opes
    BY <1>2, <2>1
  <2> HIDE DEF target
  <2> QED
    BY <2>2, <2>3
<1> HIDE DEF target
<1>5. Version \in 1 .. Len(flows) /\ Version \in 0 .. MaxFlows /\ flows[Version] = Flow
  BY LineTypes, LotAssumption DEF Version, Flow
<1>6. /\ order.cmd = "NONE" /\ order'.cmd = order.cmd /\ order'.attempts = order.attempts
      /\ order'.target = target /\ order'.version = Version /\ order'.from = ope
  BY <1>1 DEF TypeOK, Orders
<1>7. order' \in Orders
  BY <1>1, <1>4, <1>5 DEF TypeOK, Orders
<1>8. TypeOK'
  BY <1>1, <1>7 DEF TypeOK
<1>9. CommandInv'
  BY <1>1, <1>6 DEF LineInv, CommandInv, NoCall
<1>10. ChoiceInv'
  BY <1>1, <1>3, <1>5, <1>6 DEF ChoiceInv, ChoiceIsRight
<1>11. ScanInv'
  BY <1>1, ScanKept DEF LineInv
<1> QED
  BY <1>8, <1>9, <1>10, <1>11 DEF LineInv

LEMMA ReconsiderStep ==
    ASSUME TypeOK, LineInv, Reconsider
    PROVE  TypeOK' /\ LineInv'
<1>1. TypeOK'
  BY DEF Reconsider, TypeOK, lineVars
<1>2. CommandInv'
  BY DEF Reconsider, LineInv, CommandInv
<1>3. ChoiceInv'
  BY ChoiceKept, LineTypes DEF Reconsider, LineInv, lineVars
<1>4. ScanInv'
  BY ScanKept DEF Reconsider, LineInv
<1> QED
  BY <1>1, <1>2, <1>3, <1>4 DEF LineInv

\* A call: the first one is made for the flow the pass has seen.
LEMMA CallStep ==
    ASSUME TypeOK, LineInv, Calls, UNCHANGED <<flows, ope, rows, clock, released>>,
           order.target # NoTarget \/ order.cmd = "RETRY_WAIT", passing' \in BOOLEAN,
           \/ order.cmd = "NONE" /\ order.version = Version
           \/ order.cmd = "RETRY_WAIT"
    PROVE  TypeOK' /\ LineInv'
<1>1. PICK held \in BOOLEAN :
        /\ call' = [step |-> order.target.ope, no |-> order.attempts + 1, at |-> ope,
                    version |-> Version]
        /\ order' = [order EXCEPT !.attempts = order.attempts + 1,
                                  !.cmd = IF held THEN "HELD"
                                          ELSE IF order.attempts + 1 < MaxAttempts
                                               THEN "RETRY_WAIT" ELSE "FAILED"]
  BY DEF Calls, CallsUpTo
<1>2. /\ order.attempts + 1 \in 1 .. MaxAttempts
      /\ order.cmd = "RETRY_WAIT" => order.attempts + 1 # 1
  BY LotAssumption DEF LineInv, CommandInv
<1>3. /\ order'.target = order.target /\ order'.version = order.version
      /\ order'.from = order.from /\ order'.attempts = order.attempts + 1
      /\ order'.cmd \in {"HELD", "RETRY_WAIT", "FAILED"}
      /\ order'.cmd = "RETRY_WAIT" => order.attempts + 1 < MaxAttempts
  BY <1>1 DEF TypeOK, Orders
<1>4. order' \in Orders
  <2>1. order.attempts + 1 \in 0 .. MaxAttempts
    BY <1>2, LotAssumption
  <2>2. PICK cmd \in {"HELD", "RETRY_WAIT", "FAILED"} :
          order' = [order EXCEPT !.attempts = order.attempts + 1, !.cmd = cmd]
    BY <1>1
  <2> QED
    BY <2>1, <2>2 DEF TypeOK, Orders
<1>5. call' \in Calling
  BY <1>1, <1>2, LineTypes, LotAssumption DEF TypeOK, Orders, Calling, Version
<1>6. TypeOK'
  BY <1>4, <1>5 DEF TypeOK
<1>7. CommandInv'
  <2>1. order'.cmd # "NONE"
    BY <1>3
  <2>2. order'.cmd = "RETRY_WAIT" => order'.attempts \in 1 .. MaxAttempts - 1
    BY <1>2, <1>3, LotAssumption
  <2>3. call'.no = 1 => /\ order'.target # NoTarget
                       /\ call'.version = order'.version /\ call'.step = order'.target.ope
    BY <1>1, <1>2, <1>3
  <2> QED
    BY <2>1, <2>2, <2>3 DEF CommandInv
<1>8. ChoiceInv'
  BY <1>3 DEF LineInv, ChoiceInv, ChoiceIsRight
<1>9. ScanInv'
  BY ScanKept DEF LineInv
<1> QED
  BY <1>6, <1>7, <1>8, <1>9 DEF LineInv

LEMMA ShowStep ==
    ASSUME TypeOK, LineInv, Show
    PROVE  TypeOK' /\ LineInv'
<1>1. PICK row \in AllRows : rows' = rows \cup {row}
  BY DEF Show
<1>2. TypeOK'
  BY <1>1 DEF Show, TypeOK, lineVars, setVars
<1>3. CommandInv'
  BY OrderKept DEF Show, LineInv
<1>4. ChoiceInv'
  BY ChoiceKept, LineTypes DEF Show, LineInv, setVars, lineVars
<1>5. ScanInv'
  BY <1>1, FS_AddElement DEF Show, LineInv, ScanInv, ReleaseIsSettled
<1> QED
  BY <1>2, <1>3, <1>4, <1>5 DEF LineInv

LEMMA TickStep ==
    ASSUME TypeOK, LineInv, Tick
    PROVE  TypeOK' /\ LineInv'
<1>1. TypeOK'
  BY LotAssumption DEF Tick, TypeOK, lineVars, setVars
<1>2. CommandInv'
  BY OrderKept DEF Tick, LineInv
<1>3. ChoiceInv'
  BY ChoiceKept, LineTypes DEF Tick, LineInv, setVars, lineVars
<1>4. ScanInv'
  BY ScanKept DEF Tick, LineInv
<1> QED
  BY <1>1, <1>2, <1>3, <1>4 DEF LineInv

LEMMA CheckAiStep ==
    ASSUME TypeOK, LineInv, CheckAi
    PROVE  TypeOK' /\ LineInv'
<1>1. PICK listing \in Listings(rows) :
        /\ scan_settle_ready(Roster, listing, clock, Settle)
        /\ released' = [now |-> clock, rows |-> rows]
  BY DEF CheckAi
<1>2. rows \in SUBSET AllRows /\ IsFiniteSet(rows) /\ clock \in Int
  BY LotAssumption DEF TypeOK, LineInv, ScanInv
<1>3. ReleaseIsSettled'
  <2> DEFINE seen == {row \in rows : /\ row.wafer \in Roster
                                      /\ row.round # "other" /\ row.scan >= 0}
  <2>1. /\ \A w \in Roster : \E row \in seen : row.wafer = w
        /\ \A row \in seen : row.scan + Settle <= clock
    BY <1>1, <1>2, SettledMeans
  <2>2. released'.rows = rows /\ released'.now = clock
    BY <1>1
  <2> QED
    BY <2>1, <2>2 DEF ReleaseIsSettled
<1>4. TypeOK'
  <2>1. released' \in Releases
    BY <1>1, LotAssumption DEF TypeOK, Releases
  <2> QED
    BY <2>1 DEF CheckAi, TypeOK, lineVars, setVars
<1>5. CommandInv'
  BY OrderKept DEF CheckAi, LineInv
<1>6. ChoiceInv'
  BY ChoiceKept, LineTypes DEF CheckAi, LineInv, setVars, lineVars
<1>7. ScanInv'
  BY <1>3 DEF CheckAi, LineInv, ScanInv
<1> QED
  BY <1>4, <1>5, <1>6, <1>7 DEF LineInv

LEMMA LineStep == TypeOK /\ LineInv /\ [Next]_vars => TypeOK' /\ LineInv'
<1> SUFFICES ASSUME TypeOK, LineInv, [Next]_vars PROVE TypeOK' /\ LineInv'
  OBVIOUS
<1>1. CASE Send
  <2>1. /\ order.target # NoTarget /\ order.version = Version /\ order.cmd = "NONE"
        /\ Calls /\ passing' = FALSE
        /\ UNCHANGED <<flows, ope, rows, clock, released>>
    BY <1>1 DEF Send, NeedsTarget, lineVars
  <2> QED
    BY <2>1, CallStep
<1>2. CASE Retry
  <2>1. /\ order.cmd = "RETRY_WAIT" /\ Calls /\ passing' \in BOOLEAN
        /\ UNCHANGED <<flows, ope, rows, clock, released>>
    BY <1>2 DEF Retry, lineVars, TypeOK
  <2> QED
    BY <2>1, CallStep
<1>3. CASE UNCHANGED vars
  <2>1. TypeOK'
    BY <1>3 DEF vars, TypeOK
  <2>2. CommandInv'
    BY <1>3, OrderKept DEF vars, setVars, LineInv
  <2>3. ChoiceInv'
    BY <1>3, ChoiceKept, LineTypes DEF vars, LineInv
  <2>4. ScanInv'
    BY <1>3, ScanKept DEF vars, LineInv
  <2> QED
    BY <2>1, <2>2, <2>3, <2>4 DEF LineInv
<1> QED
  BY <1>1, <1>2, <1>3, MoveStep, RerouteStep, StopStep, ChooseStep, ReconsiderStep,
     ShowStep, TickStep, CheckAiStep DEF Next

LEMMA LineHolds == Spec => [](TypeOK /\ LineInv)
  BY LineInit, LineStep, PTL DEF Spec

\* The lot, its order and the rows of its wafers keep their shape, and MES is
\* called at most MaxAttempts times (request_hold).
THEOREM LotTypes == Spec => []TypeOK
  BY LineHolds, PTL

\* For any flow, priorities and place of the lot the step of the hold is the one
\* choose_hold_target promises, wherever the lot has gone since (target 40-121).
THEOREM ChoicesAreRight == Spec => []ChoiceIsRight
<1>1. LineInv => ChoiceIsRight
  BY DEF LineInv, ChoiceInv, ChoiceIsRight
<1> QED
  BY <1>1, LineHolds, PTL

\* The first call of an order is made for a step of the flow that the pass has
\* seen, however often the flow was changed before (derive 442-487).
THEOREM FirstCallsFit == Spec => []FirstCallFitsFlow
<1>1. TypeOK /\ LineInv => FirstCallFitsFlow
  <2> SUFFICES ASSUME TypeOK, LineInv, call.no = 1 PROVE FirstCallFitsFlow
    BY DEF FirstCallFitsFlow
  <2>1. /\ order.target # NoTarget
        /\ call.version = order.version /\ call.step = order.target.ope
    BY DEF LineInv, CommandInv
  <2>2. /\ order.version \in 1 .. Len(flows)
        /\ Chosen(flows[order.version], order.target, order.from)
    BY <2>1 DEF LineInv, ChoiceInv, ChoiceIsRight
  <2>3. flows[order.version] \in Seq(Steps)
    BY <2>2, LineTypes
  <2>4. PICK i \in DOMAIN flows[order.version] :
          flows[order.version][i].ope = order.target.ope
    BY <2>2 DEF Chosen, not_passed
  <2>5. Position(flows[order.version], order.target.ope) # 0
    BY <2>3, <2>4, PositionMeans
  <2> QED
    BY <2>1, <2>5 DEF FirstCallFitsFlow
<1> QED
  BY <1>1, LineHolds, PTL

\* A lot goes only when every wafer of its roster was scanned, and the settling
\* time after the last scan, for any rows, listed in any order (derive 301-333).
THEOREM ReleasesAreSettled == Spec => []ReleaseIsSettled
<1>1. LineInv => ReleaseIsSettled
  BY DEF LineInv, ScanInv
<1> QED
  BY <1>1, LineHolds, PTL
=============================================================================
