-------------------------------- MODULE Target --------------------------------
(***************************************************************************)
(* domain/target.py: the step of the lot's flow at which the preventive    *)
(* hold is to catch it.  A flow is a sequence of steps; a step says which  *)
(* entries of station_priority its name matches, by their rank, and        *)
(* whether a process tool works there.                                     *)
(***************************************************************************)
EXTENDS Naturals, Sequences, FiniteSetsExt

Steps == [ope : Nat \ {0}, config : SUBSET Nat, tool : BOOLEAN]

Reasons == {"none", "config_priority", "all_config_stations_passed_hold_current",
            "first_process_tool", "fallback_current_station"}

NoTarget == [ope |-> 0, reason |-> "none"]

Position(flow, ope) ==
    LET here == {i \in DOMAIN flow : flow[i].ope = ope} IN
    IF here = {} THEN 0 ELSE Max(here)

not_passed(flow, current) == {i \in DOMAIN flow : i >= current}

Configured(flow) == {i \in DOMAIN flow : flow[i].config # {}}
Tools(flow) == {i \in DOMAIN flow : flow[i].tool}

Rank(flow, i) == Min(flow[i].config)

\* slip: the nearest station, whatever its priority
Nearest(flow, steps) == Min(steps)

\* remaining_config, sorted by priority and then by place
First(flow, steps) ==
    LET best == Min({Rank(flow, i) : i \in steps}) IN
    Min({i \in steps : best \in flow[i].config})

\* query: FOUND, or one of UNKNOWN, STALE, NOT_FOUND
choose_hold_target(query, flow, ope) ==
    LET current == Position(flow, ope)
        ahead == not_passed(flow, current)
        At(i, reason) == [ope |-> flow[i].ope, reason |-> reason] IN
    IF query # "FOUND" \/ current = 0 THEN NoTarget
    ELSE IF ahead \cap Configured(flow) # {}
    THEN At(First(flow, ahead \cap Configured(flow)), "config_priority")
    ELSE IF Configured(flow) # {}
    THEN At(current, "all_config_stations_passed_hold_current")
    ELSE IF ahead \cap Tools(flow) # {}
    THEN At(Min(ahead \cap Tools(flow)), "first_process_tool")
    ELSE At(current, "fallback_current_station")
=============================================================================
