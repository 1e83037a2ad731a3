----------------------------- MODULE ScanResults -----------------------------
(***************************************************************************)
(* domain/ai_complete.py: whether every wafer of the roster was scanned,   *)
(* judged from the rows the AI service lists, in the order it lists them.  *)
(* A row has the time of its scan, or none yet, a version that is compared *)
(* as text, and a round; one that does not say its round counts as a row   *)
(* of this round.                                                          *)
(***************************************************************************)
EXTENDS Integers, Sequences, SequencesExt, FiniteSetsExt

NoRow == [wafer |-> 0, version |-> 0, scan |-> -1, round |-> "this"]

Scanned(row) == row.scan >= 0

Fits(row) == row.round # "other"

Digits(n) == IF n < 10 THEN <<n>> ELSE <<n \div 10, n % 10>>

\* versions up to 99, as strings: "10" sorts before "9"
TextLess(m, n) ==
    LET a == Digits(m)
        b == Digits(n) IN
    \/ a[1] < b[1]
    \/ a[1] = b[1] /\ Len(a) < Len(b)
    \/ a[1] = b[1] /\ Len(a) = 2 /\ Len(b) = 2 /\ a[2] < b[2]

Replaces(row, prev) ==
    \/ prev = NoRow
    \/ Scanned(row) /\ ~Scanned(prev)
    \/ TextLess(prev.version, row.version)

\* a row is taken for its wafer, or dropped
Taken(won, row) ==
    IF row.wafer \in DOMAIN won /\ Fits(row) /\ Replaces(row, won[row.wafer])
    THEN [won EXCEPT ![row.wafer] = row] ELSE won

\* by_id of expected_complete: the row that speaks for each wafer
Winners(roster, rows) ==
    LET won[n \in 0 .. Len(rows)] ==
            IF n = 0 THEN [w \in roster |-> NoRow] ELSE Taken(won[n - 1], rows[n]) IN
    won[Len(rows)]

expected_complete(roster, rows) ==
    IF roster = {} THEN "EMPTY"
    ELSE IF \A w \in roster : Scanned(Winners(roster, rows)[w]) THEN "COMPLETE"
    ELSE "WAITING"

\* slip: the scans of the rows that speak for their wafers
WinningScan(roster, rows) == Max({Winners(roster, rows)[w].scan : w \in roster})

\* The last scan of any row, whichever row speaks for its wafer.
max_scan_completed_at(roster, rows) ==
    Max({row.scan : row \in {r \in ToSet(rows) : r.wafer \in roster /\ Fits(r)}})

\* slip: a moment too late
PastSettle(roster, rows, now, settle) ==
    /\ expected_complete(roster, rows) = "COMPLETE"
    /\ now > max_scan_completed_at(roster, rows) + settle

scan_settle_ready(roster, rows, now, settle) ==
    /\ expected_complete(roster, rows) = "COMPLETE"
    /\ now >= max_scan_completed_at(roster, rows) + settle
=============================================================================
