# Verification of the Vision-AI hold agent (`vai_hold`)

The agent puts a *Default Hold* on a lot before the step at which Vision AI
must have judged its wafers, checks that the hold stands in MES, waits until
every wafer was scanned, asks for the release, checks that the hold is gone and
closes the order. It runs as short jobs started by cron, shares nothing but a
database between them, and talks to MES, to a flow service, to a scan service
and to operators. This directory holds TLA+ models of that program, the TLC
configurations that check them, and TLAPS proofs of the promises that matter
most. Paths below are relative to the repository (`src/vai_hold/...` is the
package, `Design/...` the documents).

## 1. Inventory

| Component | Source | State it keeps | Operations |
|---|---|---|---|
| Rule engine | `domain/derive.py`, `ownership.py`, `smm_memo.py`, `retry.py`, `enums.py`, `errors.py` | none: a function of a snapshot | `derive_state`, `match_our_holds`, `is_smm_hold`, `plan_action`, `state_after_receipt` |
| SET_DEFAULT_HOLD | `application/pipelines/set_default_hold.py`, `usecases/request_hold.py`, `domain/target.py` | order row, SET commands, binding | discover orders from inbound events, choose the target step, send `set_hold`, retry, try the backup code |
| CONFIRM_HOLD | `pipelines/confirm_hold.py`, `usecases/verify_hold.py` | same rows | confirm, retry or give up a hold command |
| CHECK_AI | `pipelines/check_ai.py`, `usecases/request_release.py`, `domain/ai_complete.py` | release command, binding | follow the scan, send `release_hold`, retry it |
| CONFIRM_RELEASE | `pipelines/confirm_release.py`, `usecases/verify_release.py` | release command, order | confirm that the hold is gone, close the order |
| Operator commands | `pipelines/control.py` | order, `agent_control` | MANUAL_CLOSE, RESUME |
| DEFENSE | `pipelines/defense.py` | `agent_control`, incidents, outbox | overdue holds, watchdog, orphans, sending mail |
| Shared services | `application/services.py` | – | snapshot, projection, receipts, incidents, paging |
| Order claim | `sqlite/uow.py` `try_claim`, `update`; `services.py` `claim_order` | lease columns, `row_version` | take an order for a worker, compare-and-set |
| Incidents, outbox | `sqlite/uow.py` | incident and mail rows | `open_or_touch`, resolve, pending, mark |
| Stores | `persistence/sqlite`, `memory`, `oracle` | the rows; in SQLite one row holds an order's binding, wafers and command attempts | units of work, ports |
| Pure algorithms | `domain/target.py`, `domain/ai_complete.py` | none | choose the step of the hold; is every wafer scanned, and for how long |
| MES, flow, scan, SMM | external; `adapters/fake_world/world.py` shows how they behave | holds on lots, scan results | `set_hold`, `release_hold`, `list_holds`, routes, results |
| Engine, settings, CLI, schema | `engine.py`, `settings.py`, `composition/` | – | dispatch, wiring |
| Tools, scenario catalogue, logs, reports | `tools/`, `investigate.py`, `scenario_*.py`, `log.py` | – | read only, or tests |

**How the parts interact.** A job opens a transaction, builds a *snapshot* of
one order (its row, commands and binding from the database; the lot's holds, the
target and the scan results from the services), lets `derive_state` name the
rule that applies, and acts if the rule names the job's own action; otherwise
some jobs write the projection of the rule (`work_state`, perhaps `life_cycle`)
and an incident. Jobs never call each other: everything SET_DEFAULT_HOLD knows
of CONFIRM_HOLD it reads from the row. A command to MES is *intent, call,
receipt*: the intent is committed as PREPARED, MES is called outside any
transaction, the receipt is committed. SET derives the order once more after the
receipt and may go on with the next code in the same round.

**What is hard here.** (a) Other jobs run between the intent, the call and the
receipt, and the receipt is saved from the command object the sender loaded
before the call. (b) `set_hold` and `release_hold` may time out with or without
an effect, be rejected, or be accepted and lost. (c) A process may die at any of
those points. (d) The line releases holds, SMM sets and removes its own, the
roster of an order changes, operators close orders, DEFENSE disables new holds.
(e) Any of the services may not answer. (f) The lease does not exclude two
processes, for all have the same default worker id. (g) Whether an order is
visited again depends on `work_state`, which every job overwrites. (h) A pass
works from a page of orders older than its transaction, which SQLite may refuse
or find overtaken at its first write. (i) SMM lists the same starts in every
pass, some without their round, some with another wafer list, and order ids may
collide. (j) The lot moves and its flow changes between the choice of the step
and the call, and a wafer may be listed more than once.

**What makes each part correct.** The agent never holds a lot under two codes;
every hold it set is recognised by the binding that stands for it, so it will be
verified and released; it does not close an order while its hold stands or may
still land; it does not release or close before the scan; it tries codes in the
configured order, each by one command with a bounded number of attempts; a
failure it gives up on raises an alarm; and every order gets its hold or an
alarm, and, once scanned, is closed or has an alarm. Every start that SMM lists
has one order, made once, or is told of; a changed roster is told of, and an
order under review is left to the operator unless its release was asked for
before; every job meets every open order; what
a job commits was decided on the row as it stood; MES is asked for a command as
often as its journal says; the hold is set at the step the rules of the choice
name; and the store the tests run on behaves as the one in production.

`PROJECT.json` lists the components with what is left out of each, and every
hazard at the line where it bites.

## 2. Modules

| Module | Models |
|---|---|
| `HoldDecision` | the rule engine: snapshot predicates, `derive_state` as the first rule that applies, the code a decision is about, `state_after_receipt` |
| `HoldOrder` | the jobs, MES and the environment over any number of orders, lots and concurrently sending jobs; the type invariant and the safety properties |
| `HoldOrderInv`, `DefenseInv`, `OrderStoreInv`, `TwinStoresInv` | the inductive invariants: `OwnershipInv`; `SweepInv`, `MailInv`, `TellingInv`; `StoreInv`; `TwinInv` |
| `HoldOrderLive` | fairness and the liveness properties |
| `HoldOrderClaims` | statements of the documents and comments the code does not keep |
| `Defense` | DEFENSE, the incidents and their mails, composed with every job step of `HoldOrder` |
| `DefenseLive` | fairness and liveness of that composition, and two claims it does not keep |
| `Discovery` | the events of SET_DEFAULT_HOLD, order ids and rosters, the look-back window, the walk through pages of open orders, the comparison of DEFENSE with SMM |
| `Journal` | the command attempts of an order as SQLite keeps them: one list, rewritten by three operations, for any names of commands |
| `OrderLedger` | abstract: a row per order that changes in whole steps, each decided on the row as it stands |
| `OrderStore` | the unit of work of SQLite and the passes of the jobs on it: snapshot, write lock, lease, row version, pages, commits in the middle; implements `OrderLedger` |
| `TwinStores` | every writing call of the ports on SQLite and on the store in memory, side by side |
| `Target`, `ScanResults` | the pure algorithms: `choose_hold_target`; `expected_complete`, `scan_settle_ready` |
| `LotOnLine` | a lot that moves, is rerouted and scanned, beside the order that uses those algorithms |
| `MCHoldOrder`, `MCDefense`, `MCDiscovery`, `MCOrderStore`, `MCTwinStores`, `MCLotOnLine` | instances for TLC |
| `HoldOrderProofs` | lemmas about the rules, type correctness, frame lemmas, and the inductive step of `OwnershipInv`, action by action |
| `HoldPromiseProofs` | `Spec => []OwnershipInv` and the promises that follow; order of codes, scan before release, failures and their alarms, reviews |
| `DefenseProofs` | `Defense` implements `HoldOrder`; disabling new holds is explained; mails; what a closed order leaves behind |
| `DiscoveryProofs` | what a pass over the events keeps, and that a walk misses no order |
| `JournalProofs` | the operators of `Journal` on a journal in good shape |
| `OrderStoreProofs` | leases, journals, calls, and that `OrderStore` implements `OrderLedger` |
| `LotOnLineProofs` | the choice of the step, the first call, the end of scanning |
| `TwinStoresProofs` | the two stores agree and answer alike |

The modules cut the system at the places where it is cut itself. `HoldOrder` is
about one order's commands, bindings and holds and takes the database for whole
steps; `OrderStore` shows that SQLite, as the jobs use it, gives such steps
(`OrderLedger` is what both have in common); `Discovery` is about how orders come
into the database and are found there; `LotOnLine` is about the two answers,
target and scan, that `HoldOrder` takes as given; `Defense` composes the jobs with
the watchdog. `OrderStore` and `TwinStores` extend `Journal`, which with
`OrderLedger` and `HoldOrder` extends `HoldDecision`; `LotOnLine` extends `Target`
and `ScanResults`.

Definitions whose comment begins with `slip:` are wrong versions of the
definition that follows; no specification uses them. Replacing the definition by
its slip shows that the property it endangers can fail (`"mutants"` in
`PROJECT.json`).

### State

| Variable | In the code |
|---|---|
| `life`, `work` | `life_cycle`, `work_state`; ABSENT is an order not yet discovered |
| `target` | `target_hold_ope_no` is set |
| `skip` | `last_rule_id` and `state_reason` say A2-20 (the mark `derive_state` reads) |
| `cmd[o][c]` | the SET_HOLD command for the c-th of `hold_codes`: `action_state`, the cause kept in `expected_postcondition`, `attempt_count` |
| `rel[o]` | the SET_RELEASE command |
| `bind[o]` | the one binding an order's row has room for (`dh_*` columns): code and status |
| `alarms[o]` | the incidents opened under the name of a work state |
| `worker[w]` | a running job that is sending a command: before the call, after it, or about to derive again |
| `mesOwn`, `mesSmm` | the holds MES has on a lot: the agent's, by code, and SMM's at the target step |
| `scan` | WAITING, DWELL (all wafers have a result, the dwell is running), READY |
| `control` | `agent_control.mode` |

### Actions

| Action | Code |
|---|---|
| `CreateOrder`, `RosterChanges` | `set_default_hold.run` 37-97: a start that makes an order, another wafer list |
| `SetSend`, `SetHoldCall`, `SetReceipt`, `SetBackup`, `SetFinish` | the round of SET: intent, call, receipt, next code, end |
| `SetProject` | SET when there is nothing to send |
| `VerifyFound`, `VerifyRetry`, `VerifyWait`, `VerifyProject` | the branches of `verify_hold` |
| `ConfirmProject` | CONFIRM_HOLD for an order that does not wait for a hold |
| `CheckAiSend` (`ReleaseIntent`, `ReleaseRetry`), `ReleaseCall`, `ReleaseReceipt` | `request_release` |
| `CheckAiProject` | the rest of CHECK_AI |
| `VerifyRelease`, `ReleaseFails`, `ReleasePending` | the branches of `verify_release` |
| `ManualClose`, `Resume` | `control.py` |
| `ControlTrips` | DEFENSE disabling new holds |
| `Crash`, `LineReleases`, `SmmChanges`, `ScanAdvances` | the environment |

`Defense` adds:

| Variable | In the code |
|---|---|
| `book` | the `incident` table: for each subject and type, whether there is a row, its status, its mail and attempts; `queue` is the order by `first_seen_at` |
| `old[o]` | the binding was confirmed (or asked for) more than `watchdog_minutes` ago |
| `late[o]` | the release was asked for more than `release_verify_overdue_minutes` ago |
| `sweep[d]` | a pass of DEFENSE: its private copy of the table and of the control row, the mails it will send, whether it has the write lock, whether nobody committed since it began |
| `letters`, `broken` | mails that arrived, and passes that broke off; nothing reads them but the properties |

| Action | Code |
|---|---|
| `Watch` | `defense.run` up to the mails: what it opens, resolves and disables |
| `Send` | the next mail of the page, which is a set of places in the queue: notifier, `mark_sent` or `mark_failed` |
| `Commit`, `Kill` | the end of the pass, or of the process |
| `Transaction`, `SetRest`, `CheckAiPass`, `CheckAiRelease`, `CheckAiReceipt` | a transaction of `HoldOrder` with the incidents it opens and resolves |
| `ConfirmReleasePass` | `confirm_release.run` with RELEASE_VERIFY_OVERDUE |
| `HoldAges`, `ReleaseAges` | time passes |

`Discovery`:

| Variable | In the code |
|---|---|
| `smm`, `clock` | the starts SMM lists, with the second each happened in |
| `db.order`, `db.inbound`, `db.incidents` | order rows by key (id, start, roster, life, work), the events set down as known with the order each led to, the incidents |
| `pass` | SET_DEFAULT_HOLD over its events: what is left, its clock, its uncommitted rows |
| `walk` | `iter_scoped_open_orders` in some job: cut-off, cursor, pages met so far |

| Action | Code |
|---|---|
| `BeginPass`, `PassOver`, `NoIdentity`, `Create`, `Meet`, `CommitPass` | `set_default_hold.run` 37-97: the events of the window; a lot out of scope or an event known already; no round; a new order, also one refused for its id; an order met again, its roster compared |
| `Crash` | the transaction is rolled back |
| `BeginWalk`, `WalkPage` | the walk |
| `Close`, `VerifyRelease` | what other jobs write meanwhile: an order is closed by `verify_release` 51-82, a skip or `control.py` 59-60, or a look after its release writes over its work state (`verify_release` 42-44, 84-118), in both cases also when it is under review |
| `Coverage` | `defense.run` 109-119 |

`OrderStore`:

| Variable | In the code |
|---|---|
| `db[o]` | the row: version, lease, life, work, binding, journal of attempts |
| `lock`, `draft` | the transaction that has written, and its rows |
| `job[j]` | the pass of a job: listed page (version and work state), what is left of it, where it is in a call |
| `calls` | how often MES was asked; no job reads it |

Its actions are the passes: `Discover`, `Begin` (the page), `Skip`, `Send`
(claim, derive, intent, commit), `Call`, `Receipt`, `Reread`, `Finish`, `Derive`, `End`,
`Confirm`, `ManualClose`, and `Fail` for every transaction that is refused,
overtaken or broken off. A release that waits for its retry when its binding can
no longer be released is saved as PREPARED and not sent (`Stranded`); the pass goes
on with that in its transaction. What MES and the scan answer is any of the answers the
jobs tell apart.

`TwinStores` has for SQLite `db` and `draft`, for the store in memory `live` and
`working`, and what the last call answered on each (`answers`). `Enter`, `Commit`,
`Leave`, `BreakOff` are the unit of work, every other action one call of a port
with the arguments the jobs give it. `LotOnLine` has the `flows` the lot had, its
step `ope`, the `order`'s target and command, the last `call`, the `rows` the AI
service shows; `Choose`, `Reconsider`, `Send`, `Retry`, `Stop` are SET, `CheckAi` is
CHECK_AI.

### What is atomic, and why

A SQLite transaction is `BEGIN ... commit`. CONFIRM_HOLD, CHECK_AI and
CONFIRM_RELEASE write (`touch_heartbeat`) before they read, SET claims the order
before its snapshot, so a transaction that observed and then committed held the
write lock throughout: reading the database and writing it is one step. MES is
not in the transaction, but `list_holds` is called after the lock is held, and
what happened in MES after it was asked is a step after the job's. What is not
atomic is what spans transactions, and there every job, the line and a crash may
step in between: `worker` records where.

DEFENSE reads before it writes and keeps one transaction open while it sends
mail, so its pass is several steps. SQLite is in WAL mode and `BEGIN` is
deferred: the pass reads what was committed when it began, takes the write lock
with its first write, and fails there when somebody has committed since. A pass
with something to write before its first mail therefore either has the lock from
`Watch` on or fails without a trace; a pass whose first write is the mark of a
mail may fail with that mail sent (`Send`). While it has the lock no other job
commits.

The lease and the row version exclude nothing in `HoldOrder`. All processes have
the same default worker id, for which a claim always succeeds, so what is shown
there is shown without them.

`OrderStore` does not assume any of this: there a transaction is several steps,
with a snapshot from its first read, the lock from its first write, and a first
write that fails when somebody committed since. It shows that each commit is
nevertheless one step of `OrderLedger`, decided on the committed row.

### What is abstracted

* A hold is its code: route, step, user and memo are the same for all of an
  order's holds. A memo, a key or a payload is never built.
* MES is the fake world: it rejects a hold that stands already, makes no twins,
  and a release of an absent hold succeeds. A timed-out call takes effect before
  the sender goes on or not at all. In two places the model has more or less than the
  fake world may show: a release it accepts always takes the hold away, and with the
  fault `lost` the model's may leave it (`verify_release.py:105-109` waits for such a
  hold); and its rejections are CODE_CONFLICT, TRANSIENT and PERMISSION (RATE_LIMIT
  counts as TRANSIENT). `request_hold.py:91,186` would store any other error as well;
  then `conflict_ok` of `derive.py` is false and A1-03 writes a second command for
  the first code. `OneCommandPerCode` and what follows from it is claimed for the three.
* `scan` only advances, as no wafer loses its result; a scan service that does
  not answer, or answers stale, is the view UNKNOWN. An empty roster is WAITING.
* In `HoldOrder` target selection is its outcome and time the order of steps (dwell
  and overdue limits are steps that may happen at any time). `Discovery`,
  `OrderStore` and `LotOnLine` have a clock where a limit is what they are about.
* A step of a flow is a number with the ranks of the stations its name matches; a
  result version is a number whose decimal text is compared; a time is a whole
  second, the grain in which it is stored.
* `Discovery` leaves out what other jobs do to an order but close it and write over
  a review. It has no commands, so any order may have its release asked for; an order
  made in one pass differs from another by its digits and tool (`Tails`).
* In `Defense` a failed mail is due again in the next pass (the code waits a
  minute, the cron's period). A stale heartbeat and a coverage mismatch may be
  found at any time (`Faults`). What DEFENSE reads of MES, it reads at the
  start of the pass.
* `Hazards` names the faults a configuration allows. The proofs need no
  assumption about it, but for the theorem that `Defense` implements `HoldOrder`.
* Not reachable and therefore absent: `request_hold` returning without a
  command, the action states DISPATCHED and CANCELLED, rule A2-13 (no caller sets
  `authorized_manual_close`), NEED_TARGET as a stored state.

## 3. Runs

| Run | Instance | States | Shows |
|---|---|---|---|
| `order` | 1 order, 2 codes, 2 attempts, 2 jobs (symmetric), all faults but a failing flow service | 380 508 | `TypeOK`, `NoDoubleHold`, `HoldIsOwned`, `ClosedHasNoHold`, `CallsExclude`, `ReleaseAfterScan`, `OwnershipInv`, `FailureIsAlarmed`, `OneCommandPerCode`, `ReviewIsKept` |
| `order_live` | 2 jobs, SMM, rejections, time-outs of `set_hold` | 12 268 | `EveryOrderSettles`, `ScannedOrderEnds` |
| `defense` | 1 order, 2 overlapping passes, time-outs, failing notifier, passes that die | 204 242 | `DTypeOK`, `RepeatsAreBreaks` |
| `defense_order` | 1 order, 1 pass at a time, line, SMM, rejections, time-outs, manual close, crashes | 647 776 | `ClosedIsNotOverdue`, `DisablingIsExplained`, `NothingToClean` |
| `defense_live` | 1 order, line, crashes, lost holds and releases, time-outs of both calls, failing notifier | 18 963 | `EveryHoldEnds`, `EveryMailEnds` |
| `discovery` | 3 lots (1 out of scope), 3 events, 2 seconds, colliding ids, pages of 1, a crash | 653 766 | `TypeOK`, `RecordedIsKept`, `RosterChangeIsKept`, `WalkMissesNone`, `OrderIsMadeOnce`, `EventsAreTakenUp`, `LostIsNoticed` |
| `store` | 2 orders (one new, one refused once by MES), 2 hosts, a pass of SET, two of CHECK_AI and one of CONFIRM_HOLD, 2 attempts, an order closed by hand | 427 645 | `TypeOK`, `JournalOK`, `CallsAreBounded`, `Implements` (refines `OrderLedger`), `LeaseIsKept` |
| `lot` | 5 flows of 3 steps, one change of flow, 2 attempts, 3 rows of 2 wafers, 3 moments | 122 820 | `TypeOK`, `ChoiceIsRight`, `FirstCallFitsFlow`, `ReleaseIsSettled`, `ScannedLotGoes` |
| `memory` | 2 ids, 2 keys, 2 workers (symmetric), 2 generations of holds, 4 writing calls from 3 stages | 464 614 | `TypeOK`, `SameContent`, `SameAnswers`, `KeyIndexIsExact` |
| `re_hold` | 1 code, line, time-outs | – | violates `NoHoldAfterConfirmation` |
| `shared_hold` | 2 rework rounds of a lot, no faults | – | violates `RoundsShareNoHold` |
| `lost_order` | the instance of `discovery`, no crash | – | violates `RecordedHasOrder` |

**Bounds.** Orders of different lots share only `control`, which may flip at any
time anyway, so one order shows what any number of lots can do; two orders on one
lot are the rework case. Two codes are the least with a backup, and the rules
speak of "this code", "an earlier one" and "the next one" only. Two attempts
are the least at which a retry can both succeed and be exhausted. Two jobs are
the least that can race. `order` leaves the flow service's failures out since
the two views of one SET pass then triple; `OrderAlarm.cfg` has them with one job,
and that failures are alarmed is proved for every set of faults (section 5).
No counter is cut off by a constraint: attempts are bounded by `MaxAttempts`, as
in the code.

In the `defense` runs one order raises up to eight kinds of incident, so the
table has rows that compete for attempts and for the page; one code and one
attempt suffice, as codes and retries are the business of `order`. Two passes
are the least that can overlap. `MaxBroken` caps the count of broken passes
(and of letters, one above it): `RepeatsAreBreaks` compares the two up to the
cap, and a repetition nobody explains shows with one broken pass as with many.
The runs without that property set it to 0, which merges states that differ only
in those counts. `Threshold` is 1 where new holds are to be disabled and 2, out
of reach for one lot, where not; that several lots must be overdue for a larger
threshold is proved (section 5). `PageSize` is the code's 100 but in
`BlockedMail.cfg`, where one mail fills the page as a hundred would.

`discovery`: two seconds and a window of length zero make events leave the window
while a pass or a walk is under way; pages of one put a page's edge between any
two orders; three events are a start, its repetition with another list or round,
and one of another lot; one crash shows what a pass loses. `store`: four passes
let one overtake another and a third come after; an order that is new and one
that waits for its retry have SET, CHECK_AI and CONFIRM at work on rows of one
file; the lease lasts a tick, so that its end falls between the passes.
`StoreOne.cfg` (`MCOrderStore`, 663 857 states, not among the runs) has one order, two
passes of every job and two ticks, and checks the inductive invariant `StoreInv`
as well. `lot`: the flows have
stations of either priority in either order, passed ones, and none; versions 9
and 10 are the least whose text sorts the other way. The scans are looked at for
a lot held where it started, as nothing before has a part in them. `memory`: two
orders that may collide in key or id; longer runs begin where an order has a
refused hold and a second one that MES did not answer, or that was confirmed. The theorems of section 5
do not depend on these bounds.

**Fairness** (`HoldOrderLive`). Cron starts each job every minute and each job
visits every open order, so each job's visit to an order is weakly fair; a visit
counts when the services answer it. A job that called MES gets an answer or its
time-out and proceeds. Nothing is assumed of the line, the operators, SMM, the
control switch or a crash. `order_live` leaves out the faults after which the
code really has no step to go on with:

* `crash`: a command left PREPARED is in flight for good when MES has no hold;
* `line`, `lost`: an ACKNOWLEDGED command whose hold vanished before it was
  confirmed, or whose release was accepted while its hold stays, is waited for
  without end;
* `releaseTimeout`: a timed-out release without effect is never sent again;
* `query`: SET passes over OBSERVATION_UNKNOWN;
* `control`: SET passes over BLOCKED_BY_CONTROL, also after RESUME;
* `flow`, `roster`: the order waits in MANUAL_REVIEW for a person.

In the first three DEFENSE's incidents are what tells somebody, and
`defense_live` shows with these faults that they do (`EveryHoldEnds`).

**Fairness** (`Discovery`, `LotOnLine`). Cron starts SET_DEFAULT_HOLD, CHECK_AI and
DEFENSE again and again, so each of their steps that stays possible is taken (weak
fairness); crashes are finitely many, and time passes in `lot`, where a settling
time is waited for, but need not in `discovery`, where it only makes events too
old. SMM and the line owe nothing.

**Fairness** (`DefenseLive`). The jobs run under SQLite's write lock, and a job
that finds the database locked is started again a minute later; so a visit that
is possible again and again takes place (strong fairness). The passes of DEFENSE
follow one another, answered by the services. A pass with nothing to write
before its first mail fails if a job commits between its start and that mail's
mark; that this does not happen every time is assumed (`MarksInTime`): a pass
takes seconds, and the jobs of an open order do not commit in every one. Holds
and releases that stand grow old. Nothing is assumed of the notifier, a crash,
the line or an operator.

## 4. Findings

Three runs violate a statement of a document or comment; the quotation is in
`PROJECT.json`.

1. `re_hold`: `record_receipt` overwrites a CONFIRMED command with the copy
   the sender held, and a hold the line released later is set again.
2. `shared_hold`: the binding's tuple has no rework round; one hold confirms
   two orders.
3. `lost_order`: two orders of one pass and tool may get the same id (three random
   digits); the refused insert is taken for a key that exists, the event is
   recorded as done without an order, and it is never tried again. DEFENSE notices
   (`LostIsNoticed`) the first time.

**Demonstrations.** Further configurations, which are not among the runs of
`PROJECT.json`, each end in a counterexample to one statement (run
`tlc -config X.cfg M`):

| Configuration | Module | Statement | What the code does |
|---|---|---|---|
| `ReleaseRetry` | `MCHoldOrder` | `ReleaseFindsTheHold`: "Release 前必須再查一次" (`Design/DEV_BASELINE.md:81`) | a retried release does not look the hold up again (`request_release.py:44`) |
| `SmmGate` | `MCHoldOrder` | `GoneMeansClosed`: "不查 SMM Hold" (`Design/ENTRY_PIPELINE.md:66`) | after a release that timed out, an SMM hold keeps the order open (`verify_release.py:61`) |
| `BlockedMail` | `MCDefense` | `DueMailIsTried`: "掃全部到期 Outbox 並送出" (`Design/ENTRY_PIPELINE.md:106`) | mails that failed for the last time fill the page of due mails, and the later ones are never tried (`defense.py:135`) |
| `SecondTrip` | `MCDefense` | `DisablingIsMailed`: "送告警與值班通知" (`Design/Vision_AI_Hold_Agent_State_Spec_v1.md:200`) | the second time new holds are disabled no mail is sent, for the incident of the first time is still there (`sqlite/uow.py:697`) |
| `StoreLease` | `MCOrderStore` | `ClaimKeepsOthersOut`: "沒搶到租約就不要改這張單" (`services.py:52`) | all processes are `worker-1` (`bootstrap.py:45`), and a lease is always free to its own owner |
| `StaleTarget` | `MCLotOnLine` | `CallFitsPosition`: "丟棄舊 Target 決策，重新選擇" when position or flow changed (`Design/Vision_AI_Hold_Agent_State_Spec_v1.md:216`) | a lot that moved on the same flow keeps its target (`derive.py:454-458` compares the flow version only), and a retry looks at neither (`request_hold.py:39-83`) |
| `MemoryRollback` | `MCTwinStores` | `RollbackLeavesNothing`: "rollback 丟棄工作副本" (`Design/PERSISTENCE_DAO.md:69`) | the first commit of a unit makes its dictionaries the live ones (`memory/uow.py:438`), so what it writes after it survives a roll-back |

`OrderAlarm.cfg` (`MCHoldOrder`) passes: `FailureIsAlarmed` with a flow service that
fails, 14 444 states.

**Found by a proof.** `ClosedIsNotOverdue` says less than `REL_OVERDUE_RECOVER` of
`Design/SCENARIO_DISCUSSION.md:226` ("Hold 消失必須 `CLOSED`、Incident `RESOLVED`"): it
excepts the orders whose release MES refused. The step of CHECK_AI could not be
proved without the exception, and TLC shows why (take the conjunct
`rel[o].state # "REJECTED"` away and run `defense_order`). A request for release
that is late opens RELEASE_VERIFY_OVERDUE; its receipt, REJECTED, arrives
afterwards; the line takes the hold, and with SMM at the target A2-20 closes the
order in CHECK_AI. Only CONFIRM_RELEASE resolves that incident
(`verify_release.py:79,84`, and it is in `_RESOLVE_SKIP`), and it does not visit
closed orders: the incident stays open.

Seen while reading, with no run of their own: `request_release` saves a retry as
PREPARED before it finds that no binding can be released; the peek in
`set_default_hold.py:107-111` can have no effect; `verify_release.py:110-118`
raises RELEASE_FAILED while a retry of a refused release is under way;
CONFIRM_RELEASE closes an order that is in MANUAL_REVIEW once its release was asked
for, or writes another work state over the review (`ReviewIsKept` is claimed for the
orders before that, `RosterChangeIsKept` for the incident); CONFIRM_HOLD writes
A2-14 over the A2-20 mark of a skipped order; SET does not take up an order in
OBSERVATION_UNKNOWN again; `open_or_touch` never reopens a RESOLVED incident of
any type; the binding of a MANUAL_CLOSED or HOLD_FAILED order keeps counting as
overdue, so after a RESUME the next pass disables new holds again; DEFENSE
compares SMM's expected keys with the OPEN orders only, so a normal close makes
a COVERAGE_MISMATCH, of which there is one for the life of the database; starts
without a round share one incident per lot for ever; an order made with an empty
wafer list never gets one; what is older than the look-back window is visited by
no job, with its hold still in MES; what a unit wrote after its last commit is
committed by SQLite when it is left without an exception, and dropped in memory
(no job relies on either); a mail whose pass breaks off before its commit is sent
again (`Design/` admits duplicates).

## 5. Proofs

All theorems hold for every number of orders, lots, codes, attempts and jobs and
for every set of hazards, from the assumptions `CodesAssumption`,
`AttemptsAssumption` and `OrdersAssumption`; those about `Defense` for every
number of passes, every threshold and page size, from `DefenseAssumption` (finitely
many orders and lots, natural bounds); those about `Discovery` for all lots,
events, window and page sizes, from `DiscoveryAssumption`; those about `OrderStore`
for all jobs, hosts, orders, leases and numbers of passes, from `StoreAssumption`;
those about `LotOnLine` for all flows, priorities, rosters, versions and settling
times, from `LotAssumption` (flows are not empty); those about `TwinStores` for all
orders, keys, workers, wafers, incidents and events and any number of generations and
of calls, from `TwinAssumption` (the word for "nobody" is no order and no worker).

| Theorem | Statement |
|---|---|
| `TypeCorrect` | `Spec => []TypeOK` |
| `HoldsAreSingle` | `OneRoundPerLot => (Spec => []NoDoubleHold)` |
| `HoldsAreOwned` | `OneRoundPerLot => (Spec => []HoldIsOwned)` |
| `ClosingReleases` | `OneRoundPerLot => (Spec => []ClosedHasNoHold)` |
| `CallsAreExclusive` | `OneRoundPerLot => (Spec => []CallsExclude)` |
| `CodesAreTriedInOrder` | `OneRoundPerLot => (Spec => OneCommandPerCode)` |
| `ReviewsAreKept` | `OneRoundPerLot => (Spec => ReviewIsKept)` |
| `ScanComesFirst` | `OneRoundPerLot => (Spec => []ReleaseAfterScan)` |
| `OwnershipHolds` | `OneRoundPerLot => (Spec => []OwnershipInv)` |
| `FailuresAreAlarmed` | `OneRoundPerLot => (Spec => []FailureIsAlarmed)` |
| `DisablingExplained` | `DSpec => []DisablingIsExplained` |
| `DefenseImplementsHoldOrder` | `"control" \in Hazards => (DSpec => Spec)` |
| `HoldsStaySafe` | with `OneRoundPerLot`: `DSpec => []` of the first three promises |
| `DefenseTypes` | `DSpec => []DTypeOK` |
| `RepeatsAreAccounted` | `DSpec => []RepeatsAreBreaks` |
| `ClosingSettles` | `OneRoundPerLot => (DSpec => []ClosedIsNotOverdue)` |
| `NothingIsLeft` | `OneRoundPerLot => (DSpec => []NothingToClean)` |
| `RecordsAreKept` | `Discovery!Spec => []RecordedIsKept` |
| `RosterChangesAreKept` | `Discovery!Spec => RosterChangeIsKept` |
| `OrdersAreMadeOnce` | `Discovery!Spec => OrderIsMadeOnce` |
| `DiscoveryTypes` | `Discovery!Spec => []TypeOK` |
| `WalksMissNone` | `Discovery!Spec => []WalkMissesNone` |
| `LeasesAreKept` | `OrderStore!Spec => LeaseIsKept` |
| `StoreTypes` | `OrderStore!Spec => []TypeOK` |
| `JournalIsKept` | `OrderStore!Spec => []JournalOK` |
| `CallsAreLimited` | `OrderStore!Spec => []CallsAreBounded` |
| `StoreImplementsLedger` | `OrderStore!Spec => OrderLedger!Spec` under the mapping (`Implements`) |
| `LotTypes` | `LotOnLine!Spec => []TypeOK` |
| `ChoicesAreRight` | `LotOnLine!Spec => []ChoiceIsRight` |
| `FirstCallsFit` | `LotOnLine!Spec => []FirstCallFitsFlow` |
| `ReleasesAreSettled` | `LotOnLine!Spec => []ReleaseIsSettled` |
| `TwinsHold` | `TwinStores!Spec => []TwinInv` |
| `TwinTypes` | `TwinStores!Spec => []TypeOK` |
| `TwinsAgree` | `TwinStores!Spec => []SameContent` |
| `TwinsAnswerAlike` | `TwinStores!Spec => []SameAnswers` |
| `KeysAreExact` | `TwinStores!Spec => []KeyIndexIsExact` |

`OneRoundPerLot` says no two orders are of the same lot. It is needed: the run
`shared_hold` shows that two rounds of a lot take each other's hold.

**The argument.** None of the promises is inductive. That MES has one hold of the
agent depends on which commands may still have an effect, that on the jobs under
way, that on the rules that let a job start. `OwnershipInv` states the chain for
each order:

* `Ladder`: every code before the last one tried was refused for a conflict, so
  only one command can have an effect;
* `Matched`: a command not refused is the one the binding names, and the
  binding has a status the matcher accepts;
* `Present`: a hold in MES has a command that is out or was confirmed;
* `Sender`, `SetAlone`: a job between intent and receipt finds its command
  PREPARED, or CONFIRMED by somebody else meanwhile (the late receipt), and there
  is one such job;
* `Releaser`, `Apart`: the same for the release, and never both at once;
* `ClosedIsFinal`: a closed order has no hold and no job that could set one;
* `Tried`: HOLD_VERIFY_PENDING is written only after a command was.

`HoldOrderProofs` shows what each rule implies of its snapshot (a SET_HOLD
decision: nothing is in flight, MES was seen, and every earlier code was refused
or this one waits for its retry). `SendIsSafe` turns that into the
preconditions of an intent. A frame lemma reduces each step to the order it is
about: under `OneRoundPerLot` a step that leaves an order's rows, its jobs and
its lot's holds alone preserves `OrderInv` of it. What remains is one lemma per
action. The promises follow from `OwnershipInv` conjunct by conjunct, and the
action property from the invariant and the step.

`DefenseProofs` rests on `SweepInv`: only one pass has written; a pass that still
sees the committed state would commit a control mode that differs from the
committed one at most by disabling, and if it disables, its own copy of the
table explains it. The copy is needed because what a pass found overdue may
be over when it commits; rows are never deleted (`Keeps`), which is why an
explanation stays one. From the same invariant a pass's commit is `ControlTrips`
or nothing for `HoldOrder`, and each job's transaction is its step there, so
`HoldOrder` is an abstraction of the whole. That theorem's hypothesis on `Hazards`
only says that `ControlTrips` is allowed; the promises about the hold carry over
without it, for `OwnershipInv` does not look at `control`.

`RepeatsAreBreaks` needs more than a count: `MailInv` says, of each mail, that as many
arrived as passes broke off, and one more only while the mail is *out*: marked in
the committed table, or in the copy of the pass that holds the lock and so will
commit. A pass that sends has not that mail marked in its copy, nor, as long as it
sees the committed state, has the table (`BooksOK`), so a letter arrives either for the
first time or at the cost of a pass that breaks off. For that the page is a set of
places in the queue, each due and not exhausted, whose least is next.

`TellingInv` states of the committed table and of every copy that may still be
committed what `ClosedIsNotOverdue` and `NothingToClean` state of the table: without the
copies a pass that began before the order was closed could bring the incident back
at its commit. An open RELEASE_VERIFY_OVERDUE has a release that was asked for, and on
a closed order one that was refused and that no job is sending again; a
STATE_CONFLICT is about an order an operator closed; and an ORPHAN_HOLD needs a hold on
a lot of no order (`NoStray`). `OwnershipInv` gives the rest: a closed order has no hold
in MES (`ClosedIsFinal`).

`FailureIsAlarmed` is inductive once `OwnershipInv` is known. A job that writes its
decision opens the incident the decision names (`RaisedIsAlarmed`). CONFIRM_HOLD
is the case that needs the invariant: waiting for a hold it opens an incident for
HOLD_FAILED only, and that the rules name no other failure there follows from
where the last command can be while the order waits (`WaitingIsAlarmed`).

`ReviewIsKept` is shown per action. The rules leave an order under review alone
(`LeftAlone`), SET and CONFIRM_HOLD do not visit it, and CONFIRM_RELEASE visits only
orders with a release; `OwnershipInv` is needed for the receipt of a release, whose
job could otherwise be sending for an order that has none.

`DiscoveryProofs` has an invariant of the committed rows and of the rows of the
open transaction alike (`DataInv`: their shape, `Recorded`: an event's order is
there, `Told`: a changed roster has its incident), and two of both together: the
transaction keeps every committed order as it is but for what a step may change
(`Keeps`), and what it records for the first time with a changed roster it has put under
review (`Reviewed`). The last is asked of the open transaction only, since no other job
commits during it and any may take the review away afterwards. Every step but the commit changes one side; the commit replaces one by
the other, and `Keeps` is then what `OrderIsMadeOnce` asks of the step. A crash is
the case the split is for.

`WalkMissesNone` rests on the rank of an order among those not read yet. The page is
the orders of rank below `PageSize`, and an order left out of it comes after every
order on it, thus after the new cursor. `WalkInv` says so of every order that was there
when the walk began: it is on a page, or behind the cursor, or closed. Ids do not
change and no two orders have the same (`Named`), so what is made or closed between
two pages moves no other order across the cursor.

`OrderStoreProofs`: leases end by the clock plus `Lease`, and the transaction that
holds the lock keeps each lease that runs in the committed rows (`LeaseInv`). A
claim is the only write of the owner, and it needs the owner's own worker id or a
lease that is over in the row it is written to, not on the page.

The refinement of `OrderLedger` needs `StoreInv`, which ties what a job remembers to
what is committed:

* `PageOK`: a listed order still has the listed life and work state, or its row has a
  higher version, so the claim fails;
* `PendingOK`: between intent and receipt the command is PREPARED, or CONFIRMED by
  somebody else, and MES was asked as often as it has attempts, or once more;
* `CallsInv`: one job at most is sending a given command;
* `DraftInv`: a transaction that has written changed a row by nothing but a lease, a
  derived state, the end of a released hold, or a stranded retry (`Derived`);
* `RowsInv`: the journal of each row is in good shape (`LogOK`).

`JournalProofs` has the facts about the list of attempts that the actions use: what
`insert_prepared`, `save_command` and `record_receipt` do to the attempts of either command, and that
they keep `LogOK` (attempts numbered from 1, in order, all but the last answered).
Each action then is, for each order, a stutter or the one action of the ledger it
stands for.

`LotOnLineProofs`: `choose_hold_target` returns a step ahead that no step ahead betters
(`ChoiceMeans`, from the least rank and the least place among those of that rank); an
order keeps the version and the place its target was chosen on, and a flow once had
stays in the list (`ChoiceInv`). That the first call fits needs that the state of the
command tells whether MES was called (`CommandInv`). For the scan results, the fold
over the listing is a recursive function; that it has a value at all, and that the
row speaking for a wafer is one of the list, of that wafer and round
(`WinnersAreListed`), is shown without an induction theorem: at the least place where
it fails (`LeastNumber`) it would follow from the place before. Nothing has to be said of versions: whichever row wins, it was scanned.

`TwinStoresProofs`: that two stores list the same is not inductive, for the lists show
less than the stores keep, and what they do not show decides later answers (how many
records of an attempt there are, which earlier bindings, which keys). `Twin` relates all of it,
one conjunct for each dictionary of the store in memory:

* `SameOrders` and `KeysExact`: the orders are those of the rows, under their keys, so
  both stores refuse the same inserts;
* `SameBindings`: an order has a binding for every generation up to its row's, and the
  last one is the row's; then the greatest generation in memory is the row's, and
  writing all bindings of a released order writes that one;
* `SameCommands`: state and outcome of each command are those its latest attempt has in
  the row;
* `SameAttempts`: as many records of each command as the row has attempts, none with a
  later number; then both number the next attempt alike, and its record is new;
* `SameWafers`, `SameIncidents`, `SameRest`: likewise for the others.

`TwinInv` says at which time which two stores are twins: the open unit's always; the committed
ones until the unit's first commit, while afterwards the live store in memory *is* the
one the unit writes. A unit that breaks off with writes made since is the case where
nothing remains but that the keys are exact. Each call of a port has its lemma that it
leaves twins behind (from `JournalProofs` for the calls on commands), and answers
alike; `Commit`, `Leave` and `BreakOff` change no content but only which stores these are.

The proof corrected the model. `CommandsOK`, that a command which is to be sent has an attempt
left, could not be shown of `save_command`: the model let an unanswered hold wait for a
retry however often it had been sent, and then an attempt beyond `MaxAttempts` could be
recorded after more calls than the run makes. The code asks first
(`verify_hold.py:74-75`, `request_hold.py:50`, `request_release.py:46`) and gives the
command up otherwise; `Moves` now does.

**Only model-checked:** the liveness properties (fairness and ENABLED are out of
the prover's reach), and the violations. Every invariant and every action property of a
passing run, and its refinement, is a theorem. TLC has checked
the inductive invariants as well: `OwnershipInv` in the run `order`, `StoreInv` in
`StoreOne.cfg`; `SweepInv`, `MailInv` and `TellingInv` hold in the instances of `defense`
and `defense_order`, `LineInv` in that of `lot`, `TwinInv` in that of `memory`, when they are
added to the configuration.

## 6. Not modelled

* Logging, investigation tools, reports, the scenario catalogue with its runner
  and its HTML: they change nothing the jobs read. Together they are about
  half of the package's lines, and there is no state or order of steps in them to
  check.
* Command line, bootstrap and schema check: wiring, run once at start; the worker
  id they hand out is a constant of `OrderStore`. The Oracle store is a stub.
* RESUME_DENIED and RELEASE_NOT_UNIQUE: the first only opens an incident, the second
  needs twin holds, which MES refuses.
* `mark_acked`, `release_claim`, the snapshots port: no job calls them, or they do
  nothing.
