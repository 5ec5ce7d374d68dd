# Verification of the Inventory Control Tower

TLA+ models of the Inventory Control Tower: its stock ledger, the governed actions,
caches and concurrent requests, the events and files that come in, the allocation of
stock, the detection of risks, and the planning arithmetic, with TLC instances that
check them and TLAPS proofs about the ledger and its report, its concurrent sessions, the
actions, the caches, the intake and the allocation.
Paths are relative to the repository's `src/`; services are in `app/services/`.

- [1 The system](#1-the-system)
- [2 Modules](#2-modules)
- [3 Runs](#3-runs)
- [4 Disagreements between the code and its documentation](#4-disagreements-between-the-code-and-its-documentation)
- [5 Fairness](#5-fairness)
- [6 Proofs](#6-proofs)
- [7 What is not modelled](#7-what-is-not-modelled)
- [8 Plan](#8-plan)
- [9 Running](#9-running)

## 1 The system

A Flask application over SQLAlchemy. It loads master data and stock from
uploads, events and hand entry, keeps a stock ledger, computes a snapshot of all
item/location pairs, detects risks as alerts, turns them into recommendations and
actions, and puts actions through simulation, policy, autonomy rules and approval
before a (mock) connector executes them. It runs as
`gunicorn --workers 2 --threads 4` (`docs/deployment.md:13-14`) on SQLite locally
and PostgreSQL (READ COMMITTED) in production. A request is one database
transaction: the route commits at its end or rolls back when the service raises.
There is no explicit row lock anywhere; the ORM writes the value it computed.

### 1.1 Components

| component | state | operations | talks to |
|---|---|---|---|
| Stock ledger (`ledger_service`) | `inventory_balance`, `inventory_transaction`, `lot.quality_status` | `post`, `reverse`, `cycle_count`, `ledger_report` | called by the ledger page, uploads, events; bumps the data version |
| Governed actions (`action_service`, `routes/actions.py`) | `action`, `approval`, `execution`; settings, `AutonomyRule` | `create_action`, `process`, `approve`, `reject`, `escalate`, `modify`, `execute` | snapshot for checks, connector, recommendation, alert |
| Settings and data version (`settings_service`) | `system.data_version` in the database; `_cache`, `_local_version` in each process | `get`, `set_value`, `reset_value`, `bump_version`, `_sync`, `today`/`now` | every writer bumps, every reader syncs |
| Snapshot (`snapshot`) | `_CACHE` in each process | `get_snapshot`, `build_snapshot` | read by all pages, detection, actions, planning |
| Event intake (`event_service`) | `event` with a status, order lines and shipments with quantities in transit, transfer orders | `publish`, `dispatch`, 14 handlers | ledger, orders, lots, alerts |
| Data Hub (`ingestion_service`) | upload log, all master tables | `ingest_dataframe`: a savepoint per row, all-or-nothing, preview | ledger for balances and transactions |
| Allocation and pegging (`allocation_service`) | `allocation`, `peg` | `commit_allocation`, `release_allocation`, `peg_pair`, `run_pegging` | snapshot |
| Detection (`alert_service`, `rules/`) | alerts with a dedupe key and a status, suppressions | `run_detection`, `set_status`, suppression, auto-resolve | engine results, incidents |
| Incidents (`incident_service`) | `incident` over alerts | `cluster`, status changes | alerts |
| Recommendations (`recommendation_service`) | recommendations with a status | `generate`, dismiss | alerts, options, actions |
| Jobs (`jobs`) | `job` with a status, a thread pool per process | `submit`, `_run`, `_run_inline` | detection |
| Planning engine (`engine`, `projection_service`, `expiry_service`, statistics, segments) | none | inputs of a pair to levels, projection, risk, advice | snapshot; read by detection, optimisation, reports |
| Policies, rules, units of measure | none | resolution of parameters, conditions, conversion | engine, detection, intake |
| Replenishment, optimisation | none | order quantities, MRP, rebalancing, options, order plan, scarce supply | engine |
| Digital twin and scenarios (`simulation_service`) | result rows | simulation of a pair under changes | engine |
| Forecast exchange (`forecast_service`) | `forecast` | `ingest_fit_payload` | snapshot |
| Reconciliation, S&OP, KPIs, scorecards, traceability | none | comparisons, sums, genealogies | snapshot, ledger rows |
| Risk register, finance, reports, EDI, notifications, audit, seed data | none that others read | listings, formatting, inserts | snapshot |

`PROJECT.json` lists all components with the status of each.

### 1.2 What is hard, and what makes each part correct

**Ledger.** `post()` checks everything first and then writes two tables: balances
and rows. `reverse()` reconstructs the opposite of a row from columns that do not
hold all of it: states default when they are NULL, and the direction of a count is
not stored. A reversal of a state change is two postings. The report replays
columns in the order of a clock that a setting may pin to a date. Correct means:
no bucket is negative, a caller's id is used once, a row is reversed once and its
reversal undoes it, stock is neither made nor lost, and replaying the columns
gives the balances.

**Actions.** Eleven statuses, seven entry points, and settings (mode, default level,
rules, ladder, segregation of duties) that change between the steps of one action.
`process()` is re-entered by `modify()`; `execute()` is called by `process()`,
`approve()` and the execute button, and each caller treats an error differently (some
roll back, one commits what was written before). Correct means: what is executed was
approved as it stands, at most once per approval, by somebody of the rank the ladder
asks for; a rule that denies beats one that allows.

**Caches.** A write bumps a counter; readers compare the counter with that of their
cache. The counter, the data and the caches are read in separate statements while
other sessions write, in processes that may restart and transactions that may be
rolled back. Correct means: what a request reads is at least as new as its beginning,
and nothing that was undone is read.

**Concurrent posting.** The checks of `post()` and `reverse()` are queries, and the
writes come later; between the two, other sessions commit. Correct means: no negative
row, one row per bucket and id, every posting in the balance, and no request that
waits for ever.

**What comes in.** Events are repeated, fail, and arrive in any order; each handler
changes several tables and posts to the ledger, in a savepoint that a failure drops.
An order line is counted three times over (ordered, in transit, received) and each
message moves some of the three. Files have errors in some rows, and three modes that
decide what then stays. Correct means: an event counts once, the ledger holds what the
processed events say and nothing of the others, order lines never promise more than was
ordered, and a file is all or nothing where it says so and harmless when sent again.

**Allocation.** Claims and pegs are computed from a snapshot that already contains
earlier claims, and written in another session later. Correct means: no unit is pegged
to two demands, a better rank is served first, and pegging again changes nothing.

**Detection.** A run reads alerts, works for a long time, and writes them back while
planners decide on them; alerts, incidents and recommendations each have a life of their
own and are tied by keys that must stay stable. Correct means: after a run alerts are
what the data says, advice and incidents follow the alerts, and the run itself moves a
status in two ways only: it resolves what has cleared, and re-opens what it read as
resolved.

**Planning.** The arithmetic nets weekly forecasts with daily orders, rounds to packs,
moves stock between neighbours that may themselves be short, and simulates a step at a
time. Correct means: quantities balance; following the advice cures what it was given
for and does not call for the same advice again; and a result depends on the data, not
on the order of its rows.

The `hazards` of `PROJECT.json` list these places, each with its line and the
properties that cover it.

## 2 Modules

| module | models | extends |
|---|---|---|
| `PartialSums` | sums over a prefix of a sequence, as a recursive function | |
| `Ledger` | `ledger_service` and its callers, one committed request per action | `PartialSums` |
| `LedgerReport` | `ledger_report()` | `Ledger` |
| `LedgerSessions` | `post()`/`reverse()` statement by statement in several PostgreSQL sessions | |
| `ActionLifecycle` | `action_service`, its routes, the mock connector | instantiates `ApprovalGate` |
| `ApprovalGate` | abstract: an execution uses up the latest grant | |
| `VersionCache` | data version, settings cache and snapshot cache over several processes | |
| `Documents` | orders, shipments, transfers, demand, forecast and master rows, and the event handlers | `Ledger` |
| `Uploads` | rows and files, savepoints, the three modes, the handler of each entity | `Documents` |
| `Intake` | `publish`/`dispatch`, EDI interchanges and files as requests | `Uploads` |
| `Supply` | what the snapshot knows of an item's stock and supply; its position | `Documents` |
| `Allocation` | pegging and claims in sessions that read first and write later | `Supply` |
| `Quantities` | sums, rounding, missing values | |
| `Rules` | the rule engine, severities, and the rules the program is seeded with | `Quantities` |
| `Detection` | detection runs as jobs, alerts, incidents, recommendations, planners | `Rules` |
| `Projection`, `Picking`, `Replenish`, `Statistics` | the time-phased balance; lots that expire and the genealogy of a lot; order quantities and policies; lead times and segments | `Quantities` |
| `Engine` | `ComputePair` and `Plan`: from inputs to levels, risk and advice | the four above, `Rules` |
| `Twin` | changes of a scenario and the simulation of a pair | `Engine` |
| `Rebalance`, `OrderPlan` | transfers and options; purchases under shared limits and the split of scarce supply | `Engine` |
| `Reconcile` | conversion of units; comparison with other systems | `Quantities` |
| `Preparation` | what the snapshot prepares; resolution of policies; forecast messages | `Statistics` |
| `Reviews` | S&OP months, KPI measures and supplier scores | `Statistics` |
| `Planning` | all planning modules at tasks, with a desk that sells, orders and receives | `Twin`, `Rebalance`, `OrderPlan`, `Reconcile`, `Preparation`, `Reviews`, `Picking` |
| `MCLedger`, `MCActionLifecycle`, `MCVersionCache`, `MCLedgerSessions`, `MCIntake`, `MCAllocation`, `MCDetection`, `MCPlanning` | instances for TLC | |
| `NatLemmas`, `FoldLemmas` | lemmas on numbers, sums, finite sets and sequences; what a loop keeps | |
| `LedgerProofs`, `LedgerSessionsProofs`, `ActionProofs`, `VersionCacheProofs`, `IntakeProofs`, `AllocationProofs` | proofs (section 6) | the module of the name, `LedgerReport` for the first |

Definitions that carry the comment `mutant` are variants of the definition that
follows or uses them, with a plausible mistake. No specification uses them; they exist
to show that each property notices a mistake of that kind (`mutants` in
`PROJECT.json`).

### 2.1 `Ledger`

One item. `balance` maps a bucket (location, lot, state) to a quantity; lot 0 is
`lot_id IS NULL`. `txns` is the table in the order of the primary key, with exactly the
columns the code can read back. The exception is `dir`, the direction of a count: the
table lacks it, the replay does not use it (`Inferred` recomputes it as `_delta_at`
does), and it is kept so that properties can say what a posting did.

`Debit`/`Credit` are `effects()`; `Accepts` is the list of checks of `post()` in one
conjunction, evaluated before anything is written, as in the code; `Resolve` is the
line that puts a receipt of a lot on hold aside; `Book` is a whole posting.
`BookBoth` is the reversal of a state change, whose second posting sees the first.

| action | code |
|---|---|
| `Post` | ledger page, transaction uploads, received/issued events |
| `CycleCount` | `h_adjusted` → `cycle_count()` |
| `LoadBalance` | `h_balances` of an upload: receipt when there is no row, count otherwise |
| `QualityHold`, `QualityRelease` | quality events: posting and lot status in one savepoint |
| `ReverseTxn` | `reverse()` with each of its branches |
| `Tick` | the wall clock, under a pinned or free as-of date |

A request that raises leaves no trace, since its caller rolls back; it is the absence of
a step. Quantities are whole base units: conversion of units and the rounding to six
digits are left out of the ledger (`Reconcile` models the conversion on its own).

### 2.2 `LedgerReport`

`ReportRow` is one iteration of the loop of `ledger_report()` over the record of its
locals, folded over `RowsAt`, the rows of a location ordered by `(occurred_at, id)`.
`Report` returns opening, closing and the rows where the chain breaks.

### 2.3 `ActionLifecycle` and `ApprovalGate`

An action row carries status, type, quantity, cost, who asked, the required rank, whether
the last policy check blocked, and the level `decide_autonomy()` gave. Simulation and
policy checks depend on the snapshot, which is not modelled: `process()` may see any cost
of `SimCosts` and any outcome, except that a quantity of zero blocks, as in the code. The
rest of `decide_autonomy()` (cost considered, matching rules, the three effects, the
clamp for blocking checks, the ladder and the floor for quality types) is there in full.
Each route is one action: `Create` (rolls back a refused execution), `CreateFromPlan`
(commits it), `Approve`, `Reject`, `Escalate`, `Modify`, `Execute` (commits a refused
execution). `Dismiss`, `Regenerate` and `MoveAlert` change the recommendation and alert
an action came from; `Configure` changes one setting at any time.

`ApprovalGate` says what all of this is for: something is granted, a grant is used at
most once, the latest one, for what was granted, or withdrawn. It counts the grants and
remembers what the usable one is for (`open`). `ImplementsGate` maps the number of APPROVE
rows to the count, the quantity of the last approval to `open` while the status is
APPROVED, and the executions to what was used.

The cost ladder of `action_gate` does not change while it runs:
`required_role` is that of the last `process()`, and an approval after a change of the
ladder meets the ladder of then, not of now.

### 2.4 `VersionCache`

The data is the set of writes committed; a cache holds the set its rows had. One action
is one SQL statement with the Python around it. `BumpRead`/`BumpWrite` are the two
statements of `bump_version()`; `Compare`, `LoadSettings`, `StoreSettings` are `_sync()`;
`Rebuild`, `Build`, `ReadVersionAgain`, `Stamp` are `get_snapshot()`, which stores rows
and version at different moments. `must` is the data that was visible when the read
began. A *deployment* says which sessions serve requests, whether the database locks as a
whole (SQLite, where the first write locks out other writers) or only the counter's row
(PostgreSQL), and whether requests may fail after they wrote; `Restart` kills a process with
its transactions. What the documentation promises of every deployment holds for one thread, and
in part for a locked database (`Sheltered`, `Serial`); for two workers on PostgreSQL, as
`Procfile` starts them, the run `cache_shipped` shows that it does not (section 4).

### 2.5 `LedgerSessions`

Each row of `inventory_balance` has its committed value, the session that wrote it and
the value written. `Guard` reads, `Debit` writes what was read less the quantity
(the ORM writes values, not differences, and keeps the object it loaded), `Find`,
`Create`, `Credit` do the same on the other side, `Insert` waits on the unique
`txn_id`, `Bump` on the row of the data version. `Deadlocked` is PostgreSQL's detector,
which aborts a session in a cycle of waits.

### 2.6 `Documents`, `Uploads`, `Intake`

One item, `Own`, with its ledger, and order lines of another item without one. All other
tables a request can change are one record `docs`, so that a savepoint that is rolled back
is the record of before. Each event type has an operator (`OnReceived`, `ReceivePo`,
`OnShipDispatched`, `OnQuality`, ...) that returns the tables after it, or `Refused` where
the handler raises. `Publish` stores the event and dispatches it: PROCESSED with its
effects, FAILED without them; `Resend` sends an id again, which is answered from the table.
`ApplyEdi` is an EDI interchange, whose events share one request. `Upload` runs a file
through `Ingest`: parse, savepoint per row, `Outcome` by mode. Master data is a row of two
columns, enough to tell a value that is absent from one that is overwritten; tables that are
only appended to are a log.

### 2.7 `Supply`, `Allocation`

`Inputs(l)` is `build_snapshot()` for one location: stock by lot, claims, supply on its way
(order lines less their shipped part, shipments, transfers, production) and demand. `Ranked`
is the sort key of each of the ten methods, `PegPair` the loop over supplies and demands;
lines of one order are one demand of several ranks. `claims` and `pegs` are kept by
location, as the queries of the services read them. Both services have two actions,
`PegRead`/`PegWrite` and `Ask`/`Grant`; messages (`Happen`), new orders (`Sell`), `Release`
and the other session come between. `CommitCovered` and `RepegStable` are about the step of
the writing session, and so are action properties. `worth` is what the messages so far say
the position of a location should be, computed from the messages alone.

### 2.8 `Detection`

A *world* is what the planning engine would compute: pairs with their metrics,
lots, feeds, suppliers, and the transfers that rebalancing would propose. `Facts` are the
alerts the rules see in it, with severity, score, dedupe key and tokens of cause: a supplier, a
port or an order for the types about supply, and the supplier for a lead time that has grown.
`DetectRead` reads the alerts, `DetectWrite` commits what `run_detection`, `cluster` and
`generate` make of them, changing only the columns the ORM found changed; `Submit`,
`Start`, `Finish`, `Fail` and `Restart` are the job around it. Planners set statuses of
alerts and incidents and act on recommendations; `Change`, `ToggleRule`, `Mute`, `Tick`
and `ExpiryEvent` are everything else that happens. `Workers = 2` are the threads of the
pool.

### 2.9 Planning

Amounts are in sevenths of a unit, so that a week's forecast is a whole amount a day;
times are in half-days where the code keeps fractions; shares in hundredths. Tables of
the normal distribution are constants in tenths. `Plan(p, c)` is the whole path of
`engine.py` for one pair. `Planning` puts each module at tasks:

- a pair is sold from (`Sell`), what is recommended is ordered (`Follow`) and comes in
  (`Arrive`), so that advice meets the state it produced;
- `Twinned` simulates step by step; demand, lead times and delays that are drawn at
  random may take the ends and the middle of their range;
- `Rebalance` and `ReplenishmentPlan` choose any solution that the objective and the
  constraints of the program given to scipy allow: the solver is replaced by the
  definition of an optimum. Transfers are solved in whole units, as the code floors the
  flows it gets;
- picks, policies, conversions, audits, histories, sources, forecast messages, sales
  plans, measures, scores, splits and genealogies are pure: the property compares the
  operator with what its documentation says, over all inputs of the instance, and evaluates
  it again for every order of its rows.

The five properties are conjunctions by kind of task, each with a comment that states it:
`QuantitiesAddUp` (`ProjectionAddsUp`, `TwinAddsUp`, ...), `AdviceSettles` (`OrderSettles`,
`TransfersSettle`, ...), `ResultsAsDefined` (`PolicyMostSpecific`, `AuditFair`,
`TraceComplete`, ...), `RowsInAnyOrder` and `FeedsSettle`. Orders that the database fixes
stay as they are: rows of one key where the later one is meant to count.

## 3 Runs

| run | instance | distinct states | shows |
|---|---|---|---|
| `ledger_moves` | 2 locations, all 15 types, quantities -1, 1, 2, a caller's id, 3 rows; changes of state and their reversals up to 5 rows (`StatesGoOn`) | 81 k | no negative bucket; reversals exact, two-posting ones included; only flows change the total |
| `ledger_chain` | 2 locations, a lot-tracked item (lot 1 and no lot) that may be on hold or rejected, 3 days, 3 rows | 364 k | the chain in posting order and in the report; consecutive windows compose |
| `action_gate` | 1 action of a planner or a manager, 3 types, 3 rules switched on and off, 3 modes, 3 levels, a ladder; 2 decisions under all of these (`Wide`), 4 on a purchase of a manager (`Long`) | 752 k | refinement of the gate; approved as it stands; executed what was approved; repetition only after an escalation; a recommendation acted upon was executed; deny wins; the approver meets the ladder |
| `cache` | 2 processes under a whole-database lock with 2 writes and restarts; 1 thread with failing requests, restarts and 4 writes | 390 k | a setting is never older than the read; a version names one state of the data; one thread reads nothing that was undone |
| `sessions` | 2 sessions, 2 buckets, 2 postings each, 3 in all | 532 k | no negative row; unique ids and rows; every request ends |
| `intake` | 5 families: a purchase order's life, orders by files, movements, stock files, planning and master data | 450 k | events count once, in the ledger and in the orders; a file is all or nothing; sending it again is harmless |
| `allocation` | 3 families: all ten rankings, two sessions that claim and peg, all messages | 130 k | pegged once, by rank, stably; fresh claims are covered; the position is what the messages are worth |
| `detection` | 4 families: every scope with muting and escalation, all rules at once, causes that come and go (suppliers that slow down among them), two jobs with failures | 50 k | alerts, advice and incidents follow the facts; a run only resolves and re-opens; jobs end |
| `planning` | 1324 tasks of 16 kinds | 4.7 k | quantities balance; advice settles; results are as defined, for any order of the rows; a forecast sent again changes nothing |
| `action_final`, `sessions_lost_update`, `cache_shipped` | | | section 4 |

`TypeOK` of the ledger, the actions and the sessions, and `ReversedOnce` of the ledger, are in no
run: they are proved (section 6), and were checked with the inductive invariants.

**Why these bounds.** Three rows are a movement, what depends on it, and the reversal of
either; five are a receipt, a state change and its two-posting reversal, and one more
reversal or a reversal of the reversal, which is why only rows of that kind go on past the
third. Quantity 2 next to 1 makes partial movements, and -1 the sign check, possible. Two
locations are what a transfer needs; two lots (one NULL) what tells the on-hand of an item
from that of a lot. Three days give a window before, on and after every row. Four decisions
are an approval, an escalation or modification, another approval and a decision after it; a
decision reads the rules, the type and the rank afresh, so that under all of them two are
enough. `WideOrLong` joins the two as a constraint on states, and `AlertMovesFirst` lets others
move the alert only before the first decision: an action reads it only to mark it as executed.
For the caches, one write in each process and two statements each are enough for a counter
to be read twice before it is written; four writes give one process a rollback followed by
other data. Two sessions with two postings each make cycles of waits; three postings let one
session change what the other's second posting sees.

Messages and files are in families that touch the same tables, since those of different
families commute. Five purchasing events are an order, two dispatches and two receipts in
any order, or an order made after its receipts; two files and two or three events are a
file sent again after something happened. In `allocation` five messages are the life of an
order or of a transfer with one message out of place; two claims and two runs of pegging
with an event between them are the least in which a reading is out of date. In `detection`
four or five events beside the runs are a change, a decision, and the way back; worlds have
up to four pairs, enough for two clusters under one port, and a type with more alerts than
are advised on.

Tasks of `planning`: 17 pairs, which between them have each replenishment policy and each
method of safety stock, sold down by up to ten units with up to three orders open; 9
simulations whose changes cover the kinds of scenario, capacity cut twice and a transfer to its own
origin among them; 8 networks of two or three nodes, with restricted, slow and cold lanes and a node
without a faster mode; 4 order plans without limits and under a budget, a truck or a volume; 48 picks from six lots that differ
in expiry and quality; 7 sets of policies for an item at a location, in four of which several
rows of one level apply; 30 conversions; 8 audits; 3 histories; 16 sourcings; 165 forecast
messages; 12 sales plans; 3 sets of measures; 120 splits; 870 genealogies, among them every way in which three lots are
made and used in two orders (the last in the second at most); 4 sets of receipts. They are
instances, chosen so that each branch of the operators is taken, not all inputs.

The proofs of section 6 lift most of the bounds of the ledger, the report, the sessions, the
actions, the caches, the intake and the allocation.

`CHECK_DEADLOCK FALSE` is set where the system may stop: the bounds on rows, decisions,
writes, events and postings are reached, or a task of planning is a single state, and
nothing has to happen after that. The runs do not use symmetry: states are few enough
without, and two runs have a liveness property.

## 4 Disagreements between the code and its documentation

Three have a run whose property is what a document or a test says, and TLC shows how the
code departs from it.

- `action_final`, `action_service.py:317`. `reject` and `modify` refuse actions that are
  EXECUTED, VERIFIED, REJECTED or CANCELLED, and `tests/test_alerts_actions.py:202-203`
  expects that a rejected action cannot be approved; `escalate` tests nothing and makes
  any of them ESCALATED, from which it can be approved and executed again. What still
  holds is `RepeatNeedsEscalation`: nothing else repeats an execution.
- `sessions_lost_update`, `ledger_service.py:136`. "A verifiable chain"
  (`ledger_service.py:3-6`). Two issues read the same quantity; the second overwrites the
  first, and the ledger has two rows where the balance has one.
- `cache_shipped`, `snapshot.py:166`. "All dashboards, APIs, alerts, scenarios and reports read
  the same cached snapshot" of the version in the database (`docs/architecture.md:26-27`), and
  "Multiple workers are safe" (`docs/deployment.md:14`). The version is read again after the
  snapshot is built; a write of another worker that commits in between is stamped onto a
  snapshot without it, which is then served, as current, until the next write.

The others were met while modelling; the properties leave them out by a condition, which
their comments name, or the instance leaves them out by a constant.

**Ledger and sessions**

- "Post an opposite transaction" (`ledger_service.py:154`). Rows rarely name states, and
  reversing a RELEASE without one (`ledger_service.py:183`) puts stock into UNRESTRICTED
  (its `state_from` is NULL) and takes it out of QUARANTINED: the release is done a second
  time, or refused for want of quarantined stock. The same default makes the reversal of a
  SCRAP take stock from QUARANTINED, and the inferred direction makes the reversal of a
  count that lowered an off-hand state lower it again. `Undoable` excludes exactly these
  rows from `ReverseIsOpposite`.
- With `LotNamed = FALSE`, `OneRowPerBucket` fails: `uq_balance` (`models/inventory.py:38`)
  does not see a NULL lot, and two sessions each create the row.
- Two sessions that reverse the same row both pass the query of `ledger_service.py:155`,
  since `reversal_of_id` is not unique (`models/inventory.py:76`).
- With `AsOfPinned = TRUE` and a clock that passes midnight, `ChainHolds` fails: the rows
  of the morning sort before those of the evening before.

**Actions and caches**

- With a ladder whose top band asks for an Administrator, `ApproverMeetsLadder` fails:
  `escalate` caps the required rank at Executive.
- On PostgreSQL two sessions read the same counter (`settings_service.py:153`), and the second
  writes the number the first wrote already; a process that cached after the first commit
  never sees the second. So `VersionNamesData` and `SettingsFresh` fail there as well.
- With rollbacks, `SettingsFresh` fails in two processes even on a database that locks: a number
  that was rolled back is used again for other data.

**Events and allocation**

- An event that failed is answered as a duplicate for ever (`event_service.py:94`); a
  transfer completed by two events moves the stock twice (`event_service.py:287`); a release
  of a part of a lot marks the whole lot released (`event_service.py:311`); what is in
  transit turns negative when more is received than ordered (`event_service.py:203`).
- "Refuses to over-allocate" (`allocation_service.py`): two sessions that both read before
  either writes do. Claims of type ALLOCATED made by hand are not held back by pegging, so
  that "no double commitment" (`README.md:45`, `templates/risk/pegging.html:11`) does not
  hold for them, and what is held back is not taken from the lot it names.
- `uom.py:49` says "KG -> LITRE never does"; with an item's own factors from KG and LITRE
  to CASE it does, by way of CASE.
- "Parameters merge key-by-key from broad to specific; the resolution trail is shown in Master
  Data" (`docs/inventory-methodology.md:106-107`) leaves open which of several policies of one
  level counts. `resolve()`, which the policy page shows (`routes/master.py:36`), takes the newest; the
  index that the snapshot uses (`snapshot.py:504`, `506`) tries keys in their order first
  (`rules/policies.py:40`). An item whose category and family both have a policy is planned by
  one and shown the other. `PolicyMostSpecific` states what each of them does.

**Detection**

- "De-duplicate on a stable key" (`alert_service.py:3`, `tests/test_alerts_actions.py:23-30`):
  an order line of which a part is shipped gives two facts with one key and two alerts, of
  which only one is looked after; the other stays open when the cause is gone. Two runs
  that overlap also make twins.
- A status set while a run works is kept unless the run read the alert as resolved: then it
  re-opens it from what it read, and a dismissal in between is overwritten
  (`alert_service.py:186-187`). No document says otherwise; `RunsReopenAndResolveOnly` allows this
  and nothing else.
- An alert raised by an `ExpiryApproaching` event has no rule behind it and is resolved by
  the next run.
- Two groups whose primary cause is the same token share an incident, and one that loses
  its group stays open and empty; a resolved incident that recurs stays resolved.
- `suppress_hours` of a dismissed alert never lets it come back: a dismissed alert is not
  re-opened at all.
- A job whose process ends stays QUEUED or RUNNING (`jobs.py:33`): `JobEnds` excepts it.

**Planning**

- "Adding supply can never raise the stock-out probability" (`projection_service.py:119`):
  the four lines with the most arrival uncertainty are enumerated and the others count with
  their expected quantity, so that a fifth line may take the place of another.
- "Order Q x n until position > ROP" (`replenishment_service.py:15`): when the shortfall is a
  multiple of Q the position ends at ROP, and the next run orders again.
- "Assuming FEFO consumption" (`expiry_service.py:57`): the lots before a lot count in full,
  also what of them expires unused, so that the quantity at risk is overstated;
  `PickAddsUp` states the inequality.
- MRP orders what is short after its lead time and repeats it every day until then, and each
  run advises it anew, since the days before the lead time stay short; `OrderSettles`
  leaves MRP and DRP out of its claim on the position.
- In a scenario of type inventory_transfer (`simulation_service.py:133-143`) the receiver gets
  the full quantity although the donor gives what it has. A reorder without any lead-time
  data, with lead times scaled to nothing, falls on a step that is already taken, and never
  arrives (`simulation_service.py:283`). An increase of safety stock counts twice in the twin.
- Rebalancing ignores backorders of a donor, which may be donor and receiver at once
  (`optimization_service.py:134`); `generate_options` reserves less at a donor than
  rebalancing does; and both may promise the same spare stock. `lt_overrides`
  (`engine.py:114`, `296`) is read and never set.
- S&OP counts supply "by ETA month" (`sop_service.py:5`), but what is due after the last
  month falls into it.
- "Full genealogy" (`traceability_service.py:33`): one set of visited lots serves both
  directions, so that a finished lot may be found by way of its ingredients first and its
  customers are then missing; movements without a reference are all taken for one order.
  `TraceComplete` asks for completeness where each lot is used in one order.
- The table of forecasts has no unique key: two messages at once may insert one week twice.
- In the risk register (not modelled) an on-time rate of 0 counts as unknown and a
  probability may exceed 1 (`risk_service.py:175`). "User-set
  statuses ... survive rebuilds" (`risk_service.py:113`) of a register in which no route
  sets a status.

## 5 Fairness

`LedgerSessions` states `SF_vars(Step(s))` for each session: a thread that
began a request runs on (gunicorn's threads have no reason to stop between statements),
PostgreSQL queues waiters of a lock and grants it in the order they came, so a session
that is able to go on again and again does, and its deadlock detector aborts one session
of every cycle. New requests (`Post`, `Reverse`) are not fair: nobody has to send them.
`RequestsEnd` depends on the detector; with `NeverDeadlocked` in its place, two transfers
in opposite directions wait for each other for ever.

`Detection` states `WF_run(Progress(s))`: a pool thread that has a job takes it up and goes
on with it (`ThreadPoolExecutor` serves its queue in order, and there are as many threads as
clients in the instance). Nothing is assumed of what it writes, of failures, or of planners.
`JobEnds` then says that a job ends as DONE or FAILED, unless its process did.

The other specifications state no fairness and no liveness: their steps are requests of
users, or one computation.

## 6 Proofs

| theorem | of | statement |
|---|---|---|
| `Invariant` | `LedgerProofs` | the inductive invariant holds in every reachable state |
| `TypeCorrect` | | `TypeOK` |
| `StockNeverNegative` | | `NoNegativeStock` |
| `IdsUnique` | | `UniqueTxnIds` |
| `ReversedAtMostOnce` | | `ReversedOnce` |
| `ChainVerifiable` | | `ChainInPostingOrder` |
| `ReversalIsOpposite` | | `ReverseIsOpposite` |
| `OnlyFlowsCount` | | `OnlyFlowsChangeTotal` |
| `ReportReconciles` | | `ChainHolds`, when no as-of date is pinned |
| `ReportsCompose` | | `WindowsCompose` |
| `Invariant` | `LedgerSessionsProofs` | the inductive invariant holds in every reachable state |
| `TypeCorrect` | | `TypeOK` |
| `RowsNeverNegative` | | `NoNegativeRow` |
| `IdsUnique` | | `UniqueTxnIds` |
| `OneRowEach` | | `OneRowPerBucket`, when lots are named |
| `Invariant` | `ActionProofs` | the inductive invariant holds in every reachable state |
| `TypeCorrect` | | `TypeOK` |
| `ApprovedIsApproved` | | `ApprovedAsIs` |
| `ExecutionApproved` | | `ExecutesWhatWasApproved` |
| `ActionedByExecution` | | `ActionedWasExecuted` |
| `DenyAlwaysWins` | | `DenyWins` |
| `LadderIsMet` | | `ApproverMeetsLadder`, when the ladder ends with executives and is not edited |
| `RepeatsAreEscalated` | | `RepeatNeedsEscalation` |
| `WorkflowImplementsGate` | | `ImplementsGate`: the workflow refines `ApprovalGate` |
| `TypeCorrect` | `VersionCacheProofs` | the types of the caches |
| `Turns` | | writers take turns, and a transaction's number is above the committed one |
| `VersionsNameData` | | `VersionNamesData`, where deployments are `Serial` |
| `UndoneIsNotRead` | | `NothingUndoneIsRead` |
| `InboxAndLedgerAgree` | `IntakeProofs` | `EventLedger`, for `Senders` |
| `EventsAreHandledOnce` | | `EventsOnce`, for `Senders` |
| `FilesAreWhole` | | `NothingOrAll`, for `Senders` |
| `OrdersAreReconciled` | | `OrdersAddUp`, for `Senders` |
| `ReuploadIsHarmless` | | `ReuploadHarmless`, for `Senders` |
| `NothingIsPeggedTwice` | `AllocationProofs` | `PeggedOnce` |
| `NobodyJumpsTheQueue` | | `NoQueueJumping` |
| `RunsRepeatThemselves` | | `RepegStable` |
| `GrantsAreCovered` | | `CommitCovered` |
| `PositionsFollow` | | `PositionFollowsMessages` |

They hold for any constants that satisfy the named assumptions, which TLC evaluates on
every run: `LedgerAssumption`, `SessionsAssumption`, `ActionAssumption`, `SystemAssumption`,
`CacheAssumption`, `DocumentsAssumption`, `SupplyAssumption` and `ScopesAssumption` type the
constants and say which sets are finite; `NoVersionAssumption` and `ReportAssumption` say
that two null values are no versions and no days. There are any number of locations, lots,
quantities, rows, actions, users, rules, ladders, sessions, workers, messages, files, orders
and claims. Hypotheses of a single theorem are these:

- `~AsOfPinned` (`ReportReconciles`): with a pinned clock the property is false (section 4).
- one ladder, whose ranks end with the executive's (`LadderIsMet`): section 4 has the
  counterexample for an Administrator, and `required_role` is not computed again when the
  ladder is edited.
- `Serial` deployments (`VersionsNameData`): writers queue for the database, as SQLite's do, or one
  thread serves everything. Section 4 says what happens otherwise. `UndoneIsNotRead` needs no
  hypothesis, but what it states is about deployments with one thread. No theorem
  speaks of what several threads read: `SettingsFresh` holds in `cache` under restrictions
  (`Sheltered`) which `Procfile`'s deployment does not meet.
- `Senders` (`Intake`): nobody chooses a transaction id the program makes itself, an event
  that moves stock (a receipt may be of anything) names the item whose ledger is kept, and
  files are sequences of rows of entities the program knows. `MCIntake` assumes it, so that
  TLC evaluates it on the run's messages.

**Numbers, sums and loops.** `PartialSums` is a recursive function; its facts, in
`NatLemmas`, are inductions carried out with the least counterexample (`LeastNat`). The
other sums of the models run over finite sets and are reduced to the same function by
an enumeration; a sort is a ranking by a strict total order (`RankExists`).
A loop of the code is a fold. The prover cannot take an invariant as a
parameter of a theorem, so `FoldLemmas` declares the loop's step and its invariant as operator
constants, assumes nothing of them, proves what a loop keeps as a lemma whose hypotheses
are that the invariant starts and that a step keeps it, and is instantiated once for every loop
(`Receipts`, `Loads`, `Loop`, `Taking`, `Serving`, `Holding` and others).

**Ledger.** None of the properties is inductive alone. The invariant relates the two
tables: `Consistent(balance, txns)` says that balances are typed and not negative, rows
are rows, ids and reversals are unique, replaying any prefix of the rows gives the
on-hand-before of the next one, and replaying all gives the balances. The heart is that a
posting keeps `Consistent` (the guard covers the debit; the on-hand change of the stored
columns, with the inferred direction, is that of the movement). Every action is then one
posting or, for the reversal of a state change, two in a row, the second from the
intermediate state; the invariant is stated as a predicate of balances and rows for that
reason. `ReversalIsOpposite` goes through the branches of `Opposite` and uses the
invariant where a direction is inferred: a count that lowered an on-hand state has
`after < before`. `OnlyFlowsCount`: a step books none, one or two rows, and each of them
moves the total by what it credits less what it debits, which is its flow.

**Report.** The loop over the rows of a location keeps what it has replayed so far
(`Reported`). When the clock is free, rows are posted in the order of their stamps
(`InTime`), so the report's order is that of posting and the chain of the ledger is that
of the report. `ReportsCompose` needs no order of posting: the rows before a window are those
of the windows before it (`EarlyCut`, `LateCut`), whatever order they were stamped in.

**Concurrent posting.** Lost updates do not break these properties, and the proofs say
why. `NoNegativeRow`: a session remembers the quantity its guard read until it writes,
nobody else can change what it remembers, and it covers the posting (`Ready`); rows that
were written and are not yet committed must be included (`Fine`), since a commit
publishes them. `UniqueTxnIds`: the query of `post()` covers the log and the session's
own rows, and stays true only of the latter (`Fresh`); the unique column covers the rows of
others when the row is inserted (`ApartTables`). `OneRowPerBucket`: the row a session is about
to write is one it sees (`Holds`), which other sessions cannot take away, so that only
an insert makes a row, and `uq_balance` lets it do so only in a bucket without one. For a
NULL lot the last step fails, as section 4 says. Each argument is an invariant of its own
on top of the first.

**Actions.** The invariant is `TypeOK /\ ApprovedAsIs`. Typing is needed: the level must
be a number so that a blocking check can pull it below 3. Every request "settles" the
action it names: it stores one sound row and its history, and appends an execution only
with the approval just before it (`Settled`); settled steps keep the invariant, and
`ExecutionApproved` is read off them. `ActionedByExecution` needs a second invariant: the
origin of an action never changes once it exists, and executions are only added, so the
execution that marked a recommendation is never lost (`Traced`). TLC checks the property
with one action; the theorem covers any number of actions made from one recommendation.

Three kinds of step are all that happens to a stored action (`Step`): it is parked, with a
row that approves nothing; it is approved, by the system under rules that all allow or by
somebody of sufficient rank; or it is executed on an approval. `DenyAlwaysWins`
is read off that. `LadderIsMet` needs that the required rank is never below that of the
cost's band (`LadderInv`): escalation raises it up to the executive's, and only a new
assessment lowers it. `RepeatsAreEscalated` alone is not inductive; executions outnumber
escalations by one only while the action is VERIFIED, and only an escalation leads on from
there (`RepeatInv`). `WorkflowImplementsGate` maps each step to a grant, a use,
a withdrawal, a grant and use at once, or a stutter; that the quantity approved is still the
one that is executed is the invariant's part.

**Caches.** `WriteInv` says that idle sessions hold nothing (`Quiet`), that the lock is
held by the one who wrote where there is one (`Holder`), that what a session wrote is
announced by the number it wrote, once it did (`Bumped`), and that this number is above the
committed one where writers take turns (`Ahead`). A version covers data when it is the
present version only if nothing was announced since that data was read (`Covers`).
`FreshInv` says that the settings cache, and at each statement what a reader is about to put
into it, is covered by its version (`Fresh`). `AloneInv` is the same for the snapshot and one
thread (`Served`), where the cache has exactly what its version stands for, so that nothing that
was rolled back is in it (`UndoneIsNotRead`). That nobody else writes between two statements of
a lone thread is what the second reading of the version needs, and what several threads lack.

**Intake.** `IntakeInv` types the tables and says that inbox and ledger agree (`Agree`): an
id is in the ledger at most once (`OneRowAnId`), every row with the id of an event stems
from a processed one (`Rooted`), every processed event that moves stock has its row
(`Posted`), and no two processed events share an id (`Apart`). Each handler either leaves
the ledger or adds the row of its event; a file adds rows with ids of its own. An
interchange and a file are loops, whose invariants are the same agreement about the record
of tables (`InAgreement`, `LoadsInAgreement`); a savepoint that is rolled back is the record
of before. `EventsAreHandledOnce` goes through the same loops with what has become of each
event (`Accounted`), and `FilesAreWhole` with what the file's outcome counts (`AllCounted`).

`OrdersAreReconciled` relates each order to the whole inbox (`Reconciled`): every line has
received the sum, over the processed receipts after its creation, of what they brought for
it (`Since`), one more event adds what it brings (`SinceMore`), and an order exists once its
creation was processed, so that a second creation is refused and cannot reset the sums. A
handler's part is `OrdersEffect`: it creates at most the order it names, open and with
nothing received, and moves the lines of the others by what the message brings (`OrderStep`);
the lines of a dispatch are a loop inside the handler (`StillExpected`), in which a quantity
is put in transit only up to what is still expected. Files may create orders, which start
sound, and edit others, which are then no longer compared (`RowOrders`).

`ReuploadIsHarmless` compares a file with itself. While nothing but the latest file came,
the tables are still those it left: `ReuploadInv` says so by naming *some* tables from which
that file gives the present ones (`LeftBy`); it is an existential over all tables, so TLC
checks the property and not this invariant. What is left is a fact about the handlers alone
(`IngestAgain`): a file whose rows all went in, started again on the tables it left, goes
in again and changes nothing. It is an induction over the rows with both runs side by
side: in the first run tables only grow (master data, orders and lines that are there stay,
a column that was given keeps a given value), and the second run is at each row between the
first run's tables at that row and its last ones (`Grows`, `Sim`). Every entity has its own lemma for the
step. A row finds what the first run wrote: demand by its period, a forecast by location,
period and kind, an order line by its item, a transaction by its id; master data keeps a
value that a later row leaves blank. A count of a bucket posts the difference to what is
there, so that the last of several counts of one bucket decides in both runs; the ledger gets
rows of the second counts, which is why balances are compared and not the ledger. The clock
stands still in `Intake`, as everywhere below the ledger's own runs: the property is about what
a file says, and not about dates of creation.

**Allocation.** The properties hold at the level of one pair first. `Taken` is the inner loop of
`peg_pair()`: what is taken from each supply, what is left, and what the demand got always
balance. `Served` is the outer loop over the ranked demands. `Held` is the loop that holds
back what is committed and reserved from the lots before pegging. Together they are `PairPegs`,
of any pair whose numbers are not negative (`PairOk`). `AllocInv` says that the tables are
typed after every message, so that what the snapshot reads is such a pair (`StateOk`), and that
a fresh reading is what would be read now (`UpToDate`). `RunsRepeatThemselves` rests on a fact
about the code that is easy to break: a run replaces its own claims, of type ALLOCATED, and
only COMMITTED and RESERVED ones are held back, so that its claims change nothing the next run
reads (`SamePair`). `GrantsAreCovered` compares the check of `commit_allocation()` with the
claims after the insert. Quantities in transit are any integers, since they may turn
negative (section 4).

`PositionsFollow` first says what a position is without the snapshot's lists: usable stock,
less what open transfers take away, and what open order lines still owe, open transfers bring
and production orders make (`InPlace`, `PositionInPlace`). The snapshot splits an order line into what
is in transit and what is not, which add up to what is owed only where nothing negative is
in transit on an incomplete line, a RECEIVED order has complete lines, and an open transfer has
brought no more than it should (`Balanced`): that is the strengthening the invariant needs, and
each handler keeps it. Each handler then has a lemma that compares its change of
`InPlace` with the message's worth (`ReceivedMoves` and those after it): a receipt trades
what is owed for stock, down to zero and no further; a dispatch and new dates move nothing
(`SameOrderMoves`); a second completion of a transfer moves all of it again. `HandleMoves`
joins them, and `PositionInv` adds up the worth of all messages so far.

**Only model-checked.**

- `SettingsFresh`, for two workers (above).
- The properties of `Detection` and `Planning`: `Rules`, on which both rest, has conditions
  nested in conditions and declares RECURSIVE operators, which take the prover's SMT backend
  away from every module that reaches it.
- `RequestsEnd` and `JobEnds`: liveness under fairness is beyond this prover, as is ENABLED.
- Induction over data is done with `LeastNat` and by instances of `FoldLemmas`; the prover has
  no induction theorem whose property is a parameter. It cannot expand `SelectSeq` and `SortSeq`
  either, so where a property depends on an order, the model ranks the elements of a set
  (`Ranked`, `IdsInOrder`).

## 7 What is not modelled

- Floats: rounding of balances to six digits, the guard's tolerance, and the last digits of
  planning. Planning is integer arithmetic with named units; where the code interpolates
  the normal distribution, tables in tenths stand for it.
- The solvers of scipy: their problems are modelled, and their solutions by what defines them.
  The objective table and the totals over items of `optimization/network.py` are left out.
- Draws of random numbers: any value of the range stands for them, so that the shape of
  distributions, the percentiles of a twin and its service levels are not.
- The scores of confidence and data quality: pages show them, and of what changes state only the
  `min_confidence` condition of an autonomy rule reads one, which an instance fixes with its rules.
- Money: costs appear where they decide (ranking, ladders, limits), not in the reports.
- The risk register, storing and comparing scenario runs and experiments, finance,
  health and industry views, reports and exports: arithmetic and formatting over results that
  nothing reads back.
- What simulation and policy checks of an action give: any outcome the snapshot could.
- `execution.apply_to_local_data`, off by default; a connector other than the mock.
- `cycle_count()` and the on-hand figures under concurrency; more than two sessions; forecast
  messages that overlap.
- Ledgers of several items in one upload: other items are known or unknown, their order
  lines are kept, their stock is not.
- Re-use of primary keys by SQLite after recommendations are deleted.
- Pages, templates, sign-in, file formats, notifications, parsing of EDI text, the audit log
  (one insert in its caller's transaction), seed data, migrations.

## 8 Plan

Done, in this order: ledger and report with proofs, action lifecycle with the gate and
proofs, sessions with proofs, caches, events and uploads, allocation, detection, planning,
then the proofs about the report, the gate, the caches, the intake and the allocation. Left:

1. Proofs about the algorithms that reach no RECURSIVE operator: that a pick of `Picking`
   takes no more than a lot has, that an order of `Replenish` is a multiple between its
   bounds, that a forecast message of `Preparation` leaves other types alone; and, once
   it is apart from `Engine`, that the split of scarce supply gives all there is.
2. Forecast messages that overlap, as a second case of a table without a unique key.
3. The risk register with the statuses its docstring promises, once a route sets them.

## 9 Running

    tlc -workers 2 -config ledger_moves.cfg MCLedger.tla
    tlapm LedgerProofs.tla

`PROJECT.json` names the module and configuration of each run, the lines each definition
models, and the mutant of each property.
