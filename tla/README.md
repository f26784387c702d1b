# Hermes weather bot: verification project

Hermes evaluates weather prediction markets, records its decisions in an
append-only signal log, publishes each decision once to an external service
(PIP), and runs a simulated ("paper") portfolio over an event-sourced ledger
whose positions are settled from the venue's own results. This directory holds
TLA+ models of these parts, the TLC instances that check them and the TLAPS
proofs about them.

## Inventory

Paths are below `src/weatherbot/`.

| Part | State | Operations | Talks to |
|---|---|---|---|
| PIP outbox (`pip/outbox.py`, `runtime.py`) | SQLite table `pip_outbox` (state, lease, token, attempts, next attempt), audit table | enqueue, recover, claim_due, claim_dead_letter_once, operator_dead_letter, acknowledge / retry / dead_letter, deliver_once | PIP over HTTP; any number of worker and operator processes share the database |
| PIP publication (`pip/intents.py`, `pip/reconcile.py`, `producer/store.py`) | SQLite table `pip_publication_intent`, the JSONL signal log | stage, append, reconcile (discard orphans, match, promote) | producer, delivery worker and operator all reconcile, against the same log and database |
| Event encoding (`pip/core.py`) | none | canonical JSON, signature, release manifest | publication |
| Producer (`producer/`, `markets/temperature.py`, `forecasting/runtime.py`) | the scan in progress | scan cities, collect candidates, evaluate, emit, shut down | forecast and market sources; hands occurrences to publication |
| Domain ledger (`domain/`) | cash, reservations, orders, positions, resolutions, observations | apply one event | replayed by the event store |
| Event store (`persistence/store.py`, `recovery.py`) | hash-chained event table, decision claims, adapter metadata, checkpoints | append_many, claims, commit_order_intent, recover, reconcile_startup, checkpoints, backup, restore | paper service, resolution worker, operator |
| Risk-checked commit (`persistence/risk_store.py`, `risk/portfolio.py`) | the same tables | commit_risk_checked_order_intent | paper service |
| Sizing and quoting (`risk/sizing.py`, `quoting/`) | none | stake, order-book walk, executable quote | paper service |
| Paper trading (`paper/service.py`, `execution.py`, `integration.py`) | the durable execution plan of an intent | submit, recover, settle | event store |
| Experiments (`paper/experiment.py`) | a temporary ledger | replay frozen cases | paper service |
| Resolution (`resolution/`) | none of its own | poll, settle, record observations | event store, Gamma, operator |
| Calibration (`forecasting/calibration_*.py`) | an HTTP cache on disk, the dataset and its reports | sweep a range of days with retries | weather sources |
| Runtime control (`runtime_control.py`) | the shutdown flag | signal handler, interruptible wait | producer |
| Legacy bots, scripts | their own files | - | - |

What is hard here: several processes share one SQLite file and one log file
without a lock that spans their steps; each decides from a clock, a log or a row
it read some steps ago; any of them may die between two commits; HTTP answers may
be lost, late, replaced by another, or differ the second time; appends may fail
half-way; amounts are rounded in several places and compared afterwards.
`PROJECT.json` lists these hazards line by line, with the properties that are
about them.

What makes each part correct:

* outbox: leases exclude each other; a terminal state is justified by what PIP
  did, by the horizon or by an operator, and is final; every row is settled;
* publication: exactly the first durable occurrence of a signal is published,
  with the bytes that were staged for it; every logged signal is published;
* ledger: reservations always cover what open orders may still cost, the books
  balance, closed orders and settled positions stay closed;
* event store: what is published verifies, holds one intent for a committed
  decision, and is never taken back;
* risk, sizing and paper trading: the limits hold in the ledger the order is
  committed to; an approved size becomes a plan that the ledger accepts; after a
  crash exactly the missing events of the plan are appended, by whoever recovers;
* resolution: a market is settled by one answer of its source, wholly, and its
  positions are settled in the end; observations are revised as one chain;
* producer and calibration: a signal rests on data that was fresh and in its
  window at the right moments; a sweep accounts for every record and gives the
  same dataset however often it failed before.

## Modules

| Module | Models |
|---|---|
| `Delivery` | what the outbox promises: an abstract specification |
| `AtomicStore` | what the event store promises: an abstract specification |
| `PipOutbox` | `pip/outbox.py` and the delivery attempt in `pip/runtime.py` |
| `PipPublication` | `pip/intents.py`, `pip/reconcile.py`, the end of a scan in `producer/cli.py`, `producer/store.py` |
| `LedgerReducers` | `domain/reducers.py`, `state.py`, `model.py`, `money.py` as operators on a ledger |
| `Ledger` | the ledger as a state machine, one step per event of `domain/events.py` |
| `EventLog` | what the transactions of `persistence/store.py` compute: replay, append, verification; extends `LedgerReducers` |
| `EventStore` | the processes around one store: transactions, loads, recovery, backup, restore, crashes; extends `EventLog` |
| `PortfolioRisk` | `risk/portfolio.py`; extends `EventLog` |
| `PaperTrading` | `paper/service.py`, `integration.py`, the adapter of `execution.py`, `persistence/risk_store.py`; extends `PortfolioRisk` |
| `Observations` | weather observations of the ledger, `resolution/observations.py` |
| `Resolution` | `resolution/worker.py`, `gamma.py`, `context.py`, `monitor.py`, `observation_cli.py`; extends `EventLog` and `Observations` |
| `PaperExecution` | `quoting/`, `risk/sizing.py`, the plan of `paper/execution.py`, in integers |
| `TemperatureMarkets` | `markets/temperature.py` and its use in `producer/market_source.py`, `scanner.py` |
| `Experiment` | `paper/experiment.py` |
| `Producer` | `producer/cli.py`, `scanner.py`, `service.py`, `runtime_control.py`, the gate of `forecasting/runtime.py` |
| `CalibrationSweep` | `forecasting/calibration_sparse_sweep.py`, `calibration_build.py`, `calibration_retry.py` |
| `Optional` | the value `None`, where modules are checked together |
| `PipOutboxProofs`, `PipPublicationProofs`, `LedgerProofs`, `EventStoreProofs`, `PaperTradingProofs`, `ResolutionProofs`, `ForecastingProofs` | theorems about `PipOutbox`, `PipPublication`, `Ledger`, `EventStore`, `PaperTrading` with `PortfolioRisk`, `Resolution` with `Observations`, and `Producer`, `CalibrationSweep`, `Experiment`, `TemperatureMarkets` and `PaperExecution` |
| `DataFacts` | lemmas about naturals, finite sets, sequences, sums and folds that they share |
| `MC...` | TLC instances |

### PipOutbox

One row per event. `claim_token` is a fresh uuid per claim; since every claim
also increments `attempt_count`, the attempt number stands for it. Times are
clock ticks; `now` is the wall clock and every process keeps the time it read
(`cur`, `fin`), because the code passes such times into later transactions.
Each SQLite transaction is one step (`Enqueue`, `PromoteRecover`, `Recover`,
`ClaimDue`, `ClaimDeadLetterOnce`, `OperatorDeadLetter`, `Finish`); the POST,
the answer and its interpretation are steps of their own. `Outcome` is the
decision table of `_deliver_claimed`. PIP and whatever stands between it and
Hermes are external: a request may be handled at any time after it was sent, the
answer may be lost, malformed, of any status class, or belong to another event
(of this outbox or, `ev = None`, of another one), but it reports an acceptance or
a rejection of an event only if there was one. `Crash` loses a process's local
state at any point. The reporting columns (`last_result_class`, `receipt_id`)
are left out; `dead_letter_reason` is kept as a class.

### PipPublication

An occurrence is one scan's decision: the same `signal_id` may occur again with
other processing-time fields. The frozen bytes are a function of the occurrence
and the key. The log is the sequence of complete lines plus a flag for a last
line without newline; a record appended behind such a line becomes part of it.
Each process carries the reads it made. `Owned` and `Retired` are
`has_outbox_signal` and its deletion. A raised exception ends the pass: the
producer still reports its signal, a worker exits and is restarted. With
`TakeTurns` no two processes overlap, which is how the one-shot commands are
used; without it producer and worker run as services.

### LedgerReducers and Ledger

`CanX` is the conjunction of the conditions under which a reducer does not
raise, `X` the ledger it returns; `ApplyEvent` adds `assert_invariants`, which
`apply_event` runs on every result. Amounts are integers counted in quanta
(10^-6 in `money.py`); every product of a price and a quantity is rounded
half-even as in the code, and the quotient in `_apply_sell_fill` is itself
rounded (`Precision`) before it scales the cost. An event that raises or repeats
an `event_id` is no step of `Ledger`. `deposit` is a history variable. Currency,
backend order ids and reasons are left out. Totals over orders and positions are
`SumFunction` of the community modules, about which `DataFacts` has lemmas.

### EventLog and EventStore

A store is a record of its four tables and of the state that replaying the log
gives. `Replay` and `Batch` are recursive functions over the rows: the state after
each row, and the last of them. A chain hash identifies a prefix of the log and a state hash a state, so
they are modelled as that prefix and that state. A transaction works on a copy,
an INSERT at a time (`AppendNext`), while readers see the published content;
`Commit` publishes the copy, `Rollback` and `Crash` drop it. A load is two
steps, because the code selects rows and checkpoints in two statements outside
a transaction; `RaiseCorrupt` is the `CorruptLedgerError` of such a load.
`recover` reads orders and adapter rows at different moments and
`reconcile_startup` appends, order by order, what the backend reports for an
order as it was loaded to the log as it is then. `content` is what SQLite reads: the file and
the pages of its write-ahead log. A write-ahead log that a dead process left behind
(`wal`) matters when `restore_backup` replaces the file under it: the next reader
then gets the pages that changed laid over another file. `Splices` is the set of
what may come of it: damage that the verification finds, the backup itself, the old
content, or each table from either of them or with rows of both. Which of these
verify is for the checks of the code to say, as the store is opened. Of the log of
events a splice has the rows of one of the two, because a row of one history does not
continue the hash chain of the other; all other mixtures of events stand as `Damaged`.
A refused call, and one that repeats what is there, changes nothing and is no
step.

`AtomicStore` is the same store without processes, locks, copies and files: each
call is one step on the content there is. The refinement maps its `store` to `content`.
A call takes effect at its `Commit`; the steps before it, a rollback, a crash and a
load are stutters. A restore is one step, to the backup or, over a leftover
write-ahead log, to one of the splices: the contract does not promise the backup
there. The operators that compute contents are parameters of `AtomicStore`, given by
`EventStore`.

### PortfolioRisk and PaperTrading

`RiskDecision` is `evaluate_portfolio_risk` with its checks in their order.
A process of `PaperTrading` recovers (cancel legacy intents, then reconcile every
open order), checks the decision, values and sizes from the store it has read
(`Size`), commits in a transaction that reads the claims and evaluates the risk
again (`CommitApproved`, `CommitRejected`, `CommitRepeated`), and appends the
plan's events in another one (`Submit`). Each transaction is a single step here, as
`EventStore` shows of the store's calls (`ImplementsAtomicStore`). `ResolveMarket` is
the resolution worker, reduced to its transaction. Which plans a book may give
an intent is the constant `Plans`; that the plans the code builds meet
`PaperAssumption` is the property `PlanAppliable` of `PaperExecution`.

### Observations and Resolution

A worker's cycle takes the positions once, then visits market by market:
reload, request, match against the context the decision was taken in, and one
transaction for evidence, resolution and settlements. The source (Gamma) is
external: a market opens, closes, may be disputed and shows trading prices
before its payout is final, and what it declares as its resolution source may be
edited. `Poll` asks what the code asks: closed, not disputed, and prices that are a
payout (0 and 1, or a half each). It does not see whether a payout is final
(`resolution_premature`). An event's identifier carries what the code hashes into it
(the answer, or the resolution that was found), and every event carries the time its
cycle started, for which the worker stands. So a second worker that applies the same
answer writes the same identifiers with other contents, and one that read another
answer writes other identifiers for evidence that is there: either way the ledger
refuses the event and the store takes back the whole batch (`AppendMany`).
The operator's CLI validates an observation against the date, timezone, unit and
source of the decision and appends it in another step; the station it does not check,
and only revisions compare it. TLC has one station, the proofs any number. `Buy` is the
trader. The history of a market is a sequence of payloads;
`TerminalHistory` is the set of places that hold a final or revised one, and the
last of them is the one that is learned from.

### PaperExecution, TemperatureMarkets, Experiment

These are sequential computations; each is a short state machine whose steps are
the stages of the code and whose invariants compare the result with a reference
definition over all inputs within the bounds. Decimals that the code does not
quantize are counted in 1/`Precision` quanta. The evidence of an experiment is
chosen in `Init`, with the order of its case_ids, which break ties; a case is decided
when the settlements before it are applied.

### Producer and CalibrationSweep

The producer keeps the clock readings that its checks use: the start of the scan
for the window, the retrieval for the forecast, the evaluation for freshness.
Forecast, event and order book are read in requests of their own, between which time
passes and books change. Clocks agree: nothing is read that is from the future, so
that the tolerance for such timestamps rejects nothing.
`KnownRuns` are the model runs a forecast source may report. The shipped source
reports none, so that today every calibrated candidate is rejected; the model
has a source that proves its run, which is what the gate was written for.
The requests a day still needs are a set (`todo`), served in the order of the code
by `NextKey`: the observation first, then the runs. A cache entry is two files, each written to a temporary name first;
request, parse, store and the three outputs are steps of their own, with the
retries of a request inside the retries of the sweep, and `Crash` anywhere.

## Runs

| Run | Instance | Shows |
|---|---|---|
| `outbox` | 1 event, 2 workers, lease 2, horizon 4, clock to 5, 1 operator action | the safety properties of the outbox and the refinement of `Delivery` |
| `outbox_live` | 1 event, 1 worker, lease 1, 1 crash, 1 operator action, a lagging clock read | `EventuallySettled` |
| `publication_turns` | 2 signals, 3 occurrences, 2 keys, 2 faults, 2 crashes, torn writes, processes take turns | `CanonicalRow`, `ExactBytes`, `OrphansAreUncommitted` |
| `publication_live` | 1 signal, 2 occurrences, producer and worker side by side, 1 fault, 1 crash | `EventuallyPublished`, `StagingRetired` |
| `records` | two buys and a sell of one outcome, two fills per id, fees, two payouts, Unit 2; a sweep of 2 days, 2 leads, 2 attempts at each level, 3 runs, 1 crash | `ReducersSuffice`, `BooksBalance`, `PositionIsFills`, `ClosedForGood`; `Accounted`, `Reproducible`, `RunsEnd` |
| `event_store` | 2 processes, 2 intents of one decision, 4 events, 1 checkpoint, 1 backup, crashes anywhere, restores over a leftover write-ahead log | `StoreVerifies`, `OneIntentPerDecision`, `Durable` and the refinement of `AtomicStore` |
| `paper_trading` | 2 processes, 2 decisions of one city and date under one cap, an intent without a plan, 1 crash | `ExposureCapped`, `PlanFollowed`, `OrdersClose` |
| `resolution` | 2 workers, 3 binary markets, a trader, an operator with 3 payloads of 2 sources, 1 fault | `SettledByOneAnswer`, `PositionsSettle`, `RevisionsAreAChain`, `LearnableStays` |
| `decisions` | 1 city, 2 lead days, a clock of 8 ticks, scans of up to 2; books of up to 3 asks; events of up to 3 markets; experiments of 3 cases | `SignalsAreGrounded`, `ShutdownEnds`; the properties of `PaperExecution`, `TemperatureMarkets` and `Experiment` |
| `publication_exact` | violation: producer and worker side by side | `ExactBytes` fails when they overlap |
| `paper_stuck` | violation: two orders of one position | `PlansCanFinish` |
| `resolution_premature` | violation: a market closed and not final | `ResolutionsAreFinal` |

Two instances hold several parts that share no state: in each behaviour of
`records` and `decisions` one part runs, on any of its inputs, and the
others stay in an initial state, which checks each of them as it would be alone.

`paper_trading` and `resolution` start in states (`MCInit`) that the program can
be in after some of its steps: two or three in which the same processes meet different
work, so that the instance stays small while each case happens.

### Bounds

*Outbox.* The clock lets a lease expire, be recovered and be claimed again before
and after the horizon; a second operator action repeats what the first one does.
To its rival a crashed worker is one that takes no further step, which `outbox`
includes; the restart is in `outbox_live`, and the proofs cover any number of
crashes, events and workers.

*Publication.* Two occurrences of one signal are needed for a conflict and a
third for a replacement; a second signal shows that one pass handles several.

*Ledger.* Unit 2 makes half quanta frequent: two fills of 3 at price 1 cost 2 + 2
where 3 was reserved, which is how a fill comes to cost one quantum more than it
frees; the two deposits just cover one order and both orders. A ledger whose
orders are all closed may stop, so deadlock is not an error there. Nor is it in the
runs over the event store: its log may be at its bound, every decision taken and
every position settled.

*Event store.* Two processes and one decision with two intents give every order
of claim, completion, commit, load and crash; four events are the account, an
intent and a report of two events. More processes repeat the roles, since a
transaction excludes all of them. Processes and the two intents, which differ in
nothing but their names, are symmetric.

*Paper trading.* The caps admit one of the two entries. Each position has one
order here: a second order of a position that is settled meanwhile cannot be
finished, which is the subject of `paper_stuck`, and `OrdersClose` does not hold
of it either.

*Resolution.* Both outcomes of one market are traded, so that a position is
bought after its market was visited, and one more market makes a cycle go on after
the ledger has refused a batch; two payouts let two workers read different answers;
three payloads give a final observation, a
revision and a revision of that, in any order. One operator runs the CLI at a
time; two of them add no history that one does not produce, because the append
checks the history again.

*Decisions.* Three asks give a level taken whole, one in part and one not at
all, with sizes that end in a fraction; bounds from -1 to 2 and half degrees give
gaps, overlaps, tails and halves on both sides of zero (three markets are the two
tails and what is between them; the proofs have any number); three cases give a
settlement before, at and after each decision and a position shared by two. A scan
may take longer than a book stays fresh and may end after the window.

*Sweep.* Three runs are a failed one, a repeated one and one of another range,
online or offline.

Every bound is a constant named in its module.

### Fairness

`PipOutbox`: `run_worker` calls `deliver_once` for ever and its supervisor
restarts it, so a process that is idle again and again begins again and again
(strong fairness of `Begin`; the same process may also be used for promotion or
by the operator in between); every HTTP call has a timeout and every other step
is local, so a step that stays possible is taken (weak fairness); time passes.
Nothing is assumed of PIP or of the operator. `PipPublication`: a process whose
step stays possible takes it; no scan has to happen. `PaperTrading`: a call that
was begun goes on until it returns or its process dies, and each process runs
recovery again, as every scanner run does first. `Resolution`: the same, for the
cycles of `run_forever`; nothing is assumed of the source or the operator.
`Producer` and `CalibrationSweep`: one sequential process whose reads time out.
Crashes and faults are finitely many by their bounds.

### Mutants

For each property `PROJECT.json` names a definition and a plausible mistake in it
under which TLC finds the property violated; the mistaken forms stand before the
definition in the module, marked `Mutant:`.

## Where the code and its words disagree

Paths are below `src/weatherbot/`, except `docs/` and `README.md` of the repository.
Three disagreements are runs, and findings in `PROJECT.json`:

* `publication_exact`. The worker reads the log, the producer stages and appends,
  the worker selects orphans against the log it read: the intent of a committed
  signal is discarded and the signal frozen again under the key of that moment.
  `pip/intents.py:30` promises the exact bytes.
* `paper_stuck`. An order is committed on a position that has been settled, or is
  settled before the fill of its durable plan is appended. The fill is then
  refused, at once and by every later `recover`, which "finishes durable paper
  plans" (`paper/service.py:441`).
* `resolution_premature`. A market that is closed and not disputed is settled at its
  outcome prices when they are 0 and 1 or a half each (`resolution/gamma.py:176`):
  whether these are a final payout or the last trades before one is not asked.
  `docs/resolution-worker.md:18` says that only a final payout is accepted and that
  nothing is inferred from a last trade. What does hold is that evidence, resolution
  and settlements agree on one answer (`SettledByOneAnswer`).

Others were met while modelling. The models contain the behaviour; the
properties are stated so that they say what does hold.

* A result may be persisted after its lease has expired, because the completion
  time is read before the UPDATE (`pip/runtime.py:338`; `docs/pip-publication.md:126`
  says it is rejected). It settles only a row that nobody has claimed since.
* The intent is matched on one read and promoted from another
  (`pip/reconcile.py:185`), so with processes side by side the promoted intent may
  be another occurrence's.
* A record that is appended behind a torn line becomes part of it: the scan
  reports its signal as emitted (`producer/cli.py:109`), although no complete line
  of the log holds it.
* A load that meets an append and a checkpoint between its two SELECTs raises
  `CorruptLedgerError` of a sound store (`persistence/store.py:452`): "state
  checkpoints reference missing ledger sequences".
* `restore_backup` replaces the database file and leaves a write-ahead log that a
  dead process left beside it (`persistence/store.py:1190`); the next reader
  applies its pages to the restored file. What comes of it may fail
  `verify_integrity`, and then nobody opens the store, or pass it and be neither the
  backup nor the old content: it may lack the claim of an intent, which
  `verify_integrity` does not ask for. `StoreVerifies` says what does hold,
  `OneIntentPerDecision` is about stores that met no such restore.
* Two workers that poll one market at once: the ledger refuses what the second one
  has prepared, reported as malformed (`resolution/worker.py:232`); the positions it
  meant to settle wait for the next cycle.
* With `execution_safety_margin_rate` 0 a plan's fee may exceed the fee reserve of
  its order (`paper/execution.py:227`), and the ledger refuses its fill; the
  instance has a margin, as the default configuration does.
* A case of an experiment whose own entry bought nothing may report the settlement
  of another case's position (`paper/experiment.py:387`); evidence of both outcomes
  of one market aborts the experiment (`:393`), since each case records a
  resolution that holds its own outcome only.
* Signals may be generated after the decision window, which is compared with the
  start of the scan and the retrieval of the forecast, not with the evaluation
  (`producer/cli.py:59`, `forecasting/contracts.py:39`). With the default interval
  of an hour and a window of ten minutes `run` may also miss a window.
* The weather fingerprint covers retrieval times, so that two scans of the same
  data have different signal ids (`forecasting/runtime.py:254`; `README.md:131`
  excludes processing timestamps).
* A forecast half a degree below zero is rounded away from zero
  (`markets/temperature.py:334`), out of the interval that `:79` describes.
* A cache entry is two files replaced one after the other
  (`forecasting/calibration_build.py:315`; `:238` says they are atomic): a crash
  between them leaves an entry that later runs refuse. A crash after the manifest
  leaves the report of an earlier range
  (`forecasting/calibration_sparse_sweep.py:549`).
* A process that has the paper ledger open during a reset commits events that are
  in no archive (`paper/ledger.py:84`). This file is not modelled.

By design, and therefore no property: a signal that can never be frozen, a corrupt
line, and a malformed payload in the cache keep failing until someone intervenes;
positions whose contexts conflict are left unsettled.

Four hazards in `PROJECT.json` have a note in place of a property. That one signal
which cannot be frozen holds up the others is by design. A scan
during a reconciliation pass is what `TakeTurns` excludes; the run that allows it,
`publication_exact`, is a violation. The spurious `CorruptLedgerError` is a step of the
model. A crash between the two files of a cache entry or between the outputs of a
sweep is in the model, but no property tells its outcomes apart.

## Proofs

`PipOutboxProofs` proves, for every set of events and workers, every lease,
horizon, retry policy and bound: type correctness, `LeaseExclusion`,
`AcknowledgedIsAccepted`, `LeaseWithinHorizon`, `DeadLetterJustified`,
`AcknowledgedIsFinal` and the refinement of `Delivery`. The assumptions are
`NoneAssumption`, `TimingAssumption` and `BoundAssumption` of `PipOutbox`.

The inductive invariant is `IInv`. `LeaseExclusion` is not inductive: a worker
is protected only because, as long as its lease runs, the row is still in_flight
under its token (`HolderInv`), because recovery acts on a time that is not ahead
of the clock (`ClockInv`), and because tokens are distinct (`DistinctTokens`),
which in turn needs the row's token to be its attempt count (`RowInv`).
`AcknowledgedIsAccepted` and `DeadLetterJustified` need the decided outcome of a
worker to be backed by PIP (`OutcomeInv`), and the refinement needs that nothing
was sent of a row that does not exist (`SentInv`). TLC has checked `IInv` on the
instance of `outbox`.

`PipPublicationProofs` proves, for every set of signals and processes and any
number of crashes, failed appends, torn lines and key rotations, `CanonicalRow`,
`ExactBytes` and `OrphansAreUncommitted` under the hypothesis `TakeTurns`, from
`RoleAssumption`, `NoneAssumption` and `BoundAssumption`. The hypothesis is needed:
`publication_exact` is the counterexample without it. With turns at most one process
is not idle, so that what it has read stays true until it acts on it. The
invariant says, step by step, what that is (the lines it has, the intent it
matched, the signals left), and that an intent which was there when the first
occurrence of its signal was appended stays until the outbox owns the signal.

`LedgerProofs` proves `TypeOK`, `ReducersSuffice`, `BooksBalance`,
`PositionIsFills` and `ClosedForGood` for every set of terms, fills, fees, payouts
and deposits, over finitely many intents and positions (`FiniteAssumption`; a sum
over infinitely many would mean nothing), from `UnitAssumption`,
`TermsAssumption`, `SellFeeAssumption`, `PayoutAssumption` and `InputAssumption`.
Each reducer's result is a ledger over the integers (`IntLedger`) that leaves alone
what is not its own (`Frame`); `assert_invariants` makes the amounts non-negative.
From the same descriptions follows by how much each sum changes: of reservations
over orders, of quantities over the orders of a position, of costs and profits over
positions, of fills within an order. `ReducersSuffice` also needs how rounding to the
quantum behaves: the values of two parts of a quantity exceed the value of the
whole by at most one quantum. `ClosedForGood` needs that a settled position has
nothing reserved (`SettledFree`), because a late cancellation of a sell order
subtracts from the reservation of its position whatever the position's status.

`EventStoreProofs` proves `StoreVerifies`, `OneIntentPerDecision`, `Durable` and
`ImplementsAtomicStore` for every set of processes, decisions, intents, backends and reports and any number of
crashes, backups and restores, from `DecisionAssumption`, `NoneIntentAssumption`,
`NoneProcessAssumption` and `StoreInputAssumption`. The published content alone is
not enough: the invariant `IInv` is about every copy there is, the content, the
backup and the work of the open transaction. The first two are
sound (`CopiesInv`); the last may be ahead by one intent whose claim is written and
whose event is still to be inserted, and then that event is all the transaction has
left (`WorkInv`). After a restore over a leftover write-ahead log nothing is known of
the content (`Unverified`); then every process is closed or is opening the store,
nobody writes, and what an opening has verified so far stays true, so that a process
that gets through has verified all of it (`Loose` becomes `Sound`, without the claims
of intents). Only one process is writing (`LockInv`). That a copy still
verifies when a row is appended rests on the equation of the replay, that
replaying a log and one more row is applying the row to the replay of the log,
and on its prefixes being unchanged, which is all that checkpoints refer to. What
the ledger's reducers compute does not matter: an event is appended or refused.

For the refinement, `CallInv` says that an open transaction has done a first part of
one call on the content that is published: the statement of a call of one row, or so
many events of a batch (`Halfway`), with what is left of them still to be inserted.
Nobody else can publish meanwhile. When nothing is left it has done all of the call
(`HalfwayEnds`), which is what `Commit` then publishes. That `reconcile_startup`
appends a batch which the contract knows needs that the orders it was told of by a
load are in states of their life cycle (`ViewInv`). To this end alone the proof looks
into the reducers: whatever they compute, an order keeps such a state (`LedgerShape`).

`PaperTradingProofs` proves `PlanFollowed` and `ExposureCapped` for every set of
processes, intents, scopes, plans and caps and any number of crashes, from the
assumptions of `EventLog` and `PortfolioRisk`, `FiniteAssumption`,
`PaperAssumption` (the deposit, the scopes, and of the plans what `PlanAppliable`
checks of the code's: the fill of a plan costs at most the order's reservation; the
orders buy, because nothing in `paper/` creates a sell order) and
`NoneBackendAssumption` (no backend is not the paper backend). The invariant `IInv`
has two parts. `Good` is about the published store: an order that has no life in the
log is as it was created, one that has is closed and its life is one uninterrupted
piece of the log that its plan gives; an order or a plan exists only for a decision
that was taken; and the caps. `Processing` is about the processes: what one has read
of pending orders stays true until it acts on it, although others recover the same
orders meanwhile, because the adapter row of a decision that was taken never changes
(`Later`). The same life appended twice is skipped event by event (`BatchRepeated`),
and one of which nothing is there is accepted whole or rolled back
(`WholeLife`). The caps do not follow from the check at the entry alone: a fill
replaces a reservation by a cost, which rounds and has a fee, and the sum may
only get smaller (`LivedNoMore`, from `Debit(fill) <= CashReservation`); settlements
take away (`QuietNoMore`); and an entry adds its reservation to one position, which
had none, in every scope that position is in (`ExposedByOne`, `EntryCapped`). The
theorems are about `Spec`, from the store as it is initialised; the run
`paper_trading` starts later, in the two states of `MCInit`.

`ResolutionProofs` proves `RevisionsAreAChain`, `SettledByOneAnswer` and
`LearnableStays` for every set of workers, markets, payloads and intents and any
behaviour of the source, from `NoHashAssumption`, `NonePayoutAssumption`,
`NoneIntentAssumption`, `DecisionAssumption` and `FiniteAssumption`.
The chain is an invariant of the histories alone (`Histories`). `SettledByOneAnswer`
relates events of the log to one another. Its invariant `IInv` says of the store that
every resolution and every settlement in the log is backed by evidence in it, whose
payout is the resolution there is, and that the evidence fits a decision (`Agrees`). It
holds of every state that a batch passes through, by induction over its rows. A worker
acts on a snapshot; what it has read stays true because the store only grows (`Grows`):
a resolution it found stays, the context it loaded is that of a decision on its market,
and the answer it holds was checked against that context (`WorkSound`). What two
workers prepare may contradict each other; the one that comes second meets evidence
that differs from its own and is refused, with its whole batch. The theorems are about
`Spec`, from the empty ledger, where the run `resolution` starts in the states of
`MCInit`.

`ForecastingProofs` proves `SignalsAreGrounded` of the producer, for every set of
cities, window and duration of a scan: the facts a signal needs are checked in one
phase and used in another, so the invariant keeps them of the candidates that wait.
It proves `Reproducible` and `Accounted` of the sweep for every number of days, lead
days, attempts and crashes, from `SweepAssumption` and `NoLeadAssumption` (a lead
day is not the mark of a whole day). The invariant `SweepInv` says what a report is a
function of: for the days that are through, records and gaps are those that the
cache and the evidence of unavailable runs give (`DatasetTo`, `GapsTo`), and what
such a day has read is complete in the cache and never changes. The accounts are
counted day by day: each adds as many records and excluded records as there are
lead days. Of the experiment it proves `DecisionsSeeThePast` and
`SettledInTimeOrder` for every number of cases and all their times, from
`ExperimentAssumption`. Of the markets of an event it proves `AcceptedIffPartition`
and `ForecastChoosesOne` for every number of markets, in any order, with any bounds,
from `TemperatureAssumption`. The stable sort is stated by its result, the bucket at
place n being the one that n - 1 others precede; these ranks are a bijection
(`OrderedArranges`), so that a sorted event is the same event. Buckets that join one
another are a chain whose bounds rise, by induction along it, and a temperature is in
exactly one bucket of a chain (`ChainSettlesOne`). The converse needs no more than
the temperatures at and next to the bounds: if each of those is in exactly one
bucket, the sorted buckets neither overlap nor leave a gap (`DividedIsChain`).

It also proves, of the entry in `PaperExecution`, `SizedSoundly` and `PlanIsLargest`
for every book, cash, probability, cost and sizing policy and every scale of money,
from the assumptions of that module: a book has asks, in ascending order, no two at
one price, as `OrderBookSnapshot` checks; the two slippages, the fee and the margin
are not negative, as `CostPolicy` checks. The invariant `SizingInv` says that the loop
of `size_executable_buy` only lowers its budget and leaves with the quote it was
accepted on; Kelly is taken again at the price of that quote. For `PlanIsLargest`,
`PlanInv` adds that the order is made of integers; the rest is
one lemma about the walk of the book (`PlanTakesMost`). Given a quantity, cover it from
the same asks, level by level, beside what the order takes: either all that was
covered was taken and more is wanted (`Open`), or it is within what was taken
(`Within`), or it already exceeds the cash, the average or the worst price and the
order has stopped (`Beyond`). A level takes exactly as many shares as fit
(`BuyLevelGives`, which turns each floor division into the bound it stands for), and
what exceeds a limit does so at every dearer level (`BeyondStays`).

`PlanAppliable` is not true of every value of the constants: a margin below what
rounding may add to a fee lets a fee exceed its reserve. It is proved under
`MarginSuffices`: an order is of one share at least, and at the lowest price of the
book 6 (unit + fee) <= margin (2 price - 1), all in integers of the scale. The
default configuration satisfies it at every price of its tick
(`ShippedMarginSuffices`, which the run `decisions` evaluates). The instance of
that run does not (ten units to the dollar, so that rounding bites as hard as it
can), and passes nevertheless: the condition suffices, it is not necessary. The
invariant `AppliableInv` says that what an order reserved is its value with fee and
margin at a price no better than the best ask (`SpentAffords`, `QuoteCovers`). An
order fills at its limit or below, half-even rounding moves a product by half a unit at
most and keeps the order of two products (`HalfEvenBounds`, `HalfEvenKeepsOrder`), so
that the margin covers what the roundings of value, fee and reserve may add up to
(`MarginCovers`, `CoveredFill`).

TLC has checked each of the inductive invariants on the instance of its run, except
`AppliableInv`, which needs `MarginSuffices` and was checked on books of a hundred
units to the dollar with a margin that satisfies it.

Induction is over sets. `DataFacts` proves, from the library's facts about
well-founded sets and cardinality, that a set of naturals which has 0 and is closed
under the successor is all of them, and the same for the subsets of a finite set; a
proof by induction defines the set of the numbers that have the property. What
the provers cannot do is take the property as an operator. A fold of the community
modules is a CHOOSE of a recursive function on sets; `FoldExists` shows, for a step
that is a function, that there is one, and from there it is reasoned about as the
values that the prefixes of the sequence give.

Only model-checked: the liveness properties. The prover handles neither fairness nor
ENABLED.

## Not modelled

* The encoding and signature of events, the codec of the event store, HTTP and
  HTML parsing, fee metadata, reports and canonical artifact files: conversions
  without state. Where a verdict of theirs matters (malformed, cannot be frozen,
  too short) it is an input.
* Fitting, scoring and releasing a calibration: floating-point numerics.
* Schema migrations, and archiving and resetting the paper ledger.
* Exit orders of the paper adapter: nothing creates one. The ledger's sells are
  modelled.
* Signal identity: a hash over fields the models abstract.
* The legacy bots, which the package replaces and which keep their own files, and
  the repository's scripts.

SQLite (atomic, serialised transactions; its write-ahead log) and the file system
(an append that returned is durable, a rename is atomic) are trusted. A shutdown
request is elsewhere a process that takes no further step, which every module
allows.

## Plan

Modelled next, if the project is extended: the paper ledger's file (archive,
reset, migration) beside a service that has it open.
